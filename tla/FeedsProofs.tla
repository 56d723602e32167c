------------------------------ MODULE FeedsProofs ------------------------------
(***************************************************************************)
(* Proofs about Feeds.  The local order book of binance, for every number  *)
(* of events, refreshes and failures: a book nobody else has touched is    *)
(* the server's, and once the stream has passed it follows.  A side of the *)
(* books of okx, bybit and bitget, for every set of prices and length of   *)
(* queue: it is the exchange's as far as it goes, and so are the volumes   *)
(* and costs computed from it.  The streams of the four exchanges, for     *)
(* every set of instruments, accounts, limits and callers: no key stays    *)
(* behind that nobody wants, and what is watched reaches its channel.      *)
(***************************************************************************)
EXTENDS Feeds, TLAPS, SequenceTheorems, FiniteSetTheorems, WellFoundedInduction

\* The positions of handleOrderBook and of a refresh goroutine; those in which it
\* holds OdBookLock.
LoopPlaces == {"idle", "read", "append", "store", "asks", "bids", "nonce", "reset"}
LockedPlaces == {"head", "sides", "replay", "asks", "bids", "nonce"}
RefPlaces  == {"free", "fetch", "lock"} \cup LockedPlaces

Known == 1..Len(events)   \* the events there are

\* The types of the variables.
BookTypes ==
  /\ contract \in BOOLEAN /\ sid \in Nat \ {0} /\ events \in Seq(Nat)
  /\ pos \in 0..Len(events) /\ lost \in Nat /\ fails \in Nat
  /\ Nonce \in Nat /\ Cache \in Seq(Known) /\ side \in [Sides -> Nat]
  /\ lock \in Refreshers \cup {None}
  /\ loop \in [pc : LoopPlaces, ev : 0..Len(events), cache : Seq(Known), reset : BOOLEAN]
  /\ loop.pc # "idle" => loop.ev \in Known
  /\ ref \in [Refreshers -> [pc : RefPlaces, snap : Nat, cache : Seq(Known)]]
  /\ failed \in BOOLEAN /\ overlapped \in BOOLEAN

\* Each event goes on where the one before it ended, and the last ends where the
\* exchange's book is.
EventsRise ==
  /\ \A i \in Known : 1 <= pu(i) /\ pu(i) < u(i) /\ u(i) <= sid
  /\ sid = IF events = <<>> THEN 1 ELSE u(Len(events))

\* OdBookLock is held by who replaces the book.
BookLockHeld == \A r \in Refreshers : ref[r].pc \in LockedPlaces <=> lock = r

-------------------------------------------------------------------------------
(* The book is the exchange's.                                             *)

\* Without an overlap nobody handles a message while the book is replaced, and a
\* message is put in the cache only while there is no book.
Alone ==
  ~overlapped => /\ lock # None => loop.pc = "idle"
                 /\ loop.pc \in {"append", "store"} => Nonce = 0

\* The exchange's book at change n, and what event i makes of it may begin.
BookAt(n) == [s \in Sides |-> SideAt(n, s)]
Fits(i, n) == pu(i) <= n /\ n <= u(i)

\* Half of event i is applied to the book of change n.
HalfDone(i, n) == side[0] = SideAt(u(i), 0) /\ side[1] = SideAt(n, 1)

\* The book at each place of handleOrderBook, and of applyOdBookSnapshot.
LoopTrue ==
  ~overlapped =>
    /\ loop.pc \in {"idle", "read"} /\ lock = None /\ Nonce # 0 => side = BookAt(Nonce)
    /\ loop.pc = "asks"  => side = BookAt(Nonce) /\ Fits(loop.ev, Nonce)
    /\ loop.pc = "bids"  => HalfDone(loop.ev, Nonce) /\ Fits(loop.ev, Nonce)
    /\ loop.pc = "nonce" => side = BookAt(u(loop.ev))

SnapTrueOf(r) ==
  LET i == Head(ref[r].cache) IN
  ~overlapped =>
    /\ ref[r].pc = "sides"  => Nonce = ref[r].snap
    /\ ref[r].pc = "replay" => side = BookAt(Nonce)
    /\ ref[r].pc = "asks"   => side = BookAt(Nonce) /\ Fits(i, Nonce)
    /\ ref[r].pc = "bids"   => HalfDone(i, Nonce) /\ Fits(i, Nonce)
    /\ ref[r].pc = "nonce"  => side = BookAt(u(i))

SnapTrue ==
  \A r \in Refreshers :
    /\ ref[r].pc \in {"asks", "bids", "nonce"} => ref[r].cache # <<>>
    /\ SnapTrueOf(r)

TrueBook == BookTypes /\ EventsRise /\ BookLockHeld /\ Alone /\ LoopTrue /\ SnapTrue

-------------------------------------------------------------------------------
(* The book keeps up.                                                      *)

\* The message in hand is the last one, if none was lost; and the last handled.
InHand == lost = 0 /\ loop.pc # "idle" => loop.ev = pos
Handled == IF loop.pc = "idle" THEN pos ELSE pos - 1

\* A cache of the last messages, none left out, up to message h.
Run(c, h) == c # <<>> /\ \A j \in 1..Len(c) : c[j] = h - Len(c) + j

AllFree == \A r \in Refreshers : ref[r].pc = "free"
Only(r) == \A q \in Refreshers \ {r} : ref[q].pc = "free"

\* While a book has no nonce, the loop puts its message in the cache.
Caching == loop.pc \in {"idle", "read", "append", "store"} /\ Nonce = 0

\* No message has come yet, or the book was just reset.
Fresh ==
  /\ AllFree /\ Caching /\ Cache = <<>>
  /\ loop.pc = "idle" => pos = 0
  /\ loop.pc = "store" => loop.cache = <<pos>>

\* Messages wait for the snapshot of r, which is not older than the first of them.
Waiting(r) ==
  /\ ref[r].pc \in {"fetch", "lock"} /\ Only(r) /\ Caching /\ Run(Cache, Handled)
  /\ loop.pc = "store" => loop.cache = Append(Cache, pos)
  /\ ~loop.reset
  /\ ref[r].pc = "lock" => ref[r].snap >= u(Cache[1])

\* The snapshot could not be had: messages are kept for nobody.
GivenUp ==
  /\ AllFree /\ Caching /\ Cache # <<>> /\ failed /\ ~loop.reset
  /\ loop.pc = "store" => Len(loop.cache) > 1

\* r replaces the book and applies what is left of the cache.
Replaying(r) ==
  LET c == ref[r].cache IN
  /\ lock = r /\ Only(r) /\ loop.pc = "idle"
  /\ ref[r].pc \in {"head", "sides"} => Run(c, pos) /\ ref[r].snap >= u(c[1])
  /\ ref[r].pc # "head" => Nonce # 0 /\ Cache = <<>>
  /\ ref[r].pc \in LockedPlaces \ {"head", "sides"} =>
       /\ 0 < pos
       /\ c = <<>> => Nonce >= u(pos)
       /\ c # <<>> => Run(c, pos) /\ Nonce >= pu(c[1])

\* The book is at the last message handled, or later.
Synced ==
  /\ AllFree /\ loop.pc \in {"idle", "read", "asks", "bids", "nonce"}
  /\ Nonce # 0 /\ Cache = <<>> /\ 0 < Handled /\ Nonce >= u(Handled)

Ordered == Fresh \/ GivenUp \/ Synced \/ \E r \in Refreshers : Waiting(r) \/ Replaying(r)

InOrder == lost = 0 /\ ~overlapped => Ordered

KeepsUp == TrueBook /\ InHand /\ InOrder
-------------------------------------------------------------------------------
(* The sides of the exchange's book.                                       *)

\* The greatest element is the one that is not below any other.
LEMMA MaxIs ==
  ASSUME NEW S, S \subseteq Int, NEW m \in S, \A y \in S : m >= y
  PROVE  Max(S) = m
<1>1. \E x \in S : \A y \in S : x >= y
  OBVIOUS
<1>2. PICK c : c = Max(S)
  OBVIOUS
<1>3. c \in S /\ \A y \in S : c >= y
  BY <1>1, <1>2 DEF Max
<1>4. c >= m /\ m >= c /\ c \in Int /\ m \in Int
  BY <1>3
<1>5. c = m
  BY ONLY <1>4
<1> QED BY <1>2, <1>5

\* The changes to a side among lo..hi, and the last of them.
SideOf(lo, hi, s) == {x \in lo..hi : x % 2 = s}

LEMMA LastOf ==
  ASSUME NEW lo \in Nat, NEW hi \in Nat, NEW s \in Sides, SideOf(lo, hi, s) # {}
  PROVE  \E m \in SideOf(lo, hi, s) : \A y \in SideOf(lo, hi, s) : m >= y
<1>1. PICK x \in lo..hi : x % 2 = s
  BY DEF SideOf
<1>2. CASE hi % 2 = s
  BY <1>1, <1>2 DEF SideOf
<1>3. CASE hi % 2 # s
  <2>1. x # hi /\ x \in Nat /\ x <= hi /\ lo <= x
    BY <1>1, <1>3
  <2>2. x <= hi - 1 /\ hi - 1 \in lo..hi
    BY <2>1
  <2>3. (hi - 1) % 2 = s
    BY <1>3, <2>1 DEF Sides
  <2>4. \A y \in SideOf(lo, hi, s) : hi - 1 >= y
    BY <1>3 DEF SideOf
  <2> QED BY <2>2, <2>3, <2>4 DEF SideOf
<1> QED BY <1>2, <1>3

LEMMA LastInIs ==
  ASSUME NEW lo \in Nat, NEW hi \in Nat, NEW s \in Sides, NEW older,
         NEW m \in SideOf(lo, hi, s), \A y \in SideOf(lo, hi, s) : m >= y
  PROVE  LastIn(lo, hi, s, older) = m
<1>0. SideOf(lo, hi, s) # {}
  OBVIOUS
<1>1. SideOf(lo, hi, s) \subseteq Int
  BY DEF SideOf
<1>2. Max(SideOf(lo, hi, s)) = m
  BY <1>1, MaxIs
<1> QED BY <1>0, <1>2 DEF LastIn, SideOf

LEMMA LastInNone ==
  ASSUME NEW lo, NEW hi, NEW s, NEW older, SideOf(lo, hi, s) = {}
  PROVE  LastIn(lo, hi, s, older) = older
BY DEF LastIn, SideOf

LEMMA LastInNat ==
  ASSUME NEW lo \in Nat, NEW hi \in Nat, NEW s \in Sides, NEW older \in Nat
  PROVE  LastIn(lo, hi, s, older) \in Nat
<1>1. CASE SideOf(lo, hi, s) = {}
  BY <1>1, LastInNone
<1>2. CASE SideOf(lo, hi, s) # {}
  <2>1. PICK m \in SideOf(lo, hi, s) : \A y \in SideOf(lo, hi, s) : m >= y
    BY <1>2, LastOf
  <2>2. LastIn(lo, hi, s, older) = m
    BY <2>1, LastInIs
  <2> QED BY <2>2 DEF SideOf
<1> QED BY <1>1, <1>2

LEMMA BookAtType == ASSUME NEW n \in Nat PROVE BookAt(n) \in [Sides -> Nat]
BY LastInNat DEF BookAt, SideAt

\* An event that begins at or before change n of the book and does not end before
\* it brings a side to the event's end.
LEMMA Advance ==
  ASSUME NEW p \in Nat, NEW n \in Nat, NEW q \in Nat, p <= n, n <= q, NEW s \in Sides
  PROVE  LastIn(p + 1, q, s, SideAt(n, s)) = SideAt(q, s)
<1>1. CASE SideOf(p + 1, q, s) = {}
  <2>1. SideOf(1, q, s) = SideOf(1, n, s)
    <3>1. ASSUME NEW x \in SideOf(1, q, s) PROVE x \in SideOf(1, n, s)
      <4>1. x \in 1..q /\ x % 2 = s /\ x \notin p + 1 .. q
        BY <1>1 DEF SideOf
      <4> QED BY <4>1 DEF SideOf
    <3>2. ASSUME NEW x \in SideOf(1, n, s) PROVE x \in SideOf(1, q, s)
      BY DEF SideOf
    <3> QED BY <3>1, <3>2
  <2>2. SideAt(q, s) = SideAt(n, s)
    BY <2>1 DEF SideAt, LastIn, SideOf
  <2> QED BY <1>1, <2>2, LastInNone
<1>2. CASE SideOf(p + 1, q, s) # {}
  <2>1. PICK m \in SideOf(p + 1, q, s) : \A y \in SideOf(p + 1, q, s) : m >= y
    BY <1>2, LastOf
  <2>2. LastIn(p + 1, q, s, SideAt(n, s)) = m
    BY <2>1, LastInIs
  <2>3. m \in SideOf(1, q, s)
    BY DEF SideOf
  <2>4. ASSUME NEW y \in SideOf(1, q, s) PROVE m >= y
    <3>1. m \in p + 1 .. q /\ y \in 1 .. q /\ y % 2 = s
      BY DEF SideOf
    <3>2. CASE y \in p + 1 .. q
      BY <2>1, <3>1, <3>2 DEF SideOf
    <3>3. CASE y \notin p + 1 .. q
      BY <3>1, <3>3
    <3> QED BY <3>2, <3>3
  <2>5. SideAt(q, s) = m
    BY <2>3, <2>4, LastInIs DEF SideAt
  <2> QED BY <2>2, <2>5
<1> QED BY <1>1, <1>2
-------------------------------------------------------------------------------
(* The types.                                                              *)

LoopStates == [pc : LoopPlaces, ev : 0..Len(events), cache : Seq(Known), reset : BOOLEAN]
RefStates  == [pc : RefPlaces, snap : Nat, cache : Seq(Known)]

\* A new event leaves the earlier ones as they are.
LEMMA EventsGrow ==
  ASSUME BookTypes, Emit
  PROVE  /\ Known \subseteq Known' /\ Len(events)' = Len(events) + 1
         /\ \A i \in Known : u(i)' = u(i) /\ pu(i)' = pu(i)
         /\ \A i \in Known' \ Known : u(i)' = sid' /\ pu(i)' = IF events = <<>> THEN 1 ELSE u(Len(events))
         /\ events' \in Seq(Nat) /\ sid' \in Nat \ {0} /\ sid < sid' /\ events' # <<>>
<1>1. PICK n \in 1..MaxEvent : sid' = sid + n /\ events' = Append(events, sid + n)
  BY DEF Emit
<1>2. events \in Seq(Nat) /\ sid \in Nat \ {0} /\ n \in Nat \ {0}
  BY BoundAssumption DEF BookTypes
<1>3. sid + n \in Nat /\ sid' \in Nat \ {0} /\ sid < sid'
  BY <1>1, <1>2
<1>4. events' \in Seq(Nat) /\ Len(events') = Len(events) + 1 /\ Len(events) \in Nat
  BY <1>1, <1>2, <1>3
<1>5. \A i \in 1..Len(events) : events'[i] = events[i]
  BY <1>1, <1>2, <1>3
<1>6. events'[Len(events) + 1] = sid'
  BY <1>1, <1>2, <1>3
<1>7. \A i \in Known : u(i)' = u(i) /\ pu(i)' = pu(i)
  BY <1>4, <1>5 DEF Known, u, pu
<1>8. ASSUME NEW i \in Known' \ Known
      PROVE  u(i)' = sid' /\ pu(i)' = IF events = <<>> THEN 1 ELSE u(Len(events))
  <2>1. i = Len(events) + 1
    BY <1>4 DEF Known
  <2>2. CASE events = <<>>
    BY <1>4, <1>6, <2>1, <2>2 DEF u, pu
  <2>3. CASE events # <<>>
    <3>1. Len(events) >= 1
      BY <1>2, <2>3
    <3> QED BY <1>4, <1>5, <1>6, <2>1, <2>3, <3>1 DEF u, pu
  <2> QED BY <2>2, <2>3
<1>9. Known \subseteq Known' /\ events' # <<>>
  BY <1>4 DEF Known
<1> QED BY <1>3, <1>4, <1>7, <1>8, <1>9

LEMMA EventTypes ==
  ASSUME BookTypes, EventsRise, NEW i \in Known
  PROVE  u(i) \in Nat /\ pu(i) \in Nat \ {0} /\ U(i) = pu(i) + 1
<1>1. events \in Seq(Nat) /\ i \in 1..Len(events) /\ i \in Nat /\ Len(events) \in Nat
  BY DEF BookTypes, Known
<1>2. u(i) \in Nat
  BY <1>1 DEF u
<1>3. pu(i) \in Nat
  <2>1. CASE i = 1
    BY <2>1 DEF pu
  <2>2. CASE i # 1
    <3>1. i - 1 \in 1..Len(events)
      BY <1>1, <2>2
    <3> QED BY <1>1, <2>2, <3>1 DEF pu
  <2> QED BY <2>1, <2>2
<1>4. 1 <= pu(i)
  BY DEF EventsRise
<1> QED BY <1>2, <1>3, <1>4 DEF U

\* What event i makes of one side.
LEMMA SideKept ==
  ASSUME BookTypes, EventsRise, NEW i \in Known, NEW s \in Sides, SetSide(i, s)
  PROVE  side' \in [Sides -> Nat]
<1>1. u(i) \in Nat /\ U(i) \in Nat /\ side[s] \in Nat
  BY EventTypes DEF BookTypes
<1>2. LastIn(U(i), u(i), s, side[s]) \in Nat
  BY <1>1, LastInNat
<1> QED BY <1>2 DEF SetSide, BookTypes

LEMMA CacheHead ==
  ASSUME NEW S, NEW c \in Seq(S), c # <<>>
  PROVE  Head(c) \in S /\ Tail(c) \in Seq(S) /\ Head(c) = c[1] /\ Len(c) > 0
OBVIOUS

LEMMA LoopTyped ==
  ASSUME BookTypes
  PROVE  /\ loop \in LoopStates /\ ref \in [Refreshers -> RefStates]
         /\ \A r \in Refreshers : ref[r] \in RefStates
BY DEF BookTypes, LoopStates, RefStates

\* A step of a refresh goroutine to another place.
LEMMA RefMoves ==
  ASSUME BookTypes, NEW r \in Refreshers, NEW p \in RefPlaces, NEW c \in Seq(Known), NEW n \in Nat
  PROVE  /\ [ref EXCEPT ![r].pc = p] \in [Refreshers -> RefStates]
         /\ [ref EXCEPT ![r].pc = p, ![r].cache = c] \in [Refreshers -> RefStates]
         /\ [ref EXCEPT ![r].pc = p, ![r].snap = n] \in [Refreshers -> RefStates]
         /\ [ref EXCEPT ![r].cache = c] \in [Refreshers -> RefStates]
         /\ [ref EXCEPT ![r] = Free] \in [Refreshers -> RefStates]
         /\ [ref EXCEPT ![r] = [Free EXCEPT !.pc = p]] \in [Refreshers -> RefStates]
<1>1. ref \in [Refreshers -> RefStates] /\ ref[r] \in RefStates
  BY LoopTyped
<1>2. Free \in RefStates /\ [Free EXCEPT !.pc = p] \in RefStates
  <2>1. <<>> \in Seq(Known) /\ "free" \in RefPlaces
    BY DEF RefPlaces
  <2>2. Free \in RefStates
    BY <2>1 DEF Free, RefStates
  <2> QED BY <2>2 DEF RefStates
<1> QED BY <1>1, <1>2 DEF RefStates

LEMMA TypesKept ==
  ASSUME BookTypes, EventsRise, BookLockHeld, SnapTrue, [Next]_vars
  PROVE  BookTypes'
<1> USE DEF BookTypes
<1>l. loop \in LoopStates /\ ref \in [Refreshers -> RefStates]
  BY LoopTyped
<1>i. IdleLoop \in LoopStates /\ IdleLoop.pc = "idle"
  BY DEF IdleLoop, LoopStates, LoopPlaces
<1>0. CASE UNCHANGED vars
  BY <1>0 DEF vars, exchangeVars, bookVars, Known
<1>1. CASE Emit
  <2>1. /\ Known \subseteq Known' /\ Len(events)' = Len(events) + 1
        /\ events' \in Seq(Nat) /\ sid' \in Nat \ {0}
    BY <1>1, EventsGrow
  <2>2. Seq(Known) \subseteq Seq(Known')
    BY <2>1
  <2>3. 0..Len(events) \subseteq 0..Len(events')
    BY <2>1
  <2>4. loop \in LoopStates' /\ ref \in [Refreshers -> RefStates']
    BY <1>l, <2>2, <2>3 DEF LoopStates, RefStates
  <2> QED BY <1>1, <2>1, <2>2, <2>3, <2>4 DEF Emit, bookVars, LoopStates, RefStates
<1>2. CASE Lose
  BY <1>2 DEF Lose, bookVars, Known
<1>3. CASE Take
  <2>1. pos + 1 \in 1..Len(events)
    BY <1>3 DEF Take
  <2>2. loop' \in LoopStates
    <3>1. loop' = [IdleLoop EXCEPT !.pc = "read", !.ev = pos + 1]
      BY <1>3 DEF Take
    <3>2. "read" \in LoopPlaces /\ pos + 1 \in 0..Len(events)
      BY <2>1 DEF LoopPlaces
    <3> QED BY ONLY <1>i, <3>1, <3>2 DEF LoopStates
  <2>3. loop'.ev = pos + 1
    BY <1>3 DEF Take, IdleLoop
  <2> QED BY <1>3, <2>1, <2>2, <2>3 DEF Take, bookVars, Known, LoopStates
<1>4. CASE ReadNonce
  <2>1. loop' \in LoopStates /\ (loop'.pc # "idle" => loop'.ev = loop.ev)
    BY <1>4, <1>l, <1>i DEF ReadNonce, LoopStates, LoopPlaces
  <2> QED BY <1>4, <2>1 DEF ReadNonce, exchangeVars, bookVars, Known, LoopStates
<1>5. CASE AppendCache
  <2>1. loop.ev \in Known
    BY <1>5 DEF AppendCache
  <2>2. Append(Cache, loop.ev) \in Seq(Known)
    BY <2>1
  <2>3. loop' \in LoopStates /\ loop'.ev = loop.ev
    BY <1>5, <1>l, <2>2 DEF AppendCache, LoopStates, LoopPlaces
  <2> QED BY <1>5, <2>1, <2>3 DEF AppendCache, exchangeVars, bookVars, Known, LoopStates
<1>6. CASE StoreCache
  <2>1. ref' \in [Refreshers -> RefStates]
    <3>1. CASE UNCHANGED ref
      BY <1>l, <3>1
    <3>2. CASE \E r \in Refreshers : ref' = [ref EXCEPT ![r] = [Free EXCEPT !.pc = "fetch"]]
      <4>1. PICK r \in Refreshers : ref' = [ref EXCEPT ![r] = [Free EXCEPT !.pc = "fetch"]]
        BY <3>2
      <4>2. "fetch" \in RefPlaces /\ <<>> \in Seq(Known) /\ 0 \in Nat
        BY DEF RefPlaces
      <4>3. [ref EXCEPT ![r] = [Free EXCEPT !.pc = "fetch"]] \in [Refreshers -> RefStates]
        BY <4>2, RefMoves
      <4> QED BY <4>1, <4>3
    <3> QED BY <1>6, <3>1, <3>2 DEF StoreCache
  <2>2. loop' = IdleLoop /\ Cache' = loop.cache /\ loop.cache \in Seq(Known)
    BY <1>6, <1>l DEF StoreCache, LoopStates
  <2> QED BY <1>6, <1>i, <2>1, <2>2 DEF StoreCache, exchangeVars, Known, LoopStates, RefStates
<1>7. CASE ApplyAsks
  <2>1. side' \in [Sides -> Nat]
    BY <1>7, SideKept DEF ApplyAsks, Sides
  <2>2. loop' \in LoopStates /\ loop'.ev = loop.ev
    BY <1>7, <1>l DEF ApplyAsks, LoopStates, LoopPlaces
  <2> QED BY <1>7, <2>1, <2>2 DEF ApplyAsks, exchangeVars, Known, LoopStates
<1>8. CASE ApplyBids
  <2>1. side' \in [Sides -> Nat]
    BY <1>8, SideKept DEF ApplyBids, Sides
  <2>2. loop' \in LoopStates /\ loop'.ev = loop.ev
    BY <1>8, <1>l DEF ApplyBids, LoopStates, LoopPlaces
  <2> QED BY <1>8, <2>1, <2>2 DEF ApplyBids, exchangeVars, Known, LoopStates
<1>9. CASE ApplyNonce
  <2>1. Nonce' \in Nat
    BY <1>9, EventTypes DEF ApplyNonce
  <2> QED BY <1>9, <1>i, <2>1 DEF ApplyNonce, exchangeVars, Known, LoopStates
<1>10. CASE Reset
  <2>1. loop' \in LoopStates /\ loop'.ev = loop.ev
    BY <1>10, <1>l DEF Reset, LoopStates, LoopPlaces
  <2>2. Nonce' \in Nat /\ Cache' \in Seq(Known) /\ side' \in [Sides -> Nat]
    BY <1>10 DEF Reset
  <2>3. failed' \in BOOLEAN /\ overlapped' \in BOOLEAN
    BY <1>10 DEF Reset
  <2> QED BY <1>10, <2>1, <2>2, <2>3 DEF Reset, exchangeVars, Known, LoopStates
<1>11. ASSUME NEW r \in Refreshers, RefStep(r) \/ FetchFail(r) PROVE BookTypes'
  <2> DEFINE c == ref[r].cache
  <2>t. c \in Seq(Known) /\ ref[r].snap \in Nat /\ ref[r].pc \in RefPlaces
    BY <1>l DEF RefStates
  <2>1. CASE FetchOk(r)
    <3>1. ref' \in [Refreshers -> RefStates]
      <4>1. ref' = [ref EXCEPT ![r].pc = "lock", ![r].snap = sid]
        BY <2>1 DEF FetchOk
      <4>2. "lock" \in RefPlaces /\ sid \in Nat /\ <<>> \in Seq(Known)
        BY DEF RefPlaces, BookTypes
      <4> QED BY <4>1, <4>2, RefMoves
    <3> QED BY <2>1, <3>1 DEF FetchOk, exchangeVars, bookVars, Known, RefStates
  <2>2. CASE FetchFail(r)
    <3>1. ref' \in [Refreshers -> RefStates]
      BY <2>2, <2>t, RefMoves DEF FetchFail
    <3> QED BY <2>2, <3>1 DEF FetchFail, exchangeVars, bookVars, Known, RefStates
  <2>3. CASE LockBook(r)
    <3>1. ref' \in [Refreshers -> RefStates]
      BY ZenonT(30), <2>3, <1>l DEF LockBook, RefStates, RefPlaces, LockedPlaces
    <3>2. overlapped' \in BOOLEAN
      BY <2>3 DEF LockBook
    <3> QED BY <2>3, <3>1, <3>2 DEF LockBook, exchangeVars, bookVars, Known, RefStates
  <2>4. CASE UpdateHead(r)
    <3>1. ref' \in [Refreshers -> RefStates]
      BY <2>4, <1>l DEF UpdateHead, RefGo, RefStates, RefPlaces, LockedPlaces
    <3>2. Nonce' \in Nat /\ Cache' \in Seq(Known)
      BY <2>4, <2>t DEF UpdateHead
    <3> QED BY <2>4, <3>1, <3>2 DEF UpdateHead, exchangeVars, Known, RefStates
  <2>5. CASE UpdateSides(r)
    <3>1. ref' \in [Refreshers -> RefStates]
      BY <2>5, <1>l DEF UpdateSides, RefGo, RefStates, RefPlaces, LockedPlaces
    <3>2. side' \in [Sides -> Nat]
      BY <2>5, <2>t, BookAtType DEF UpdateSides, BookAt
    <3> QED BY <2>5, <3>1, <3>2 DEF UpdateSides, exchangeVars, Known, RefStates
  <2>6. CASE Replay(r)
    <3>1. c # <<>> /\ (ref' = [ref EXCEPT ![r].pc = "asks"]
                       \/ ref' = [ref EXCEPT ![r].cache = Tail(c)])
      BY <2>6, <1>l DEF Replay, RefStates
    <3>2. Tail(c) \in Seq(Known)
      BY <2>t, <3>1
    <3>3. ref' \in [Refreshers -> RefStates]
      <4>1. "asks" \in RefPlaces /\ 0 \in Nat
        BY DEF RefPlaces, LockedPlaces
      <4>2. /\ [ref EXCEPT ![r].pc = "asks"] \in [Refreshers -> RefStates]
            /\ [ref EXCEPT ![r].cache = Tail(c)] \in [Refreshers -> RefStates]
        BY <3>2, <4>1, RefMoves
      <4> QED BY <3>1, <4>2
    <3> QED BY <2>6, <3>3 DEF Replay, exchangeVars, bookVars, Known, RefStates
  <2>7. CASE ReplayAsks(r)
    <3>1. ref' \in [Refreshers -> RefStates]
      BY <2>7, <1>l DEF ReplayAsks, RefGo, RefStates, RefPlaces, LockedPlaces
    <3>2. Head(c) \in Known
      BY <2>7, <2>t, CacheHead DEF ReplayAsks, SnapTrue
    <3>3. side' \in [Sides -> Nat]
      BY <2>7, <3>2, SideKept DEF ReplayAsks, Sides
    <3> QED BY <2>7, <3>1, <3>3 DEF ReplayAsks, exchangeVars, Known, RefStates
  <2>8. CASE ReplayBids(r)
    <3>1. ref' \in [Refreshers -> RefStates]
      BY <2>8, <1>l DEF ReplayBids, RefGo, RefStates, RefPlaces, LockedPlaces
    <3>2. Head(c) \in Known
      BY <2>8, <2>t, CacheHead DEF ReplayBids, SnapTrue
    <3>3. side' \in [Sides -> Nat]
      BY <2>8, <3>2, SideKept DEF ReplayBids, Sides
    <3> QED BY <2>8, <3>1, <3>3 DEF ReplayBids, exchangeVars, Known, RefStates
  <2>9. CASE ReplayNonce(r)
    <3>1. Head(c) \in Known /\ Tail(c) \in Seq(Known)
      BY <2>9, <2>t, CacheHead DEF ReplayNonce, SnapTrue
    <3>2. Nonce' \in Nat
      BY <2>9, <3>1, EventTypes DEF ReplayNonce
    <3>3. ref' = [ref EXCEPT ![r].pc = "replay", ![r].cache = Tail(c)]
      BY <2>9, <1>l DEF ReplayNonce, RefStates
    <3>4. ref' \in [Refreshers -> RefStates]
      BY <3>1, <3>3, RefMoves DEF RefPlaces, LockedPlaces
    <3> QED BY <2>9, <3>2, <3>4 DEF ReplayNonce, exchangeVars, Known, RefStates
  <2>10. CASE UnlockBook(r)
    <3>1. ref' \in [Refreshers -> RefStates]
      BY <2>10, <2>t, RefMoves DEF UnlockBook
    <3> QED BY <2>10, <3>1 DEF UnlockBook, exchangeVars, bookVars, Known, RefStates
  <2> QED BY <1>11, <2>1, <2>2, <2>3, <2>4, <2>5, <2>6, <2>7, <2>8, <2>9, <2>10 DEF RefStep
<1> QED
  BY <1>0, <1>1, <1>2, <1>3, <1>4, <1>5, <1>6, <1>7, <1>8, <1>9, <1>10, <1>11 DEF Next, LoopStep

LEMMA StreamSteps == ASSUME [Next]_vars PROVE Emit \/ UNCHANGED <<sid, events>>
BY DEF Next, vars, exchangeVars, Lose, Take, LoopStep, RefStep, ReadNonce, AppendCache, StoreCache,
   ApplyAsks, ApplyBids, ApplyNonce, Reset, FetchOk, FetchFail, LockBook, UpdateHead, UpdateSides,
   Replay, ReplayAsks, ReplayBids, ReplayNonce, UnlockBook

LEMMA EventsKept ==
  ASSUME BookTypes, EventsRise, [Next]_vars
  PROVE  EventsRise'
<1>1. CASE Emit
  <2>1. /\ Known \subseteq Known' /\ Len(events)' = Len(events) + 1
        /\ \A i \in Known : u(i)' = u(i) /\ pu(i)' = pu(i)
        /\ \A i \in Known' \ Known :
             u(i)' = sid' /\ pu(i)' = IF events = <<>> THEN 1 ELSE u(Len(events))
        /\ events' \in Seq(Nat) /\ sid' \in Nat \ {0} /\ sid < sid' /\ events' # <<>>
    BY <1>1, EventsGrow
  <2>2. sid \in Nat \ {0} /\ sid = IF events = <<>> THEN 1 ELSE u(Len(events))
    BY DEF BookTypes, EventsRise
  <2>3. ASSUME NEW i \in Known PROVE 1 <= pu(i)' /\ pu(i)' < u(i)' /\ u(i)' <= sid'
    <3>1. u(i) \in Nat /\ 1 <= pu(i) /\ pu(i) < u(i) /\ u(i) <= sid
      BY EventTypes DEF EventsRise
    <3> QED BY <2>1, <2>2, <3>1
  <2>4. ASSUME NEW i \in Known' \ Known PROVE 1 <= pu(i)' /\ pu(i)' < u(i)' /\ u(i)' <= sid'
    BY <2>1, <2>2
  <2>5. sid' = u(Len(events))'
    <3>1. Len(events)' \in Known' \ Known
      BY <2>1 DEF BookTypes, Known
    <3> QED BY <2>1, <3>1
  <2> QED BY <2>1, <2>3, <2>4, <2>5 DEF EventsRise
<1>2. CASE UNCHANGED <<sid, events>>
  BY <1>2 DEF EventsRise, Known, u, pu
<1>3. Emit \/ UNCHANGED <<sid, events>>
  BY StreamSteps
<1> QED BY <1>1, <1>2, <1>3

LEMMA EventSame ==
  ASSUME BookTypes, [Next]_vars, NEW i \in Known
  PROVE  u(i)' = u(i) /\ pu(i)' = pu(i) /\ i \in Known'
<1>1. CASE Emit
  BY <1>1, EventsGrow
<1>2. CASE UNCHANGED <<sid, events>>
  BY <1>2 DEF Known, u, pu
<1> QED BY <1>1, <1>2, StreamSteps

-------------------------------------------------------------------------------
(* The lock, and who is alone.                                             *)

LEMMA LockKept ==
  ASSUME BookTypes, BookLockHeld, [Next]_vars
  PROVE  BookLockHeld'
<1>t. ref \in [Refreshers -> RefStates] /\ None \notin Refreshers
  BY LoopTyped, BoundAssumption
<1>1. CASE UNCHANGED <<ref, lock>>
  BY <1>1 DEF BookLockHeld
<1>2. CASE StoreCache /\ ~UNCHANGED ref
  <2>1. PICK r \in Refreshers : ref[r].pc = "free" /\ ref' = [ref EXCEPT ![r] = [Free EXCEPT !.pc = "fetch"]]
    BY <1>2 DEF StoreCache
  <2>2. ref'[r].pc = "fetch" /\ \A q \in Refreshers \ {r} : ref'[q] = ref[q]
    BY <1>t, <2>1 DEF Free
  <2> QED BY <1>2, <2>1, <2>2 DEF StoreCache, BookLockHeld, LockedPlaces
<1>3. ASSUME NEW r \in Refreshers, RefStep(r) \/ FetchFail(r) PROVE BookLockHeld'
  <2>1. \A q \in Refreshers \ {r} : ref'[q] = ref[q]
    BY <1>3, <1>t DEF RefStep, RefGo, FetchOk, FetchFail, LockBook, UpdateHead, UpdateSides,
       Replay, ReplayAsks, ReplayBids, ReplayNonce, UnlockBook
  <2>2. CASE FetchOk(r) \/ FetchFail(r)
    <3>1. ref'[r].pc \notin LockedPlaces /\ ref[r].pc \notin LockedPlaces /\ lock' = lock
      BY <2>2, <1>t DEF FetchOk, FetchFail, Free, LockedPlaces, RefStates
    <3> QED BY <2>1, <3>1 DEF BookLockHeld
  <2>3. CASE LockBook(r)
    <3>1. ref'[r].pc \in LockedPlaces /\ lock' = r /\ lock = None
      BY <2>3, <1>t DEF LockBook, LockedPlaces, RefStates
    <3> QED BY <1>t, <2>1, <3>1 DEF BookLockHeld
  <2>4. CASE UnlockBook(r)
    <3>1. ref'[r].pc \notin LockedPlaces /\ lock' = None /\ lock = r
      BY <2>4, <1>t DEF UnlockBook, LockedPlaces, RefStates, Free, BookLockHeld
    <3> QED BY <1>t, <2>1, <3>1 DEF BookLockHeld
  <2>5. CASE UpdateHead(r) \/ UpdateSides(r) \/ Replay(r) \/ ReplayAsks(r) \/ ReplayBids(r) \/ ReplayNonce(r)
    <3>1. ref'[r].pc \in LockedPlaces /\ ref[r].pc \in LockedPlaces /\ lock' = lock
      BY <2>5, <1>t DEF UpdateHead, UpdateSides, Replay, ReplayAsks, ReplayBids, ReplayNonce,
         RefGo, LockedPlaces, RefStates
    <3> QED BY <2>1, <3>1 DEF BookLockHeld
  <2> QED BY <1>3, <2>2, <2>3, <2>4, <2>5 DEF RefStep
<1>4. CASE LoopStep /\ ~StoreCache
  <2>1. UNCHANGED <<ref, lock>>
    BY <1>4 DEF LoopStep, ReadNonce, AppendCache, ApplyAsks, ApplyBids, ApplyNonce, Reset
  <2> QED BY <1>1, <2>1
<1>5. CASE StoreCache /\ UNCHANGED ref
  BY <1>5, <1>1 DEF StoreCache
<1>6. CASE Emit \/ Lose \/ Take \/ UNCHANGED vars
  BY <1>6, <1>1 DEF Emit, Lose, Take, vars
<1> QED BY <1>2, <1>3, <1>4, <1>5, <1>6 DEF Next

LEMMA AloneKept ==
  ASSUME BookTypes, BookLockHeld, Alone, [Next]_vars
  PROVE  Alone'
<1>t. loop \in LoopStates /\ ref \in [Refreshers -> RefStates]
  BY LoopTyped
<1>0. CASE Emit \/ Lose \/ UNCHANGED vars
  BY <1>0 DEF Emit, Lose, vars, bookVars, Alone
<1>1. CASE Take
  BY <1>1 DEF Take, bookVars, Alone, IdleLoop
<1>2. CASE ReadNonce
  <2>1. loop'.pc \in {"append", "store"} => Nonce = 0
    BY <1>2, <1>t DEF ReadNonce, IdleLoop, LoopStates
  <2>2. overlapped' = overlapped /\ lock' = lock /\ Nonce' = Nonce /\ loop.pc = "read"
    BY <1>2 DEF ReadNonce, bookVars
  <2> QED BY <2>1, <2>2 DEF Alone
<1>3. CASE AppendCache
  <2>1. loop'.pc = "store" /\ loop.pc = "append" /\ UNCHANGED <<overlapped, lock, Nonce>>
    BY <1>3, <1>t DEF AppendCache, bookVars, LoopStates
  <2> QED BY <2>1 DEF Alone
<1>4. CASE StoreCache \/ ApplyNonce
  <2>1. loop'.pc = "idle" /\ UNCHANGED overlapped
    BY <1>4 DEF StoreCache, ApplyNonce, IdleLoop
  <2> QED BY <2>1 DEF Alone
<1>5. CASE ApplyAsks \/ ApplyBids
  <2>1. loop'.pc \in {"bids", "nonce"} /\ loop.pc # "idle" /\ UNCHANGED <<overlapped, lock>>
    BY <1>5, <1>t DEF ApplyAsks, ApplyBids, LoopStates
  <2> QED BY <2>1 DEF Alone
<1>6. CASE Reset
  <2>1. Nonce' = 0 /\ lock' = lock /\ loop.pc = "reset"
    BY <1>6 DEF Reset
  <2>2. overlapped' = (overlapped /\ \E r \in Refreshers : ref[r].pc # "free")
    BY <1>6 DEF Reset
  <2>3. ASSUME ~overlapped' PROVE lock = None
    <3>1. CASE ~overlapped
      BY <2>1, <3>1 DEF Alone
    <3>2. CASE \A r \in Refreshers : ref[r].pc = "free"
      BY <3>2 DEF BookLockHeld, LockedPlaces, BookTypes
    <3> QED BY <2>2, <2>3, <3>1, <3>2
  <2> QED BY <2>1, <2>3 DEF Alone
<1>7. ASSUME NEW r \in Refreshers, RefStep(r) \/ FetchFail(r) PROVE Alone'
  <2>1. loop' = loop
    BY <1>7 DEF RefStep, FetchOk, FetchFail, LockBook, UpdateHead, UpdateSides,
       Replay, ReplayAsks, ReplayBids, ReplayNonce, UnlockBook
  <2>2. CASE LockBook(r)
    BY <2>1, <2>2 DEF LockBook, Alone, bookVars
  <2>3. CASE ~LockBook(r)
    <3>1. overlapped' = overlapped /\ (lock' = lock \/ lock' = None)
      BY <1>7, <2>3 DEF RefStep, FetchOk, FetchFail, UpdateHead, UpdateSides,
         Replay, ReplayAsks, ReplayBids, ReplayNonce, UnlockBook
    <3>2. Nonce' = Nonce \/ ref[r].pc \in LockedPlaces
      BY <1>7, <2>3 DEF RefStep, FetchOk, FetchFail, UpdateHead, UpdateSides,
         Replay, ReplayAsks, ReplayBids, ReplayNonce, UnlockBook, bookVars, LockedPlaces
    <3>3. CASE Nonce' = Nonce
      BY <2>1, <3>1, <3>3 DEF Alone
    <3>4. CASE lock = r
      <4>1. r # None
        BY BoundAssumption
      <4> QED BY <2>1, <3>1, <3>4, <4>1 DEF Alone
    <3> QED BY <3>2, <3>3, <3>4 DEF BookLockHeld
  <2> QED BY <2>2, <2>3
<1> QED BY <1>0, <1>1, <1>2, <1>3, <1>4, <1>5, <1>6, <1>7 DEF Next, LoopStep

-------------------------------------------------------------------------------
(* What an event makes of the book.                                        *)

LEMMA JoinsFit ==
  ASSUME BookTypes, EventsRise, NEW i \in Known, ~Stale(i, Nonce),
         Joins(i, Nonce) \/ CachedJoins(i, Nonce)
  PROVE  Fits(i, Nonce)
<1>1. u(i) \in Nat /\ pu(i) \in Nat /\ U(i) = pu(i) + 1 /\ Nonce \in Nat /\ contract \in BOOLEAN
  BY EventTypes DEF BookTypes
<1>2. CASE contract
  BY <1>1, <1>2 DEF Stale, Joins, CachedJoins, Fits
<1>3. CASE ~contract
  BY <1>1, <1>3 DEF Stale, Joins, CachedJoins, Fits
<1> QED BY <1>2, <1>3

LEMMA Applied ==
  ASSUME BookTypes, EventsRise, NEW i \in Known, NEW n \in Nat, Fits(i, n), NEW s \in Sides
  PROVE  LastIn(U(i), u(i), s, SideAt(n, s)) = SideAt(u(i), s)
<1>1. u(i) \in Nat /\ pu(i) \in Nat /\ U(i) = pu(i) + 1
  BY EventTypes
<1>2. pu(i) <= n /\ n <= u(i)
  BY DEF Fits
<1> QED BY <1>1, <1>2, Advance

LEMMA FirstHalf ==
  ASSUME BookTypes, EventsRise, NEW i \in Known, Fits(i, Nonce), side = BookAt(Nonce), SetSide(i, 0)
  PROVE  side'[0] = SideAt(u(i), 0) /\ side'[1] = SideAt(Nonce, 1)
<1>1. Nonce \in Nat /\ side \in [Sides -> Nat] /\ 0 \in Sides /\ 1 \in Sides
  BY DEF BookTypes, Sides
<1>2. side[0] = SideAt(Nonce, 0) /\ side[1] = SideAt(Nonce, 1)
  BY <1>1 DEF BookAt
<1>3. side'[0] = LastIn(U(i), u(i), 0, side[0]) /\ side'[1] = side[1]
  BY <1>1 DEF SetSide
<1>4. LastIn(U(i), u(i), 0, SideAt(Nonce, 0)) = SideAt(u(i), 0)
  BY <1>1, Applied
<1> QED BY <1>2, <1>3, <1>4

LEMMA SecondHalf ==
  ASSUME BookTypes, EventsRise, NEW i \in Known, Fits(i, Nonce), HalfDone(i, Nonce), SetSide(i, 1)
  PROVE  side' = BookAt(u(i))
<1>1. Nonce \in Nat /\ side \in [Sides -> Nat] /\ 0 \in Sides /\ 1 \in Sides
  BY DEF BookTypes, Sides
<1>2. side[0] = SideAt(u(i), 0) /\ side[1] = SideAt(Nonce, 1)
  BY DEF HalfDone
<1>3. /\ side' = [side EXCEPT ![1] = LastIn(U(i), u(i), 1, side[1])]
      /\ LastIn(U(i), u(i), 1, side[1]) = SideAt(u(i), 1)
  BY <1>1, <1>2, Applied DEF SetSide
<1>4. side'[0] = SideAt(u(i), 0) /\ side'[1] = SideAt(u(i), 1) /\ side' = [s \in Sides |-> side'[s]]
  BY <1>1, <1>2, <1>3
<1>5. \A s \in Sides : side'[s] = SideAt(u(i), s)
  BY <1>4 DEF Sides
<1> QED BY <1>4, <1>5 DEF BookAt

LEMMA LoopKept ==
  ASSUME BookTypes, EventsRise, BookLockHeld, Alone, LoopTrue, SnapTrue, [Next]_vars
  PROVE  LoopTrue'
<1>t. loop \in LoopStates /\ ref \in [Refreshers -> RefStates]
  BY LoopTyped
<1>0. CASE UNCHANGED <<Nonce, side, lock, loop, overlapped>>
  <2>1. ASSUME loop.pc # "idle" PROVE loop.ev \in Known /\ u(loop.ev)' = u(loop.ev) /\ pu(loop.ev)' = pu(loop.ev)
    <3>1. PICK i \in Known : i = loop.ev
      BY <2>1 DEF BookTypes
    <3>2. u(i)' = u(i) /\ pu(i)' = pu(i)
      BY EventSame
    <3> QED BY <1>0, <3>1, <3>2 DEF u, pu
  <2> QED BY <1>0, <2>1 DEF LoopTrue, HalfDone, Fits
<1>1. CASE Take
  BY <1>1, <1>t DEF Take, LoopTrue, bookVars, IdleLoop
<1>2. CASE ReadNonce
  <2>1. ~overlapped => lock = None /\ (Nonce # 0 => side = BookAt(Nonce))
    BY <1>2 DEF ReadNonce, Alone, LoopTrue
  <2>2. UNCHANGED <<Nonce, side, lock, overlapped, events>>
    BY <1>2 DEF ReadNonce, bookVars, exchangeVars
  <2>3. CASE loop'.pc = "asks"
    <3>1. loop'.ev = loop.ev /\ loop.ev \in Known /\ Nonce # 0
      BY <1>2, <1>t, <2>3 DEF ReadNonce, IdleLoop, LoopStates, BookTypes
    <3>2. ~Stale(loop.ev, Nonce) /\ Joins(loop.ev, Nonce)
      BY <1>2, <1>t, <2>3 DEF ReadNonce, IdleLoop, LoopStates
    <3>3. Fits(loop.ev, Nonce)
      BY <3>1, <3>2, JoinsFit
    <3>4. Fits(loop.ev, Nonce)'
      BY <2>2, <3>1, <3>3 DEF Fits, u, pu
    <3> QED BY <2>1, <2>2, <2>3, <3>1, <3>4 DEF LoopTrue
  <2>4. CASE loop'.pc # "asks"
    <3>1. loop'.pc \in {"idle", "append", "reset"}
      BY <1>2, <1>t, <2>4 DEF ReadNonce, IdleLoop, LoopStates
    <3> QED BY <2>1, <2>2, <3>1 DEF LoopTrue
  <2> QED BY <2>3, <2>4
<1>3. CASE AppendCache
  <2>1. loop'.pc = "store"
    BY <1>3, <1>t DEF AppendCache, LoopStates
  <2> QED BY <2>1 DEF LoopTrue
<1>4. CASE StoreCache
  <2>1. loop'.pc = "idle" /\ loop.pc = "store" /\ UNCHANGED <<Nonce, overlapped>>
    BY <1>4 DEF StoreCache, IdleLoop
  <2> QED BY <2>1 DEF LoopTrue, Alone
<1>5. CASE ApplyAsks
  <2>1. loop.ev \in Known /\ loop'.ev = loop.ev /\ loop'.pc = "bids" /\ UNCHANGED <<Nonce, overlapped, events>>
    BY <1>5, <1>t DEF ApplyAsks, LoopStates, BookTypes, exchangeVars
  <2>2. ~overlapped => HalfDone(loop.ev, Nonce)' /\ Fits(loop.ev, Nonce)
    BY <1>5, <2>1, FirstHalf DEF ApplyAsks, LoopTrue, HalfDone, u
  <2> QED BY <2>1, <2>2 DEF LoopTrue, HalfDone, Fits, u, pu
<1>6. CASE ApplyBids
  <2>1. loop.ev \in Known /\ loop'.ev = loop.ev /\ loop'.pc = "nonce" /\ UNCHANGED <<overlapped, events>>
    BY <1>6, <1>t DEF ApplyBids, LoopStates, BookTypes, exchangeVars
  <2>2. ~overlapped => side' = BookAt(u(loop.ev))
    BY <1>6, <2>1, SecondHalf DEF ApplyBids, LoopTrue
  <2> QED BY <2>1, <2>2 DEF LoopTrue, u
<1>7. CASE ApplyNonce
  <2>1. loop'.pc = "idle" /\ loop.pc = "nonce" /\ Nonce' = u(loop.ev) /\ UNCHANGED <<overlapped, side>>
    BY <1>7 DEF ApplyNonce, IdleLoop
  <2> QED BY <2>1 DEF LoopTrue
<1>8. CASE Reset
  <2>1. loop'.pc = "append"
    BY <1>8, <1>t DEF Reset, LoopStates
  <2> QED BY <2>1 DEF LoopTrue
<1>9. ASSUME NEW r \in Refreshers, RefStep(r) \/ FetchFail(r) PROVE LoopTrue'
  <2>1. loop' = loop
    BY <1>9 DEF RefStep, FetchOk, FetchFail, LockBook, UpdateHead, UpdateSides,
       Replay, ReplayAsks, ReplayBids, ReplayNonce, UnlockBook
  <2>2. CASE FetchOk(r) \/ FetchFail(r) \/ Replay(r)
    BY <1>0, <2>2 DEF FetchOk, FetchFail, Replay, bookVars
  <2>3. CASE LockBook(r)
    <3>1. lock' # None /\ (~overlapped' => loop.pc = "idle")
      BY <2>3, BoundAssumption DEF LockBook
    <3> QED BY <2>1, <3>1 DEF LoopTrue
  <2>4. CASE UnlockBook(r)
    <3>1. ref[r].pc = "replay" /\ lock = r /\ UNCHANGED <<Nonce, side, overlapped>>
      BY <2>4 DEF UnlockBook, BookLockHeld, LockedPlaces, bookVars
    <3>2. ~overlapped => side = BookAt(Nonce) /\ loop.pc = "idle"
      BY <3>1, BoundAssumption DEF SnapTrue, SnapTrueOf, Alone
    <3> QED BY <2>1, <3>1, <3>2 DEF LoopTrue
  <2>5. CASE UpdateHead(r) \/ UpdateSides(r) \/ ReplayAsks(r) \/ ReplayBids(r) \/ ReplayNonce(r)
    <3>1. ref[r].pc \in LockedPlaces /\ UNCHANGED <<lock, overlapped>>
      BY <2>5 DEF UpdateHead, UpdateSides, ReplayAsks, ReplayBids, ReplayNonce, LockedPlaces
    <3>2. lock = r /\ r # None
      BY <3>1, BoundAssumption DEF BookLockHeld
    <3>3. ~overlapped => loop.pc = "idle"
      BY <3>2 DEF Alone
    <3> QED BY <2>1, <3>1, <3>2, <3>3 DEF LoopTrue
  <2> QED BY <1>9, <2>2, <2>3, <2>4, <2>5 DEF RefStep
<1>10. CASE Emit \/ Lose \/ UNCHANGED vars
  BY <1>10, <1>0 DEF Emit, Lose, vars, bookVars
<1> QED BY <1>1, <1>2, <1>3, <1>4, <1>5, <1>6, <1>7, <1>8, <1>9, <1>10 DEF Next, LoopStep

\* What a refresh goroutine has done stays done while it rests.
LEMMA SnapRests ==
  ASSUME BookTypes, SnapTrue, NEW r \in Refreshers, [Next]_vars, ref'[r] = ref[r],
         ~overlapped' => ~overlapped \/ ref[r].pc \notin LockedPlaces,
         ~overlapped' => (UNCHANGED <<Nonce, side>>) \/ ref[r].pc \notin LockedPlaces
  PROVE  /\ ref'[r].pc \in {"asks", "bids", "nonce"} => ref'[r].cache # <<>>
         /\ SnapTrueOf(r)'
<1>1. ref'[r].pc \in {"asks", "bids", "nonce"} => ref'[r].cache # <<>>
  BY DEF SnapTrue
<1>2. CASE ref[r].pc \notin LockedPlaces
  BY <1>2 DEF LockedPlaces, SnapTrueOf
<1>3. CASE ref[r].pc \in {"asks", "bids", "nonce"}
  <2>1. ref[r].cache # <<>> /\ ref[r].cache \in Seq(Known)
    BY <1>3, LoopTyped DEF SnapTrue, RefStates
  <2>2. PICK i \in Known : i = Head(ref[r].cache)
    BY <2>1, CacheHead
  <2>3. u(i)' = u(i) /\ pu(i)' = pu(i)
    BY EventSame
  <2>4. ~overlapped' => ~overlapped /\ UNCHANGED <<Nonce, side>>
    BY <1>3 DEF LockedPlaces
  <2>5. SnapTrueOf(r)
    BY DEF SnapTrue
  <2>6. ASSUME ~overlapped' PROVE SnapTrueOf(r)'
    <3>1. side' = side /\ Nonce' = Nonce /\ ~overlapped
      BY <2>4, <2>6
    <3>2. Fits(i, Nonce) => Fits(i, Nonce)'
      BY <2>3, <3>1 DEF Fits
    <3>3. HalfDone(i, Nonce) => HalfDone(i, Nonce)'
      BY <2>3, <3>1 DEF HalfDone
    <3>4. side = BookAt(u(i)) => side' = BookAt(u(i)')
      BY <2>3, <3>1
    <3>5. /\ ref[r].pc = "asks"   => side = BookAt(Nonce) /\ Fits(i, Nonce)
          /\ ref[r].pc = "bids"   => HalfDone(i, Nonce) /\ Fits(i, Nonce)
          /\ ref[r].pc = "nonce"  => side = BookAt(u(i))
      BY <2>2, <2>5, <3>1 DEF SnapTrueOf
    <3> QED BY <1>3, <2>2, <3>1, <3>2, <3>3, <3>4, <3>5 DEF SnapTrueOf, HalfDone, Fits, u, pu
  <2> QED BY <1>1, <2>6 DEF SnapTrueOf
<1>4. CASE ref[r].pc \in {"head", "sides", "replay"}
  BY <1>4 DEF SnapTrueOf, SnapTrue, LockedPlaces
<1> QED BY <1>1, <1>2, <1>3, <1>4 DEF LockedPlaces

LEMMA SnapKept ==
  ASSUME BookTypes, EventsRise, BookLockHeld, Alone, SnapTrue, [Next]_vars
  PROVE  SnapTrue'
<1>t. ref \in [Refreshers -> RefStates] /\ None \notin Refreshers
  BY LoopTyped, BoundAssumption
<1> SUFFICES ASSUME NEW r \in Refreshers
             PROVE  /\ ref'[r].pc \in {"asks", "bids", "nonce"} => ref'[r].cache # <<>>
                    /\ SnapTrueOf(r)'
  BY DEF SnapTrue
<1>0. CASE UNCHANGED <<ref, Nonce, side, overlapped>>
  BY <1>0, SnapRests
<1>1. CASE LoopStep
  <2>1. CASE StoreCache
    <3>1. UNCHANGED <<Nonce, side, overlapped>>
      BY <2>1 DEF StoreCache
    <3>2. CASE ref'[r] = ref[r]
      BY <3>1, <3>2, SnapRests
    <3>3. CASE ref'[r] # ref[r]
      <4>1. ref'[r].pc = "fetch"
        BY <2>1, <3>3, <1>t DEF StoreCache, Free
      <4> QED BY <4>1 DEF SnapTrueOf
    <3> QED BY <3>2, <3>3
  <2>2. CASE ~StoreCache
    <3>1. loop.pc # "idle" /\ ref' = ref /\ lock' = lock
      BY <1>1, <2>2 DEF LoopStep, ReadNonce, AppendCache, ApplyAsks, ApplyBids, ApplyNonce, Reset
    <3>2. ~overlapped => ref[r].pc \notin LockedPlaces
      BY <3>1, <1>t DEF Alone, BookLockHeld
    <3>3. overlapped' = overlapped \/ (\A q \in Refreshers : ref[q].pc = "free") \/ (overlapped' = overlapped)
      BY <1>1, <2>2 DEF LoopStep, ReadNonce, AppendCache, ApplyAsks, ApplyBids, ApplyNonce, Reset, BookTypes
    <3>4. ~overlapped' => ref[r].pc \notin LockedPlaces
      BY <3>2, <3>3 DEF LockedPlaces
    <3> QED BY <3>1, <3>4, SnapRests
  <2> QED BY <2>1, <2>2
<1>2. ASSUME NEW q \in Refreshers \ {r}, RefStep(q) \/ FetchFail(q)
      PROVE  /\ ref'[r].pc \in {"asks", "bids", "nonce"} => ref'[r].cache # <<>>
             /\ SnapTrueOf(r)'
  <2>1. ref'[r] = ref[r]
    BY <1>2, <1>t DEF RefStep, RefGo, FetchOk, FetchFail, LockBook, UpdateHead, UpdateSides,
       Replay, ReplayAsks, ReplayBids, ReplayNonce, UnlockBook
  <2>2. ~overlapped' => ~overlapped
    BY <1>2 DEF RefStep, FetchOk, FetchFail, LockBook, UpdateHead, UpdateSides,
       Replay, ReplayAsks, ReplayBids, ReplayNonce, UnlockBook
  <2>3. (UNCHANGED <<Nonce, side>>) \/ ref[q].pc \in LockedPlaces
    BY <1>2 DEF RefStep, FetchOk, FetchFail, LockBook, UpdateHead, UpdateSides, LockedPlaces,
       Replay, ReplayAsks, ReplayBids, ReplayNonce, UnlockBook, bookVars
  <2>4. (UNCHANGED <<Nonce, side>>) \/ ref[r].pc \notin LockedPlaces
    BY <2>3 DEF BookLockHeld
  <2> QED BY <2>1, <2>2, <2>4, SnapRests
<1>3. CASE RefStep(r) \/ FetchFail(r)
  <2> DEFINE c == ref[r].cache
  <2>t. c \in Seq(Known) /\ ref[r].snap \in Nat /\ ref[r].pc \in RefPlaces
    BY <1>t DEF RefStates
  <2>e. UNCHANGED events
    BY <1>3 DEF RefStep, FetchOk, FetchFail, LockBook, UpdateHead, UpdateSides,
       Replay, ReplayAsks, ReplayBids, ReplayNonce, UnlockBook, exchangeVars
  <2>1. CASE FetchOk(r) \/ FetchFail(r) \/ LockBook(r) \/ UnlockBook(r)
    <3>1. ref'[r].pc \in {"lock", "free", "head"}
      BY <2>1, <1>t DEF FetchOk, FetchFail, LockBook, UnlockBook, Free, RefStates
    <3> QED BY <3>1 DEF SnapTrueOf
  <2>2. CASE UpdateHead(r)
    <3>1. ref'[r].pc = "sides" /\ Nonce' = ref'[r].snap
      BY <2>2, <1>t DEF UpdateHead, RefGo, RefStates
    <3> QED BY <3>1 DEF SnapTrueOf
  <2>3. CASE UpdateSides(r)
    <3>1. ref'[r].pc = "replay" /\ ref[r].pc = "sides" /\ UNCHANGED <<Nonce, overlapped>>
      BY <2>3, <1>t DEF UpdateSides, RefGo, RefStates
    <3>2. side' = BookAt(ref[r].snap)
      BY <2>3 DEF UpdateSides, BookAt
    <3>3. ~overlapped => Nonce = ref[r].snap
      BY <3>1 DEF SnapTrue, SnapTrueOf
    <3> QED BY <3>1, <3>2, <3>3 DEF SnapTrueOf
  <2>4. CASE Replay(r)
    <3>1. ref[r].pc = "replay" /\ c # <<>> /\ UNCHANGED <<Nonce, side, overlapped>>
      BY <2>4 DEF Replay, bookVars
    <3>2. ~overlapped => side = BookAt(Nonce)
      BY <3>1 DEF SnapTrue, SnapTrueOf
    <3>3. CASE ref'[r].pc = "asks"
      <4>1. Head(c) \in Known
        BY <2>t, <3>1, CacheHead
      <4>2. ref'[r].cache = c /\ ~Stale(Head(c), Nonce) /\ CachedJoins(Head(c), Nonce)
        BY <2>4, <3>1, <3>3, <1>t DEF Replay, RefStates
      <4>3. Fits(Head(c), Nonce)
        <5>1. PICK i \in Known : i = Head(c)
          BY <4>1
        <5>2. ~Stale(i, Nonce) /\ CachedJoins(i, Nonce)
          BY <4>2, <5>1
        <5>3. Fits(i, Nonce)
          BY <5>2, JoinsFit
        <5> QED BY <5>1, <5>3
      <4>4. Fits(Head(ref[r].cache), Nonce)'
        BY <2>e, <3>1, <4>2, <4>3 DEF Fits, u, pu
      <4> QED BY <3>1, <3>2, <3>3, <4>2, <4>4 DEF SnapTrueOf
    <3>4. CASE ref'[r].pc # "asks"
      <4>1. ref'[r].pc = "replay"
        BY <2>4, <3>1, <3>4, <1>t DEF Replay, RefStates
      <4> QED BY <3>1, <3>2, <4>1 DEF SnapTrueOf
    <3> QED BY <3>3, <3>4
  <2>5. CASE ReplayAsks(r)
    <3>1. ref[r].pc = "asks" /\ c # <<>> /\ UNCHANGED <<Nonce, overlapped>>
      BY <2>5 DEF ReplayAsks, SnapTrue
    <3>2. ref'[r].pc = "bids" /\ ref'[r].cache = c
      BY <2>5, <1>t DEF ReplayAsks, RefGo, RefStates
    <3>3. PICK i \in Known : i = Head(c)
      BY <2>t, <3>1, CacheHead
    <3>4. SetSide(i, 0)
      BY <2>5, <3>3 DEF ReplayAsks
    <3>5. ~overlapped => side = BookAt(Nonce) /\ Fits(i, Nonce)
      BY <3>1, <3>3 DEF SnapTrue, SnapTrueOf
    <3>6. ~overlapped => side'[0] = SideAt(u(i), 0) /\ side'[1] = SideAt(Nonce, 1) /\ Fits(i, Nonce)
      BY <3>4, <3>5, FirstHalf
    <3>7. u(i)' = u(i) /\ pu(i)' = pu(i)
      BY <2>e DEF u, pu
    <3> QED BY <2>e, <3>1, <3>2, <3>3, <3>6, <3>7 DEF SnapTrueOf, HalfDone, Fits, u, pu
  <2>6. CASE ReplayBids(r)
    <3>1. ref[r].pc = "bids" /\ c # <<>> /\ UNCHANGED <<Nonce, overlapped>>
      BY <2>6 DEF ReplayBids, SnapTrue
    <3>2. ref'[r].pc = "nonce" /\ ref'[r].cache = c
      BY <2>6, <1>t DEF ReplayBids, RefGo, RefStates
    <3>3. PICK i \in Known : i = Head(c)
      BY <2>t, <3>1, CacheHead
    <3>4. SetSide(i, 1)
      BY <2>6, <3>3 DEF ReplayBids
    <3>5. ~overlapped => HalfDone(i, Nonce) /\ Fits(i, Nonce)
      BY <3>1, <3>3 DEF SnapTrue, SnapTrueOf
    <3>6. ~overlapped => side' = BookAt(u(i))
      BY <3>4, <3>5, SecondHalf
    <3> QED BY <2>e, <3>1, <3>2, <3>3, <3>6 DEF SnapTrueOf, u
  <2>7. CASE ReplayNonce(r)
    <3>1. ref[r].pc = "nonce" /\ UNCHANGED <<side, overlapped>> /\ Nonce' = u(Head(c))
      BY <2>7 DEF ReplayNonce
    <3>2. ref'[r].pc = "replay"
      BY <2>7, <1>t DEF ReplayNonce, RefStates
    <3>3. ~overlapped => side = BookAt(u(Head(c)))
      BY <3>1 DEF SnapTrue, SnapTrueOf
    <3> QED BY <3>1, <3>2, <3>3 DEF SnapTrueOf
  <2> QED BY <1>3, <2>1, <2>2, <2>3, <2>4, <2>5, <2>6, <2>7 DEF RefStep
<1>4. CASE Emit \/ Lose \/ Take \/ UNCHANGED vars
  BY <1>4, <1>0 DEF Emit, Lose, Take, vars, bookVars
<1> QED BY <1>1, <1>2, <1>3, <1>4 DEF Next

-------------------------------------------------------------------------------
(* Keeping up.                                                             *)

LEMMA RunGrows ==
  ASSUME NEW h \in Nat, NEW c \in Seq(Int), Run(c, h)
  PROVE  Run(Append(c, h + 1), h + 1) /\ Len(Append(c, h + 1)) > 1
<1>1. Len(c) \in Nat /\ Len(c) # 0 /\ Len(Append(c, h + 1)) = Len(c) + 1 /\ Append(c, h + 1) # <<>>
  BY DEF Run
<1>2. ASSUME NEW j \in 1..Len(c) + 1
      PROVE  Append(c, h + 1)[j] = h + 1 - (Len(c) + 1) + j
  <2>1. CASE j \in 1..Len(c)
    BY <1>1, <2>1 DEF Run
  <2>2. CASE j = Len(c) + 1
    BY <1>1, <2>2
  <2> QED BY <2>1, <2>2
<1> QED BY <1>1, <1>2 DEF Run

LEMMA RunOne == ASSUME NEW h \in Nat PROVE Run(<<h>>, h)
BY DEF Run

\* What is left of a run behind its first message is a run that goes on there.
LEMMA RunTail ==
  ASSUME NEW h \in Nat, NEW c \in Seq(Int), Run(c, h), Tail(c) # <<>>
  PROVE  Run(Tail(c), h) /\ Tail(c)[1] = c[1] + 1
<1>1. Len(c) \in Nat /\ c # <<>> /\ Len(Tail(c)) = Len(c) - 1 /\ Tail(c) \in Seq(Int)
  BY DEF Run
<1>2. Len(c) > 1
  BY <1>1
<1>3. \A j \in 1..Len(c) - 1 : Tail(c)[j] = c[j + 1]
  BY <1>1, <1>2
<1>4. \A j \in 1..Len(c) : c[j] = h - Len(c) + j
  BY DEF Run
<1>5. \A j \in 1..Len(c) - 1 : Tail(c)[j] = h - (Len(c) - 1) + j
  BY <1>1, <1>3, <1>4
<1>6. Tail(c)[1] = c[1] + 1
  BY <1>1, <1>2, <1>3, <1>4
<1> QED BY <1>1, <1>5, <1>6 DEF Run

LEMMA OneLong ==
  ASSUME NEW S, NEW c \in Seq(S), c # <<>>, Tail(c) = <<>>
  PROVE  Len(c) = 1
<1>1. Len(Tail(c)) = Len(<<>>)
  OBVIOUS
<1>2. Len(<<>>) = 0
  OBVIOUS
<1>3. Len(Tail(c)) = Len(c) - 1
  OBVIOUS
<1> QED BY <1>1, <1>2, <1>3

LEMMA LongOne == ASSUME NEW S, NEW c \in Seq(S), Len(c) > 1 PROVE c # <<>> /\ Len(c) # 1
<1>1. c # <<>>
  OBVIOUS
<1>2. Len(c) # 1
  OBVIOUS
<1> QED BY <1>1, <1>2

LEMMA RunLast ==
  ASSUME NEW h \in Nat, NEW c \in Seq(Int), Run(c, h), Tail(c) = <<>>
  PROVE  c[1] = h
<1>1. Len(c) = 1
  BY OneLong DEF Run
<1> QED BY <1>1 DEF Run

\* The event before one that has come ends where it begins.
LEMMA Consecutive ==
  ASSUME BookTypes, NEW i \in Known, NEW j \in Known, j = i + 1
  PROVE  pu(j) = u(i)
BY DEF BookTypes, Known, pu, u

LEMMA InHandKept ==
  ASSUME BookTypes, InHand, [Next]_vars
  PROVE  InHand'
<1>t. loop \in LoopStates
  BY LoopTyped
<1>1. CASE UNCHANGED <<lost, pos, loop>>
  BY <1>1 DEF InHand
<1>2. CASE Lose
  BY <1>2 DEF Lose, InHand, BookTypes
<1>3. CASE Take
  BY <1>3 DEF Take, InHand, IdleLoop
<1>4. CASE LoopStep
  <2>1. UNCHANGED <<lost, pos>> /\ (loop' = IdleLoop \/ (loop'.ev = loop.ev /\ loop.pc # "idle"))
    BY <1>4, <1>t DEF LoopStep, ReadNonce, AppendCache, StoreCache, ApplyAsks, ApplyBids, ApplyNonce,
       Reset, exchangeVars, LoopStates
  <2> QED BY <2>1 DEF InHand, IdleLoop
<1>5. ASSUME NEW r \in Refreshers, RefStep(r) \/ FetchFail(r) PROVE UNCHANGED <<lost, pos, loop>>
  BY <1>5 DEF RefStep, FetchOk, FetchFail, LockBook, UpdateHead, UpdateSides,
     Replay, ReplayAsks, ReplayBids, ReplayNonce, UnlockBook, exchangeVars
<1> QED BY <1>1, <1>2, <1>3, <1>4, <1>5 DEF Next, Emit, vars, exchangeVars

\* The last message handled, when there is one, is known.
LEMMA HandledKnown ==
  ASSUME BookTypes
  PROVE  Handled \in Int /\ (0 < Handled => Handled \in Known) /\ (loop.pc # "idle" /\ loop.ev = pos => 0 < pos)
BY DEF BookTypes, Handled, Known

\* Nobody works on the book while all refresh goroutines are free.
LEMMA FreeRests ==
  ASSUME NEW r \in Refreshers, ref[r].pc = "free"
  PROVE  ~RefStep(r) /\ ~FetchFail(r)
BY DEF RefStep, FetchOk, FetchFail, LockBook, UpdateHead, UpdateSides,
   Replay, ReplayAsks, ReplayBids, ReplayNonce, UnlockBook

LEMMA FromFresh ==
  ASSUME BookTypes, InHand, lost = 0, lost' = 0, Fresh, [Next]_vars
  PROVE  Ordered'
<1>t. loop \in LoopStates /\ ref \in [Refreshers -> RefStates] /\ pos \in Nat
  BY LoopTyped DEF BookTypes
<1>f. AllFree /\ Caching /\ Cache = <<>>
  BY DEF Fresh
<1>1. CASE Emit \/ UNCHANGED vars
  BY <1>1 DEF Emit, vars, bookVars, exchangeVars, Fresh, AllFree, Caching, Ordered
<1>2. CASE Lose
  BY <1>2 DEF Lose
<1>3. CASE Take
  <2>1. loop'.pc = "read" /\ UNCHANGED <<ref, Nonce, Cache>>
    BY <1>3 DEF Take, bookVars, IdleLoop
  <2> QED BY <2>1, <1>f DEF Fresh, AllFree, Caching, Ordered
<1>4. CASE ReadNonce
  <2>1. loop'.pc = "append" /\ UNCHANGED <<ref, Nonce, Cache>>
    BY <1>4, <1>f, <1>t DEF ReadNonce, bookVars, Caching, LoopStates
  <2> QED BY <2>1, <1>f DEF Fresh, AllFree, Caching, Ordered
<1>5. CASE AppendCache
  <2>1. loop'.pc = "store" /\ loop'.cache = <<loop.ev>> /\ loop.pc # "idle" /\ UNCHANGED <<ref, Nonce, Cache, pos>>
    BY <1>5, <1>f, <1>t DEF AppendCache, bookVars, exchangeVars, LoopStates
  <2>2. loop.ev = pos
    BY <2>1 DEF InHand
  <2> QED BY <2>1, <2>2, <1>f DEF Fresh, AllFree, Caching, Ordered
<1>6. CASE StoreCache
  <2>1. loop.cache = <<pos>> /\ Cache' = <<pos>> /\ loop' = IdleLoop /\ UNCHANGED <<pos, Nonce>>
    BY <1>6, <1>f DEF StoreCache, Fresh, exchangeVars
  <2>2. PICK r \in Refreshers : ref' = [ref EXCEPT ![r] = [Free EXCEPT !.pc = "fetch"]]
    BY <1>6, <2>1 DEF StoreCache
  <2>3. ref'[r].pc = "fetch" /\ \A q \in Refreshers \ {r} : ref'[q].pc = "free"
    BY <1>t, <1>f, <2>2 DEF Free, AllFree
  <2>4. Run(Cache', Handled')
    BY <1>t, <2>1, RunOne DEF Handled, IdleLoop
  <2>5. Waiting(r)'
    BY <2>1, <2>3, <2>4, <1>f DEF Waiting, Only, Caching, IdleLoop
  <2> QED BY <2>5 DEF Ordered
<1>7. ASSUME NEW r \in Refreshers PROVE ~RefStep(r) /\ ~FetchFail(r)
  BY <1>f, FreeRests DEF AllFree
<1>8. CASE ApplyAsks \/ ApplyBids \/ ApplyNonce \/ Reset
  BY <1>8, <1>f DEF ApplyAsks, ApplyBids, ApplyNonce, Reset, Caching
<1> QED BY <1>1, <1>2, <1>3, <1>4, <1>5, <1>6, <1>7, <1>8 DEF Next, LoopStep

LEMMA FromGivenUp ==
  ASSUME BookTypes, lost' = 0, GivenUp, [Next]_vars
  PROVE  Ordered'
<1>t. loop \in LoopStates /\ ref \in [Refreshers -> RefStates] /\ Cache \in Seq(Known)
  BY LoopTyped DEF BookTypes
<1>f. AllFree /\ Caching /\ Cache # <<>> /\ failed /\ ~loop.reset
  BY DEF GivenUp
<1>1. CASE Emit \/ UNCHANGED vars
  BY <1>1 DEF Emit, vars, bookVars, exchangeVars, GivenUp, AllFree, Caching, Ordered
<1>2. CASE Lose
  BY <1>2 DEF Lose, BookTypes
<1>3. CASE Take
  <2>1. loop'.pc = "read" /\ ~loop'.reset /\ UNCHANGED <<ref, Nonce, Cache, failed>>
    BY <1>3 DEF Take, bookVars, IdleLoop
  <2> QED BY <2>1, <1>f DEF GivenUp, AllFree, Caching, Ordered
<1>4. CASE ReadNonce
  <2>1. loop'.pc = "append" /\ loop'.reset = loop.reset /\ UNCHANGED <<ref, Nonce, Cache, failed>>
    BY <1>4, <1>f, <1>t DEF ReadNonce, bookVars, Caching, LoopStates
  <2> QED BY <2>1, <1>f DEF GivenUp, AllFree, Caching, Ordered
<1>5. CASE AppendCache
  <2>1. /\ loop'.pc = "store" /\ loop'.cache = Append(Cache, loop.ev) /\ loop'.reset = loop.reset
        /\ UNCHANGED <<ref, Nonce, Cache, failed>>
    BY <1>5, <1>t DEF AppendCache, bookVars, LoopStates
  <2>2. Len(loop'.cache) > 1
    BY <1>f, <1>t, <2>1
  <2> QED BY <2>1, <2>2, <1>f DEF GivenUp, AllFree, Caching, Ordered
<1>6. CASE StoreCache
  <2>1. Len(loop.cache) > 1 /\ Cache' = loop.cache /\ loop' = IdleLoop /\ UNCHANGED <<Nonce, failed>>
    BY <1>6 DEF StoreCache, GivenUp
  <2>2. Len(loop.cache) # 1 /\ loop.cache # <<>>
    <3>1. loop.cache \in Seq(Known)
      BY <1>t DEF LoopStates
    <3> QED BY <2>1, <3>1, LongOne
  <2>3. ref' = ref /\ Cache' # <<>>
    BY <1>6, <1>f, <2>1, <2>2 DEF StoreCache
  <2> QED BY <2>1, <2>3, <1>f DEF GivenUp, AllFree, Caching, Ordered, IdleLoop
<1>7. ASSUME NEW r \in Refreshers PROVE ~RefStep(r) /\ ~FetchFail(r)
  BY <1>f, FreeRests DEF AllFree
<1>8. CASE ApplyAsks \/ ApplyBids \/ ApplyNonce \/ Reset
  BY <1>8, <1>f DEF ApplyAsks, ApplyBids, ApplyNonce, Reset, Caching
<1> QED BY <1>1, <1>2, <1>3, <1>4, <1>5, <1>6, <1>7, <1>8 DEF Next, LoopStep

LEMMA FromSynced ==
  ASSUME BookTypes, EventsRise, InHand, lost = 0, lost' = 0, Synced, [Next]_vars
  PROVE  Ordered'
<1>t. /\ loop \in LoopStates /\ ref \in [Refreshers -> RefStates] /\ pos \in Nat /\ Nonce \in Nat
      /\ contract \in BOOLEAN
  BY LoopTyped DEF BookTypes
<1>f. AllFree /\ Nonce # 0 /\ Cache = <<>> /\ 0 < Handled /\ Nonce >= u(Handled)
  BY DEF Synced
<1>k. Handled \in Known
  BY <1>f, HandledKnown
<1>u. u(Handled) \in Nat
  BY <1>k, EventTypes
<1>1. CASE Emit \/ UNCHANGED vars
  <2>1. UNCHANGED <<loop, ref, Nonce, Cache, pos>>
    BY <1>1 DEF Emit, vars, bookVars, exchangeVars
  <2>2. Handled' = Handled
    BY <2>1 DEF Handled
  <2>3. PICK h \in Known : h = Handled
    BY <1>k
  <2>4. u(h)' = u(h)
    BY EventSame
  <2>5. Nonce' >= u(Handled)'
    BY <2>1, <2>2, <2>3, <2>4, <1>f DEF u
  <2> QED BY <2>1, <2>2, <2>5, <1>f DEF Synced, AllFree, Ordered
<1>2. CASE Lose
  BY <1>2 DEF Lose
<1>3. CASE Take
  <2>1. loop'.pc = "read" /\ loop.pc = "idle" /\ pos' = pos + 1 /\ UNCHANGED <<ref, Nonce, Cache, events>>
    BY <1>3 DEF Take, bookVars, IdleLoop
  <2>2. Handled' = Handled
    BY <1>t, <2>1 DEF Handled
  <2> QED BY <2>1, <2>2, <1>f DEF Synced, AllFree, Ordered, u
<1>4. CASE ReadNonce
  <2>1. loop.pc = "read" /\ loop.ev = pos /\ pos \in Known /\ UNCHANGED <<ref, Nonce, Cache, events, pos>>
    BY <1>4 DEF ReadNonce, InHand, BookTypes, bookVars, exchangeVars
  <2>2. Handled = pos - 1
    BY <2>1 DEF Handled
  <2>3. pu(pos) = u(pos - 1)
    BY <1>k, <1>t, <2>1, <2>2, Consecutive
  <2>4. u(pos) \in Nat /\ pu(pos) \in Nat /\ U(pos) = pu(pos) + 1 /\ pu(pos) <= Nonce
    BY <1>f, <2>1, <2>2, <2>3, EventTypes
  <2>5. CASE Stale(pos, Nonce)
    <3>1. loop' = IdleLoop
      BY <1>4, <1>f, <2>1, <2>5 DEF ReadNonce
    <3>2. Nonce >= u(pos)
      BY <1>t, <2>4, <2>5 DEF Stale
    <3>3. Handled' = pos /\ loop'.pc = "idle"
      BY <2>1, <3>1 DEF Handled, IdleLoop
    <3> QED BY <1>t, <1>f, <2>1, <2>2, <3>2, <3>3 DEF Synced, AllFree, Ordered, u
  <2>6. CASE ~Stale(pos, Nonce)
    <3>1. Joins(pos, Nonce)
      <4>1. CASE contract
        BY <1>t, <2>4, <2>6, <4>1 DEF Stale, Joins
      <4>2. CASE ~contract
        BY <1>t, <2>4, <2>6, <4>2 DEF Stale, Joins
      <4> QED BY <4>1, <4>2
    <3>2. loop'.pc = "asks"
      BY <1>4, <1>f, <1>t, <2>1, <2>6, <3>1 DEF ReadNonce, LoopStates
    <3>3. Handled' = Handled
      BY <2>1, <2>2, <3>2 DEF Handled
    <3> QED BY <1>f, <2>1, <3>2, <3>3 DEF Synced, AllFree, Ordered, u
  <2> QED BY <2>5, <2>6
<1>5. CASE ApplyAsks \/ ApplyBids
  <2>1. /\ loop'.pc \in {"bids", "nonce"} /\ loop.pc # "idle"
        /\ UNCHANGED <<ref, Nonce, Cache, events, pos>>
    BY <1>5, <1>t DEF ApplyAsks, ApplyBids, LoopStates, exchangeVars
  <2>2. Handled' = Handled
    BY <2>1 DEF Handled
  <2> QED BY <1>f, <2>1, <2>2 DEF Synced, AllFree, Ordered, u
<1>6. CASE ApplyNonce
  <2>1. loop.pc # "idle" /\ loop.ev = pos /\ pos \in Known
    BY <1>6 DEF ApplyNonce, InHand, BookTypes
  <2>2. loop'.pc = "idle" /\ Nonce' = u(pos) /\ UNCHANGED <<ref, Cache, events, pos>>
    BY <1>6, <2>1 DEF ApplyNonce, exchangeVars, IdleLoop
  <2>3. Handled' = pos /\ 0 < pos
    BY <1>t, <2>1, <2>2, HandledKnown DEF Handled
  <2>4. u(pos) \in Nat /\ u(pos) # 0
    BY <2>1, EventTypes DEF EventsRise
  <2> QED BY <1>f, <2>2, <2>3, <2>4 DEF Synced, AllFree, Ordered, u
<1>7. ASSUME NEW r \in Refreshers PROVE ~RefStep(r) /\ ~FetchFail(r)
  BY <1>f, FreeRests DEF AllFree
<1>8. CASE AppendCache \/ StoreCache \/ Reset
  BY <1>8 DEF AppendCache, StoreCache, Reset, Synced
<1> QED BY <1>1, <1>2, <1>3, <1>4, <1>5, <1>6, <1>7, <1>8 DEF Next, LoopStep

LEMMA FromWaiting ==
  ASSUME BookTypes, EventsRise, InHand, lost = 0, lost' = 0, ~overlapped', [Next]_vars,
         NEW r \in Refreshers, Waiting(r)
  PROVE  Ordered'
<1>t. /\ loop \in LoopStates /\ ref \in [Refreshers -> RefStates] /\ pos \in Nat
      /\ Cache \in Seq(Known) /\ Cache \in Seq(Int) /\ None \notin Refreshers
  BY LoopTyped, BoundAssumption DEF BookTypes, Known
<1>f. /\ ref[r].pc \in {"fetch", "lock"} /\ Only(r) /\ Caching /\ Run(Cache, Handled) /\ ~loop.reset
      /\ (loop.pc = "store" => loop.cache = Append(Cache, pos))
      /\ (ref[r].pc = "lock" => ref[r].snap >= u(Cache[1]))
  BY DEF Waiting
<1>c. Cache # <<>> /\ Cache[1] \in Known
  BY <1>t, <1>f DEF Run
<1>o. ASSUME NEW q \in Refreshers, RefStep(q) \/ FetchFail(q) PROVE q = r
  BY <1>o, <1>f, FreeRests DEF Only
<1>1. CASE Emit \/ UNCHANGED vars
  <2>1. UNCHANGED <<loop, ref, Nonce, Cache, pos>>
    BY <1>1 DEF Emit, vars, bookVars, exchangeVars
  <2>2. PICK i \in Known : i = Cache[1]
    BY <1>c
  <2>3. u(i)' = u(i)
    BY EventSame
  <2>4. u(Cache[1])' = u(Cache[1]) /\ Handled' = Handled
    BY <2>1, <2>2, <2>3 DEF u, Handled
  <2>5. Waiting(r)'
    BY <2>1, <2>4, <1>f DEF Waiting, Only, Caching
  <2> QED BY <2>5 DEF Ordered
<1>2. CASE Lose
  BY <1>2 DEF Lose
<1>3. CASE Take
  <2>1. /\ loop'.pc = "read" /\ ~loop'.reset /\ loop.pc = "idle" /\ pos' = pos + 1
        /\ UNCHANGED <<ref, Nonce, Cache, events>>
    BY <1>3 DEF Take, bookVars, IdleLoop
  <2>2. Handled' = Handled
    BY <1>t, <2>1 DEF Handled
  <2>3. Waiting(r)'
    BY <2>1, <2>2, <1>f DEF Waiting, Only, Caching, u
  <2> QED BY <2>3 DEF Ordered
<1>4. CASE ReadNonce
  <2>1. /\ loop'.pc = "append" /\ loop'.reset = loop.reset /\ loop.pc = "read"
        /\ UNCHANGED <<ref, Nonce, Cache, events, pos>>
    BY <1>4, <1>f, <1>t DEF ReadNonce, bookVars, exchangeVars, Caching, LoopStates
  <2>2. Handled' = Handled
    BY <2>1 DEF Handled
  <2>3. Waiting(r)'
    BY <2>1, <2>2, <1>f DEF Waiting, Only, Caching, u
  <2> QED BY <2>3 DEF Ordered
<1>5. CASE AppendCache
  <2>1. /\ loop'.pc = "store" /\ loop'.cache = Append(Cache, loop.ev) /\ loop'.reset = loop.reset
        /\ loop.pc = "append" /\ UNCHANGED <<ref, Nonce, Cache, events, pos>>
    BY <1>5, <1>t DEF AppendCache, bookVars, exchangeVars, LoopStates
  <2>2. Handled' = Handled /\ loop.ev = pos
    BY <2>1 DEF Handled, InHand
  <2>3. Waiting(r)'
    BY <2>1, <2>2, <1>f DEF Waiting, Only, Caching, u
  <2> QED BY <2>3 DEF Ordered
<1>6. CASE StoreCache
  <2>1. loop.pc = "store" /\ Cache' = Append(Cache, pos) /\ loop' = IdleLoop /\ UNCHANGED <<Nonce, events, pos>>
    BY <1>6, <1>f DEF StoreCache, exchangeVars
  <2>2. Handled = pos - 1 /\ pos - 1 \in Nat
    <3>1. 0 < pos
      BY <2>1, HandledKnown DEF InHand
    <3> QED BY <1>t, <2>1, <3>1 DEF Handled
  <2>3. pos - 1 + 1 = pos
    BY <1>t
  <2>4. Run(Append(Cache, pos), pos) /\ Len(Append(Cache, pos)) > 1
    BY <1>f, <1>t, <2>2, <2>3, RunGrows
  <2>5. ref' = ref
    BY <1>6, <1>f, <1>t, <2>1, <2>4 DEF StoreCache
  <2>6. Cache'[1] = Cache[1] /\ Handled' = pos
    BY <1>c, <1>t, <2>1 DEF Handled, IdleLoop
  <2>7. Waiting(r)'
    BY <2>1, <2>4, <2>5, <2>6, <1>f DEF Waiting, Only, Caching, u, IdleLoop
  <2> QED BY <2>7 DEF Ordered
<1>7. CASE FetchOk(r)
  <2>1. ref'[r].pc = "lock" /\ ref'[r].snap = sid /\ \A q \in Refreshers \ {r} : ref'[q] = ref[q]
    BY <1>7, <1>t DEF FetchOk, RefStates
  <2>2. UNCHANGED <<loop, Nonce, Cache, pos, events>>
    BY <1>7 DEF FetchOk, bookVars, exchangeVars
  <2>3. u(Cache[1]) <= sid /\ u(Cache[1]) \in Nat /\ sid \in Nat
    BY <1>c, EventTypes DEF EventsRise, BookTypes
  <2>4. Handled' = Handled
    BY <2>2 DEF Handled
  <2>5. Waiting(r)'
    BY <2>1, <2>2, <2>3, <2>4, <1>f DEF Waiting, Only, Caching, u
  <2> QED BY <2>5 DEF Ordered
<1>8. CASE FetchFail(r)
  <2>1. ref'[r].pc = "free" /\ \A q \in Refreshers \ {r} : ref'[q] = ref[q]
    BY <1>8, <1>t DEF FetchFail, Free
  <2>2. failed' /\ UNCHANGED <<loop, Nonce, Cache, pos>>
    BY <1>8 DEF FetchFail, bookVars, exchangeVars
  <2>3. loop.pc = "store" => Len(loop.cache) > 1
    BY <1>c, <1>f, <1>t
  <2>4. GivenUp'
    BY <1>c, <1>f, <2>1, <2>2, <2>3 DEF GivenUp, AllFree, Only, Caching
  <2> QED BY <2>4 DEF Ordered
<1>9. CASE LockBook(r)
  <2>1. /\ ref'[r].pc = "head" /\ ref'[r].snap = ref[r].snap /\ ref'[r].cache = Cache
        /\ \A q \in Refreshers \ {r} : ref'[q] = ref[q]
    BY <1>9, <1>t DEF LockBook, RefStates
  <2>2. ref[r].pc = "lock" /\ lock' = r /\ loop.pc = "idle" /\ UNCHANGED <<loop, pos, events>>
    BY <1>9 DEF LockBook, exchangeVars
  <2>3. Handled = pos
    BY <2>2 DEF Handled
  <2>4. Replaying(r)'
    BY <1>f, <2>1, <2>2, <2>3 DEF Replaying, Only, LockedPlaces, u
  <2> QED BY <2>4 DEF Ordered
<1>10. ASSUME UpdateHead(r) \/ UpdateSides(r) \/ Replay(r) \/ ReplayAsks(r) \/ ReplayBids(r)
              \/ ReplayNonce(r) \/ UnlockBook(r)
       PROVE FALSE
  BY <1>10, <1>f DEF UpdateHead, UpdateSides, Replay, ReplayAsks, ReplayBids, ReplayNonce, UnlockBook
<1>11. CASE ApplyAsks \/ ApplyBids \/ ApplyNonce \/ Reset
  BY <1>11, <1>f DEF ApplyAsks, ApplyBids, ApplyNonce, Reset, Caching
<1>12. CASE RefStep(r)
  BY <1>12, <1>7, <1>9, <1>10 DEF RefStep
<1> QED BY <1>o, <1>1, <1>2, <1>3, <1>4, <1>5, <1>6, <1>8, <1>11, <1>12 DEF Next, LoopStep

LEMMA FromReplaying ==
  ASSUME BookTypes, EventsRise, BookLockHeld, SnapTrue, lost' = 0, ~overlapped, [Next]_vars,
         NEW r \in Refreshers, Replaying(r)
  PROVE  Ordered'
<1> DEFINE c == ref[r].cache
           replaying == LockedPlaces \ {"head", "sides"}
<1>t. /\ ref \in [Refreshers -> RefStates] /\ pos \in Nat /\ Nonce \in Nat /\ contract \in BOOLEAN
      /\ c \in Seq(Known) /\ c \in Seq(Int) /\ ref[r].snap \in Nat /\ None \notin Refreshers
  <2>1. ref[r] \in RefStates /\ ref \in [Refreshers -> RefStates]
    BY LoopTyped
  <2>2. c \in Seq(Known) /\ ref[r].snap \in Nat
    BY <2>1 DEF RefStates
  <2>3. c \in Seq(Int)
    BY <2>2 DEF Known
  <2> QED BY <2>1, <2>2, <2>3, BoundAssumption DEF BookTypes
<1>f. /\ lock = r /\ Only(r) /\ loop.pc = "idle" /\ ref[r].pc \in LockedPlaces
      /\ (ref[r].pc \in {"head", "sides"} => Run(c, pos) /\ ref[r].snap >= u(c[1]))
      /\ (ref[r].pc # "head" => Nonce # 0 /\ Cache = <<>>)
      /\ (ref[r].pc \in replaying => 0 < pos)
      /\ (ref[r].pc \in replaying /\ c = <<>> => Nonce >= u(pos))
      /\ (ref[r].pc \in replaying /\ c # <<>> => Run(c, pos) /\ Nonce >= pu(c[1]))
  BY DEF Replaying, BookLockHeld
<1>c. ASSUME c # <<>>
      PROVE  /\ c[1] \in Known /\ Head(c) = c[1] /\ Tail(c) \in Seq(Known)
             /\ u(c[1]) \in Nat /\ pu(c[1]) \in Nat /\ 0 < u(c[1]) /\ pu(c[1]) <= u(c[1])
             /\ U(c[1]) = pu(c[1]) + 1 /\ (Run(c, pos) => pos \in Known)
  <2>1. c[1] \in Known /\ Head(c) = c[1] /\ Tail(c) \in Seq(Known) /\ Len(c) \in 1..Len(c) /\ c[Len(c)] \in Known
    BY <1>c, <1>t, CacheHead
  <2>2. u(c[1]) \in Nat /\ pu(c[1]) \in Nat /\ 0 < u(c[1]) /\ pu(c[1]) <= u(c[1]) /\ U(c[1]) = pu(c[1]) + 1
    <3>1. PICK i \in Known : i = c[1]
      BY <2>1
    <3>2. u(i) \in Nat /\ pu(i) \in Nat /\ U(i) = pu(i) + 1 /\ 1 <= pu(i) /\ pu(i) < u(i)
      BY EventTypes DEF EventsRise
    <3> HIDE DEF c
    <3> QED BY <3>1, <3>2
  <2>3. Run(c, pos) => pos \in Known
    BY <1>t, <2>1 DEF Run
  <2> QED BY <2>1, <2>2, <2>3
<1>o. ASSUME NEW q \in Refreshers, RefStep(q) \/ FetchFail(q) PROVE q = r
  BY <1>o, <1>f, FreeRests DEF Only
<1>1. CASE Emit \/ UNCHANGED vars
  <2>1. UNCHANGED <<loop, ref, Nonce, Cache, pos, lock>>
    BY <1>1 DEF Emit, vars, bookVars, exchangeVars
  <2>2. c # <<>> => u(c[1])' = u(c[1]) /\ pu(c[1])' = pu(c[1])
    <3>1. ASSUME c # <<>> PROVE u(c[1])' = u(c[1]) /\ pu(c[1])' = pu(c[1])
      <4>1. PICK i \in Known : i = c[1]
        BY <1>c, <3>1
      <4>2. u(i)' = u(i) /\ pu(i)' = pu(i)
        BY EventSame
      <4> QED BY <2>1, <4>1, <4>2 DEF u, pu
    <3> QED BY <3>1
  <2>3. 0 < pos => u(pos)' = u(pos)
    <3>1. ASSUME 0 < pos PROVE u(pos)' = u(pos)
      <4>1. PICK i \in Known : i = pos
        BY <3>1 DEF BookTypes, Known
      <4>2. u(i)' = u(i)
        BY EventSame
      <4> QED BY <2>1, <4>1, <4>2 DEF u
    <3> QED BY <3>1
  <2>4. ref[r].pc \in {"head", "sides"} => c # <<>>
    BY <1>f DEF Run
  <2>5. Replaying(r)'
    <3>1. Replaying(r)
      OBVIOUS
    <3> QED BY <2>1, <2>2, <2>3, <2>4, <3>1 DEF Replaying, Only
  <2> QED BY <2>5 DEF Ordered
<1>2. CASE Lose
  BY <1>2 DEF Lose, BookTypes
<1>3. ~Take /\ ~LoopStep
  BY <1>f, <1>t DEF Take, LoopStep, ReadNonce, AppendCache, StoreCache, ApplyAsks, ApplyBids, ApplyNonce, Reset
<1>4. CASE UpdateHead(r)
  <2>1. /\ ref[r].pc = "head" /\ ref'[r].pc = "sides" /\ ref'[r].cache = c /\ ref'[r].snap = ref[r].snap
        /\ \A q \in Refreshers \ {r} : ref'[q] = ref[q]
    BY <1>4, <1>t DEF UpdateHead, RefGo, RefStates
  <2>2. Nonce' = ref[r].snap /\ Cache' = <<>> /\ UNCHANGED <<lock, loop, pos, events>>
    BY <1>4 DEF UpdateHead, exchangeVars
  <2>3. Run(c, pos) /\ ref[r].snap >= u(c[1]) /\ c # <<>>
    BY <1>f, <2>1 DEF Run
  <2>4. Nonce' # 0
    BY <1>c, <1>t, <2>2, <2>3
  <2>5. Replaying(r)'
    BY <1>f, <2>1, <2>2, <2>3, <2>4 DEF Replaying, Only, LockedPlaces, u
  <2> QED BY <2>5 DEF Ordered
<1>5. CASE UpdateSides(r)
  <2>1. /\ ref[r].pc = "sides" /\ ref'[r].pc = "replay" /\ ref'[r].cache = c
        /\ \A q \in Refreshers \ {r} : ref'[q] = ref[q]
    BY <1>5, <1>t DEF UpdateSides, RefGo, RefStates
  <2>2. UNCHANGED <<Nonce, Cache, lock, loop, pos, events>>
    BY <1>5 DEF UpdateSides, exchangeVars
  <2>3. Run(c, pos) /\ ref[r].snap >= u(c[1]) /\ c # <<>> /\ Nonce # 0 /\ Cache = <<>>
    BY <1>f, <2>1 DEF Run
  <2>4. 0 < pos
    BY <1>c, <1>t, <2>3 DEF Known
  <2>5. Nonce >= pu(c[1])
    BY <1>c, <1>t, <2>3, <2>1, <1>5 DEF SnapTrue, SnapTrueOf
  <2>6. Replaying(r)'
    BY <1>f, <2>1, <2>2, <2>3, <2>4, <2>5 DEF Replaying, Only, LockedPlaces, pu
  <2> QED BY <2>6 DEF Ordered
<1>6. CASE Replay(r)
  <2>1. ref[r].pc = "replay" /\ c # <<>> /\ UNCHANGED <<Nonce, Cache, lock, loop, pos, events>>
    BY <1>6 DEF Replay, bookVars, exchangeVars
  <2>q. \A q \in Refreshers \ {r} : ref'[q] = ref[q]
    BY <1>6, <1>t DEF Replay
  <2>2. Run(c, pos) /\ Nonce >= pu(c[1]) /\ 0 < pos /\ Nonce # 0 /\ Cache = <<>>
    BY <1>f, <2>1 DEF LockedPlaces
  <2>3. CASE ref'[r].pc = "asks" /\ ref'[r].cache = c
    <3>1. Replaying(r)'
      BY <1>f, <2>1, <2>q, <2>2, <2>3 DEF Replaying, Only, LockedPlaces, pu
    <3> QED BY <3>1 DEF Ordered
  <2>4. CASE /\ ref'[r].pc = "replay" /\ ref'[r].cache = Tail(c)
             /\ ~(~Stale(Head(c), Nonce) /\ CachedJoins(Head(c), Nonce))
    <3>1. Nonce >= u(c[1])
      <4>1. PICK i \in Known : i = c[1] /\ i = Head(c)
        BY <1>c, <2>1
      <4>2. u(i) \in Nat /\ pu(i) \in Nat /\ U(i) = pu(i) + 1 /\ pu(i) <= Nonce
        BY <2>2, <4>1, EventTypes
      <4>3. ~(~Stale(i, Nonce) /\ CachedJoins(i, Nonce))
        BY <2>4, <4>1
      <4>4. CASE contract
        BY <1>t, <4>2, <4>3, <4>4, <4>1 DEF Stale, CachedJoins
      <4>5. CASE ~contract
        BY <1>t, <4>2, <4>3, <4>5, <4>1 DEF Stale, CachedJoins
      <4> QED BY <4>4, <4>5
    <3>2. CASE Tail(c) = <<>>
      <4>1. c[1] = pos
        BY <1>t, <2>2, <3>2, RunLast
      <4>2. Replaying(r)'
        BY <1>f, <2>1, <2>q, <2>2, <2>4, <3>1, <3>2, <4>1 DEF Replaying, Only, LockedPlaces, u
      <4> QED BY <4>2 DEF Ordered
    <3>3. CASE Tail(c) # <<>>
      <4>1. Run(Tail(c), pos) /\ Tail(c)[1] = c[1] + 1
        BY <1>t, <2>2, <3>3, RunTail
      <4>2. Tail(c)[1] \in Known
        BY <1>c, <2>1, <3>3, CacheHead
      <4>3. pu(Tail(c)[1]) = u(c[1])
        BY <1>c, <2>1, <4>1, <4>2, Consecutive
      <4>4. Replaying(r)'
        BY <1>f, <2>1, <2>q, <2>2, <2>4, <3>1, <3>3, <4>1, <4>3 DEF Replaying, Only, LockedPlaces, pu
      <4> QED BY <4>4 DEF Ordered
    <3> QED BY <3>2, <3>3
  <2> QED BY <1>6, <1>t, <2>1, <2>3, <2>4 DEF Replay, RefStates
<1>7. CASE ReplayAsks(r) \/ ReplayBids(r)
  <2>1. /\ ref[r].pc \in {"asks", "bids"} /\ ref'[r].pc \in {"bids", "nonce"} /\ ref'[r].cache = c
        /\ c # <<>> /\ \A q \in Refreshers \ {r} : ref'[q] = ref[q]
    BY <1>7, <1>t DEF ReplayAsks, ReplayBids, RefGo, RefStates, SnapTrue
  <2>2. UNCHANGED <<Nonce, Cache, lock, loop, pos, events>>
    BY <1>7 DEF ReplayAsks, ReplayBids, exchangeVars
  <2>3. Run(c, pos) /\ Nonce >= pu(c[1]) /\ 0 < pos /\ Nonce # 0 /\ Cache = <<>>
    BY <1>f, <2>1 DEF LockedPlaces
  <2>4. Replaying(r)'
    BY <1>f, <2>1, <2>2, <2>3 DEF Replaying, Only, LockedPlaces, pu
  <2> QED BY <2>4 DEF Ordered
<1>8. CASE ReplayNonce(r)
  <2>1. /\ ref[r].pc = "nonce" /\ ref'[r].pc = "replay" /\ ref'[r].cache = Tail(c)
        /\ c # <<>> /\ \A q \in Refreshers \ {r} : ref'[q] = ref[q]
    BY <1>8, <1>t DEF ReplayNonce, RefStates, SnapTrue
  <2>2. UNCHANGED <<Cache, lock, loop, pos, events>> /\ Nonce' = u(c[1])
    BY <1>8, <1>c, <2>1 DEF ReplayNonce, exchangeVars
  <2>3. Run(c, pos) /\ 0 < pos /\ Cache = <<>>
    BY <1>f, <2>1 DEF LockedPlaces
  <2>4. Nonce' # 0 /\ Nonce' >= u(c[1])
    BY <1>c, <2>1, <2>2
  <2>5. CASE Tail(c) = <<>>
    <3>1. c[1] = pos
      BY <1>t, <2>3, <2>5, RunLast
    <3>2. Replaying(r)'
      BY <1>f, <2>1, <2>2, <2>3, <2>4, <2>5, <3>1 DEF Replaying, Only, LockedPlaces, u
    <3> QED BY <3>2 DEF Ordered
  <2>6. CASE Tail(c) # <<>>
    <3>1. Run(Tail(c), pos) /\ Tail(c)[1] = c[1] + 1
      BY <1>t, <2>3, <2>6, RunTail
    <3>2. Tail(c)[1] \in Known
      BY <1>c, <2>1, <2>6, CacheHead
    <3>3. pu(Tail(c)[1]) = u(c[1])
      BY <1>c, <2>1, <3>1, <3>2, Consecutive
    <3>4. Replaying(r)'
      BY <1>f, <2>1, <2>2, <2>3, <2>4, <2>6, <3>1, <3>3 DEF Replaying, Only, LockedPlaces, pu
    <3> QED BY <3>4 DEF Ordered
  <2> QED BY <2>5, <2>6
<1>9. CASE UnlockBook(r)
  <2>1. ref[r].pc = "replay" /\ c = <<>> /\ UNCHANGED <<Nonce, Cache, loop, pos, events>>
    BY <1>9 DEF UnlockBook, bookVars, exchangeVars
  <2>2. AllFree'
    BY <1>9, <1>t, <1>f DEF UnlockBook, Free, AllFree, Only
  <2>3. Nonce # 0 /\ Cache = <<>> /\ 0 < pos /\ Nonce >= u(pos)
    BY <1>f, <2>1 DEF LockedPlaces
  <2>4. Synced'
    BY <1>f, <2>1, <2>2, <2>3 DEF Synced, Handled, u
  <2> QED BY <2>4 DEF Ordered
<1>10. ~FetchOk(r) /\ ~FetchFail(r) /\ ~LockBook(r)
  BY <1>f DEF FetchOk, FetchFail, LockBook, LockedPlaces
<1> QED BY <1>o, <1>1, <1>2, <1>3, <1>4, <1>5, <1>6, <1>7, <1>8, <1>9, <1>10 DEF Next, RefStep

\* A reset that leaves no refresh over starts afresh.
LEMMA Afresh ==
  ASSUME BookTypes, BookLockHeld, overlapped, ~overlapped', [Next]_vars
  PROVE  Fresh'
<1>t. loop \in LoopStates
  BY LoopTyped
<1>1. Reset
  BY DEF Next, vars, LoopStep, RefStep, Emit, Lose, Take, ReadNonce, AppendCache, StoreCache,
     ApplyAsks, ApplyBids, ApplyNonce, FetchOk, FetchFail, LockBook, UpdateHead, UpdateSides,
     Replay, ReplayAsks, ReplayBids, ReplayNonce, UnlockBook
<1>2. loop'.pc = "append" /\ Nonce' = 0 /\ Cache' = <<>> /\ ref' = ref
  BY <1>1, <1>t DEF Reset, LoopStates
<1>3. \A r \in Refreshers : ref[r].pc = "free"
  BY <1>1 DEF Reset
<1> QED BY <1>2, <1>3 DEF Fresh, AllFree, Caching

LEMMA OrderKept ==
  ASSUME TrueBook, InHand, InOrder, [Next]_vars
  PROVE  InOrder'
<1> USE DEF TrueBook
<1>1. SUFFICES ASSUME lost' = 0, ~overlapped' PROVE Ordered'
  BY DEF InOrder
<1>2. lost = 0
  <2>1. CASE Lose
    BY <1>1, <2>1 DEF Lose, BookTypes
  <2>2. CASE lost' = lost
    BY <1>1, <2>2
  <2> QED BY <2>1, <2>2 DEF Next, vars, exchangeVars, LoopStep, RefStep, Emit, Take, ReadNonce,
     AppendCache, StoreCache, ApplyAsks, ApplyBids, ApplyNonce, Reset, FetchOk, FetchFail, LockBook,
     UpdateHead, UpdateSides, Replay, ReplayAsks, ReplayBids, ReplayNonce, UnlockBook
<1>3. CASE overlapped
  BY <1>1, <1>3, Afresh DEF Ordered
<1>4. CASE ~overlapped
  BY <1>1, <1>2, <1>4, FromFresh, FromGivenUp, FromSynced, FromWaiting, FromReplaying DEF InOrder, Ordered
<1> QED BY <1>3, <1>4

-------------------------------------------------------------------------------
(* The theorems.                                                           *)

LEMMA StartsTrue == ASSUME Init PROVE KeepsUp
<1> USE DEF Init
<1>1. BookTypes
  <2>1. <<>> \in Seq(Nat) /\ <<>> \in Seq(Known) /\ Len(events) = 0
    OBVIOUS
  <2>2. Free \in RefStates /\ IdleLoop \in LoopStates /\ IdleLoop.pc = "idle"
    BY <2>1 DEF Free, IdleLoop, RefStates, LoopStates, RefPlaces, LoopPlaces
  <2>3. loop \in LoopStates /\ ref \in [Refreshers -> RefStates]
    BY <2>2
  <2>4. /\ loop.pc = "idle" /\ None \in Refreshers \cup {None} /\ side \in [Sides -> Nat]
        /\ contract \in BOOLEAN /\ sid \in Nat \ {0} /\ pos \in 0..Len(events)
    BY <2>1, <2>2
  <2> QED BY <2>1, <2>3, <2>4 DEF BookTypes, LoopStates, RefStates
<1>2. EventsRise
  BY DEF EventsRise, Known
<1>3. loop.pc = "idle" /\ \A r \in Refreshers : ref[r].pc = "free"
  BY DEF IdleLoop, Free
<1>4. BookLockHeld /\ Alone
  BY <1>3, BoundAssumption DEF BookLockHeld, LockedPlaces, Alone
<1>5. LoopTrue /\ SnapTrue
  BY <1>3 DEF LoopTrue, SnapTrue, SnapTrueOf
<1>6. InHand /\ InOrder
  BY <1>3 DEF InHand, InOrder, Ordered, Fresh, AllFree, Caching
<1> QED BY <1>1, <1>2, <1>4, <1>5, <1>6 DEF KeepsUp, TrueBook

LEMMA StaysTrue == ASSUME KeepsUp, [Next]_vars PROVE KeepsUp'
<1> USE DEF KeepsUp, TrueBook
<1>1. TrueBook'
  BY TypesKept, EventsKept, LockKept, AloneKept, LoopKept, SnapKept
<1> QED BY <1>1, InHandKept, OrderKept

\* What the invariant says of the book when nobody is in the middle of it.
LEMMA KeepsUpMeans == ASSUME KeepsUp PROVE BookMatchesServer /\ CaughtUp
<1> USE DEF KeepsUp, TrueBook
<1>1. BookMatchesServer
  BY DEF BookMatchesServer, Settled, LoopTrue, BookAt
<1>2. CaughtUp
  <2>1. SUFFICES ASSUME loop.pc = "idle", ~failed, ~overlapped, pos > 0, AllFree, ~(lost > 0)
                 PROVE  Nonce >= u(pos)
    BY DEF CaughtUp, AllFree
  <2>2. lost = 0 /\ Ordered
    BY <2>1 DEF InOrder, BookTypes
  <2>3. ~Fresh /\ ~GivenUp
    BY <2>1 DEF Fresh, GivenUp
  <2>4. \A r \in Refreshers : ~Waiting(r) /\ ~Replaying(r)
    BY <2>1 DEF AllFree, Waiting, Replaying, BookLockHeld, LockedPlaces
  <2>5. Synced
    BY <2>2, <2>3, <2>4 DEF Ordered
  <2> QED BY <2>1, <2>5 DEF Synced, Handled
<1> QED BY <1>1, <1>2

LEMMA BookAlways == FeedsSpec => []KeepsUp
<1>1. FeedsInit => KeepsUp
  BY StartsTrue DEF FeedsInit
<1>2. KeepsUp /\ [FeedsNext]_<<vars, depthVars, watchVars>> => KeepsUp'
  <2>1. [FeedsNext]_<<vars, depthVars, watchVars>> => [Next]_vars
    BY DEF FeedsNext
  <2> QED BY <2>1, StaysTrue
<1> QED BY <1>1, <1>2, PTL DEF FeedsSpec

\* Whatever order events, losses, resets and snapshots come in, a book of binance
\* with a nonce is the exchange's book at that nonce.
THEOREM BookIsTheServers == FeedsSpec => []BookMatchesServer
BY BookAlways, KeepsUpMeans, PTL

\* With nothing in hand and no refresh under way the book is at the last event
\* that was handled, or later.
THEOREM BookKeepsUp == FeedsSpec => []CaughtUp
BY BookAlways, KeepsUpMeans, PTL
-------------------------------------------------------------------------------
(* The streams: what is subscribed is what is wanted.                      *)

\* What the application has, or has subscribed and is about to have.
Asked == UNION {W(p) : p \in {q \in Callers : call[q].pc \in {"algo", "open"}}}
Had   == held \cup Asked

PublicKinds  == {"books", "trades", "candles", "mark"}
AccountKinds == {"balance", "config", "positions", "mytrades"}

\* The environment of a behaviour, and the forms of call and limits.
WatchForms ==
  /\ wexg \in {"okx", "bybit", "bitget", "binance"} /\ mkt \in {"linear", "spot", "option"}
  /\ creds \in BOOLEAN
  /\ call = [p \in Callers |-> [pc |-> call[p].pc, ws |-> call[p].ws]]
  /\ limits = [i \in Insts |-> limits[i]]

\* The wishes of one call: of one kind, with one argument, on one client.
OneKind(ws) ==
  /\ \A v, w \in ws : v[1] = w[1] /\ v[3] = w[3] /\ StreamOf(v).client = StreamOf(w).client
  /\ \A w \in ws : w[1] = "books" => w[2] \in Insts /\ wexg # "bitget"
  /\ ws \subseteq AccountWishes \/ ws \cap AccountWishes = {}

CallsSound ==
  /\ \A p \in Callers : /\ OneKind(W(p))
                        /\ call[p].pc = "idle" => W(p) = {}
                        /\ call[p].pc = "algo" => wexg = "okx"
  /\ \A p, q \in Callers : p # q => \A v \in W(p), w \in W(q) : ~(v[1] = w[1] /\ v[2] = w[2])

\* What waits behind the login of a reconnection is of a client that logs in; on
\* okx and bybit nobody gives up its keys meanwhile.
LoginsSound ==
  /\ \A c \in relog : LogsIn(c)
  /\ \A x \in queue : LogsIn(x[1])
  /\ \A x \in back : LogsIn(x[1])
  /\ relog # {} \/ queue # {} \/ back # {} => creds
  /\ wexg \in {"okx", "bybit"} => back \subseteq keys

\* The order books there are; bybit remembers the depth of each.
DepthsKnown ==
  \A w \in Had : w[1] = "books" =>
    /\ w[2] \in Insts /\ wexg # "bitget"
    /\ wexg = "bybit" => limits[w[2]] = Bybit!Depth(mkt, w[3])

\* A key or a topic of a client comes from a wish.
KeyFrom(w, x)   == \E k \in KeysOf(w) : x = <<StreamOf(w).client, k>>
TopicFrom(w, x) == x = <<StreamOf(w).client, StreamOf(w).topic>>
RefFrom(w, r)   == r = <<<<StreamOf(w).client, StreamOf(w).chan>>, StreamOf(w).ref>>

KeysSound ==
  \A x \in keys : /\ x = <<x[1], x[2]>>
                  /\ \/ \E w \in Had : KeyFrom(w, x)
                     \/ wexg = "okx" /\ x[2][1][1] = "orders-algo"
                     \/ x \in loose

LooseSound ==
  \A x \in loose : CASE wexg = "okx"     -> x[2][1][1] = "books5"
                     [] wexg = "binance" -> x[2][2] = "depth"
                     [] wexg = "bitget"  -> x[1][1] = "mix"
                     [] wexg = "bybit"   -> FALSE

BybitSound ==
  wexg = "bybit" => /\ \A x \in sends \cup queue : \E w \in Had : TopicFrom(w, x)
                    /\ \A r \in refs : \E w \in Had : RefFrom(w, r)

\* What holds of a behaviour that watches streams, and of every behaviour.
WatchSound ==
  /\ WatchForms /\ CallsSound /\ LoginsSound /\ DepthsKnown
  /\ KeysSound /\ LooseSound /\ BybitSound

WatchInv == IF wexg = "none" THEN NoWatch ELSE WatchSound

\* The client of the public data of a kind.
ClientOf(k) ==
  CASE wexg = "okx"     -> IF k = "candles" THEN <<"business", "">> ELSE <<"public", "">>
    [] wexg = "bybit"   -> <<mkt, "">>
    [] wexg = "bitget"  -> IF mkt = "spot" THEN <<"spot", "">> ELSE <<"mix", "">>
    [] wexg = "binance" -> <<mkt, CASE k = "books" -> "depth" [] k = "trades" -> "trade"
                                    [] k = "candles" -> "kline" [] OTHER -> "markPrice", "">>

LEMMA PublicClient ==
  ASSUME WatchForms, NEW w, w[1] \in PublicKinds, w[1] = "books" => wexg # "bitget"
  PROVE  StreamOf(w).client = ClientOf(w[1])
<1>1. CASE wexg = "okx"
  BY <1>1 DEF PublicKinds, StreamOf, ClientOf, Okx!Books, Okx!Trades, Okx!Candles, Okx!Mark,
     Okx!Stream, Okx!Public, Okx!Business
<1>2. CASE wexg = "bybit"
  BY <1>2 DEF PublicKinds, StreamOf, ClientOf, Bybit!Books, Bybit!Trades, Bybit!Candles, Bybit!Mark,
     Bybit!Stream, Bybit!Public
<1>3. CASE wexg = "bitget"
  BY <1>3 DEF PublicKinds, StreamOf, ClientOf, Bitget!Trades, Bitget!Candles, Bitget!Mark,
     Bitget!Stream, Bitget!Client
<1>4. CASE wexg = "binance"
  BY <1>4 DEF PublicKinds, StreamOf, ClientOf, Binance!Books, Binance!Trades, Binance!Candles,
     Binance!Mark, Binance!Public, Binance!Stream, Binance!Client
<1> QED BY <1>1, <1>2, <1>3, <1>4 DEF WatchForms

\* Public data needs no login, but on bitget.
LEMMA PublicNoLogin ==
  ASSUME WatchForms, NEW w, w[1] \in PublicKinds, wexg # "bitget"
  PROVE  ~LogsIn(StreamOf(w).client)
<1>1. StreamOf(w).client = ClientOf(w[1])
  BY PublicClient
<1>2. CASE wexg = "okx"
  <2>1. ClientOf(w[1])[1] \in {"business", "public"}
    BY <1>2 DEF ClientOf
  <2> QED BY <1>1, <1>2, <2>1 DEF LogsIn
<1>3. CASE wexg = "bybit"
  <2>1. ClientOf(w[1])[1] = mkt
    BY <1>3 DEF ClientOf
  <2> QED BY <1>1, <1>3, <2>1 DEF LogsIn, WatchForms
<1>4. CASE wexg = "binance"
  BY <1>4 DEF LogsIn
<1> QED BY <1>2, <1>3, <1>4 DEF WatchForms

LEMMA OfIs ==
  ASSUME NEW k, NEW S, NEW A, NEW w \in Of(k, S, A)
  PROVE  \E i \in S, a \in A : w = <<k, i, a>>
BY DEF Of

\* The kinds of the wishes.
LEMMA KindOf ==
  ASSUME WatchForms
  PROVE  /\ \A w \in PublicWishes : w[1] \in PublicKinds /\ w[2] \in Insts /\ w = <<w[1], w[2], w[3]>>
         /\ \A w \in PublicWishes : w[1] = "books" => wexg # "bitget"
         /\ \A w \in AccountWishes : w[1] \in AccountKinds /\ w = <<w[1], w[2], w[3]>>
<1>1. ASSUME NEW w \in PublicWishes
      PROVE  w[1] \in PublicKinds /\ w[2] \in Insts /\ w = <<w[1], w[2], w[3]>>
  <2>1. ASSUME NEW k \in PublicKinds, NEW A, w \in Of(k, Insts, A)
        PROVE  w[1] \in PublicKinds /\ w[2] \in Insts /\ w = <<w[1], w[2], w[3]>>
    <3>1. PICK i \in Insts, a \in A : w = <<k, i, a>>
      BY <2>1, OfIs
    <3> QED BY <3>1
  <2>2. "trades" \in PublicKinds /\ "candles" \in PublicKinds /\ "books" \in PublicKinds
        /\ "mark" \in PublicKinds
    BY DEF PublicKinds
  <2>3. \/ w \in Of("trades", Insts, {""}) \/ w \in Of("candles", Insts, Frames)
        \/ w \in Of("books", Insts, Limits) \/ w \in Of("mark", Insts, {""})
    BY DEF PublicWishes
  <2> QED BY <2>1, <2>2, <2>3
<1>2. \A w \in PublicWishes : w[1] = "books" => wexg # "bitget"
  BY DEF PublicWishes, Of
<1>3. ASSUME NEW w \in AccountWishes
      PROVE  w[1] \in AccountKinds /\ w = <<w[1], w[2], w[3]>>
  <2>1. ASSUME NEW k \in AccountKinds, NEW S, NEW A, w \in Of(k, S, A)
        PROVE  w[1] \in AccountKinds /\ w = <<w[1], w[2], w[3]>>
    <3>1. PICK i \in S, a \in A : w = <<k, i, a>>
      BY <2>1, OfIs
    <3> QED BY <3>1
  <2>2. "balance" \in AccountKinds /\ "config" \in AccountKinds /\ "positions" \in AccountKinds
        /\ "mytrades" \in AccountKinds
    BY DEF AccountKinds
  <2>3. \E A : \/ w \in Of("balance", Accs, A) \/ w \in Of("config", Accs, A)
               \/ w \in Of("positions", Accs, A) \/ w \in Of("mytrades", Accs, A)
    BY DEF AccountWishes, WatchForms
  <2> QED BY <2>1, <2>2, <2>3
<1> QED BY <1>1, <1>2, <1>3

\* An instrument of the same kind with the same argument is public as well.
LEMMA CallOneKind ==
  ASSUME WatchForms, NEW ws \in Calls
  PROVE  OneKind(ws)
<1>1. ASSUME NEW w \in PublicWishes, NEW is \in SUBSET Insts \ {{}}, ws = {<<w[1], i, w[3]>> : i \in is}
      PROVE  OneKind(ws)
  <2>1. w[1] \in PublicKinds /\ (w[1] = "books" => wexg # "bitget")
    BY KindOf
  <2>2. \A v \in ws : v[1] = w[1] /\ v[3] = w[3] /\ v[2] \in Insts
    BY <1>1
  <2>3. \A v \in ws : StreamOf(v).client = ClientOf(w[1])
    BY <2>1, <2>2, PublicClient
  <2>4. ws \cap AccountWishes = {}
    BY <2>1, <2>2, KindOf DEF PublicKinds, AccountKinds
  <2> QED BY <2>1, <2>2, <2>3, <2>4 DEF OneKind
<1>2. ASSUME NEW w \in AccountWishes, ws = {w} PROVE OneKind(ws)
  <2>1. w[1] # "books"
    BY KindOf DEF AccountKinds
  <2> QED BY <1>2, <2>1 DEF OneKind
<1>3. CASE \E w \in PublicWishes, is \in SUBSET Insts \ {{}} : ws = {<<w[1], i, w[3]>> : i \in is}
  BY <1>1, <1>3
<1>4. CASE \E w \in AccountWishes : ws = {w}
  BY <1>2, <1>4
<1> QED BY <1>3, <1>4 DEF Calls

\* What a call wishes for when it has been given a limit.
LEMMA LimitedOneKind ==
  ASSUME WatchForms, wexg = "binance", NEW ws \in Calls, \E w \in ws : w[1] = "books", NEW l
  PROVE  OneKind({<<w[1], w[2], l>> : w \in ws})
<1> DEFINE new == {<<w[1], w[2], l>> : w \in ws}
<1>1. \A w \in ws : w[1] = "books" /\ w[2] \in Insts
  BY CallOneKind DEF OneKind
<1>2. \A w \in new : w[1] = "books" /\ w[2] \in Insts /\ w[3] = l
  BY <1>1
<1>3. \A w \in new : StreamOf(w).client = ClientOf("books")
  BY <1>2, PublicClient DEF PublicKinds
<1>4. new \cap AccountWishes = {}
  BY <1>2, KindOf DEF AccountKinds
<1> SUFFICES OneKind(new)
  OBVIOUS
<1> HIDE DEF new
<1> QED BY <1>2, <1>3, <1>4 DEF OneKind

\* The environment stays, and with it what a wish stands for.
LEMMA EnvSame ==
  ASSUME UNCHANGED env
  PROVE  /\ wexg' = wexg /\ mkt' = mkt /\ creds' = creds
         /\ AccountWishes' = AccountWishes
         /\ \A w : StreamOf(w)' = StreamOf(w)
         /\ \A w : KeysOf(w)' = KeysOf(w)
         /\ \A c : LogsIn(c)' = LogsIn(c)
         /\ \A w, x : KeyFrom(w, x)' <=> KeyFrom(w, x)
         /\ \A w, x : TopicFrom(w, x)' <=> TopicFrom(w, x)
         /\ \A w, r : RefFrom(w, r)' <=> RefFrom(w, r)
         /\ \A ws : OneKind(ws)' <=> OneKind(ws)
<1>1. wexg' = wexg /\ mkt' = mkt /\ creds' = creds
  BY DEF env
<1>2. AccountWishes' = AccountWishes
  BY <1>1 DEF AccountWishes
<1>3. \A w : StreamOf(w)' = StreamOf(w)
  BY <1>1 DEF StreamOf
<1>4. \A t : KeyOf(t)' = KeyOf(t)
  BY <1>1 DEF KeyOf
<1>5. \A w : KeysOf(w)' = KeysOf(w)
  BY <1>1, <1>2, <1>3, <1>4 DEF KeysOf
<1>6. \A c : LogsIn(c)' = LogsIn(c)
  BY <1>1 DEF LogsIn
<1>7. \A w, x : KeyFrom(w, x)' <=> KeyFrom(w, x)
  BY <1>3, <1>5 DEF KeyFrom
<1>8. \A w, x : TopicFrom(w, x)' <=> TopicFrom(w, x)
  BY <1>3 DEF TopicFrom
<1>9. \A w, r : RefFrom(w, r)' <=> RefFrom(w, r)
  BY <1>3 DEF RefFrom
<1>10. \A ws : OneKind(ws)' <=> OneKind(ws)
  BY <1>1, <1>2, <1>3 DEF OneKind
<1> QED BY <1>1, <1>2, <1>3, <1>5, <1>6, <1>7, <1>8, <1>9, <1>10

\* The first part of an okx key is the channel of its topic.
LEMMA OkxKey ==
  ASSUME NEW t
  PROVE  Okx!KeyOf(t)[1][1] = t[1]
BY DEF Okx!KeyOf

\* A key of a wish is that of its topic.
LEMMA KeyOfTopic ==
  ASSUME NEW w, NEW k \in KeysOf(w)
  PROVE  k = KeyOf(StreamOf(w).topic)
BY DEF KeysOf

LEMMA TopicIsKey ==
  ASSUME NEW w, wexg # "binance" \/ w \notin AccountWishes
  PROVE  KeysOf(w) = {KeyOf(StreamOf(w).topic)}
BY DEF KeysOf

\* The order books of bybit.
LEMMA BybitBook ==
  ASSUME wexg = "bybit", NEW w, w[1] = "books"
  PROVE  /\ StreamOf(w).client = ClientOf("books") /\ StreamOf(w).chan = "orderbook"
         /\ StreamOf(w).ref = <<w[2]>>
         /\ StreamOf(w).topic = Bybit!BookTopic(Bybit!Depth(mkt, w[3]), w[2])
         /\ KeysOf(w) = {Bybit!BookTopic(Bybit!Depth(mkt, w[3]), w[2])}
<1>1. StreamOf(w) = Bybit!Books(mkt, w[2], w[3])
  BY DEF StreamOf
<1>2. /\ StreamOf(w).client = ClientOf("books") /\ StreamOf(w).chan = "orderbook"
      /\ StreamOf(w).ref = <<w[2]>>
      /\ StreamOf(w).topic = Bybit!BookTopic(Bybit!Depth(mkt, w[3]), w[2])
  <2>1. StreamOf(w) = [client |-> <<mkt, "">>, topic |-> Bybit!BookTopic(Bybit!Depth(mkt, w[3]), w[2]),
                       chan |-> "orderbook", ref |-> <<w[2]>>]
    BY <1>1 DEF Bybit!Books, Bybit!Stream, Bybit!Public
  <2>2. ClientOf("books") = <<mkt, "">>
    BY DEF ClientOf
  <2>3. PICK t : t = Bybit!BookTopic(Bybit!Depth(mkt, w[3]), w[2])
    OBVIOUS
  <2>4. StreamOf(w) = [client |-> ClientOf("books"), topic |-> t, chan |-> "orderbook", ref |-> <<w[2]>>]
    BY <2>1, <2>2, <2>3
  <2>5. /\ StreamOf(w).client = ClientOf("books") /\ StreamOf(w).chan = "orderbook"
        /\ StreamOf(w).ref = <<w[2]>> /\ StreamOf(w).topic = t
    BY ONLY <2>4
  <2> QED BY <2>3, <2>5
<1> QED BY <1>2 DEF KeysOf, KeyOf

LEMMA DepthIsOne ==
  ASSUME NEW l
  PROVE  Bybit!Depth(mkt, l) # 0
BY DEF Bybit!Depth

-------------------------------------------------------------------------------
(* The calls.                                                              *)

\* What an action does to the calls when it takes one to another step, or ends it.
Moves(p, l)  == /\ \A q \in Callers : W(q)' = W(q)
                /\ \A q \in Callers : call'[q].pc = IF q = p THEN l ELSE call[q].pc
                /\ call' = [q \in Callers |-> [pc |-> call'[q].pc, ws |-> call'[q].ws]]
Returns(p) == /\ \A q \in Callers : W(q)' = IF q = p THEN {} ELSE W(q)
              /\ \A q \in Callers : call'[q].pc = IF q = p THEN "idle" ELSE call[q].pc
              /\ call' = [q \in Callers |-> [pc |-> call'[q].pc, ws |-> call'[q].ws]]

LEMMA GotoMoves ==
  ASSUME WatchForms, NEW p \in Callers, NEW l, Goto(p, l)
  PROVE  Moves(p, l)
<1> PICK cl : cl = call
  OBVIOUS
<1>1. call = [q \in Callers |-> [pc |-> call[q].pc, ws |-> call[q].ws]]
  BY DEF WatchForms
<1>2. call' = [q \in Callers |-> [pc |-> IF q = p THEN l ELSE call[q].pc, ws |-> call[q].ws]]
  BY <1>1 DEF Goto
<1> QED BY <1>2 DEF Moves, W

LEMMA ReturnReturns ==
  ASSUME WatchForms, NEW p \in Callers, Return(p)
  PROVE  Returns(p)
<1>1. call = [q \in Callers |-> [pc |-> call[q].pc, ws |-> call[q].ws]]
  BY DEF WatchForms
<1>2. call' = [q \in Callers |-> [pc |-> IF q = p THEN "idle" ELSE call[q].pc,
                                  ws |-> IF q = p THEN {} ELSE call[q].ws]]
  BY <1>1 DEF Return
<1> QED BY <1>2 DEF Returns, W

LEMMA OneKindNext ==
  ASSUME UNCHANGED env, NEW p \in Callers, OneKind(W(p)')
  PROVE  OneKind(W(p))'
<1> PICK ws : ws = W(p)'
  OBVIOUS
<1>1. OneKind(ws)
  OBVIOUS
<1>2. OneKind(ws)'
  BY <1>1, EnvSame
<1>3. ws = W(p)'
  OBVIOUS
<1> QED BY ONLY <1>2, <1>3 DEF OneKind

\* A call that goes on keeps its wishes; only okx has the step of the algo orders.
LEMMA MovesKeeps ==
  ASSUME UNCHANGED env, CallsSound, NEW p \in Callers, NEW l, Moves(p, l),
         l # "idle", l = "algo" => wexg = "okx"
  PROVE  CallsSound'
<1>1. /\ wexg' = wexg /\ \A ws : OneKind(ws)' <=> OneKind(ws)
  BY EnvSame
<1>2. \A q \in Callers : W(q)' = W(q)
  BY DEF Moves
<1>3. \A q \in Callers : call'[q].pc = IF q = p THEN l ELSE call[q].pc
  BY DEF Moves
<1>4. \A q \in Callers : OneKind(W(q))'
  BY <1>1, <1>2, OneKindNext DEF CallsSound
<1>5. \A q \in Callers : /\ (call[q].pc = "idle")' => W(q)' = {}
                         /\ (call[q].pc = "algo")' => wexg' = "okx"
  BY <1>1, <1>2, <1>3 DEF CallsSound
<1>6. \A q, r \in Callers : q # r => \A v \in W(q)', w \in W(r)' : ~(v[1] = w[1] /\ v[2] = w[2])
  BY <1>2 DEF CallsSound
<1> QED BY <1>4, <1>5, <1>6 DEF CallsSound

LEMMA NothingIsOneKind == OneKind({})
BY DEF OneKind

LEMMA ReturnsKeeps ==
  ASSUME UNCHANGED env, CallsSound, NEW p \in Callers, Returns(p)
  PROVE  CallsSound'
<1>1. /\ wexg' = wexg /\ \A ws : OneKind(ws)' <=> OneKind(ws)
  BY EnvSame
<1>2. \A q \in Callers : W(q)' = IF q = p THEN {} ELSE W(q)
  BY DEF Returns
<1>3. \A q \in Callers : call'[q].pc = IF q = p THEN "idle" ELSE call[q].pc
  BY DEF Returns
<1>4. \A q \in Callers : OneKind(W(q))'
  BY <1>1, <1>2, NothingIsOneKind, OneKindNext DEF CallsSound
<1>5. \A q \in Callers : /\ (call[q].pc = "idle")' => W(q)' = {}
                         /\ (call[q].pc = "algo")' => wexg' = "okx"
  BY <1>1, <1>2, <1>3 DEF CallsSound
<1>6. \A q, r \in Callers : q # r => \A v \in W(q)', w \in W(r)' : ~(v[1] = w[1] /\ v[2] = w[2])
  BY <1>2 DEF CallsSound
<1> QED BY <1>4, <1>5, <1>6 DEF CallsSound

\* Calls that nobody touches.
LEMMA CallsRest ==
  ASSUME UNCHANGED <<env, call>>, CallsSound
  PROVE  CallsSound' /\ Asked' = Asked /\ \A p \in Callers : W(p)' = W(p)
<1>1. /\ wexg' = wexg /\ \A ws : OneKind(ws)' <=> OneKind(ws)
  BY EnvSame
<1>2. \A q \in Callers : W(q)' = W(q)
  BY DEF W
<1>3. \A q \in Callers : OneKind(W(q))'
  BY <1>1, <1>2, OneKindNext DEF CallsSound
<1>4. Asked' = Asked
  BY DEF Asked, W
<1> QED BY <1>1, <1>2, <1>3, <1>4 DEF CallsSound

\* What is asked for while calls move and return.
LEMMA AskedBy ==
  ASSUME NEW w
  PROVE  w \in Asked <=> \E q \in Callers : call[q].pc \in {"algo", "open"} /\ w \in W(q)
BY DEF Asked

-------------------------------------------------------------------------------
(* What keeps the parts of the invariant.                                  *)

LEMMA FormsKept ==
  ASSUME WatchForms, UNCHANGED env,
         call' = [q \in Callers |-> [pc |-> call'[q].pc, ws |-> call'[q].ws]],
         limits' = [i \in Insts |-> limits'[i]]
  PROVE  WatchForms'
BY EnvSame DEF WatchForms

LEMMA LoginsKept ==
  ASSUME LoginsSound, UNCHANGED env, UNCHANGED <<relog, back, queue>>,
         wexg \in {"okx", "bybit"} => back \subseteq keys'
  PROVE  LoginsSound'
BY EnvSame DEF LoginsSound

LEMMA DepthsKept ==
  ASSUME DepthsKnown, UNCHANGED env, UNCHANGED limits, Had' \subseteq Had
  PROVE  DepthsKnown'
BY EnvSame DEF DepthsKnown

LEMMA KeysKept ==
  ASSUME KeysSound, UNCHANGED env, Had \subseteq Had', keys' \subseteq keys, loose \subseteq loose'
  PROVE  KeysSound'
BY EnvSame DEF KeysSound

LEMMA LooseKept ==
  ASSUME LooseSound, UNCHANGED env, loose' \subseteq loose
  PROVE  LooseSound'
BY EnvSame DEF LooseSound

LEMMA BybitKept ==
  ASSUME BybitSound, UNCHANGED env, Had \subseteq Had', sends' \subseteq sends,
         queue' \subseteq queue, refs' \subseteq refs
  PROVE  BybitSound'
BY EnvSame DEF BybitSound

-------------------------------------------------------------------------------
(* The Watch calls.                                                        *)

\* What a call that begins wishes for.
LEMMA CallWishes ==
  ASSUME WatchForms, NEW p, NEW ws \in Calls, Call(p, ws)
  PROVE  \E st \in {"login", "sub"} : \E new :
           /\ call' = [call EXCEPT ![p] = [pc |-> st, ws |-> new]]
           /\ OneKind(new)
           /\ \A w \in new : \E v \in ws : v[1] = w[1] /\ v[2] = w[2]
<1>1. PICK l :
        /\ call' = [call EXCEPT ![p] =
             [pc |-> IF ws \subseteq AccountWishes THEN "login" ELSE "sub",
              ws |-> IF l = 0 THEN ws ELSE {<<w[1], w[2], l>> : w \in ws}]]
        /\ l # 0 => wexg = "binance" /\ \E w \in ws : w[1] = "books"
  <2>1. CASE wexg = "binance" /\ \E w \in ws : w[1] = "books"
    <3>1. PICK S : S = LET w == CHOOSE w \in ws : TRUE
                       IN  Binance!LimitOf(w[3], {limits[v[2]] : v \in ws} \ {0})
      OBVIOUS
    <3>2. PICK l \in S : call' = [call EXCEPT ![p] =
             [pc |-> IF ws \subseteq AccountWishes THEN "login" ELSE "sub",
              ws |-> IF l = 0 THEN ws ELSE {<<w[1], w[2], l>> : w \in ws}]]
      BY <2>1, <3>1 DEF Call
    <3> QED BY <2>1, <3>2
  <2>2. CASE ~(wexg = "binance" /\ \E w \in ws : w[1] = "books")
    BY <2>2 DEF Call
  <2> QED BY <2>1, <2>2
<1>2. CASE l = 0
  BY <1>1, <1>2, CallOneKind
<1>3. CASE l # 0
  <2> DEFINE new == {<<w[1], w[2], l>> : w \in ws}
  <2>1. OneKind(new)
    BY <1>1, <1>3, LimitedOneKind
  <2>2. \A w \in new : \E v \in ws : v[1] = w[1] /\ v[2] = w[2]
    OBVIOUS
  <2>3. call' = [call EXCEPT ![p] =
          [pc |-> IF ws \subseteq AccountWishes THEN "login" ELSE "sub", ws |-> new]]
    BY <1>1, <1>3
  <2> HIDE DEF new
  <2> QED BY <2>1, <2>2, <2>3
<1> QED BY <1>2, <1>3

LEMMA CallKeeps ==
  ASSUME WatchSound, NEW p \in Callers, NEW ws \in Calls, Call(p, ws)
  PROVE  WatchSound'
<1> USE DEF WatchSound
<1> PICK st \in {"login", "sub"} :
      \E new : /\ call' = [call EXCEPT ![p] = [pc |-> st, ws |-> new]]
               /\ OneKind(new)
               /\ \A w \in new : \E v \in ws : v[1] = w[1] /\ v[2] = w[2]
  BY CallWishes
<1>1. PICK new : /\ call' = [call EXCEPT ![p] = [pc |-> st, ws |-> new]]
                 /\ OneKind(new)
                 /\ \A w \in new : \E v \in ws : v[1] = w[1] /\ v[2] = w[2]
  OBVIOUS
<1>2. /\ UNCHANGED env /\ UNCHANGED <<keys, sends, refs, limits, relog, back, queue, held, loose>>
      /\ call[p].pc = "idle" /\ ~Busy(ws)
  BY DEF Call, auth
<1>3. call = [q \in Callers |-> [pc |-> call[q].pc, ws |-> call[q].ws]]
  BY DEF WatchForms
<1>4. call' = [q \in Callers |-> IF q = p THEN [pc |-> st, ws |-> new] ELSE call[q]]
  BY <1>1, <1>3
<1>5. /\ \A q \in Callers : W(q)' = IF q = p THEN new ELSE W(q)
      /\ \A q \in Callers : call'[q].pc = IF q = p THEN st ELSE call[q].pc
      /\ call' = [q \in Callers |-> [pc |-> call'[q].pc, ws |-> call'[q].ws]]
  BY <1>3, <1>4 DEF W
<1>6. Had' = Had
  <2>1. \A w : w \in Asked' <=> w \in Asked
    BY <1>2, <1>5 DEF Asked
  <2> QED BY <2>1, <1>2 DEF Had, Asked
<1>7. CallsSound'
  <2>1. /\ wexg' = wexg /\ \A s : OneKind(s)' <=> OneKind(s)
    BY <1>2, EnvSame
  <2>2. \A q \in Callers : OneKind(W(q))'
    BY <1>1, <1>2, <1>5, OneKindNext DEF CallsSound
  <2>3. \A q \in Callers : /\ (call[q].pc = "idle")' => W(q)' = {}
                           /\ (call[q].pc = "algo")' => wexg' = "okx"
    BY <2>1, <1>5 DEF CallsSound
  <2>4. \A q \in Callers : \A v \in W(q), w \in new : ~(v[1] = w[1] /\ v[2] = w[2])
    BY <1>1, <1>2 DEF Busy
  <2>5. \A q, r \in Callers : q # r => \A v \in W(q)', w \in W(r)' : ~(v[1] = w[1] /\ v[2] = w[2])
    BY <2>4, <1>5 DEF CallsSound
  <2> QED BY <2>2, <2>3, <2>5 DEF CallsSound
<1>8. WatchForms'
  BY <1>2, <1>5, FormsKept DEF WatchForms
<1> QED BY <1>2, <1>6, <1>7, <1>8, LoginsKept, DepthsKept, KeysKept, LooseKept, BybitKept
        DEF LoginsSound

LEMMA LoginKeeps ==
  ASSUME WatchSound, NEW p \in Callers, Login(p)
  PROVE  WatchSound'
<1> USE DEF WatchSound
<1>1. /\ UNCHANGED env /\ UNCHANGED <<keys, sends, refs, limits, relog, back, queue, held, loose>>
      /\ call[p].pc = "login"
  BY DEF Login
<1>2. Return(p) \/ Goto(p, "sub")
  BY DEF Login
<1>3. Returns(p) \/ Moves(p, "sub")
  BY <1>2, GotoMoves, ReturnReturns
<1>4. CallsSound'
  BY <1>1, <1>3, MovesKeeps, ReturnsKeeps
<1>5. Had' = Had
  <2>1. \A w : w \in Asked' <=> w \in Asked
    BY <1>1, <1>3 DEF Asked, Returns, Moves
  <2> QED BY <2>1, <1>1 DEF Had, Asked
<1>6. WatchForms'
  BY <1>1, <1>3, FormsKept DEF WatchForms, Returns, Moves
<1> QED BY <1>1, <1>4, <1>5, <1>6, LoginsKept, DepthsKept, KeysKept, LooseKept, BybitKept
        DEF LoginsSound

LEMMA AlgoTopic ==
  ASSUME NEW a, NEW i
  PROVE  Okx!AlgoOrders(a, i).topic[1] = "orders-algo"
<1>1. Okx!AlgoOrders(a, i).topic = <<"orders-algo", "", "SWAP", i>>
  BY DEF Okx!AlgoOrders, Okx!Stream, Okx!Topic
<1>2. <<"orders-algo", "", "SWAP", i>>[1] = "orders-algo"
  OBVIOUS
<1> QED BY <1>1, <1>2

LEMMA AskAlgoKeeps ==
  ASSUME WatchSound, NEW p \in Callers, AskAlgo(p)
  PROVE  WatchSound'
<1> USE DEF WatchSound
<1>1. /\ UNCHANGED env /\ UNCHANGED <<refs, limits, relog, back, queue, held, loose>>
      /\ call[p].pc = "algo" /\ Goto(p, "open") /\ wexg = "okx"
  BY DEF AskAlgo, CallsSound
<1>2. PICK s, c : keys' = keys \cup Pairs(c, {KeyOf(s.topic)}) /\ \E w : s = Okx!AlgoOrders(w[2], w[3])
  BY DEF AskAlgo
<1>3. Moves(p, "open")
  BY <1>1, GotoMoves
<1>4. CallsSound'
  BY <1>1, <1>3, MovesKeeps
<1>5. Had' = Had
  <2>1. \A w : w \in Asked' <=> w \in Asked
    BY <1>1, <1>3 DEF Asked, Moves
  <2> QED BY <2>1, <1>1 DEF Had, Asked
<1>6. WatchForms'
  BY <1>1, <1>3, FormsKept DEF WatchForms, Moves
<1>7. KeysSound'
  <2>1. s.topic[1] = "orders-algo"
    <3>1. PICK w : s = Okx!AlgoOrders(w[2], w[3])
      BY <1>2
    <3> QED BY <3>1, AlgoTopic
  <2>2. KeyOf(s.topic)[1][1] = "orders-algo"
    BY <2>1, <1>1, OkxKey DEF KeyOf
  <2>3. \A x \in keys' : x \in keys \/ (x = <<x[1], x[2]>> /\ x[2][1][1] = "orders-algo")
    BY <1>2, <2>2 DEF Pairs
  <2> QED BY <2>3, <1>1, <1>5, EnvSame DEF KeysSound
<1>8. BybitSound'
  BY <1>1, EnvSame DEF BybitSound
<1> QED BY <1>1, <1>2, <1>4, <1>5, <1>6, <1>7, <1>8, LoginsKept, DepthsKept, LooseKept
        DEF LoginsSound

LEMMA OpenKeeps ==
  ASSUME WatchSound, NEW p \in Callers, Open(p)
  PROVE  WatchSound'
<1> USE DEF WatchSound
<1>1. /\ UNCHANGED env /\ UNCHANGED <<keys, sends, limits, relog, back, queue, loose>>
      /\ call[p].pc = "open" /\ Return(p) /\ held' = held \cup W(p)
      /\ refs' = refs \cup {LET s == StreamOf(w) IN <<<<s.client, s.chan>>, s.ref>> : w \in W(p)}
  BY DEF Open, auth
<1>2. Returns(p)
  BY <1>1, ReturnReturns
<1>3. CallsSound'
  BY <1>1, <1>2, ReturnsKeeps
<1>4. Had' = Had
  <2>1. \A w : w \in Asked' \cup W(p) <=> w \in Asked
    BY <1>1, <1>2 DEF Asked, Returns
  <2> QED BY <2>1, <1>1 DEF Had
<1>5. WatchForms'
  BY <1>1, <1>2, FormsKept DEF WatchForms, Returns
<1>6. BybitSound'
  <2>1. W(p) \subseteq Had
    BY <1>1 DEF Had, Asked
  <2>2. \A r \in refs' : r \in refs \/ \E w \in Had : RefFrom(w, r)
    BY <1>1, <2>1 DEF RefFrom
  <2> QED BY <2>2, <1>1, <1>4, EnvSame DEF BybitSound
<1> QED BY <1>1, <1>3, <1>4, <1>5, <1>6, LoginsKept, DepthsKept, KeysKept, LooseKept
        DEF LoginsSound

\* The client of a call is that of each of its wishes.
LEMMA ClientOfCall ==
  ASSUME NEW p \in Callers, OneKind(W(p)), NEW w \in W(p)
  PROVE  Client(p) = StreamOf(w).client
<1> PICK v : v = CHOOSE a \in W(p) : TRUE
  OBVIOUS
<1>1. v \in W(p)
  OBVIOUS
<1>2. Client(p) = StreamOf(v).client
  BY DEF Client
<1> QED BY <1>1, <1>2 DEF OneKind

\* An order book of bybit that the call asks for in another depth.
Taken(p, v) == wexg = "bybit" /\ v[1] = "books" /\ \E w \in W(p) : v[1] = w[1] /\ v[2] = w[2]

Gone(p) == IF wexg # "bybit" THEN {}
           ELSE UNION {Bybit!OldBook(mkt, w[2], w[3], limits[w[2]])
                       : w \in {v \in W(p) : v[1] = "books"}}

\* Its topic is given up or the same.
LEMMA TakenGoes ==
  ASSUME WatchForms, CallsSound, DepthsKnown, NEW p \in Callers, NEW v \in held, Taken(p, v)
  PROVE  \E w \in W(p) :
           /\ w[1] = "books" /\ v[2] = w[2]
           /\ StreamOf(v).client = Client(p) /\ ~LogsIn(Client(p))
           /\ StreamOf(w).chan = StreamOf(v).chan /\ StreamOf(w).ref = StreamOf(v).ref
           /\ StreamOf(v).topic \in Gone(p) \cup {StreamOf(w).topic}
           /\ KeysOf(v) = {StreamOf(v).topic}
<1>1. PICK w \in W(p) : v[1] = w[1] /\ v[2] = w[2] /\ w[1] = "books" /\ wexg = "bybit"
  BY DEF Taken
<1>2. Client(p) = StreamOf(w).client
  BY ClientOfCall DEF CallsSound
<1>3. /\ StreamOf(v).client = ClientOf("books") /\ StreamOf(v).chan = "orderbook"
      /\ StreamOf(v).ref = <<v[2]>>
      /\ StreamOf(v).topic = Bybit!BookTopic(Bybit!Depth(mkt, v[3]), v[2])
      /\ KeysOf(v) = {Bybit!BookTopic(Bybit!Depth(mkt, v[3]), v[2])}
  BY <1>1, BybitBook
<1>4. /\ StreamOf(w).client = ClientOf("books") /\ StreamOf(w).chan = "orderbook"
      /\ StreamOf(w).ref = <<w[2]>>
      /\ StreamOf(w).topic = Bybit!BookTopic(Bybit!Depth(mkt, w[3]), w[2])
  BY <1>1, BybitBook
<1>5. ~LogsIn(StreamOf(w).client)
  BY <1>1, PublicNoLogin DEF PublicKinds
<1>6. limits[v[2]] = Bybit!Depth(mkt, v[3])
  BY <1>1 DEF DepthsKnown, Had
<1>7. CASE Bybit!Depth(mkt, v[3]) = Bybit!Depth(mkt, w[3])
  BY <1>1, <1>2, <1>3, <1>4, <1>5, <1>7
<1>8. CASE Bybit!Depth(mkt, v[3]) # Bybit!Depth(mkt, w[3])
  <2>1. Bybit!OldBook(mkt, w[2], w[3], limits[w[2]]) = {StreamOf(v).topic}
    BY <1>1, <1>3, <1>6, <1>8, DepthIsOne DEF Bybit!OldBook
  <2>2. StreamOf(v).topic \in Gone(p)
    BY <1>1, <2>1 DEF Gone
  <2> QED BY <1>1, <1>2, <1>3, <1>4, <1>5, <2>2
<1> QED BY <1>7, <1>8

\* What a Watch call gives up is not of a client that logs in.
LEMMA GoneIsPublic ==
  ASSUME WatchForms, CallsSound, NEW p \in Callers, Gone(p) # {}
  PROVE  wexg = "bybit" /\ ~LogsIn(Client(p))
<1>1. wexg = "bybit" /\ \E w \in W(p) : w[1] = "books"
  BY DEF Gone
<1>2. PICK w \in W(p) : w[1] = "books"
  BY <1>1
<1> QED BY <1>1, <1>2, ClientOfCall, PublicNoLogin DEF CallsSound, PublicKinds

LEMMA GrantedFrom ==
  ASSUME NEW c, NEW topics, NEW in
  PROVE  Granted(c, topics, in) \subseteq topics
BY DEF Granted

LEMMA SubscribeKeeps ==
  ASSUME WatchSound, NEW p \in Callers, Subscribe(p)
  PROVE  WatchSound'
<1> USE DEF WatchSound
<1> PICK c : c = Client(p)
  OBVIOUS
<1> PICK gone : gone = Gone(p)
  OBVIOUS
<1>1. /\ UNCHANGED env /\ UNCHANGED <<refs, relog, back, loose>>
      /\ call[p].pc = "sub"
      /\ held' = {v \in held : ~Taken(p, v)}
  BY DEF Subscribe, Taken
<1>2. PICK st \in {"algo", "open"} : Goto(p, st) /\ (st = "algo" => wexg = "okx")
  BY DEF Subscribe
<1>3. \/ wexg = "binance" /\ W(p) \subseteq AccountWishes /\ keys' = keys /\ queue' = queue
      \/ ~(wexg = "binance" /\ W(p) \subseteq AccountWishes) /\ Ask(c, Topics(p), gone)
  BY DEF Subscribe, Gone
<1>4. Moves(p, st)
  BY <1>2, GotoMoves
<1>5. CallsSound'
  BY <1>1, <1>2, <1>4, MovesKeeps
<1>6. \A w : w \in Asked' <=> w \in Asked \/ w \in W(p)
  BY <1>1, <1>2, <1>4 DEF Asked, Moves
<1>7. \A v \in Had : v \in Had' \/ (v \in held /\ Taken(p, v))
  BY <1>1, <1>6 DEF Had
<1>8. W(p) \subseteq Had'
  BY <1>6 DEF Had
<1>9. OneKind(W(p)) /\ \A w \in W(p) : StreamOf(w).client = c
  BY ClientOfCall DEF CallsSound
<1>10. \A w \in W(p) : ~(wexg = "binance" /\ W(p) \subseteq AccountWishes)
                          => KeysOf(w) = {KeyOf(StreamOf(w).topic)}
  BY <1>9, TopicIsKey DEF OneKind
<1>11. \A x \in keys' : \/ x \in keys /\ ~(x \in Pairs(c, gone))
                        \/ \E w \in W(p) : KeyFrom(w, x)
  <2>1. CASE keys' = keys /\ wexg = "binance"
    BY <2>1 DEF Gone, Pairs
  <2>2. CASE ~(wexg = "binance" /\ W(p) \subseteq AccountWishes) /\ Ask(c, Topics(p), gone)
    <3>1. ASSUME NEW x \in Pairs(c, {KeyOf(t) : t \in Topics(p)})
          PROVE  \E w \in W(p) : KeyFrom(w, x)
      <4>1. PICK w \in W(p) : x = <<c, KeyOf(StreamOf(w).topic)>>
        BY DEF Pairs, Topics
      <4> QED BY <4>1, <2>2, <1>9, <1>10 DEF KeyFrom
    <3> QED BY <2>2, <3>1 DEF Ask
  <2> QED BY <1>3, <2>1, <2>2
<1>12. KeysSound'
  <2>1. ASSUME NEW x \in keys, x \notin Pairs(c, gone), NEW v \in held, Taken(p, v), KeyFrom(v, x)
        PROVE  \E w \in W(p) : KeyFrom(w, x)
    <3>1. PICK w \in W(p) : /\ StreamOf(v).client = c /\ KeysOf(v) = {StreamOf(v).topic}
                            /\ StreamOf(v).topic \in gone \cup {StreamOf(w).topic}
      BY <2>1, TakenGoes
    <3>2. x = <<c, StreamOf(v).topic>>
      BY <2>1, <3>1 DEF KeyFrom
    <3>3. StreamOf(v).topic \notin gone
      BY <2>1, <3>2 DEF Pairs
    <3>4. x = <<c, StreamOf(w).topic>> /\ wexg = "bybit"
      BY <2>1, <3>1, <3>2, <3>3 DEF Taken
    <3>5. KeysOf(w) = {StreamOf(w).topic}
      BY <1>10, <3>4 DEF KeyOf
    <3> QED BY <1>9, <3>4, <3>5 DEF KeyFrom
  <2>2. ASSUME NEW x \in keys'
        PROVE  \/ \E w \in Had' : KeyFrom(w, x)
               \/ wexg = "okx" /\ x[2][1][1] = "orders-algo"
               \/ x \in loose
    <3>1. CASE \E w \in W(p) : KeyFrom(w, x)
      BY <3>1, <1>8
    <3>2. CASE x \in keys /\ x \notin Pairs(c, gone)
      <4>1. CASE \E v \in Had : KeyFrom(v, x)
        <5>1. PICK v \in Had : KeyFrom(v, x)
          BY <4>1
        <5> QED BY <5>1, <3>2, <2>1, <1>7, <1>8
      <4> QED BY <4>1, <3>2 DEF KeysSound
    <3> QED BY <3>1, <3>2, <1>11
  <2>3. \A x \in keys' : x = <<x[1], x[2]>>
    BY <1>11 DEF KeysSound, KeyFrom
  <2> QED BY <2>2, <2>3, <1>1, EnvSame DEF KeysSound
<1>13. ASSUME NEW x \in queue'
       PROVE  \/ x \in queue
              \/ c \in relog /\ x[1] = c /\ \E w \in W(p) : TopicFrom(w, x)
  BY <1>3, <1>9 DEF Ask, Pairs, Topics, TopicFrom
<1>14. LoginsSound'
  <2>1. \A x \in queue' : LogsIn(x[1]) /\ creds
    BY <1>13 DEF LoginsSound
  <2>2. ASSUME wexg \in {"okx", "bybit"} PROVE back \subseteq keys'
    <3>1. back \subseteq keys /\ \A x \in back : LogsIn(x[1])
      BY <2>2 DEF LoginsSound
    <3>2. \A x \in Pairs(c, gone) : x \notin back
      BY <3>1, GoneIsPublic DEF Pairs
    <3> QED BY <3>1, <3>2, <1>3 DEF Ask
  <2> QED BY <2>1, <2>2, <1>1, EnvSame DEF LoginsSound
<1>15. BybitSound'
  <2> SUFFICES ASSUME wexg = "bybit"
               PROVE  /\ \A x \in sends' \cup queue' : \E w \in Had' : TopicFrom(w, x)
                      /\ \A r \in refs' : \E w \in Had' : RefFrom(w, r)
    BY <1>1, EnvSame DEF BybitSound
  <2>1. ASSUME NEW x, x \notin Pairs(c, gone) \/ LogsIn(x[1]), NEW v \in Had, TopicFrom(v, x)
        PROVE  \E w \in Had' : TopicFrom(w, x)
    <3>1. CASE v \in Had'
      BY <2>1, <3>1
    <3>2. CASE v \in held /\ Taken(p, v)
      <4>1. PICK w \in W(p) : /\ StreamOf(v).client = c /\ ~LogsIn(c)
                              /\ StreamOf(v).topic \in gone \cup {StreamOf(w).topic}
        BY <3>2, TakenGoes
      <4>2. x = <<c, StreamOf(v).topic>>
        BY <2>1, <4>1 DEF TopicFrom
      <4>3. x[1] = c
        BY <4>2
      <4>4. StreamOf(v).topic \notin gone
        BY <2>1, <4>1, <4>2, <4>3 DEF Pairs
      <4> QED BY <4>1, <4>2, <4>4, <1>8, <1>9 DEF TopicFrom
    <3> QED BY <3>1, <3>2, <1>7
  <2>2. ASSUME NEW x \in sends'
        PROVE  \/ x \in sends /\ x \notin Pairs(c, gone)
               \/ \E w \in W(p) : TopicFrom(w, x)
    <3>1. Ask(c, Topics(p), gone)
      BY <1>3
    <3>2. \A t \in Granted(c, Topics(p), logged) : t \in Topics(p)
      BY GrantedFrom
    <3>3. ASSUME x \in Pairs(c, Granted(c, Topics(p), logged))
          PROVE  \E w \in W(p) : TopicFrom(w, x)
      BY <3>3, <3>2, <1>9 DEF Pairs, Topics, TopicFrom
    <3> QED BY <3>1, <3>3 DEF Ask
  <2>3. \A x \in sends' : \E w \in Had' : TopicFrom(w, x)
    BY <2>1, <2>2, <1>8 DEF BybitSound
  <2>4. \A x \in queue' : \E w \in Had' : TopicFrom(w, x)
    BY <2>1, <1>13, <1>8 DEF BybitSound, LoginsSound
  <2>5. ASSUME NEW r \in refs PROVE \E w \in Had' : RefFrom(w, r)
    <3>1. PICK v \in Had : RefFrom(v, r)
      BY DEF BybitSound
    <3>2. CASE v \in Had'
      BY <3>1, <3>2
    <3>3. CASE v \in held /\ Taken(p, v)
      <4>1. PICK w \in W(p) : /\ StreamOf(v).client = c /\ StreamOf(w).chan = StreamOf(v).chan
                              /\ StreamOf(w).ref = StreamOf(v).ref
        BY <3>3, TakenGoes
      <4> QED BY <3>1, <4>1, <1>8, <1>9 DEF RefFrom
    <3> QED BY <3>2, <3>3, <1>7
  <2> QED BY <2>3, <2>4, <2>5, <1>1
<1>16. limits' = [i \in Insts |->
         IF \E w \in W(p) : w[1] = "books" /\ w[2] = i
           THEN LET w == CHOOSE w \in W(p) : w[2] = i
                IN  CASE wexg = "bybit"   -> Bybit!Depth(mkt, w[3])
                      [] wexg = "binance" -> w[3]
                      [] OTHER           -> 0
           ELSE limits[i]]
  BY DEF Subscribe
<1>17. DepthsKnown'
  <2>1. ASSUME NEW v \in W(p), v[1] = "books"
        PROVE  v[2] \in Insts /\ wexg # "bitget" /\ (wexg = "bybit" => limits'[v[2]] = Bybit!Depth(mkt, v[3]))
    <3>1. v[2] \in Insts /\ wexg # "bitget"
      BY <2>1, <1>9 DEF OneKind
    <3> PICK w : w = CHOOSE a \in W(p) : a[2] = v[2]
      OBVIOUS
    <3>2. w \in W(p)
      OBVIOUS
    <3>3. w[3] = v[3]
      BY <3>2, <1>9 DEF OneKind
    <3>4. wexg = "bybit" => limits'[v[2]] = Bybit!Depth(mkt, w[3])
      BY <2>1, <3>1, <1>16
    <3> QED BY <3>1, <3>3, <3>4
  <2>2. ASSUME NEW v \in Had, v[1] = "books", v \in Had', v \notin W(p)
        PROVE  v[2] \in Insts /\ wexg # "bitget" /\ (wexg = "bybit" => limits'[v[2]] = Bybit!Depth(mkt, v[3]))
    <3>1. /\ v[2] \in Insts /\ wexg # "bitget"
          /\ wexg = "bybit" => limits[v[2]] = Bybit!Depth(mkt, v[3])
      BY <2>2 DEF DepthsKnown
    <3>2. wexg = "bybit" => ~\E w \in W(p) : w[1] = "books" /\ w[2] = v[2]
      <4>1. CASE v \in held'
        BY <2>2, <4>1, <1>1 DEF Taken
      <4>2. CASE v \in Asked
        <5>1. PICK q \in Callers : call[q].pc \in {"algo", "open"} /\ v \in W(q)
          BY <4>2, AskedBy
        <5>2. q # p
          BY <5>1, <1>1
        <5> QED BY <2>2, <5>1, <5>2 DEF CallsSound
      <4> QED BY <2>2, <4>1, <4>2, <1>6 DEF Had
    <3>3. wexg = "bybit" => limits'[v[2]] = limits[v[2]]
      BY <3>1, <3>2, <1>16
    <3> QED BY <3>1, <3>3
  <2>3. \A v \in Had' : v \in Had \/ v \in W(p)
    BY <1>1, <1>6 DEF Had
  <2>4. \A v \in Had' : v[1] = "books" =>
          /\ v[2] \in Insts /\ wexg # "bitget"
          /\ wexg = "bybit" => limits'[v[2]] = Bybit!Depth(mkt, v[3])
    BY <2>1, <2>2, <2>3
  <2>5. wexg' = wexg /\ mkt' = mkt
    BY <1>1, EnvSame
  <2> QED BY <2>4, <2>5 DEF DepthsKnown
<1>18. WatchForms'
  BY <1>1, <1>4, <1>16, FormsKept DEF Moves
<1> QED BY <1>1, <1>5, <1>12, <1>14, <1>15, <1>17, <1>18, LooseKept

-------------------------------------------------------------------------------
(* The UnWatch calls.                                                      *)

\* Some wishes for public data of one kind, all of which the application has.
Given(ws) ==
  /\ ws # {} /\ ws \subseteq held \cap PublicWishes
  /\ \A v, w \in ws : v[1] = w[1]

\* The streams an UnWatch call names are of the client of the kind.
LEMMA UnnamedClient ==
  ASSUME WatchForms, NEW ws, Given(ws), NEW streams \in Unnamed(ws), NEW w \in ws
  PROVE  /\ (CHOOSE s \in streams : TRUE).client = ClientOf(w[1])
         /\ w[1] \in PublicKinds /\ (w[1] = "books" => wexg # "bitget")
         /\ wexg # "bitget" => ~LogsIn(ClientOf(w[1]))
<1>1. \A v \in ws : /\ v[1] = w[1] /\ v[1] \in PublicKinds
                    /\ v[1] = "books" => wexg # "bitget"
  BY KindOf DEF Given
<1>2. \A v \in ws : StreamOf(v).client = ClientOf(w[1])
  BY <1>1, PublicClient
<1>3. streams # {} /\ \A s \in streams : s.client = ClientOf(w[1])
  <2>1. CASE w[1] # "books"
    <3>1. streams = {StreamOf(v) : v \in ws}
      BY <1>1, <2>1 DEF Unnamed
    <3> QED BY <3>1, <1>2
  <2>2. CASE w[1] = "books" /\ wexg = "okx"
    <3>1. streams = {Okx!UnBooks(v[2]) : v \in ws}
      BY <2>2 DEF Unnamed
    <3>2. \A i : Okx!UnBooks(i).client = ClientOf("books")
      BY <2>2 DEF Okx!UnBooks, Okx!Stream, Okx!Public, ClientOf
    <3> QED BY <3>1, <3>2, <2>2
  <2>3. CASE w[1] = "books" /\ wexg = "bybit"
    <3>1. streams = {Bybit!UnBooks(mkt, v[2], limits[v[2]]) : v \in ws}
      BY <2>3 DEF Unnamed
    <3>2. \A i, l : Bybit!UnBooks(mkt, i, l).client = ClientOf("books")
      BY <2>3 DEF Bybit!UnBooks, Bybit!Stream, Bybit!Public, ClientOf
    <3> QED BY <3>1, <3>2, <2>3
  <2>4. CASE w[1] = "books" /\ wexg = "binance"
    <3>1. PICK l : streams = {Binance!Books(mkt, v[2], l) : v \in ws}
      BY <2>4 DEF Unnamed
    <3>2. \A i : Binance!Books(mkt, i, l).client = ClientOf("books")
      BY <2>4 DEF Binance!Books, Binance!Public, Binance!Stream, Binance!Client, ClientOf
    <3> QED BY <3>1, <3>2, <2>4
  <2> QED BY <1>1, <2>1, <2>2, <2>3, <2>4 DEF WatchForms
<1>4. wexg # "bitget" => ~LogsIn(ClientOf(w[1]))
  BY <1>1, <1>2, PublicNoLogin
<1> QED BY <1>1, <1>3, <1>4

\* What the call ends is among them, but for order books of okx and binance that
\* it gives up without their limit.
LEMMA EndedIsNamed ==
  ASSUME WatchForms, DepthsKnown, NEW ws, Given(ws), NEW streams \in Unnamed(ws),
         NEW v \in Ended(ws)
  PROVE  /\ StreamOf(v).client = (CHOOSE s \in streams : TRUE).client
         /\ \/ StreamOf(v) \in streams
            \/ /\ wexg = "okx" /\ \/ StreamOf(v).topic[1] = "books5"
                                  \/ StreamOf(v).topic \in {s.topic : s \in streams}
            \/ wexg = "binance" /\ StreamOf(v).topic[2] = "depth"
<1>1. PICK w \in ws : v[1] = w[1] /\ v[2] = w[2] /\ (w[1] # "books" => v = w)
  BY DEF Ended
<1>2. /\ (CHOOSE s \in streams : TRUE).client = ClientOf(w[1])
      /\ w[1] \in PublicKinds /\ (w[1] = "books" => wexg # "bitget")
  BY UnnamedClient
<1>3. StreamOf(v).client = ClientOf(w[1])
  BY <1>1, <1>2, PublicClient
<1>4. CASE w[1] # "books"
  <2>1. streams = {StreamOf(a) : a \in ws}
    BY <1>4 DEF Unnamed, Given
  <2> QED BY <2>1, <1>1, <1>2, <1>3, <1>4
<1>5. CASE w[1] = "books" /\ wexg = "okx"
  <2>1. streams = {Okx!UnBooks(a[2]) : a \in ws}
    BY <1>5 DEF Unnamed
  <2>2. StreamOf(v) = Okx!Books(v[2], v[3])
    BY <1>1, <1>5 DEF StreamOf
  <2>3. PICK ch \in {"books5", "books"} : StreamOf(v).topic = <<ch, "", "", v[2]>>
    <3>1. Okx!Books(v[2], v[3]).topic = <<IF v[3] > 0 /\ v[3] <= 5 THEN "books5" ELSE "books", "", "", v[2]>>
      BY DEF Okx!Books, Okx!Stream, Okx!Topic
    <3> QED BY <3>1, <2>2
  <2>4. Okx!UnBooks(w[2]).topic = <<"books", "", "", v[2]>>
    BY <1>1 DEF Okx!UnBooks, Okx!Stream, Okx!Topic
  <2>5. StreamOf(v).topic[1] = "books5" \/ StreamOf(v).topic = Okx!UnBooks(w[2]).topic
    <3>1. <<ch, "", "", v[2]>>[1] = ch
      OBVIOUS
    <3> QED BY <3>1, <2>3, <2>4
  <2>6. Okx!UnBooks(w[2]).topic \in {s.topic : s \in streams}
    BY <2>1
  <2> QED BY <1>2, <1>3, <1>5, <2>5, <2>6
<1>6. CASE w[1] = "books" /\ wexg = "bybit"
  <2>1. streams = {Bybit!UnBooks(mkt, a[2], limits[a[2]]) : a \in ws}
    BY <1>6 DEF Unnamed
  <2>2. StreamOf(v) = Bybit!Books(mkt, v[2], v[3])
    BY <1>1, <1>6 DEF StreamOf
  <2>3. limits[v[2]] = Bybit!Depth(mkt, v[3]) /\ limits[v[2]] # 0
    BY <1>1, <1>6, DepthIsOne DEF DepthsKnown, Had, Ended
  <2>4. StreamOf(v) = Bybit!UnBooks(mkt, w[2], limits[w[2]])
    BY <1>1, <2>2, <2>3 DEF Bybit!Books, Bybit!UnBooks
  <2> QED BY <1>2, <1>3, <2>1, <2>4
<1>7. CASE w[1] = "books" /\ wexg = "binance"
  <2>1. StreamOf(v) = Binance!Books(mkt, v[2], v[3])
    BY <1>1, <1>7 DEF StreamOf
  <2>2. StreamOf(v).topic = <<v[2], "depth", Binance!Depth(mkt, v[3])>>
    BY <2>1 DEF Binance!Books, Binance!Public, Binance!Stream
  <2>3. StreamOf(v).topic[2] = "depth"
    BY <2>2
  <2> QED BY <1>2, <1>3, <1>7, <2>3
<1> QED BY <1>2, <1>4, <1>5, <1>6, <1>7 DEF WatchForms

LEMMA PairIs ==
  ASSUME NEW c, NEW S, NEW x \in Pairs(c, S)
  PROVE  \E k \in S : x = <<c, k>>
BY DEF Pairs

LEMMA UnWatchKeeps ==
  ASSUME WatchSound, NEW ws, UnWatch(ws)
  PROVE  WatchSound'
<1> USE DEF WatchSound
<1>1. /\ Given(ws) /\ ~Busy(ws) /\ held' = held \ Ended(ws)
      /\ UNCHANGED <<env, call>> /\ UNCHANGED <<relog, back>>
  BY DEF UnWatch, Given
<1> PICK streams \in Unnamed(ws) :
      LET c      == (CHOOSE s \in streams : TRUE).client
          topics == {s.topic : s \in streams}
          ks     == {KeyOf(t) : t \in topics}
          mine   == UNION {KeysOf(w) : w \in Ended(ws)}
      IN  /\ keys' = Dropped(c, ks)
          /\ loose' = loose \cup (keys \cap Pairs(c, mine \ ks))
          /\ IF wexg # "bybit" THEN UNCHANGED <<sends, queue, refs, limits>>
             ELSE /\ sends' = sends \ Pairs(c, topics)
                  /\ queue' = queue \ Pairs(c, topics)
                  /\ refs' = refs \ {<<<<s.client, s.chan>>, s.ref>> : s \in streams}
                  /\ limits' = [i \in Insts |->
                       IF \E w \in ws : w[1] = "books" /\ w[2] = i THEN 0 ELSE limits[i]]
  BY DEF UnWatch
<1> PICK c : c = (CHOOSE s \in streams : TRUE).client
  OBVIOUS
<1> DEFINE topics == {s.topic : s \in streams}
           ks     == {KeyOf(t) : t \in topics}
           mine   == UNION {KeysOf(w) : w \in Ended(ws)}
<1> PICK rest : rest = mine \ ks
  OBVIOUS
<1>2. /\ keys' = keys \ Pairs(c, ks)
      /\ loose' = loose \cup (keys \cap Pairs(c, mine \ ks))
      /\ wexg # "bybit" => UNCHANGED <<sends, queue, refs, limits>>
      /\ wexg = "bybit" =>
           /\ sends' = sends \ Pairs(c, topics)
           /\ queue' = queue \ Pairs(c, topics)
           /\ refs' = refs \ {<<<<s.client, s.chan>>, s.ref>> : s \in streams}
           /\ limits' = [i \in Insts |->
                IF \E w \in ws : w[1] = "books" /\ w[2] = i THEN 0 ELSE limits[i]]
  BY DEF Dropped
<1>3. CallsSound' /\ Asked' = Asked /\ \A p \in Callers : W(p)' = W(p)
  BY <1>1, CallsRest
<1>4. WatchForms'
  <2>1. call' = [q \in Callers |-> [pc |-> call'[q].pc, ws |-> call'[q].ws]]
    BY <1>1 DEF WatchForms
  <2>2. limits' = [i \in Insts |-> limits'[i]]
    BY <1>2 DEF WatchForms
  <2> QED BY <1>1, <2>1, <2>2, FormsKept
<1>5. wexg # "bitget" => ~LogsIn(c)
  BY <1>1, UnnamedClient DEF Given
<1>6. \A v \in Had : v \in Had' \/ v \in Ended(ws)
  BY <1>1, <1>3 DEF Had
<1>7. \A v \in Ended(ws) : StreamOf(v).client = c
  BY <1>1, EndedIsNamed
<1>8. ASSUME NEW v \in Ended(ws), NEW k \in KeysOf(v), k \notin ks
      PROVE  \/ wexg = "okx" /\ k[1][1] = "books5"
             \/ wexg = "binance" /\ k[2] = "depth"
  <2>1. k = KeyOf(StreamOf(v).topic)
    BY KeyOfTopic
  <2>2. StreamOf(v).topic \notin topics
    BY <1>8, <2>1
  <2>3. StreamOf(v) \notin streams
    BY <2>2
  <2>4. \/ wexg = "okx" /\ StreamOf(v).topic[1] = "books5"
        \/ wexg = "binance" /\ StreamOf(v).topic[2] = "depth"
    BY <1>1, <2>2, <2>3, EndedIsNamed
  <2> QED BY <2>1, <2>4, OkxKey DEF KeyOf
<1>9. LooseSound'
  <2>1. ASSUME NEW x, x \in Pairs(c, rest)
        PROVE  \/ wexg = "okx" /\ x[2][1][1] = "books5"
               \/ wexg = "binance" /\ x[2][2] = "depth"
    <3>1. PICK k \in rest : x = <<c, k>>
      BY ONLY <2>1, PairIs
    <3>2. k \in mine /\ k \notin ks
      OBVIOUS
    <3>3. PICK v \in Ended(ws) : k \in KeysOf(v)
      BY <3>2
    <3> QED BY <3>1, <3>2, <3>3, <1>8
  <2>2. \A x \in loose' : x \in loose \/ x \in Pairs(c, rest)
    BY <1>2
  <2>3. wexg' = wexg
    BY <1>1, EnvSame
  <2> QED BY <2>1, <2>2, <2>3 DEF LooseSound
<1>10. KeysSound'
  <2>1. ASSUME NEW x \in keys, x \notin Pairs(c, ks), NEW v \in Ended(ws), KeyFrom(v, x)
        PROVE  x \in loose'
    <3>1. PICK k \in KeysOf(v) : x = <<c, k>>
      BY <2>1, <1>7 DEF KeyFrom
    <3>2. k \in mine /\ k \notin ks
      BY <2>1, <3>1 DEF Pairs
    <3> HIDE DEF mine, ks
    <3> QED BY <3>1, <3>2, <1>2 DEF Pairs
  <2>2. ASSUME NEW x \in keys'
        PROVE  \/ \E w \in Had' : KeyFrom(w, x)
               \/ wexg = "okx" /\ x[2][1][1] = "orders-algo"
               \/ x \in loose'
    <3>1. x \in keys /\ x \notin Pairs(c, ks)
      BY <1>2
    <3>2. CASE \E v \in Had : KeyFrom(v, x)
      BY <3>1, <3>2, <2>1, <1>6
    <3> QED BY <3>1, <3>2, <1>2 DEF KeysSound
  <2>3. \A x \in keys' : x = <<x[1], x[2]>>
    BY <1>2 DEF KeysSound
  <2> QED BY <2>2, <2>3, <1>1, EnvSame DEF KeysSound
<1>11. LoginsSound'
  <2>1. queue' \subseteq queue
    BY <1>2
  <2>2. ASSUME wexg \in {"okx", "bybit"} PROVE back \subseteq keys'
    <3>1. back \subseteq keys /\ \A x \in back : LogsIn(x[1])
      BY <2>2 DEF LoginsSound
    <3>2. \A x \in Pairs(c, ks) : x \notin back
      BY <3>1, <1>5, <2>2 DEF Pairs
    <3> QED BY <3>1, <3>2, <1>2
  <2> QED BY <2>1, <2>2, <1>1, EnvSame DEF LoginsSound
<1>12. BybitSound'
  <2> SUFFICES ASSUME wexg = "bybit"
               PROVE  /\ \A x \in sends' \cup queue' : \E w \in Had' : TopicFrom(w, x)
                      /\ \A r \in refs' : \E w \in Had' : RefFrom(w, r)
    BY <1>1, EnvSame DEF BybitSound
  <2>1. \A v \in Ended(ws) : StreamOf(v) \in streams
    BY <1>1, EndedIsNamed
  <2>2. ASSUME NEW x, x \notin Pairs(c, topics), NEW v \in Had, TopicFrom(v, x)
        PROVE  v \in Had'
    BY <2>1, <2>2, <1>6, <1>7 DEF TopicFrom, Pairs
  <2>3. \A x \in sends' \cup queue' : \E w \in Had' : TopicFrom(w, x)
    BY <2>2, <1>2 DEF BybitSound
  <2>4. ASSUME NEW r, r \notin {<<<<s.client, s.chan>>, s.ref>> : s \in streams},
               NEW v \in Had, RefFrom(v, r)
        PROVE  v \in Had'
    BY <2>1, <2>4, <1>6 DEF RefFrom
  <2>5. \A r \in refs' : \E w \in Had' : RefFrom(w, r)
    BY <2>4, <1>2 DEF BybitSound
  <2> QED BY <2>3, <2>5
<1>13. DepthsKnown'
  <2>1. ASSUME NEW v \in Had', v[1] = "books", wexg = "bybit"
        PROVE  ~\E w \in ws : w[1] = "books" /\ w[2] = v[2]
    <3>1. CASE v \in held'
      BY <2>1, <3>1, <1>1 DEF Ended
    <3>2. CASE v \in Asked
      BY <2>1, <3>2, <1>1, AskedBy DEF Busy
    <3> QED BY <2>1, <3>1, <3>2, <1>3 DEF Had
  <2>2. Had' \subseteq Had
    BY <1>1, <1>3 DEF Had
  <2>3. wexg' = wexg /\ mkt' = mkt
    BY <1>1, EnvSame
  <2> QED BY <2>1, <2>2, <2>3, <1>2 DEF DepthsKnown
<1> QED BY <1>3, <1>4, <1>9, <1>10, <1>11, <1>12, <1>13

-------------------------------------------------------------------------------
(* The reconnections.                                                      *)

\* A key of bybit is the topic of a wish.
LEMMA BybitKey ==
  ASSUME wexg = "bybit", KeysSound, LooseSound, NEW x \in keys
  PROVE  \E w \in Had : TopicFrom(w, x)
<1>1. PICK w \in Had : KeyFrom(w, x)
  BY DEF KeysSound, LooseSound
<1>2. KeysOf(w) = {StreamOf(w).topic}
  BY DEF KeysOf, KeyOf
<1> QED BY <1>1, <1>2 DEF KeyFrom, TopicFrom

\* What is of a client is of it alone.
LEMMA OfClient ==
  ASSUME NEW c, NEW S, NEW k \in Sub(S, c)
  PROVE  \E x \in S : x[1] = c /\ x[2] = k
BY DEF Sub

\* What a client asks for of its keys has a wish.
LEMMA BybitAsked ==
  ASSUME wexg = "bybit", KeysSound, LooseSound, NEW c, NEW S, S \subseteq keys, NEW k \in Sub(S, c)
  PROVE  <<c, k>> \in S /\ \E w \in Had : TopicFrom(w, <<c, k>>)
<1>1. PICK x \in S : x[1] = c /\ x[2] = k
  BY OfClient
<1>2. PICK w \in Had : x = <<StreamOf(w).client, StreamOf(w).topic>>
  BY <1>1, BybitKey DEF TopicFrom
<1>3. x = <<c, k>>
  BY <1>1, <1>2
<1> QED BY <1>1, <1>2, <1>3 DEF TopicFrom

\* The topics of bybit a client asks for, on its connection or behind a login.
LEMMA BybitQueued ==
  ASSUME wexg = "bybit", BybitSound, NEW c, NEW k \in Sub(queue, c)
  PROVE  \E w \in Had : TopicFrom(w, <<c, k>>)
<1>1. PICK x \in queue : x[1] = c /\ x[2] = k
  BY OfClient
<1>2. PICK w \in Had : x = <<StreamOf(w).client, StreamOf(w).topic>>
  BY <1>1 DEF BybitSound, TopicFrom
<1>3. x = <<c, k>>
  BY <1>1, <1>2
<1> QED BY <1>2, <1>3 DEF TopicFrom

LEMMA HadRests ==
  ASSUME UNCHANGED <<env, call>>, UNCHANGED held, CallsSound
  PROVE  Had' = Had /\ CallsSound'
BY CallsRest DEF Had

LEMMA ReconnectKeeps ==
  ASSUME WatchSound, NEW c \in up, ReconnectWs(c)
  PROVE  WatchSound'
<1> USE DEF WatchSound
<1>1. /\ UNCHANGED <<env, call>> /\ UNCHANGED <<keys, refs, limits, held, loose>>
      /\ LogsIn(c) => creds
      /\ ReconnectKeyless(c) \/ (LogsIn(c) /\ Relogin(c)) \/ (~LogsIn(c) /\ Resubscribe(c))
  BY DEF ReconnectWs
<1>2. Had' = Had /\ CallsSound'
  BY <1>1, HadRests
<1>3. WatchForms'
  BY <1>1, FormsKept DEF WatchForms
<1>4. queue' \subseteq queue
  BY <1>1 DEF ReconnectKeyless, Relogin, Resubscribe, Minus
<1>5. LoginsSound'
  <2>1. CASE ReconnectKeyless(c)
    BY <1>1, <1>4, <2>1, EnvSame DEF LoginsSound, ReconnectKeyless
  <2>2. CASE LogsIn(c) /\ Relogin(c)
    <3>1. \A x \in back' : x \in back \/ x \in Pairs(c, Sub(keys, c))
      BY <2>2 DEF Relogin, Minus
    <3>2. \A x \in back' : LogsIn(x[1])
      BY <2>2, <3>1 DEF LoginsSound, Pairs
    <3>3. ASSUME wexg \in {"okx", "bybit"} PROVE back' \subseteq keys
      <4>1. ASSUME NEW x \in Pairs(c, Sub(keys, c)) PROVE x \in keys
        <5>1. PICK k \in Sub(keys, c) : x = <<c, k>>
          BY PairIs
        <5>2. PICK y \in keys : y[1] = c /\ y[2] = k
          BY <5>1, OfClient
        <5>3. y = <<y[1], y[2]>>
          BY DEF KeysSound
        <5> QED BY <5>1, <5>2, <5>3
      <4> QED BY <3>1, <3>3, <4>1 DEF LoginsSound
    <3> QED BY <1>1, <1>4, <2>2, <3>2, <3>3, EnvSame DEF LoginsSound, Relogin
  <2>3. CASE Resubscribe(c)
    BY <1>1, <2>3, LoginsKept DEF LoginsSound, Resubscribe
  <2> QED BY <1>1, <2>1, <2>2, <2>3
<1>6. BybitSound'
  <2> SUFFICES ASSUME wexg = "bybit", NEW x \in sends'
               PROVE  \E w \in Had : TopicFrom(w, x)
    BY <1>1, <1>2, <1>4, EnvSame DEF BybitSound
  <2>1. \/ x \in sends
        \/ x \in Pairs(c, Granted(c, {TopicOf(k) : k \in Sub(keys, c)}, logged \ {c}))
    BY <1>1 DEF ReconnectKeyless, Relogin, Resubscribe, Minus
  <2>2. CASE x \in Pairs(c, Granted(c, {TopicOf(k) : k \in Sub(keys, c)}, logged \ {c}))
    <3>1. PICK t \in {TopicOf(k) : k \in Sub(keys, c)} : x = <<c, t>>
      BY <2>2, PairIs, GrantedFrom
    <3>2. t \in Sub(keys, c)
      BY DEF TopicOf
    <3> QED BY <3>1, <3>2, BybitAsked
  <2> QED BY <2>1, <2>2 DEF BybitSound
<1> QED BY <1>1, <1>2, <1>3, <1>5, <1>6, DepthsKept, KeysKept, LooseKept

\* A connection that ends takes what the application had of it.
LEMMA EndKeeps ==
  ASSUME WatchSound, NEW c, End(c)
  PROVE  WatchSound'
<1> USE DEF WatchSound
<1>1. /\ UNCHANGED <<env, call>> /\ UNCHANGED <<limits, relog, back, queue>>
      /\ LogsIn(c) /\ ~creds
      /\ sends' = Minus(sends, c) /\ keys' = Minus(keys, c)
      /\ refs' = {r \in refs : r[1][1] # c}
      /\ held' = {w \in held : StreamOf(w).client # c}
      /\ loose' = Minus(loose, c)
  BY DEF End, auth
<1>2. CallsSound' /\ Asked' = Asked
  BY <1>1, CallsRest
<1>3. WatchForms'
  BY <1>1, FormsKept DEF WatchForms
<1>4. queue = {} /\ back = {}
  BY <1>1 DEF LoginsSound
<1>5. LoginsSound'
  BY <1>1, <1>4, LoginsKept
<1>6. /\ Had' \subseteq Had
      /\ \A w \in Had : w \in Had' \/ StreamOf(w).client = c
  BY <1>1, <1>2 DEF Had
<1>7. KeysSound'
  <2>1. ASSUME NEW x \in keys'
        PROVE  \/ \E w \in Had' : KeyFrom(w, x)
               \/ wexg = "okx" /\ x[2][1][1] = "orders-algo"
               \/ x \in loose'
    <3>1. x \in keys /\ x[1] # c
      BY <1>1 DEF Minus
    <3>2. ASSUME NEW w \in Had, KeyFrom(w, x) PROVE w \in Had'
      <4>1. x[1] = StreamOf(w).client
        BY <3>2 DEF KeyFrom
      <4> QED BY <3>1, <4>1, <1>6
    <3>3. x \in loose => x \in loose'
      BY <3>1, <1>1 DEF Minus
    <3> QED BY <3>1, <3>2, <3>3 DEF KeysSound
  <2>2. \A x \in keys' : x = <<x[1], x[2]>>
    BY <1>1 DEF KeysSound, Minus
  <2> QED BY <2>1, <2>2, <1>1, EnvSame DEF KeysSound
<1>8. BybitSound'
  <2> SUFFICES ASSUME wexg = "bybit"
               PROVE  /\ \A x \in sends' : \E w \in Had' : TopicFrom(w, x)
                      /\ \A r \in refs' : \E w \in Had' : RefFrom(w, r)
    BY <1>1, <1>4, EnvSame DEF BybitSound
  <2>1. ASSUME NEW x \in sends' PROVE \E w \in Had' : TopicFrom(w, x)
    <3>1. x \in sends /\ x[1] # c
      BY <1>1 DEF Minus
    <3>2. PICK w \in Had : x = <<StreamOf(w).client, StreamOf(w).topic>>
      BY <3>1 DEF BybitSound, TopicFrom
    <3>3. x[1] = StreamOf(w).client
      BY <3>2
    <3> QED BY <3>1, <3>2, <3>3, <1>6 DEF TopicFrom
  <2>2. ASSUME NEW r \in refs' PROVE \E w \in Had' : RefFrom(w, r)
    <3>1. r \in refs /\ r[1][1] # c
      BY <1>1
    <3>2. PICK w \in Had : r = <<<<StreamOf(w).client, StreamOf(w).chan>>, StreamOf(w).ref>>
      BY <3>1 DEF BybitSound, RefFrom
    <3>3. r[1][1] = StreamOf(w).client
      BY <3>2
    <3> QED BY <3>1, <3>2, <3>3, <1>6 DEF RefFrom
  <2> QED BY <2>1, <2>2
<1>9. LooseSound'
  BY <1>1, LooseKept DEF Minus
<1> QED BY <1>1, <1>2, <1>3, <1>5, <1>6, <1>7, <1>8, <1>9, DepthsKept

\* A restoration brings back what is still wanted, but on bitget.
LEMMA RestoreKeeps ==
  ASSUME WatchSound, NEW c \in relog, Restore(c)
  PROVE  WatchSound'
<1> USE DEF WatchSound
<1> PICK ks : ks = Sub(back, c)
  OBVIOUS
<1>1. /\ UNCHANGED <<env, call>> /\ UNCHANGED <<refs, limits, held>>
      /\ keys' = keys \cup Pairs(c, ks)
      /\ loose' = loose \cup (Pairs(c, ks) \ keys)
      /\ sends' = sends \cup Pairs(c, Granted(c, {TopicOf(k) : k \in ks} \cup Sub(queue, c),
                                               logged \cup {c}))
      /\ relog' = relog \ {c} /\ queue' = Minus(queue, c) /\ back' = Minus(back, c)
  BY DEF Restore, Answered
<1>2. Had' = Had /\ CallsSound'
  BY <1>1, HadRests
<1>3. WatchForms'
  BY <1>1, FormsKept DEF WatchForms
<1>4. LogsIn(c)
  BY DEF LoginsSound
<1>5. queue' \subseteq queue /\ back' \subseteq back /\ relog' \subseteq relog
  BY <1>1 DEF Minus
<1>6. LoginsSound'
  BY <1>1, <1>5, EnvSame DEF LoginsSound
<1>7. KeysSound'
  <2>1. \A x \in Pairs(c, ks) : x = <<x[1], x[2]>>
    BY DEF Pairs
  <2>2. \A x \in keys' : x \in keys \/ (x \in Pairs(c, ks) /\ x \in loose')
    BY <1>1
  <2>3. loose \subseteq loose'
    BY <1>1
  <2> QED BY <2>1, <2>2, <2>3, <1>1, <1>2, EnvSame DEF KeysSound
<1>8. \A x \in Pairs(c, ks) : x[1] = c
  BY DEF Pairs
<1>9. ASSUME wexg \in {"okx", "bybit"} PROVE Pairs(c, ks) \subseteq keys
  <2>1. ASSUME NEW x \in Pairs(c, ks) PROVE x \in keys
    <3>1. PICK k \in ks : x = <<c, k>>
      BY PairIs
    <3>2. PICK y \in back : y[1] = c /\ y[2] = k
      BY OfClient
    <3>3. y \in keys /\ y = <<y[1], y[2]>>
      BY <1>9 DEF LoginsSound, KeysSound
    <3> QED BY <3>1, <3>2, <3>3
  <2> QED BY <2>1
<1>10. LooseSound'
  <2>1. CASE wexg \in {"okx", "bybit"}
    BY <2>1, <1>1, <1>9, LooseKept
  <2>2. CASE wexg = "bitget"
    <3>1. \A x \in Pairs(c, ks) : x[1][1] = "mix"
      BY <2>2, <1>4, <1>8 DEF LogsIn
    <3> QED BY <2>2, <3>1, <1>1, EnvSame DEF LooseSound
  <2>3. CASE wexg = "binance"
    BY <2>3, <1>4 DEF LogsIn
  <2> QED BY <2>1, <2>2, <2>3 DEF WatchForms
<1>11. BybitSound'
  <2> SUFFICES ASSUME wexg = "bybit", NEW x \in sends'
               PROVE  \E w \in Had : TopicFrom(w, x)
    BY <1>1, <1>2, <1>5, EnvSame DEF BybitSound
  <2>1. CASE x \in Pairs(c, Granted(c, {TopicOf(k) : k \in ks} \cup Sub(queue, c), logged \cup {c}))
    <3>1. PICK t \in {TopicOf(k) : k \in ks} \cup Sub(queue, c) : x = <<c, t>>
      BY <2>1, PairIs, GrantedFrom
    <3>2. t \in Sub(back, c) \/ t \in Sub(queue, c)
      BY DEF TopicOf
    <3>3. back \subseteq keys
      BY DEF LoginsSound
    <3> QED BY <3>1, <3>2, <3>3, BybitAsked, BybitQueued
  <2> QED BY <2>1, <1>1 DEF BybitSound
<1> QED BY <1>1, <1>2, <1>3, <1>6, <1>7, <1>10, <1>11, DepthsKept

-------------------------------------------------------------------------------
(* Every step keeps it.                                                    *)

LEMMA WatchStarts ==
  ASSUME FeedsInit
  PROVE  WatchInv
<1>1. CASE NoWatch
  BY <1>1 DEF WatchInv, NoWatch
<1>2. CASE WatchInit
  <2>1. wexg \in {"okx", "bybit", "bitget", "binance"} /\ wexg # "none"
        /\ mkt \in {"linear", "spot", "option"}
    BY <1>2, Assumption DEF WatchInit, MarketsOf
  <2>2. WatchForms
    BY <1>2, <2>1 DEF WatchInit, WatchForms
  <2>3. /\ \A p \in Callers : W(p) = {} /\ call[p].pc = "idle"
        /\ keys = {} /\ loose = {} /\ sends = {} /\ queue = {} /\ refs = {}
        /\ relog = {} /\ back = {} /\ held = {}
    BY <1>2 DEF WatchInit, W
  <2>4. CallsSound
    BY <2>3, NothingIsOneKind DEF CallsSound
  <2>5. Had = {}
    BY <2>3 DEF Had, Asked
  <2>6. LoginsSound
    BY <2>3 DEF LoginsSound
  <2>7. DepthsKnown
    BY <2>5 DEF DepthsKnown
  <2>8. KeysSound /\ LooseSound
    BY <2>3 DEF KeysSound, LooseSound
  <2>9. BybitSound
    BY <2>3 DEF BybitSound
  <2> QED BY <2>1, <2>2, <2>4, <2>6, <2>7, <2>8, <2>9 DEF WatchInv, WatchSound
<1> QED BY <1>1, <1>2 DEF FeedsInit

LEMMA WatchRests ==
  ASSUME WatchInv, UNCHANGED watchVars
  PROVE  WatchInv'
<1>1. /\ UNCHANGED <<env, call>> /\ wexg' = wexg
      /\ UNCHANGED <<keys, sends, refs, limits, relog, back, queue, held, loose>>
  BY DEF watchVars, env
<1>2. CASE wexg = "none"
  BY <1>2 DEF WatchInv, NoWatch, watchVars
<1>3. CASE wexg # "none"
  <2>1. WatchSound
    BY <1>3 DEF WatchInv
  <2>2. Had' = Had /\ CallsSound'
    BY <1>1, <2>1, HadRests DEF WatchSound
  <2>3. WatchForms'
    BY <1>1, <2>1, FormsKept DEF WatchSound, WatchForms
  <2>4. LoginsSound'
    BY <1>1, <2>1, LoginsKept DEF WatchSound, LoginsSound
  <2>5. DepthsKnown' /\ KeysSound' /\ LooseSound' /\ BybitSound'
    BY <1>1, <2>1, <2>2, DepthsKept, KeysKept, LooseKept, BybitKept DEF WatchSound
  <2> QED BY <1>1, <1>3, <2>2, <2>3, <2>4, <2>5 DEF WatchInv, WatchSound
<1> QED BY <1>2, <1>3

LEMMA WatchKept ==
  ASSUME WatchInv, wexg # "none", WatchNext
  PROVE  WatchInv'
<1>1. WatchSound
  BY DEF WatchInv
<1>2. ASSUME NEW p \in Callers, NEW ws \in Calls, Call(p, ws) PROVE WatchSound'
  BY <1>1, <1>2, CallKeeps
<1>3. ASSUME NEW p \in Callers, Login(p) \/ Subscribe(p) \/ AskAlgo(p) \/ Open(p) PROVE WatchSound'
  BY <1>1, <1>3, LoginKeeps, SubscribeKeeps, AskAlgoKeeps, OpenKeeps
<1>4. ASSUME NEW ws, UnWatch(ws) PROVE WatchSound'
  BY <1>1, <1>4, UnWatchKeeps
<1>5. ASSUME NEW c \in up, ReconnectWs(c) \/ End(c) PROVE WatchSound'
  BY <1>1, <1>5, ReconnectKeeps, EndKeeps
<1>6. ASSUME NEW c \in relog, Restore(c) PROVE WatchSound'
  BY <1>1, <1>6, RestoreKeeps
<1>7. WatchSound'
  BY <1>2, <1>3, <1>4, <1>5, <1>6 DEF WatchNext
<1>8. wexg' # "none"
  BY <1>7 DEF WatchSound, WatchForms
<1> QED BY <1>7, <1>8 DEF WatchInv

\* What holds of the streams in every behaviour of Feeds.
LEMMA WatchAlways == FeedsSpec => []WatchInv
<1>1. FeedsInit => WatchInv
  BY WatchStarts
<1>2. WatchInv /\ [FeedsNext]_<<vars, depthVars, watchVars>> => WatchInv'
  <2> SUFFICES ASSUME WatchInv, [FeedsNext]_<<vars, depthVars, watchVars>> PROVE WatchInv'
    OBVIOUS
  <2>1. CASE UNCHANGED watchVars
    BY <2>1, WatchRests
  <2>2. CASE wexg # "none" /\ WatchNext
    BY <2>2, WatchKept
  <2> QED BY <2>1, <2>2 DEF FeedsNext
<1> QED BY <1>1, <1>2, PTL DEF FeedsSpec

\* The parts of the invariant say what KeysHeld does.
LEMMA KeysHeldMeans ==
  ASSUME WatchInv
  PROVE  KeysHeld
<1>1. Had \subseteq Wanted
  BY DEF Had, Asked, Wanted
<1>2. CASE wexg = "none"
  BY <1>2 DEF WatchInv, NoWatch, KeysHeld
<1>3. CASE wexg # "none"
  <2>1. KeysSound /\ LooseSound /\ BybitSound
    BY <1>3 DEF WatchInv, WatchSound
  <2>2. ASSUME NEW w, NEW x, KeyFrom(w, x)
        PROVE  x[1] = StreamOf(w).client /\ x[2] \in KeysOf(w)
    BY <2>2 DEF KeyFrom
  <2>3. \A x \in keys : \/ \E w \in Wanted : x[1] = StreamOf(w).client /\ x[2] \in KeysOf(w)
                        \/ wexg = "okx" /\ x[2][1][1] = "orders-algo"
                        \/ x \in loose
    BY <1>1, <2>1, <2>2 DEF KeysSound
  <2>4. wexg = "bybit" =>
          /\ \A x \in sends : \E w \in Wanted : x = <<StreamOf(w).client, StreamOf(w).topic>>
          /\ \A r \in refs : \E w \in Wanted :
               LET s == StreamOf(w) IN r = <<<<s.client, s.chan>>, s.ref>>
    BY <1>1, <2>1 DEF BybitSound, TopicFrom, RefFrom
  <2> QED BY <2>1, <2>3, <2>4 DEF KeysHeld, LooseSound
<1> QED BY <1>2, <1>3

\* For every set of instruments, accounts, frames, limits and callers, on each of
\* the four exchanges: UpdateSubs and restorePendingSubscriptions keep keys of
\* nothing but what is watched or about to be, so OnWsReCon asks for nothing that
\* was given up, but for the order books and the contracts of bitget that KeysHeld
\* names; on bybit also the exchange sends, and the channels are referred to by,
\* nothing else.
THEOREM KeysAreWanted == FeedsSpec => []KeysHeld
BY WatchAlways, KeysHeldMeans, PTL

-------------------------------------------------------------------------------
(* The streams: what is watched comes.                                     *)

\* What may be subscribed, and what has or is about to get its channel.
Ready  == held \cup UNION {W(p) : p \in {q \in Callers : call[q].pc \in {"sub", "algo", "open"}}}
Opened == held \cup UNION {W(p) : p \in {q \in Callers : call[q].pc = "open"}}

\* The form of a wish.
IsWish(w) ==
  \/ /\ w[1] \in PublicKinds /\ w[2] \in Insts /\ w = <<w[1], w[2], w[3]>>
     /\ w[1] = "books" => wexg # "bitget"
     /\ w[1] \in {"trades", "mark"} => w[3] = ""
  \/ w \in AccountWishes

\* What the code does not bring, whatever else is watched: see Unfed.
Poor(w) ==
  \/ wexg = "okx" /\ w[1] = "positions" /\ w[3] = "ANY"
  \/ wexg = "bybit" /\ mkt = "option" /\ w[1] = "trades"
  \/ wexg = "bitget" /\ mkt # "spot" /\ ~creds

\* The data of a listenKey.
Keyless(w) == wexg = "binance" /\ w \in AccountWishes

Home(w)      == StreamOf(w).client
TopicPair(w) == <<StreamOf(w).client, StreamOf(w).topic>>
KeyPair(w)   == <<StreamOf(w).client, KeyOf(StreamOf(w).topic)>>
RefPair(w)   == <<<<StreamOf(w).client, StreamOf(w).chan>>, StreamOf(w).ref>>

\* The topic of a wish has a key, and the exchange sends it, or it waits behind
\* the login of a reconnection, or the exchange has forgotten the client.
Served(w) ==
  IF Keyless(w) THEN TopicPair(w) \in sends
  ELSE /\ KeyPair(w) \in keys
       /\ IF Home(w) \in relog THEN KeyPair(w) \in back \/ TopicPair(w) \in queue
          ELSE StaleAuth(Home(w)) \/ TopicPair(w) \in sends

\* The same for the algo orders of an okx account, on a client that never waits.
AlgoOf(w) == Okx!AlgoOrders(w[2], w[3])
AlgoServed(w) ==
  /\ AlgoOf(w).client \in authed
  /\ AlgoOf(w).client \in logged => <<AlgoOf(w).client, AlgoOf(w).topic>> \in sends

WishesSound == \A w \in Wanted : IsWish(w)

\* Account data is asked for by those who have logged in or do so again; a client of
\* bybit that logs in again has keys.
AccountsSound ==
  /\ \A w \in Ready \cap AccountWishes :
       creds /\ (wexg \in {"okx", "bybit"} => Home(w) \in authed \cup relog)
  /\ wexg = "bybit" => \A c \in relog : Sub(keys, c) # {}

AlgosServed   == wexg = "okx" => \A w \in Opened : w[1] = "mytrades" => AlgoServed(w)
WishesServed  == \A w \in Had : ~Poor(w) => Served(w)
ChannelsOpen  == \A w \in held : ~Poor(w) => RefPair(w) \in refs

FedSound == WishesSound /\ AccountsSound /\ AlgosServed /\ WishesServed /\ ChannelsOpen

-------------------------------------------------------------------------------
(* What each exchange is asked for.                                        *)

\* The parts of what can be watched.
LEMMA OfParts ==
  ASSUME NEW k, NEW S, NEW A, NEW w \in Of(k, S, A)
  PROVE  w[1] = k /\ w[2] \in S /\ w[3] \in A /\ w = <<w[1], w[2], w[3]>>
BY DEF Of

\* The public data of okx: the topic tells the kind, the instrument and the frame.
OkxChans == {"books", "books5", "trades", "candle", "mark-price"}
OkxKind(ch) == CASE ch \in {"books", "books5"} -> "books"
                 [] ch = "trades"     -> "trades"
                 [] ch = "candle"     -> "candles"
                 [] ch = "mark-price" -> "mark"
OkxTopic(w, ch, tf) ==
  /\ ch \in OkxChans
  /\ StreamOf(w).topic = <<ch, tf, "", w[2]>>
  /\ StreamOf(w).chan = IF ch = "mark-price" THEN "markPrice" ELSE ch
  /\ w[1] = OkxKind(ch)
  /\ ch = "candle" => tf = w[3]

LEMMA OkxPublic ==
  ASSUME wexg = "okx", NEW w, w[1] \in PublicKinds
  PROVE  \E ch, tf : OkxTopic(w, ch, tf)
<1>1. CASE w[1] = "books"
  <2> PICK ch : ch = IF w[3] > 0 /\ w[3] <= 5 THEN "books5" ELSE "books"
    OBVIOUS
  <2>1. StreamOf(w).topic = <<ch, "", "", w[2]>> /\ StreamOf(w).chan = ch
    BY <1>1 DEF StreamOf, Okx!Books, Okx!Stream, Okx!Topic
  <2>2. ch \in {"books", "books5"} /\ OkxKind(ch) = "books"
    BY DEF OkxKind
  <2>3. OkxTopic(w, ch, "")
    BY <1>1, <2>1, <2>2 DEF OkxTopic, OkxChans
  <2> QED BY <2>3
<1>2. CASE w[1] = "trades"
  <2>1. StreamOf(w).topic = <<"trades", "", "", w[2]>> /\ StreamOf(w).chan = "trades"
    BY <1>2 DEF StreamOf, Okx!Trades, Okx!Stream, Okx!Topic
  <2>2. OkxTopic(w, "trades", "")
    BY <1>2, <2>1 DEF OkxTopic, OkxKind, OkxChans
  <2> QED BY <2>2
<1>3. CASE w[1] = "candles"
  <2>1. StreamOf(w).topic = <<"candle", w[3], "", w[2]>> /\ StreamOf(w).chan = "candle"
    BY <1>3 DEF StreamOf, Okx!Candles, Okx!Stream, Okx!Topic
  <2>2. OkxTopic(w, "candle", w[3])
    BY <1>3, <2>1 DEF OkxTopic, OkxKind, OkxChans
  <2> QED BY <2>2
<1>4. CASE w[1] = "mark"
  <2>1. StreamOf(w).topic = <<"mark-price", "", "", w[2]>> /\ StreamOf(w).chan = "markPrice"
    BY <1>4 DEF StreamOf, Okx!Mark, Okx!Stream, Okx!Topic
  <2>2. OkxTopic(w, "mark-price", "")
    BY <1>4, <2>1 DEF OkxTopic, OkxKind, OkxChans
  <2> QED BY <2>2
<1> QED BY <1>1, <1>2, <1>3, <1>4 DEF PublicKinds

\* The data of an okx account.
OkxAccountTopic(w, ch, type, inst) ==
  /\ StreamOf(w).client = <<"private", w[2]>>
  /\ StreamOf(w).topic = <<ch, "", type, inst>>
  /\ \/ ch = "balance_and_position" /\ type = "" /\ inst = ""
        /\ w[1] = "balance" /\ StreamOf(w).chan = "balance"
     \/ ch = "balance_and_position" /\ type = "" /\ inst = ""
        /\ w[1] = "config" /\ StreamOf(w).chan = "accConfig"
     \/ ch = "positions" /\ type \in {"ANY", "SWAP"} /\ type = w[3] /\ inst = ""
        /\ w[1] = "positions" /\ StreamOf(w).chan = "positions"
     \/ ch = "orders" /\ type = "SWAP" /\ w[1] = "mytrades" /\ StreamOf(w).chan = "mytrades"

LEMMA OkxAccount ==
  ASSUME wexg = "okx", NEW w \in AccountWishes
  PROVE  \E ch, type, inst : OkxAccountTopic(w, ch, type, inst)
<1>1. \/ w \in Of("balance", Accs, {""}) \/ w \in Of("config", Accs, {""})
      \/ w \in Of("positions", Accs, {"ANY", "SWAP"}) \/ w \in Of("mytrades", Accs, {""} \cup Insts)
  BY DEF AccountWishes
<1>2. ASSUME w \in Of("balance", Accs, {""}) PROVE OkxAccountTopic(w, "balance_and_position", "", "")
  <2>1. w[1] = "balance" /\ w[3] \in {""}
    BY <1>2, OfParts
  <2>2. /\ StreamOf(w).client = <<"private", w[2]>>
        /\ StreamOf(w).topic = <<"balance_and_position", "", "", "">> /\ StreamOf(w).chan = "balance"
    BY <2>1 DEF StreamOf, Okx!Balance, Okx!Stream, Okx!Topic, Okx!Private
  <2> QED BY <2>1, <2>2 DEF OkxAccountTopic
<1>3. ASSUME w \in Of("config", Accs, {""}) PROVE OkxAccountTopic(w, "balance_and_position", "", "")
  <2>1. w[1] = "config" /\ w[3] \in {""}
    BY <1>3, OfParts
  <2>2. /\ StreamOf(w).client = <<"private", w[2]>>
        /\ StreamOf(w).topic = <<"balance_and_position", "", "", "">> /\ StreamOf(w).chan = "accConfig"
    BY <2>1 DEF StreamOf, Okx!Config, Okx!Stream, Okx!Topic, Okx!Private
  <2> QED BY <2>1, <2>2 DEF OkxAccountTopic
<1>4. ASSUME w \in Of("positions", Accs, {"ANY", "SWAP"}) PROVE OkxAccountTopic(w, "positions", w[3], "")
  <2>1. w[1] = "positions" /\ w[3] \in {"ANY", "SWAP"}
    BY <1>4, OfParts
  <2>2. /\ StreamOf(w).client = <<"private", w[2]>>
        /\ StreamOf(w).topic = <<"positions", "", w[3], "">> /\ StreamOf(w).chan = "positions"
    BY <2>1 DEF StreamOf, Okx!Positions, Okx!Stream, Okx!Topic, Okx!Private
  <2> QED BY <2>1, <2>2 DEF OkxAccountTopic
<1>5. ASSUME w \in Of("mytrades", Accs, {""} \cup Insts) PROVE OkxAccountTopic(w, "orders", "SWAP", w[3])
  <2>1. w[1] = "mytrades" /\ w[3] \in {""} \cup Insts
    BY <1>5, OfParts
  <2>2. /\ StreamOf(w).client = <<"private", w[2]>>
        /\ StreamOf(w).topic = <<"orders", "", "SWAP", w[3]>> /\ StreamOf(w).chan = "mytrades"
    BY <2>1 DEF StreamOf, Okx!MyTrades, Okx!Stream, Okx!Topic, Okx!Private
  <2> QED BY <2>1, <2>2 DEF OkxAccountTopic
<1> QED BY <1>1, <1>2, <1>3, <1>4, <1>5

\* parseWsKey of the three forms of a key.
LEMMA OneParsed ==
  ASSUME NEW hd
  PROVE  Okx!TopicOf(<<hd>>) = Okx!Topic(hd[1], hd[2], "", "")
BY SMT DEF Okx!TopicOf

LEMMA TypeParsed ==
  ASSUME NEW hd, NEW part \in Okx!InstTypes
  PROVE  Okx!TopicOf(<<hd, part>>) = Okx!Topic(hd[1], hd[2], part, "")
BY SMT DEF Okx!TopicOf

LEMMA InstParsed ==
  ASSUME NEW hd, NEW part, part \notin Okx!InstTypes
  PROVE  Okx!TopicOf(<<hd, part>>) = Okx!Topic(hd[1], hd[2], "", part)
BY SMT DEF Okx!TopicOf

LEMMA ThreeParsed ==
  ASSUME NEW hd, NEW type, NEW inst
  PROVE  Okx!TopicOf(<<hd, type, inst>>) = Okx!Topic(hd[1], hd[2], type, inst)
BY SMT DEF Okx!TopicOf

\* parseWsKey reads what buildWsKey has written, where a type that stands alone is
\* one the code knows and an instrument is not named like a type.
LEMMA OkxRoundTrip ==
  ASSUME NEW ch, NEW tf, NEW type, NEW inst,
         type = "" => inst \notin Okx!InstTypes, type # "" /\ inst = "" => type \in Okx!InstTypes
  PROVE  Okx!TopicOf(Okx!KeyOf(<<ch, tf, type, inst>>)) = <<ch, tf, type, inst>>
<1> PICK hd : hd = <<ch, tf>>
  OBVIOUS
<1>1. Okx!KeyOf(<<ch, tf, type, inst>>) =
        IF type # "" /\ inst # "" THEN <<hd, type, inst>>
        ELSE IF type # "" THEN <<hd, type>> ELSE IF inst # "" THEN <<hd, inst>> ELSE <<hd>>
  BY DEF Okx!KeyOf
<1>2. hd[1] = ch /\ hd[2] = tf
  OBVIOUS
<1>3. \A y, i : Okx!Topic(hd[1], hd[2], y, i) = <<ch, tf, y, i>>
  BY <1>2 DEF Okx!Topic
<1>4. CASE type # "" /\ inst # ""
  <2>1. Okx!KeyOf(<<ch, tf, type, inst>>) = <<hd, type, inst>>
    BY <1>1, <1>4
  <2>2. Okx!TopicOf(<<hd, type, inst>>) = Okx!Topic(hd[1], hd[2], type, inst)
    BY ThreeParsed
  <2>3. Okx!Topic(hd[1], hd[2], type, inst) = <<ch, tf, type, inst>>
    BY <1>3
  <2> QED BY <2>1, <2>2, <2>3
<1>5. CASE type # "" /\ inst = ""
  BY <1>1, <1>3, <1>5, TypeParsed
<1>6. CASE type = "" /\ inst # ""
  BY <1>1, <1>3, <1>6, InstParsed
<1>7. CASE type = "" /\ inst = ""
  BY <1>1, <1>3, <1>7, OneParsed
<1> QED BY <1>4, <1>5, <1>6, <1>7

\* The public data of bybit.
BybitTopic(w, t) ==
  /\ StreamOf(w).topic = t
  /\ \/ w[1] = "books" /\ t[1] = "orderbook" /\ t[3] = w[2] /\ StreamOf(w).chan = "orderbook"
        /\ StreamOf(w).ref = <<w[2]>>
     \/ w[1] = "trades" /\ t[1] = "publicTrade" /\ (mkt # "option" => t[2] = w[2])
        /\ StreamOf(w).chan = "trades" /\ StreamOf(w).ref = <<w[2]>>
     \/ w[1] = "candles" /\ t[1] = "kline" /\ t[2] = w[3] /\ t[3] = w[2] /\ StreamOf(w).chan = "kline"
        /\ StreamOf(w).ref = <<w[2], w[3]>>
     \/ w[1] = "mark" /\ t[1] = "tickers" /\ t[2] = w[2] /\ StreamOf(w).chan = "markPrice"
        /\ StreamOf(w).ref = <<w[2]>>

LEMMA BybitPublic ==
  ASSUME wexg = "bybit", NEW w, w[1] \in PublicKinds
  PROVE  \E t : BybitTopic(w, t)
<1>1. CASE w[1] = "books"
  <2> PICK d : d = Bybit!Depth(mkt, w[3])
    OBVIOUS
  <2>1. /\ StreamOf(w).topic = <<"orderbook", d, w[2]>> /\ StreamOf(w).chan = "orderbook"
        /\ StreamOf(w).ref = <<w[2]>>
    BY <1>1 DEF StreamOf, Bybit!Books, Bybit!Stream, Bybit!BookTopic
  <2>2. BybitTopic(w, <<"orderbook", d, w[2]>>)
    BY <1>1, <2>1 DEF BybitTopic
  <2> QED BY <2>2
<1>2. CASE w[1] = "trades"
  <2> PICK i : i = IF mkt = "option" THEN "base" ELSE w[2]
    OBVIOUS
  <2>1. /\ StreamOf(w).topic = <<"publicTrade", i>> /\ StreamOf(w).chan = "trades"
        /\ StreamOf(w).ref = <<w[2]>>
    BY <1>2 DEF StreamOf, Bybit!Trades, Bybit!Stream
  <2>2. BybitTopic(w, <<"publicTrade", i>>)
    BY <1>2, <2>1 DEF BybitTopic
  <2> QED BY <2>2
<1>3. CASE w[1] = "candles"
  <2>1. /\ StreamOf(w).topic = <<"kline", w[3], w[2]>> /\ StreamOf(w).chan = "kline"
        /\ StreamOf(w).ref = <<w[2], w[3]>>
    BY <1>3 DEF StreamOf, Bybit!Candles, Bybit!Stream
  <2>2. BybitTopic(w, <<"kline", w[3], w[2]>>)
    BY <1>3, <2>1 DEF BybitTopic
  <2> QED BY <2>2
<1>4. CASE w[1] = "mark"
  <2>1. /\ StreamOf(w).topic = <<"tickers", w[2]>> /\ StreamOf(w).chan = "markPrice"
        /\ StreamOf(w).ref = <<w[2]>>
    BY <1>4 DEF StreamOf, Bybit!Mark, Bybit!Stream
  <2>2. BybitTopic(w, <<"tickers", w[2]>>)
    BY <1>4, <2>1 DEF BybitTopic
  <2> QED BY <2>2
<1> QED BY <1>1, <1>2, <1>3, <1>4 DEF PublicKinds

\* The data of a bybit account.
BybitAccountTopic(w, word, arg) ==
  /\ StreamOf(w).client = <<"private", w[2]>>
  /\ StreamOf(w).topic = <<word, arg>>
  /\ \/ word = "wallet" /\ StreamOf(w).chan = "balance"
     \/ word = "position" /\ StreamOf(w).chan = "positions"
     \/ word = "position" /\ StreamOf(w).chan = "accConfig"
     \/ word = "execution" /\ StreamOf(w).chan = "mytrades"

LEMMA BybitAccount ==
  ASSUME wexg = "bybit", NEW w \in AccountWishes
  PROVE  \E word, arg : BybitAccountTopic(w, word, arg)
<1>1. \/ w \in Of("balance", Accs, {""}) \/ w \in Of("config", Accs, {"", "linear"})
      \/ w \in Of("positions", Accs, {"", "linear"}) \/ w \in Of("mytrades", Accs, {"", "linear"})
  BY DEF AccountWishes
<1>2. w[1] = "balance" \/ w[1] = "config" \/ w[1] = "positions" \/ w[1] = "mytrades"
  BY <1>1, OfParts
<1>3. CASE w[1] = "balance"
  <2>1. /\ StreamOf(w).client = <<"private", w[2]>>
        /\ StreamOf(w).topic = <<"wallet", "">> /\ StreamOf(w).chan = "balance"
    BY <1>3 DEF StreamOf, Bybit!Balance, Bybit!Account, Bybit!Stream, Bybit!Private
  <2>2. BybitAccountTopic(w, "wallet", "")
    BY <2>1 DEF BybitAccountTopic
  <2> QED BY <2>2
<1>4. CASE w[1] = "config"
  <2>1. /\ StreamOf(w).client = <<"private", w[2]>>
        /\ StreamOf(w).topic = <<"position", w[3]>> /\ StreamOf(w).chan = "accConfig"
    BY <1>4 DEF StreamOf, Bybit!Config, Bybit!Account, Bybit!Stream, Bybit!Private
  <2>2. BybitAccountTopic(w, "position", w[3])
    BY <2>1 DEF BybitAccountTopic
  <2> QED BY <2>2
<1>5. CASE w[1] = "positions"
  <2>1. /\ StreamOf(w).client = <<"private", w[2]>>
        /\ StreamOf(w).topic = <<"position", w[3]>> /\ StreamOf(w).chan = "positions"
    BY <1>5 DEF StreamOf, Bybit!Positions, Bybit!Account, Bybit!Stream, Bybit!Private
  <2>2. BybitAccountTopic(w, "position", w[3])
    BY <2>1 DEF BybitAccountTopic
  <2> QED BY <2>2
<1>6. CASE w[1] = "mytrades"
  <2>1. /\ StreamOf(w).client = <<"private", w[2]>>
        /\ StreamOf(w).topic = <<"execution", w[3]>> /\ StreamOf(w).chan = "mytrades"
    BY <1>6 DEF StreamOf, Bybit!MyTrades, Bybit!Account, Bybit!Stream, Bybit!Private
  <2>2. BybitAccountTopic(w, "execution", w[3])
    BY <2>1 DEF BybitAccountTopic
  <2> QED BY <2>2
<1> QED BY <1>2, <1>3, <1>4, <1>5, <1>6

\* What bitget offers.
BitgetTopic(w, t) ==
  /\ StreamOf(w).topic = t
  /\ \/ w[1] = "trades" /\ t[1] = "trade" /\ t[3] = w[2] /\ StreamOf(w).chan = "trade"
     \/ w[1] = "candles" /\ t[1] = "candle" /\ t[2] = w[3] /\ t[3] = w[2] /\ StreamOf(w).chan = "candle"
     \/ w[1] = "mark" /\ t[1] = "mark-price" /\ t[3] = w[2] /\ StreamOf(w).chan = "markPrice"

LEMMA BitgetPublic ==
  ASSUME wexg = "bitget", NEW w, w[1] \in PublicKinds \ {"books"}
  PROVE  \E t : BitgetTopic(w, t)
<1>1. CASE w[1] = "trades"
  <2>1. StreamOf(w).topic = <<"trade", "", w[2]>> /\ StreamOf(w).chan = "trade"
    BY <1>1 DEF StreamOf, Bitget!Trades, Bitget!Stream
  <2>2. BitgetTopic(w, <<"trade", "", w[2]>>)
    BY <1>1, <2>1 DEF BitgetTopic
  <2> QED BY <2>2
<1>2. CASE w[1] = "candles"
  <2>1. StreamOf(w).topic = <<"candle", w[3], w[2]>> /\ StreamOf(w).chan = "candle"
    BY <1>2 DEF StreamOf, Bitget!Candles, Bitget!Stream
  <2>2. BitgetTopic(w, <<"candle", w[3], w[2]>>)
    BY <1>2, <2>1 DEF BitgetTopic
  <2> QED BY <2>2
<1>3. CASE w[1] = "mark"
  <2>1. StreamOf(w).topic = <<"mark-price", "", w[2]>> /\ StreamOf(w).chan = "markPrice"
    BY <1>3 DEF StreamOf, Bitget!Mark, Bitget!Stream
  <2>2. BitgetTopic(w, <<"mark-price", "", w[2]>>)
    BY <1>3, <2>1 DEF BitgetTopic
  <2> QED BY <2>2
<1> QED BY <1>1, <1>2, <1>3 DEF PublicKinds

\* The public data of binance.
BinanceTopic(w, t) ==
  /\ StreamOf(w).topic = t /\ t[1] = w[2] /\ StreamOf(w).chan = t[2]
  /\ \/ w[1] = "books" /\ t[2] = "depth"
     \/ w[1] = "trades" /\ t[2] = "trade"
     \/ w[1] = "candles" /\ t[2] = "kline" /\ t[3] = w[3]
     \/ w[1] = "mark" /\ t[2] = "markPrice"

LEMMA BinancePublic ==
  ASSUME wexg = "binance", NEW w, w[1] \in PublicKinds
  PROVE  \E t : BinanceTopic(w, t)
<1>1. CASE w[1] = "books"
  <2> PICK d : d = Binance!Depth(mkt, w[3])
    OBVIOUS
  <2>1. StreamOf(w).topic = <<w[2], "depth", d>> /\ StreamOf(w).chan = "depth"
    BY <1>1 DEF StreamOf, Binance!Books, Binance!Public, Binance!Stream
  <2>2. BinanceTopic(w, <<w[2], "depth", d>>)
    BY <1>1, <2>1 DEF BinanceTopic
  <2> QED BY <2>2
<1>2. CASE w[1] = "trades"
  <2>1. StreamOf(w).topic = <<w[2], "trade", "">> /\ StreamOf(w).chan = "trade"
    BY <1>2 DEF StreamOf, Binance!Trades, Binance!Public, Binance!Stream
  <2>2. BinanceTopic(w, <<w[2], "trade", "">>)
    BY <1>2, <2>1 DEF BinanceTopic
  <2> QED BY <2>2
<1>3. CASE w[1] = "candles"
  <2>1. StreamOf(w).topic = <<w[2], "kline", w[3]>> /\ StreamOf(w).chan = "kline"
    BY <1>3 DEF StreamOf, Binance!Candles, Binance!Public, Binance!Stream
  <2>2. BinanceTopic(w, <<w[2], "kline", w[3]>>)
    BY <1>3, <2>1 DEF BinanceTopic
  <2> QED BY <2>2
<1>4. CASE w[1] = "mark"
  <2>1. StreamOf(w).topic = <<w[2], "markPrice", "">> /\ StreamOf(w).chan = "markPrice"
    BY <1>4 DEF StreamOf, Binance!Mark, Binance!Public, Binance!Stream
  <2>2. BinanceTopic(w, <<w[2], "markPrice", "">>)
    BY <1>4, <2>1 DEF BinanceTopic
  <2> QED BY <2>2
<1> QED BY <1>1, <1>2, <1>3, <1>4 DEF PublicKinds

\* The data of a binance account: all of it comes on the client of the listenKey.
LEMMA BinanceAccount ==
  ASSUME wexg = "binance", NEW w \in AccountWishes
  PROVE  /\ StreamOf(w).client = <<mkt, "user", w[2]>> /\ StreamOf(w).topic = Binance!UserData
         /\ StreamOf(w).chan \in {"balance", "mytrades"}
                                   \cup (IF mkt = "spot" THEN {} ELSE {"positions", "accConfig"})
<1>1. \/ w \in Of("balance", Accs, {""}) \/ w \in Of("mytrades", Accs, {""})
      \/ mkt # "spot" /\ (w \in Of("config", Accs, {""}) \/ w \in Of("positions", Accs, {""}))
  BY DEF AccountWishes
<1>2. \/ w[1] = "balance" \/ w[1] = "mytrades"
      \/ mkt # "spot" /\ (w[1] = "config" \/ w[1] = "positions")
  BY <1>1, OfParts
<1>3. CASE w[1] = "balance"
  <2>1. /\ StreamOf(w).client = <<mkt, "user", w[2]>> /\ StreamOf(w).topic = Binance!UserData
        /\ StreamOf(w).chan = "balance"
    BY <1>3 DEF StreamOf, Binance!Account, Binance!Stream, Binance!User
  <2> QED BY <2>1
<1>4. CASE w[1] = "mytrades"
  <2>1. /\ StreamOf(w).client = <<mkt, "user", w[2]>> /\ StreamOf(w).topic = Binance!UserData
        /\ StreamOf(w).chan = "mytrades"
    BY <1>4 DEF StreamOf, Binance!Account, Binance!Stream, Binance!User
  <2> QED BY <2>1
<1>5. CASE mkt # "spot" /\ w[1] = "config"
  <2>1. /\ StreamOf(w).client = <<mkt, "user", w[2]>> /\ StreamOf(w).topic = Binance!UserData
        /\ StreamOf(w).chan = "accConfig"
    BY <1>5 DEF StreamOf, Binance!Account, Binance!Stream, Binance!User
  <2> QED BY <1>5, <2>1
<1>6. CASE mkt # "spot" /\ w[1] = "positions"
  <2>1. /\ StreamOf(w).client = <<mkt, "user", w[2]>> /\ StreamOf(w).topic = Binance!UserData
        /\ StreamOf(w).chan = "positions"
    BY <1>6 DEF StreamOf, Binance!Account, Binance!Stream, Binance!User
  <2> QED BY <1>6, <2>1
<1> QED BY <1>2, <1>3, <1>4, <1>5, <1>6

-------------------------------------------------------------------------------
(* What the operators make of a wish.                                      *)

LEMMA WishKind ==
  ASSUME WatchForms, NEW w, IsWish(w), w \notin AccountWishes
  PROVE  w[1] \in PublicKinds /\ w[2] \in Insts /\ (w[1] = "books" => wexg # "bitget")
BY DEF IsWish

LEMMA AccountExchange ==
  ASSUME WatchForms, NEW w \in AccountWishes
  PROVE  wexg \in {"okx", "bybit", "binance"} /\ w[1] \in AccountKinds
<1>1. wexg # "bitget"
  BY DEF AccountWishes
<1> QED BY <1>1, KindOf DEF WatchForms

\* The clients of accounts log in.
LEMMA AccountHome ==
  ASSUME WatchForms, wexg \in {"okx", "bybit"}, NEW w \in AccountWishes
  PROVE  LogsIn(Home(w)) /\ Home(w)[1] = "private"
<1>1. CASE wexg = "okx"
  <2>1. Home(w) = <<"private", w[2]>>
    BY <1>1, OkxAccount DEF OkxAccountTopic, Home
  <2>2. Home(w)[1] = "private"
    BY <2>1
  <2> QED BY <1>1, <2>2 DEF LogsIn
<1>2. CASE wexg = "bybit"
  <2>1. Home(w) = <<"private", w[2]>>
    BY <1>2, BybitAccount DEF BybitAccountTopic, Home
  <2>2. Home(w)[1] = "private"
    BY <2>1
  <2> QED BY <1>2, <2>2 DEF LogsIn
<1> QED BY <1>1, <1>2

\* Those of public data do not, but of the contracts of bitget.
LEMMA PublicHome ==
  ASSUME WatchForms, NEW w, IsWish(w), w \notin AccountWishes, LogsIn(Home(w))
  PROVE  wexg = "bitget" /\ mkt # "spot"
<1>1. w[1] \in PublicKinds /\ (w[1] = "books" => wexg # "bitget")
  BY WishKind
<1>2. wexg = "bitget"
  BY <1>1, PublicNoLogin DEF Home
<1>3. Home(w) = IF mkt = "spot" THEN <<"spot", "">> ELSE <<"mix", "">>
  BY <1>1, <1>2, PublicClient DEF ClientOf, Home
<1>4. ASSUME mkt = "spot" PROVE Home(w)[1] = "spot"
  <2> PICK h : h = <<"spot", "">>
    OBVIOUS
  <2>1. Home(w) = h /\ h[1] = "spot"
    BY <1>3, <1>4
  <2> QED BY <2>1
<1> QED BY <1>2, <1>4 DEF LogsIn

\* Where nothing logs in that has no API keys, no wish loses its connection for good.
LEMMA HomeStays ==
  ASSUME WatchForms, NEW w, IsWish(w), ~Poor(w), w \in AccountWishes => creds, LogsIn(Home(w))
  PROVE  creds
<1>1. CASE w \in AccountWishes
  BY <1>1
<1>2. CASE w \notin AccountWishes
  BY <1>2, PublicHome DEF Poor, WatchForms
<1> QED BY <1>1, <1>2

\* What a reconnection reads from a key is what it was made of.
LEMMA RoundTrip ==
  ASSUME WatchForms, NEW w, IsWish(w), ~Poor(w), ~Keyless(w)
  PROVE  TopicOf(KeyOf(StreamOf(w).topic)) = StreamOf(w).topic
<1>1. CASE wexg # "okx"
  BY <1>1 DEF KeyOf, TopicOf
<1>2. CASE wexg = "okx" /\ w \notin AccountWishes
  <2>1. PICK ch, tf : StreamOf(w).topic = <<ch, tf, "", w[2]>>
    BY <1>2, WishKind, OkxPublic DEF OkxTopic
  <2>2. w[2] \notin Okx!InstTypes
    BY <1>2, WishKind, NamesAssumption
  <2>3. Okx!TopicOf(Okx!KeyOf(<<ch, tf, "", w[2]>>)) = <<ch, tf, "", w[2]>>
    BY <2>2, OkxRoundTrip
  <2> QED BY <1>2, <2>1, <2>3 DEF KeyOf, TopicOf
<1>3. CASE wexg = "okx" /\ w \in AccountWishes
  <2>1. PICK ch, type, inst : OkxAccountTopic(w, ch, type, inst)
    BY <1>3, OkxAccount
  <2>2. "SWAP" \in Okx!InstTypes /\ "" \notin Okx!InstTypes
    BY DEF Okx!InstTypes
  <2>3. /\ type = "" => inst \notin Okx!InstTypes
        /\ type # "" /\ inst = "" => type \in Okx!InstTypes
    BY <1>3, <2>1, <2>2 DEF OkxAccountTopic, Poor
  <2>4. Okx!TopicOf(Okx!KeyOf(<<ch, "", type, inst>>)) = <<ch, "", type, inst>>
    BY <2>3, OkxRoundTrip
  <2> QED BY <1>3, <2>1, <2>4 DEF KeyOf, TopicOf, OkxAccountTopic
<1> QED BY <1>1, <1>2, <1>3

\* The exchange agrees to send what is public, and the rest to those it has logged in.
LEMMA GrantedTo ==
  ASSUME WatchForms, NEW w, IsWish(w), ~Poor(w), ~Keyless(w), NEW topics, NEW in,
         StreamOf(w).topic \in topics, w \in AccountWishes => Home(w) \in in
  PROVE  StreamOf(w).topic \in Granted(Home(w), topics, in)
<1> PICK t : t = StreamOf(w).topic
  OBVIOUS
<1>1. NeedsLogin(t) => w \in AccountWishes
  <2>1. CASE wexg = "okx" /\ w \notin AccountWishes
    <3>1. PICK ch, tf : ch \in OkxChans /\ t = <<ch, tf, "", w[2]>>
      BY <2>1, WishKind, OkxPublic DEF OkxTopic
    <3>2. t[1] = ch /\ ch \in OkxChans
      BY ONLY <3>1
    <3> QED BY <2>1, <3>2 DEF NeedsLogin, Okx!NeedsLogin, OkxChans
  <2>2. CASE wexg = "bybit" /\ w \notin AccountWishes
    <3>1. t[1] \in {"orderbook", "publicTrade", "kline", "tickers"}
      BY <2>2, WishKind, BybitPublic DEF BybitTopic
    <3> QED BY <2>2, <3>1 DEF NeedsLogin, Bybit!NeedsLogin
  <2>3. CASE wexg \in {"bitget", "binance"}
    BY <2>3 DEF NeedsLogin
  <2> QED BY <2>1, <2>2, <2>3 DEF WatchForms
<1>2. wexg = "okx" => Okx!Exists(t)
  <2>1. CASE wexg = "okx" /\ w \notin AccountWishes
    <3>1. PICK ch, tf : ch \in OkxChans /\ t = <<ch, tf, "", w[2]>>
      BY <2>1, WishKind, OkxPublic DEF OkxTopic
    <3>2. t[1] = ch /\ ch \in OkxChans
      BY ONLY <3>1
    <3> QED BY <3>2 DEF Okx!Exists, OkxChans
  <2>2. CASE wexg = "okx" /\ w \in AccountWishes
    <3>1. PICK ch, type, inst : OkxAccountTopic(w, ch, type, inst)
      BY <2>2, OkxAccount
    <3>2. t = <<ch, "", type, inst>>
      BY <3>1 DEF OkxAccountTopic
    <3>3. t[1] = ch /\ t[3] = type
      BY ONLY <3>2
    <3>4. ch = "balance_and_position" \/ type = "SWAP"
      BY <2>2, <3>1 DEF OkxAccountTopic, Poor
    <3> QED BY <3>3, <3>4 DEF Okx!Exists, Okx!InstTypes
  <2> QED BY <2>1, <2>2
<1> QED BY <1>1, <1>2 DEF Granted

\* The handler of the topic writes to the channel of the wish, but for the
\* configuration of an okx account.
LEMMA RouteTo ==
  ASSUME WatchForms, NEW w, IsWish(w), ~(wexg = "okx" /\ w[1] = "config")
  PROVE  <<Home(w), StreamOf(w).chan>> \in Route(Home(w), StreamOf(w).topic)
<1> PICK c : c = Home(w)
  OBVIOUS
<1> PICK t : t = StreamOf(w).topic
  OBVIOUS
<1>1. CASE wexg = "okx" /\ w \notin AccountWishes
  <2>1. PICK ch, tf : /\ ch \in OkxChans /\ t = <<ch, tf, "", w[2]>>
                      /\ StreamOf(w).chan = IF ch = "mark-price" THEN "markPrice" ELSE ch
    BY <1>1, WishKind, OkxPublic DEF OkxTopic
  <2>2. t[1] = ch /\ ch \in OkxChans
    BY ONLY <2>1
  <2>3. Route(c, t) = {Okx!PublicChan(c, t)}
    BY <1>1, <2>2 DEF Route, Okx!Route, OkxChans
  <2>4. Okx!PublicChan(c, t) = <<c, StreamOf(w).chan>>
    BY <2>1, <2>2 DEF Okx!PublicChan, OkxChans
  <2> QED BY <2>3, <2>4
<1>2. CASE wexg = "okx" /\ w \in AccountWishes
  <2>1. PICK ch, type, inst : OkxAccountTopic(w, ch, type, inst)
    BY <1>2, OkxAccount
  <2>2. t = <<ch, "", type, inst>>
    BY <2>1 DEF OkxAccountTopic
  <2>3. t[1] = ch
    BY ONLY <2>2
  <2>4. CASE ch = "balance_and_position"
    <3>1. StreamOf(w).chan = "balance"
      BY <1>2, <2>1, <2>4 DEF OkxAccountTopic
    <3>2. Route(c, t) = Okx!BalanceChans(c, Whole(c))
      BY <1>2, <2>3, <2>4 DEF Route, Okx!Route
    <3> QED BY <3>1, <3>2 DEF Okx!BalanceChans
  <2>5. CASE ch = "positions"
    <3>1. StreamOf(w).chan = "positions"
      BY <1>2, <2>1, <2>5 DEF OkxAccountTopic
    <3>2. Route(c, t) = Okx!PositionChans(c)
      BY <1>2, <2>3, <2>5 DEF Route, Okx!Route
    <3> QED BY <3>1, <3>2 DEF Okx!PositionChans
  <2>6. CASE ch = "orders"
    <3>1. StreamOf(w).chan = "mytrades"
      BY <1>2, <2>1, <2>6 DEF OkxAccountTopic
    <3>2. Route(c, t) = {<<c, "mytrades">>}
      BY <1>2, <2>3, <2>6 DEF Route, Okx!Route
    <3> QED BY <3>1, <3>2
  <2> QED BY <2>1, <2>4, <2>5, <2>6 DEF OkxAccountTopic
<1>3. CASE wexg = "bybit" /\ w \notin AccountWishes
  <2>1. BybitTopic(w, t)
    BY <1>3, WishKind, BybitPublic DEF BybitTopic
  <2>2. Route(c, t) = Bybit!Route(c, t)
    BY <1>3 DEF Route
  <2> QED BY <2>1, <2>2 DEF BybitTopic, Bybit!Route
<1>4. CASE wexg = "bybit" /\ w \in AccountWishes
  <2>1. PICK word, arg : BybitAccountTopic(w, word, arg)
    BY <1>4, BybitAccount
  <2>2. t = <<word, arg>>
    BY <2>1 DEF BybitAccountTopic
  <2>3. t[1] = word
    BY <2>2
  <2>4. Route(c, t) = Bybit!Route(c, t)
    BY <1>4 DEF Route
  <2> QED BY <2>1, <2>3, <2>4 DEF BybitAccountTopic, Bybit!Route
<1>5. CASE wexg = "bitget"
  <2>1. BitgetTopic(w, t)
    BY <1>5, WishKind, AccountExchange, BitgetPublic DEF BitgetTopic
  <2>2. Route(c, t) = Bitget!Route(c, t)
    BY <1>5 DEF Route
  <2> QED BY <2>1, <2>2 DEF BitgetTopic, Bitget!Route
<1>6. CASE wexg = "binance" /\ w \notin AccountWishes
  <2>1. BinanceTopic(w, t)
    BY <1>6, WishKind, BinancePublic DEF BinanceTopic
  <2>2. t # Binance!UserData
    <3>1. Binance!UserData[2] = "user"
      BY DEF Binance!UserData
    <3> QED BY <2>1, <3>1 DEF BinanceTopic
  <2>3. Route(c, t) = Binance!Route(c, t)
    BY <1>6 DEF Route
  <2> QED BY <2>1, <2>2, <2>3 DEF BinanceTopic, Binance!Route
<1>7. CASE wexg = "binance" /\ w \in AccountWishes
  <2>1. /\ c = <<mkt, "user", w[2]>> /\ t = Binance!UserData
        /\ StreamOf(w).chan \in {"balance", "mytrades"}
                                  \cup (IF mkt = "spot" THEN {} ELSE {"positions", "accConfig"})
    BY <1>7, BinanceAccount DEF Home
  <2>2. c[1] = mkt
    BY ONLY <2>1
  <2>3. Route(c, t) = {<<c, chan>> : chan \in {"balance", "mytrades"}
                                      \cup (IF c[1] = "spot" THEN {} ELSE {"positions", "accConfig"})}
    BY <1>7, <2>1 DEF Route, Binance!Route
  <2> QED BY <2>1, <2>2, <2>3
<1> QED BY <1>1, <1>2, <1>3, <1>4, <1>5, <1>6, <1>7 DEF WatchForms

-------------------------------------------------------------------------------
(* What keeps a wish served.                                               *)

LEMMA WishSame ==
  ASSUME UNCHANGED env
  PROVE  /\ \A w : IsWish(w)' <=> IsWish(w)
         /\ \A w : Poor(w)' <=> Poor(w)
         /\ \A w : Keyless(w)' <=> Keyless(w)
         /\ \A w : Home(w)' = Home(w)
         /\ \A w : TopicPair(w)' = TopicPair(w)
         /\ \A w : KeyPair(w)' = KeyPair(w)
         /\ \A w : RefPair(w)' = RefPair(w)
<1>1. /\ wexg' = wexg /\ mkt' = mkt /\ creds' = creds /\ AccountWishes' = AccountWishes
      /\ \A w : StreamOf(w)' = StreamOf(w)
  BY EnvSame
<1>2. \A t : KeyOf(t)' = KeyOf(t)
  BY <1>1 DEF KeyOf
<1>3. \A w : IsWish(w)' <=> IsWish(w)
  BY <1>1 DEF IsWish
<1>4. \A w : Poor(w)' <=> Poor(w)
  BY <1>1 DEF Poor
<1>5. \A w : Keyless(w)' <=> Keyless(w)
  BY <1>1 DEF Keyless
<1>6. \A w : Home(w)' = Home(w)
  BY <1>1 DEF Home
<1>7. \A w : TopicPair(w)' = TopicPair(w)
  BY <1>1 DEF TopicPair
<1>8. \A w : KeyPair(w)' = KeyPair(w)
  BY <1>1, <1>2 DEF KeyPair
<1>9. \A w : RefPair(w)' = RefPair(w)
  BY <1>1 DEF RefPair
<1> QED BY <1>3, <1>4, <1>5, <1>6, <1>7, <1>8, <1>9

\* A client that goes on as it was.
LEMMA ServedStays ==
  ASSUME UNCHANGED env, NEW w, Served(w),
         Home(w) \in relog' <=> Home(w) \in relog,
         ~Keyless(w) => KeyPair(w) \in keys',
         TopicPair(w) \in sends => TopicPair(w) \in sends',
         KeyPair(w) \in back /\ Home(w) \in relog => KeyPair(w) \in back',
         TopicPair(w) \in queue /\ Home(w) \in relog => TopicPair(w) \in queue',
         StaleAuth(Home(w)) => Home(w) \in authed' /\ Home(w) \notin logged'
  PROVE  Served(w)'
<1>1. /\ Keyless(w)' <=> Keyless(w)
      /\ Home(w)' = Home(w) /\ TopicPair(w)' = TopicPair(w) /\ KeyPair(w)' = KeyPair(w)
  BY WishSame
<1>2. StaleAuth(Home(w)) => StaleAuth(Home(w))'
  BY <1>1 DEF StaleAuth
<1>3. CASE Keyless(w)
  <2>1. TopicPair(w) \in sends'
    BY <1>3 DEF Served
  <2> QED BY <1>1, <1>3, <2>1 DEF Served
<1>4. CASE ~Keyless(w) /\ Home(w) \in relog
  <2>1. KeyPair(w) \in back' \/ TopicPair(w) \in queue'
    BY <1>4 DEF Served
  <2> QED BY <1>1, <1>4, <2>1 DEF Served
<1>5. CASE ~Keyless(w) /\ Home(w) \notin relog
  <2>1. StaleAuth(Home(w)) \/ TopicPair(w) \in sends'
    BY <1>5 DEF Served
  <2> QED BY <1>1, <1>2, <1>5, <2>1 DEF Served
<1> QED BY <1>3, <1>4, <1>5

LEMMA AlgoStays ==
  ASSUME NEW w, AlgoServed(w), authed \subseteq authed', sends \subseteq sends',
         \A c \in authed : c \in logged' => c \in logged
  PROVE  AlgoServed(w)'
<1> PICK c, x : c = AlgoOf(w).client /\ x = <<AlgoOf(w).client, AlgoOf(w).topic>>
  OBVIOUS
<1>1. c \in authed /\ (c \in logged => x \in sends)
  BY DEF AlgoServed
<1>2. c \in authed' /\ (c \in logged' => x \in sends')
  BY <1>1
<1>3. AlgoServed(w)' <=> c \in authed' /\ (c \in logged' => x \in sends')
  BY DEF AlgoServed, AlgoOf
<1> QED BY <1>2, <1>3

\* The parts, where nothing new is asked for.
LEMMA WishesKept ==
  ASSUME UNCHANGED env, WishesSound, \A w \in Wanted' : w \in Wanted \/ IsWish(w)
  PROVE  WishesSound'
BY WishSame DEF WishesSound

LEMMA AccountsKept ==
  ASSUME UNCHANGED env, AccountsSound,
         authed \cup relog \subseteq authed' \cup relog',
         wexg = "bybit" => \A c \in relog' : (c \in relog /\ Sub(keys, c) \subseteq Sub(keys', c))
                                            \/ Sub(keys', c) # {},
         \A w \in Ready' : w \in AccountWishes =>
           w \in Ready \/ (creds /\ (wexg \in {"okx", "bybit"} => Home(w) \in authed' \cup relog'))
  PROVE  AccountsSound'
<1>1. /\ wexg' = wexg /\ creds' = creds /\ AccountWishes' = AccountWishes
      /\ \A w : Home(w)' = Home(w)
  BY EnvSame, WishSame
<1>2. ASSUME NEW w \in Ready', w \in AccountWishes
      PROVE  creds /\ (wexg \in {"okx", "bybit"} => Home(w) \in authed' \cup relog')
  BY <1>2 DEF AccountsSound
<1>3. wexg = "bybit" => \A c \in relog' : Sub(keys', c) # {}
  BY DEF AccountsSound
<1>4. \A c : Sub(keys, c)' = Sub(keys', c)
  BY DEF Sub
<1> QED BY <1>1, <1>2, <1>3, <1>4 DEF AccountsSound

LEMMA AlgosKept ==
  ASSUME UNCHANGED env, AlgosServed,
         wexg = "okx" => \A w \in Opened' : w[1] = "mytrades" =>
                           AlgoServed(w)' \/ w \in Opened,
         wexg = "okx" => \A w \in Opened : w[1] = "mytrades" /\ AlgoServed(w) => AlgoServed(w)'
  PROVE  AlgosServed'
BY EnvSame DEF AlgosServed

LEMMA ServedKept ==
  ASSUME UNCHANGED env, WishesServed,
         \A w \in Had' : ~Poor(w) => Served(w)' \/ w \in Had,
         \A w \in Had' : w \in Had /\ ~Poor(w) /\ Served(w) => Served(w)'
  PROVE  WishesServed'
BY WishSame DEF WishesServed

LEMMA OpenKept ==
  ASSUME UNCHANGED env, ChannelsOpen,
         \A w \in held' : w \in held \/ RefPair(w) \in refs',
         \A w \in held' : ~Poor(w) /\ RefPair(w) \in refs => RefPair(w) \in refs'
  PROVE  ChannelsOpen'
BY WishSame DEF ChannelsOpen

-------------------------------------------------------------------------------
(* The Watch calls bring what they ask for.                                *)

LEMMA PublicIsWish ==
  ASSUME WatchForms, NEW w \in PublicWishes, NEW i \in Insts
  PROVE  IsWish(<<w[1], i, w[3]>>)
<1> PICK k, a : k = w[1] /\ a = w[3]
  OBVIOUS
<1>1. k \in PublicKinds /\ (k = "books" => wexg # "bitget")
  BY KindOf
<1>2. k \in {"trades", "mark"} => a = ""
  <2>1. \/ w \in Of("trades", Insts, {""}) \/ w \in Of("candles", Insts, Frames)
        \/ w \in Of("books", Insts, Limits) \/ w \in Of("mark", Insts, {""})
    BY DEF PublicWishes
  <2>2. w \in Of("trades", Insts, {""}) \/ w \in Of("mark", Insts, {""}) => w[3] \in {""}
    BY OfParts
  <2>3. w \in Of("candles", Insts, Frames) \/ w \in Of("books", Insts, Limits)
          => w[1] \in {"candles", "books"}
    BY OfParts
  <2> QED BY <2>1, <2>2, <2>3
<1> PICK v : v = <<k, i, a>>
  OBVIOUS
<1>3. v[1] = k /\ v[2] = i /\ v[3] = a
  BY ONLY v = <<k, i, a>>
<1>4. IsWish(v)
  BY <1>1, <1>2, <1>3 DEF IsWish
<1> QED BY <1>4

LEMMA CallsAreWishes ==
  ASSUME WatchForms, NEW ws \in Calls, NEW w \in ws
  PROVE  IsWish(w)
<1>1. CASE \E v \in PublicWishes, is \in SUBSET Insts \ {{}} : ws = {<<v[1], i, v[3]>> : i \in is}
  BY <1>1, PublicIsWish
<1>2. CASE \E v \in AccountWishes : ws = {v}
  BY <1>2 DEF IsWish
<1> QED BY <1>1, <1>2 DEF Calls

\* What a call that begins wishes for, and whether it logs in first.
LEMMA CallBegins ==
  ASSUME WatchForms, NEW p, NEW ws \in Calls, Call(p, ws)
  PROVE  \E st \in {"login", "sub"} : \E new :
           /\ call' = [call EXCEPT ![p] = [pc |-> st, ws |-> new]]
           /\ \A w \in new : IsWish(w)
           /\ st = "sub" => new \cap AccountWishes = {}
<1>1. PICK l :
        /\ call' = [call EXCEPT ![p] =
             [pc |-> IF ws \subseteq AccountWishes THEN "login" ELSE "sub",
              ws |-> IF l = 0 THEN ws ELSE {<<w[1], w[2], l>> : w \in ws}]]
        /\ l # 0 => wexg = "binance" /\ \E w \in ws : w[1] = "books"
  <2>1. CASE wexg = "binance" /\ \E w \in ws : w[1] = "books"
    <3>1. PICK S : S = LET w == CHOOSE w \in ws : TRUE
                       IN  Binance!LimitOf(w[3], {limits[v[2]] : v \in ws} \ {0})
      OBVIOUS
    <3>2. PICK l \in S : call' = [call EXCEPT ![p] =
             [pc |-> IF ws \subseteq AccountWishes THEN "login" ELSE "sub",
              ws |-> IF l = 0 THEN ws ELSE {<<w[1], w[2], l>> : w \in ws}]]
      BY <2>1, <3>1 DEF Call
    <3> QED BY <2>1, <3>2
  <2>2. CASE ~(wexg = "binance" /\ \E w \in ws : w[1] = "books")
    BY <2>2 DEF Call
  <2> QED BY <2>1, <2>2
<1> PICK st : st = IF ws \subseteq AccountWishes THEN "login" ELSE "sub"
  OBVIOUS
<1>2. OneKind(ws) /\ \A w \in ws : IsWish(w)
  BY CallOneKind, CallsAreWishes
<1>3. st \in {"login", "sub"} /\ (st = "sub" => ws \cap AccountWishes = {})
  BY <1>2 DEF OneKind
<1>4. CASE l = 0
  BY <1>1, <1>2, <1>3, <1>4
<1>5. CASE l # 0
  <2> DEFINE new == {<<w[1], w[2], l>> : w \in ws}
  <2>1. \A w \in ws : w[1] = "books" /\ w[2] \in Insts /\ wexg # "bitget"
    BY <1>1, <1>2, <1>5 DEF OneKind
  <2>2. ASSUME NEW w \in new PROVE IsWish(w) /\ w \notin AccountWishes
    <3>1. PICK v \in ws : w = <<v[1], v[2], l>>
      OBVIOUS
    <3>2. w[1] = v[1] /\ w[2] = v[2] /\ w[3] = l
      BY <3>1
    <3>3. w[1] = "books" /\ w[2] \in Insts /\ wexg # "bitget" /\ w = <<w[1], w[2], w[3]>>
      BY <2>1, <3>1, <3>2
    <3> QED BY <3>3, KindOf DEF IsWish, PublicKinds, AccountKinds
  <2>3. call' = [call EXCEPT ![p] = [pc |-> st, ws |-> new]]
    BY <1>1, <1>5
  <2> HIDE DEF new
  <2> QED BY <1>3, <2>2, <2>3
<1> QED BY <1>4, <1>5

LEMMA CallServes ==
  ASSUME WatchSound, FedSound, NEW p \in Callers, NEW ws \in Calls, Call(p, ws)
  PROVE  FedSound'
<1> USE DEF FedSound
<1>0. WatchForms
  BY DEF WatchSound
<1> PICK st \in {"login", "sub"} :
      \E new : /\ call' = [call EXCEPT ![p] = [pc |-> st, ws |-> new]]
               /\ \A w \in new : IsWish(w)
               /\ st = "sub" => new \cap AccountWishes = {}
  BY <1>0, CallBegins
<1>1. PICK new : /\ call' = [call EXCEPT ![p] = [pc |-> st, ws |-> new]]
                 /\ \A w \in new : IsWish(w)
                 /\ st = "sub" => new \cap AccountWishes = {}
  OBVIOUS
<1>2. /\ UNCHANGED env /\ UNCHANGED <<keys, sends, refs, authed, logged, relog, back, queue, held>>
      /\ call[p].pc = "idle"
  BY DEF Call, auth
<1>3. call = [q \in Callers |-> [pc |-> call[q].pc, ws |-> call[q].ws]]
  BY <1>0 DEF WatchForms
<1>4. call' = [q \in Callers |-> IF q = p THEN [pc |-> st, ws |-> new] ELSE call[q]]
  BY <1>1, <1>3
<1>5. /\ \A q \in Callers : W(q)' = IF q = p THEN new ELSE W(q)
      /\ \A q \in Callers : call'[q].pc = IF q = p THEN st ELSE call[q].pc
  BY <1>3, <1>4 DEF W
<1>6. \A w \in Wanted' : w \in Wanted \/ w \in new
  BY <1>2, <1>5 DEF Wanted
<1>7. \A w \in Ready' : w \in Ready \/ (w \in new /\ st = "sub")
  BY <1>2, <1>5 DEF Ready
<1>8. Had' \subseteq Had /\ Opened' \subseteq Opened
  BY <1>2, <1>5 DEF Had, Asked, Opened
<1>9. WishesSound'
  BY <1>1, <1>2, <1>6, WishesKept
<1>10. AccountsSound'
  BY <1>1, <1>2, <1>7, AccountsKept
<1>11. AlgosServed'
  BY <1>2, <1>8, AlgoStays, AlgosKept
<1>12. WishesServed'
  <2>1. \A w : Served(w) => Served(w)'
    BY <1>2, ServedStays DEF Served, StaleAuth
  <2> QED BY <1>2, <1>8, <2>1, ServedKept
<1>13. ChannelsOpen'
  BY <1>2, OpenKept
<1> QED BY <1>9, <1>10, <1>11, <1>12, <1>13

LEMMA LoginServes ==
  ASSUME WatchSound, FedSound, NEW p \in Callers, Login(p)
  PROVE  FedSound'
<1> USE DEF FedSound
<1> PICK c : c = Client(p)
  OBVIOUS
<1>1. /\ UNCHANGED env /\ UNCHANGED <<keys, sends, refs, relog, back, queue, held>>
      /\ call[p].pc = "login" /\ WatchForms
  BY DEF Login, WatchSound
<1>2. \/ Return(p) /\ UNCHANGED <<authed, logged>>
      \/ /\ Goto(p, "sub") /\ creds /\ c \in authed'
         /\ \/ UNCHANGED <<authed, logged>>
            \/ c \notin authed /\ authed' = authed \cup {c} /\ logged' = logged \cup {c}
  BY DEF Login
<1>3. Returns(p) \/ (Moves(p, "sub") /\ creds /\ c \in authed')
  BY <1>1, <1>2, GotoMoves, ReturnReturns
<1>4. authed \subseteq authed' /\ \A d \in authed : d \in logged' => d \in logged
  BY <1>2
<1>5. /\ \A w \in Wanted' : w \in Wanted
      /\ \A w \in Ready' : w \in Ready \/ (w \in W(p) /\ creds /\ c \in authed')
      /\ Had' \subseteq Had /\ Opened' \subseteq Opened
  BY <1>1, <1>3 DEF Wanted, Ready, Had, Asked, Opened, Returns, Moves
<1>6. WishesSound'
  BY <1>1, <1>5, WishesKept
<1>7. AccountsSound'
  <2>1. \A w \in W(p) : Home(w) = c
    BY ClientOfCall DEF WatchSound, CallsSound, Home
  <2> QED BY <1>1, <1>4, <1>5, <2>1, AccountsKept
<1>8. AlgosServed'
  BY <1>1, <1>4, <1>5, AlgoStays, AlgosKept
<1>9. WishesServed'
  <2>1. \A w : Served(w) => Served(w)'
    BY <1>1, <1>4, ServedStays DEF Served, StaleAuth
  <2> QED BY <1>1, <1>5, <2>1, ServedKept
<1>10. ChannelsOpen'
  BY <1>1, OpenKept
<1> QED BY <1>6, <1>7, <1>8, <1>9, <1>10

\* The exchange sends the algo orders of an account to a client it has logged in.
LEMMA AlgoGranted ==
  ASSUME wexg = "okx", NEW w, NEW in, AlgoOf(w).client \in in
  PROVE  AlgoOf(w).topic \in Granted(AlgoOf(w).client, {AlgoOf(w).topic}, in)
<1> PICK t : t = AlgoOf(w).topic
  OBVIOUS
<1>1. t = <<"orders-algo", "", "SWAP", w[3]>>
  BY DEF AlgoOf, Okx!AlgoOrders, Okx!Stream, Okx!Topic
<1>2. t[3] = "SWAP"
  BY ONLY <1>1
<1>3. Okx!Exists(t)
  BY <1>2 DEF Okx!Exists, Okx!InstTypes
<1> QED BY <1>3 DEF Granted

LEMMA AskAlgoServes ==
  ASSUME WatchSound, FedSound, NEW p \in Callers, AskAlgo(p)
  PROVE  FedSound'
<1> USE DEF FedSound
<1> PICK w : w = CHOOSE x \in W(p) : TRUE
  OBVIOUS
<1> PICK c : c = AlgoOf(w).client
  OBVIOUS
<1> PICK in : in = IF c \in authed THEN logged ELSE logged \cup {c}
  OBVIOUS
<1>1. /\ UNCHANGED env /\ UNCHANGED <<refs, relog, back, queue, held>>
      /\ call[p].pc = "algo" /\ Goto(p, "open") /\ wexg = "okx" /\ WatchForms
  BY DEF AskAlgo, WatchSound, CallsSound
<1>2. /\ authed' = authed \cup {c} /\ logged' = in
      /\ keys \subseteq keys'
      /\ sends' = sends \cup Pairs(c, Granted(c, {AlgoOf(w).topic}, in))
  BY DEF AskAlgo, AlgoOf
<1>3. Moves(p, "open")
  BY <1>1, GotoMoves
<1>4. sends \subseteq sends' /\ authed \subseteq authed' /\ \A d \in authed : d \in logged' => d \in logged
  BY <1>2
<1>5. /\ \A v \in Wanted' : v \in Wanted
      /\ \A v \in Ready' : v \in Ready
      /\ Had' \subseteq Had
      /\ \A v \in Opened' : v \in Opened \/ v \in W(p)
  BY <1>1, <1>3 DEF Wanted, Ready, Had, Asked, Opened, Moves
<1>6. WishesSound'
  BY <1>1, <1>5, WishesKept
<1>7. AccountsSound'
  BY <1>1, <1>4, <1>5, AccountsKept
<1>8. AlgosServed'
  <2>1. ASSUME NEW v \in W(p), v[1] = "mytrades" PROVE AlgoServed(v)'
    <3>1. AlgoOf(v) = AlgoOf(w)
      <4>1. w \in W(p) /\ v[3] = w[3] /\ w[1] = "mytrades" /\ Home(v) = Home(w)
        BY <2>1 DEF WatchSound, CallsSound, OneKind, Home
      <4>2. v \in AccountWishes /\ w \in AccountWishes
        BY <2>1, <4>1 DEF WishesSound, Wanted, IsWish, PublicKinds
      <4>3. Home(v) = <<"private", v[2]>> /\ Home(w) = <<"private", w[2]>>
        <5>1. \A z \in AccountWishes : Home(z) = <<"private", z[2]>>
          BY <1>1, OkxAccount DEF OkxAccountTopic, Home
        <5> QED BY <4>2, <5>1
      <4>4. v[2] = w[2]
        BY <4>1, <4>3
      <4> QED BY <4>1, <4>4 DEF AlgoOf
    <3>2. AlgoOf(w).client \in authed'
      BY <1>2
    <3>3. ASSUME AlgoOf(w).client \in logged' PROVE <<AlgoOf(w).client, AlgoOf(w).topic>> \in sends'
      <4>1. AlgoOf(w).topic \in Granted(c, {AlgoOf(w).topic}, in)
        BY <1>1, <1>2, <3>3, AlgoGranted
      <4> QED BY <1>2, <4>1 DEF Pairs
    <3>4. AlgoServed(v)' <=> AlgoOf(v).client \in authed' /\
            (AlgoOf(v).client \in logged' => <<AlgoOf(v).client, AlgoOf(v).topic>> \in sends')
      BY DEF AlgoServed, AlgoOf
    <3> QED BY <3>1, <3>2, <3>3, <3>4
  <2>2. \A v \in Opened : AlgoServed(v) => AlgoServed(v)'
    BY <1>4, AlgoStays
  <2> QED BY <1>1, <1>5, <2>1, <2>2, AlgosKept
<1>9. WishesServed'
  <2>1. \A v : Served(v) => Served(v)'
    BY <1>1, <1>2, <1>4, ServedStays DEF Served, StaleAuth
  <2> QED BY <1>1, <1>5, <2>1, ServedKept
<1>10. ChannelsOpen'
  BY <1>1, OpenKept
<1> QED BY <1>6, <1>7, <1>8, <1>9, <1>10

LEMMA OpenServes ==
  ASSUME WatchSound, FedSound, NEW p \in Callers, Open(p)
  PROVE  FedSound'
<1> USE DEF FedSound
<1>1. /\ UNCHANGED env /\ UNCHANGED <<keys, sends, authed, logged, relog, back, queue>>
      /\ call[p].pc = "open" /\ Return(p) /\ held' = held \cup W(p) /\ WatchForms
      /\ refs' = refs \cup {LET s == StreamOf(w) IN <<<<s.client, s.chan>>, s.ref>> : w \in W(p)}
  BY DEF Open, auth, WatchSound
<1>2. Returns(p)
  BY <1>1, ReturnReturns
<1>3. /\ \A w \in Wanted' : w \in Wanted
      /\ \A w \in Ready' : w \in Ready
      /\ Had' \subseteq Had /\ Opened' \subseteq Opened
  BY <1>1, <1>2 DEF Wanted, Ready, Had, Asked, Opened, Returns
<1>4. WishesSound'
  BY <1>1, <1>3, WishesKept
<1>5. AccountsSound'
  BY <1>1, <1>3, AccountsKept
<1>6. AlgosServed'
  BY <1>1, <1>3, AlgoStays, AlgosKept
<1>7. WishesServed'
  <2>1. \A w : Served(w) => Served(w)'
    BY <1>1, ServedStays DEF Served, StaleAuth
  <2> QED BY <1>1, <1>3, <2>1, ServedKept
<1>8. ChannelsOpen'
  <2>1. \A w \in W(p) : RefPair(w) \in refs'
    BY <1>1 DEF RefPair
  <2> QED BY <1>1, <2>1, OpenKept
<1> QED BY <1>4, <1>5, <1>6, <1>7, <1>8

\* What a Watch call of bybit gives up is of no other wish than the order books it
\* asks for in another depth.
LEMMA GoneIsTaken ==
  ASSUME WatchSound, NEW p \in Callers, call[p].pc = "sub", NEW w \in Had, IsWish(w), w \notin W(p),
         wexg = "bybit", Home(w) = Client(p), StreamOf(w).topic \in Gone(p)
  PROVE  w \in held /\ Taken(p, w)
<1> USE DEF WatchSound
<1> PICK t : t = StreamOf(w).topic
  OBVIOUS
<1>1. PICK v \in W(p) : v[1] = "books" /\ t \in Bybit!OldBook(mkt, v[2], v[3], limits[v[2]])
  BY DEF Gone
<1>2. t = <<"orderbook", limits[v[2]], v[2]>>
  BY <1>1 DEF Bybit!OldBook, Bybit!BookTopic
<1>3. t[1] = "orderbook" /\ t[3] = v[2]
  BY ONLY <1>2
<1>4. w \notin AccountWishes
  <2>1. ASSUME w \in AccountWishes PROVE FALSE
    <3>1. PICK word, arg : BybitAccountTopic(w, word, arg)
      BY <2>1, BybitAccount
    <3>2. t = <<word, arg>>
      BY <3>1 DEF BybitAccountTopic
    <3>3. t[1] = word
      BY ONLY <3>2
    <3> QED BY <1>3, <3>1, <3>3 DEF BybitAccountTopic
  <2> QED BY <2>1
<1>5. w[1] = "books" /\ w[2] = v[2]
  <2>1. BybitTopic(w, t)
    BY <1>4, WishKind, BybitPublic DEF BybitTopic
  <2> QED BY <1>3, <2>1 DEF BybitTopic
<1>6. w \notin Asked
  <2>1. ASSUME NEW q \in Callers, call[q].pc \in {"algo", "open"}, w \in W(q) PROVE FALSE
    <3>1. q # p
      BY <2>1
    <3> QED BY <1>1, <1>5, <2>1, <3>1 DEF CallsSound
  <2> QED BY <2>1, AskedBy
<1> QED BY <1>1, <1>5, <1>6 DEF Had, Taken

\* A request is sent, or waits behind the login, or the exchange has forgotten the client.
LEMMA AskServes ==
  ASSUME WatchForms, UNCHANGED env, UNCHANGED <<authed, logged, relog>>,
         NEW w, IsWish(w), ~Poor(w), ~Keyless(w),
         w \in AccountWishes => Home(w) \in authed \cup relog,
         NEW topics, NEW gone, StreamOf(w).topic \in topics, Ask(Home(w), topics, gone)
  PROVE  Served(w)'
<1> PICK c, t : c = Home(w) /\ t = StreamOf(w).topic
  OBVIOUS
<1>1. /\ Keyless(w)' <=> Keyless(w)
      /\ Home(w)' = c /\ TopicPair(w)' = <<c, t>> /\ KeyPair(w)' = <<c, KeyOf(t)>>
  BY WishSame DEF TopicPair, KeyPair, Home
<1>2. <<c, KeyOf(t)>> \in keys'
  BY DEF Ask, Pairs
<1>3. CASE c \in relog
  <2>1. <<c, t>> \in queue'
    BY <1>3 DEF Ask, Pairs
  <2> QED BY <1>1, <1>2, <1>3, <2>1 DEF Served
<1>4. CASE c \notin relog
  <2>1. CASE w \in AccountWishes /\ c \notin logged
    <3>1. c \in authed' /\ c \notin logged'
      BY <1>4, <2>1
    <3> QED BY <1>1, <1>2, <1>4, <3>1 DEF Served, StaleAuth
  <2>2. CASE w \in AccountWishes => c \in logged
    <3>1. t \in Granted(c, topics, logged)
      BY <2>2, GrantedTo
    <3>2. <<c, t>> \in sends'
      BY <1>4, <3>1 DEF Ask, Pairs
    <3> QED BY <1>1, <1>2, <1>4, <3>2 DEF Served
  <2> QED BY <2>1, <2>2
<1> QED BY <1>3, <1>4

LEMMA SubscribeServes ==
  ASSUME WatchSound, FedSound, NEW p \in Callers, Subscribe(p)
  PROVE  FedSound'
<1> USE DEF FedSound
<1> PICK c : c = Client(p)
  OBVIOUS
<1> PICK gone : gone = Gone(p)
  OBVIOUS
<1>1. /\ UNCHANGED env /\ UNCHANGED <<refs, authed, logged, relog, back>>
      /\ call[p].pc = "sub" /\ WatchForms
      /\ held' = {v \in held : ~Taken(p, v)}
  BY DEF Subscribe, Taken, WatchSound
<1>2. PICK st \in {"algo", "open"} :
        /\ Goto(p, st)
        /\ st = "open" => ~(wexg = "okx" /\ \E w \in W(p) : w[1] = "mytrades")
  BY DEF Subscribe
<1>3. \/ /\ wexg = "binance" /\ W(p) \subseteq AccountWishes /\ keys' = keys /\ queue' = queue
         /\ sends' = sends \cup Pairs(c, {Binance!UserData})
      \/ ~(wexg = "binance" /\ W(p) \subseteq AccountWishes) /\ Ask(c, Topics(p), gone)
  BY DEF Subscribe, Gone
<1>4. Moves(p, st)
  BY <1>1, <1>2, GotoMoves
<1>5. /\ \A w \in Wanted' : w \in Wanted
      /\ \A w \in Ready' : w \in Ready
      /\ \A w \in Had' : w \in Had \/ w \in W(p)
      /\ \A w \in Opened' : w \in Opened \/ (st = "open" /\ w \in W(p))
      /\ W(p) \subseteq Ready /\ W(p) \subseteq Wanted /\ Had \subseteq Wanted
  BY <1>1, <1>2, <1>4 DEF Wanted, Ready, Had, Asked, Opened, Moves
<1>6. OneKind(W(p)) /\ \A w \in W(p) : Home(w) = c
  BY ClientOfCall DEF WatchSound, CallsSound, Home
<1>7. gone # {} => wexg = "bybit" /\ ~LogsIn(c)
  BY GoneIsPublic DEF WatchSound
<1>8. /\ \A x \in keys : x \in keys' \/ x \in Pairs(c, gone)
      /\ \A x \in sends : x \in sends' \/ x \in Pairs(c, gone)
      /\ queue \subseteq queue'
  BY <1>3 DEF Ask
<1>9. WishesSound'
  BY <1>1, <1>5, WishesKept
<1>10. AccountsSound'
  <2>1. ASSUME wexg = "bybit", NEW d \in relog PROVE Sub(keys, d) \subseteq Sub(keys', d)
    <3>1. LogsIn(d)
      BY DEF WatchSound, LoginsSound
    <3>2. \A x \in Pairs(c, gone) : x[1] # d
      BY <3>1, <1>7 DEF Pairs
    <3>3. \A x \in keys : x[1] = d => x \in keys'
      BY <3>2, <1>8
    <3> QED BY <3>3 DEF Sub
  <2> QED BY <1>1, <1>5, <2>1, AccountsKept
<1>11. AlgosServed'
  <2>1. wexg = "okx" => sends \subseteq sends'
    BY <1>7, <1>8 DEF Pairs
  <2>2. wexg = "okx" => \A w \in Opened : AlgoServed(w) => AlgoServed(w)'
    BY <1>1, <2>1, AlgoStays
  <2> QED BY <1>1, <1>2, <1>5, <2>2, AlgosKept
<1>12. ASSUME NEW w \in W(p), ~Poor(w) PROVE Served(w)'
  <2>1. Home(w) = c /\ IsWish(w)
    BY <1>5, <1>6 DEF WishesSound
  <2>2. CASE Keyless(w)
    <3>1. W(p) \subseteq AccountWishes /\ wexg = "binance"
      BY <2>2, <1>6 DEF Keyless, OneKind
    <3>2. StreamOf(w).topic = Binance!UserData
      BY <2>2, BinanceAccount DEF Keyless
    <3>3. TopicPair(w) \in sends'
      BY <1>3, <2>1, <3>1, <3>2 DEF TopicPair, Pairs, Home
    <3> QED BY <1>1, <2>2, <3>3, WishSame DEF Served
  <2>3. CASE ~Keyless(w)
    <3>1. Ask(c, Topics(p), gone)
      BY <1>3, <2>3 DEF Keyless
    <3>2. StreamOf(w).topic \in Topics(p)
      BY DEF Topics
    <3>3. w \in AccountWishes => Home(w) \in authed \cup relog
      BY <1>1, <1>5, <2>3, AccountExchange DEF AccountsSound, Keyless
    <3> QED BY <1>1, <1>12, <2>1, <2>3, <3>1, <3>2, <3>3, AskServes
  <2> QED BY <2>2, <2>3
<1>13. ASSUME NEW w \in Had', w \in Had, w \notin W(p), ~Poor(w), Served(w) PROVE Served(w)'
  <2>1. IsWish(w)
    BY <1>5 DEF WishesSound
  <2>2. ASSUME Home(w) = c, StreamOf(w).topic \in gone PROVE FALSE
    <3>1. w \in held /\ Taken(p, w)
      BY <1>1, <1>7, <1>13, <2>1, <2>2, GoneIsTaken
    <3>2. w \in Asked'
      BY <1>1, <1>13, <3>1 DEF Had
    <3>3. w \in Asked \/ w \in W(p)
      BY <3>2, <1>1, <1>4 DEF Asked, Moves
    <3>4. PICK q \in Callers : call[q].pc \in {"algo", "open"} /\ w \in W(q)
      BY <3>3, <1>13, AskedBy
    <3>5. q # p /\ \E v \in W(p) : w[1] = v[1] /\ w[2] = v[2]
      BY <1>1, <3>1, <3>4 DEF Taken
    <3> QED BY <3>4, <3>5 DEF WatchSound, CallsSound
  <2>3. KeyOf(StreamOf(w).topic) = StreamOf(w).topic \/ gone = {}
    BY <1>7 DEF KeyOf
  <2>4. TopicPair(w) \notin Pairs(c, gone) /\ KeyPair(w) \notin Pairs(c, gone)
    BY <2>2, <2>3 DEF TopicPair, KeyPair, Pairs, Home
  <2>5. ~Keyless(w) => KeyPair(w) \in keys
    BY <1>13 DEF Served
  <2> QED BY <1>1, <1>8, <1>13, <2>4, <2>5, ServedStays DEF StaleAuth
<1>14. WishesServed'
  BY <1>1, <1>5, <1>12, <1>13, ServedKept
<1>15. ChannelsOpen'
  BY <1>1, OpenKept
<1> QED BY <1>9, <1>10, <1>11, <1>14, <1>15

-------------------------------------------------------------------------------
(* An UnWatch call takes nothing from what is still watched.               *)

\* Public data of one exchange: the topic tells what is watched.
LEMMA SameTopic ==
  ASSUME WatchForms, NEW w, IsWish(w), ~Poor(w), ~Keyless(w), NEW v, IsWish(v), v \notin AccountWishes,
         StreamOf(w).topic = StreamOf(v).topic
  PROVE  w[1] = v[1] /\ w[2] = v[2] /\ (v[1] # "books" => w = v)
<1> PICK t : t = StreamOf(v).topic
  OBVIOUS
<1>0. v[1] \in PublicKinds /\ (v[1] = "books" => wexg # "bitget")
  BY WishKind
<1>1. CASE w \in AccountWishes
  <2>1. CASE wexg = "okx"
    <3>1. PICK ch, tf : ch \in OkxChans /\ t = <<ch, tf, "", v[2]>>
      BY <1>0, <2>1, OkxPublic DEF OkxTopic
    <3>2. PICK wch, type, inst : OkxAccountTopic(w, wch, type, inst)
      BY <1>1, <2>1, OkxAccount
    <3>3. t = <<wch, "", type, inst>>
      BY <3>2 DEF OkxAccountTopic
    <3>4. t[1] = ch /\ ch \in OkxChans
      BY ONLY <3>1
    <3>5. t[1] = wch
      BY ONLY <3>3
    <3> QED BY <3>2, <3>4, <3>5 DEF OkxAccountTopic, OkxChans
  <2>2. CASE wexg = "bybit"
    <3>1. t[1] \in {"orderbook", "publicTrade", "kline", "tickers"}
      BY <1>0, <2>2, BybitPublic DEF BybitTopic
    <3>2. PICK word, arg : BybitAccountTopic(w, word, arg)
      BY <1>1, <2>2, BybitAccount
    <3>3. t = <<word, arg>>
      BY <3>2 DEF BybitAccountTopic
    <3>4. t[1] = word
      BY ONLY <3>3
    <3> QED BY <3>1, <3>2, <3>4 DEF BybitAccountTopic
  <2> QED BY <1>1, <2>1, <2>2, AccountExchange DEF Keyless
<1>2. CASE w \notin AccountWishes
  <2>0. w[1] \in PublicKinds /\ (w[1] = "books" => wexg # "bitget")
    BY <1>2, WishKind
  <2>1. w[1] = v[1] /\ w[2] = v[2] /\ (v[1] = "candles" => w[3] = v[3])
    <3>1. CASE wexg = "okx"
      <4>1. PICK ch, tf : OkxTopic(v, ch, tf)
        BY <1>0, <3>1, OkxPublic
      <4>2. PICK wch, wtf : OkxTopic(w, wch, wtf)
        BY <2>0, <3>1, OkxPublic
      <4>3. <<ch, tf, "", v[2]>> = <<wch, wtf, "", w[2]>>
        BY <4>1, <4>2 DEF OkxTopic
      <4>4. ch = wch /\ tf = wtf /\ v[2] = w[2]
        BY <4>3
      <4>5. v[1] = OkxKind(ch) /\ w[1] = OkxKind(ch)
        BY <4>1, <4>2, <4>4 DEF OkxTopic
      <4>6. v[1] = "candles" => ch = "candle"
        BY <4>1, <4>5 DEF OkxTopic, OkxKind, OkxChans
      <4> QED BY <4>1, <4>2, <4>4, <4>5, <4>6 DEF OkxTopic
    <3>2. CASE wexg = "bybit"
      <4>1. BybitTopic(v, t) /\ BybitTopic(w, t)
        BY <1>0, <2>0, <3>2, BybitPublic DEF BybitTopic
      <4> QED BY <3>2, <4>1 DEF BybitTopic, Poor
    <3>3. CASE wexg = "bitget"
      <4>1. BitgetTopic(v, t) /\ BitgetTopic(w, t)
        BY <1>0, <2>0, <3>3, BitgetPublic DEF BitgetTopic
      <4> QED BY <4>1 DEF BitgetTopic
    <3>4. CASE wexg = "binance"
      <4>1. BinanceTopic(v, t) /\ BinanceTopic(w, t)
        BY <1>0, <2>0, <3>4, BinancePublic DEF BinanceTopic
      <4> QED BY <4>1 DEF BinanceTopic
    <3> QED BY <3>1, <3>2, <3>3, <3>4 DEF WatchForms
  <2>2. /\ w = <<w[1], w[2], w[3]>> /\ v = <<v[1], v[2], v[3]>>
        /\ w[1] \in {"trades", "mark"} => w[3] = ""
        /\ v[1] \in {"trades", "mark"} => v[3] = ""
    BY <1>2 DEF IsWish
  <2>3. v[1] # "books" => w[3] = v[3]
    BY <1>0, <2>1, <2>2 DEF PublicKinds
  <2> QED BY <2>1, <2>2, <2>3
<1> QED BY <1>1, <1>2

\* What an UnWatch call names are topics of wishes for what it gives up.
NamedFor(ws, s, v) ==
  /\ IsWish(v) /\ v \notin AccountWishes
  /\ StreamOf(v).topic = s.topic /\ (wexg = "bybit" => StreamOf(v) = s)
  /\ \E z \in ws : z[1] = v[1] /\ z[2] = v[2] /\ (v[1] # "books" => z = v)

LEMMA BookWish ==
  ASSUME WatchForms, NEW i \in Insts, wexg # "bitget", NEW l
  PROVE  \E v : v = <<"books", i, l>> /\ v[1] = "books" /\ v[2] = i /\ v[3] = l
                /\ IsWish(v) /\ v \notin AccountWishes
<1> PICK v : v = <<"books", i, l>>
  OBVIOUS
<1>1. v[1] = "books" /\ v[2] = i /\ v[3] = l
  OBVIOUS
<1>2. v = <<v[1], v[2], v[3]>>
  BY <1>1
<1>3. IsWish(v)
  BY <1>1, <1>2 DEF IsWish, PublicKinds
<1>4. v \notin AccountWishes
  BY <1>1, KindOf DEF AccountKinds
<1> QED BY <1>1, <1>3, <1>4

LEMMA NamedByWish ==
  ASSUME WatchForms, DepthsKnown, WishesSound, NEW ws, Given(ws), NEW streams \in Unnamed(ws), NEW s \in streams
  PROVE  \E v : NamedFor(ws, s, v)
<1>1. \A z \in ws : /\ z \in held /\ z \in PublicWishes /\ z[2] \in Insts
                    /\ IsWish(z) /\ z \notin AccountWishes
  <2>1. \A z \in ws : z \in held /\ z \in PublicWishes /\ z[1] \in PublicKinds /\ z[2] \in Insts
    BY KindOf DEF Given
  <2>2. \A z \in ws : z \notin AccountWishes
    BY <2>1, KindOf DEF PublicKinds, AccountKinds
  <2> QED BY <2>1, <2>2 DEF WishesSound, Wanted
<1>2. CASE \A z \in ws : z[1] # "books"
  <2>1. streams = {StreamOf(z) : z \in ws}
    BY <1>2 DEF Unnamed
  <2>2. PICK z \in ws : s = StreamOf(z)
    BY <2>1
  <2> QED BY <1>1, <2>2 DEF NamedFor
<1>3. CASE ~\A z \in ws : z[1] # "books"
  <2>0. \A z \in ws : z[1] = "books" /\ wexg # "bitget"
    BY <1>1, <1>3, KindOf DEF Given
  <2>1. CASE wexg = "okx"
    <3>1. streams = {Okx!UnBooks(z[2]) : z \in ws}
      BY <1>3, <2>1 DEF Unnamed
    <3>2. PICK z \in ws : s = Okx!UnBooks(z[2])
      BY <3>1
    <3>0. \A l : \E v : v[1] = "books" /\ v[2] = z[2] /\ v[3] = l /\ IsWish(v) /\ v \notin AccountWishes
      BY <1>1, <2>0, BookWish
    <3>NoLimit. PICK l : l = 0
      OBVIOUS
    <3>3. PICK v : v[1] = "books" /\ v[2] = z[2] /\ v[3] = l /\ IsWish(v) /\ v \notin AccountWishes
      BY <3>0
    <3>4. s.topic = <<"books", "", "", z[2]>>
      BY <3>2 DEF Okx!UnBooks, Okx!Stream, Okx!Topic
    <3>5. StreamOf(v) = Okx!Books(z[2], l)
      BY <2>1, <3>3 DEF StreamOf
    <3>6. ~(l > 0 /\ l <= 5)
      BY <3>NoLimit
    <3>7. Okx!Books(z[2], l).topic = <<"books", "", "", z[2]>>
      BY ONLY <3>6 DEF Okx!Books, Okx!Stream, Okx!Topic
    <3> QED BY <2>0, <2>1, <3>3, <3>4, <3>5, <3>7 DEF NamedFor
  <2>2. CASE wexg = "bybit"
    <3>1. streams = {Bybit!UnBooks(mkt, z[2], limits[z[2]]) : z \in ws}
      BY <1>3, <2>2 DEF Unnamed
    <3>2. PICK z \in ws : s = Bybit!UnBooks(mkt, z[2], limits[z[2]])
      BY <3>1
    <3>3. limits[z[2]] = Bybit!Depth(mkt, z[3]) /\ limits[z[2]] # 0
      BY <1>1, <2>0, <2>2, DepthIsOne DEF DepthsKnown, Had
    <3>4. StreamOf(z) = Bybit!Books(mkt, z[2], z[3])
      BY <2>0, <2>2 DEF StreamOf
    <3>5. StreamOf(z) = s
      BY <3>2, <3>3, <3>4 DEF Bybit!Books, Bybit!UnBooks
    <3> QED BY <1>1, <3>5 DEF NamedFor
  <2>3. CASE wexg = "binance"
    <3>1. PICK l : streams = {Binance!Books(mkt, z[2], l) : z \in ws}
      BY <1>3, <2>3 DEF Unnamed
    <3>2. PICK z \in ws : s = Binance!Books(mkt, z[2], l)
      BY <3>1
    <3>3. PICK v : v[1] = "books" /\ v[2] = z[2] /\ v[3] = l /\ IsWish(v) /\ v \notin AccountWishes
      BY <1>1, <2>0, BookWish
    <3>4. StreamOf(v) = Binance!Books(mkt, z[2], l)
      BY <2>3, <3>3 DEF StreamOf
    <3> QED BY <2>0, <2>3, <3>2, <3>3, <3>4 DEF NamedFor
  <2> QED BY <1>3, <2>0, <2>1, <2>2, <2>3 DEF WatchForms
<1> QED BY <1>2, <1>3

\* Who shares a key with what is given up is given up.
LEMMA SameKey ==
  ASSUME WatchForms, NEW w, IsWish(w), ~Poor(w), ~Keyless(w), NEW v, IsWish(v), v \notin AccountWishes,
         KeyOf(StreamOf(w).topic) = KeyOf(StreamOf(v).topic)
  PROVE  StreamOf(w).topic = StreamOf(v).topic
<1>1. CASE wexg = "okx"
  <2>1. v[1] # "positions"
    BY WishKind DEF PublicKinds
  <2>2. ~Poor(v) /\ ~Keyless(v)
    BY <1>1, <2>1 DEF Poor, Keyless
  <2> QED BY <2>2, RoundTrip
<1>2. CASE wexg # "okx"
  BY <1>2 DEF KeyOf
<1> QED BY <1>1, <1>2

\* On bybit also who shares a reference.
LEMMA SameRef ==
  ASSUME WatchForms, wexg = "bybit", NEW w, IsWish(w), NEW v, IsWish(v), v \notin AccountWishes,
         StreamOf(w).chan = StreamOf(v).chan, StreamOf(w).ref = StreamOf(v).ref
  PROVE  w[1] = v[1] /\ w[2] = v[2] /\ (v[1] # "books" => w = v)
<1>1. PICK tv : BybitTopic(v, tv)
  BY WishKind, BybitPublic
<1>2. CASE w \in AccountWishes
  <2>1. StreamOf(w).chan \in {"balance", "positions", "accConfig", "mytrades"}
    BY <1>2, BybitAccount DEF BybitAccountTopic
  <2> QED BY <1>1, <2>1 DEF BybitTopic
<1>3. CASE w \notin AccountWishes
  <2>1. PICK tw : BybitTopic(w, tw)
    BY <1>3, WishKind, BybitPublic
  <2>2. w[1] = v[1]
    BY <1>1, <2>1 DEF BybitTopic
  <2>3. CASE v[1] = "candles"
    <3>1. <<w[2], w[3]>> = <<v[2], v[3]>>
      BY <1>1, <2>1, <2>2, <2>3 DEF BybitTopic
    <3>2. w[2] = v[2] /\ w[3] = v[3]
      BY <3>1
    <3> QED BY <1>3, <2>2, <2>3, <3>2 DEF IsWish
  <2>4. CASE v[1] # "candles"
    <3>1. <<w[2]>> = <<v[2]>>
      BY <1>1, <2>1, <2>2, <2>4 DEF BybitTopic
    <3>2. w[2] = v[2]
      BY <3>1
    <3>3. /\ w = <<w[1], w[2], w[3]>> /\ v = <<v[1], v[2], v[3]>> /\ v[1] \in PublicKinds
          /\ w[1] \in {"trades", "mark"} => w[3] = ""
          /\ v[1] \in {"trades", "mark"} => v[3] = ""
      BY <1>3 DEF IsWish
    <3>4. v[1] # "books" => w[3] = v[3]
      BY <2>2, <2>4, <3>3 DEF PublicKinds
    <3> QED BY <2>2, <3>2, <3>3, <3>4
  <2> QED BY <2>3, <2>4
<1> QED BY <1>2, <1>3

LEMMA UnWatchServes ==
  ASSUME WatchSound, FedSound, NEW ws, UnWatch(ws)
  PROVE  FedSound'
<1> USE DEF FedSound
<1>1. /\ Given(ws) /\ ~Busy(ws) /\ held' = held \ Ended(ws)
      /\ UNCHANGED <<env, call>> /\ UNCHANGED <<authed, logged, relog, back>>
      /\ WatchForms /\ DepthsKnown
  BY DEF UnWatch, Given, WatchSound
<1> PICK streams \in Unnamed(ws) :
      LET c      == (CHOOSE s \in streams : TRUE).client
          topics == {s.topic : s \in streams}
          ks     == {KeyOf(t) : t \in topics}
      IN  /\ keys' = Dropped(c, ks)
          /\ IF wexg # "bybit" THEN UNCHANGED <<sends, queue, refs, limits>>
             ELSE /\ sends' = sends \ Pairs(c, topics)
                  /\ queue' = queue \ Pairs(c, topics)
                  /\ refs' = refs \ {<<<<s.client, s.chan>>, s.ref>> : s \in streams}
  BY DEF UnWatch
<1> PICK c : c = (CHOOSE s \in streams : TRUE).client
  OBVIOUS
<1> DEFINE topics == {s.topic : s \in streams}
           ks     == {KeyOf(t) : t \in topics}
<1>2. /\ keys' = keys \ Pairs(c, ks)
      /\ wexg # "bybit" => UNCHANGED <<sends, queue, refs>>
      /\ wexg = "bybit" =>
           /\ sends' = sends \ Pairs(c, topics)
           /\ queue' = queue \ Pairs(c, topics)
           /\ refs' = refs \ {<<<<s.client, s.chan>>, s.ref>> : s \in streams}
  BY DEF Dropped
<1>3. /\ \A w \in Wanted' : w \in Wanted
      /\ \A w \in Ready' : w \in Ready
      /\ Had' \subseteq Had /\ Opened' \subseteq Opened /\ Had \subseteq Wanted
  BY <1>1 DEF Wanted, Ready, Had, Asked, Opened, W
<1>4. wexg # "bitget" => ~LogsIn(c)
  BY <1>1, UnnamedClient DEF Given
<1>5. ASSUME NEW w \in Had', NEW v \in ws, w[1] = v[1], w[2] = v[2], w[1] # "books" => w = v
      PROVE  FALSE
  <2>1. w \notin held'
    BY <1>1, <1>5 DEF Ended
  <2>2. w \in Asked'
    BY <2>1 DEF Had
  <2>3. w \in Asked
    BY <1>1, <2>2, CallsRest DEF WatchSound
  <2>4. PICK q \in Callers : w \in W(q)
    BY <2>3, AskedBy
  <2> QED BY <1>1, <1>5, <2>4 DEF Busy
<1>6. ASSUME NEW w \in Had', ~Poor(w), ~Keyless(w), NEW s \in streams
      PROVE  /\ KeyOf(StreamOf(w).topic) # KeyOf(s.topic)
             /\ StreamOf(w).topic # s.topic
  <2> SUFFICES ASSUME KeyOf(StreamOf(w).topic) = KeyOf(s.topic) PROVE FALSE
    OBVIOUS
  <2>1. PICK v : NamedFor(ws, s, v)
    BY <1>1, NamedByWish
  <2>2. IsWish(w)
    BY <1>3 DEF WishesSound
  <2>3. StreamOf(w).topic = StreamOf(v).topic
    BY <1>1, <1>6, <2>1, <2>2, SameKey DEF NamedFor
  <2>4. w[1] = v[1] /\ w[2] = v[2] /\ (v[1] # "books" => w = v)
    BY <1>1, <1>6, <2>1, <2>2, <2>3, SameTopic DEF NamedFor
  <2>5. PICK z \in ws : z[1] = v[1] /\ z[2] = v[2] /\ (v[1] # "books" => z = v)
    BY <2>1 DEF NamedFor
  <2> QED BY <1>5, <2>4, <2>5
<1>7. WishesSound'
  BY <1>1, <1>3, WishesKept
<1>8. AccountsSound'
  <2>1. ASSUME wexg = "bybit", NEW d \in relog PROVE Sub(keys, d) \subseteq Sub(keys', d)
    <3>1. LogsIn(d)
      BY DEF WatchSound, LoginsSound
    <3>2. \A x \in Pairs(c, ks) : x[1] # d
      BY <2>1, <3>1, <1>4 DEF Pairs
    <3>3. \A x \in keys : x[1] = d => x \in keys'
      BY <3>2, <1>2
    <3> QED BY <3>3 DEF Sub
  <2> QED BY <1>1, <1>3, <2>1, AccountsKept
<1>9. AlgosServed'
  <2>1. wexg = "okx" => \A w \in Opened : AlgoServed(w) => AlgoServed(w)'
    BY <1>1, <1>2, AlgoStays
  <2> QED BY <1>1, <1>3, <2>1, AlgosKept
<1>10. ASSUME NEW w \in Had', w \in Had, ~Poor(w), Served(w) PROVE Served(w)'
  <2>1. CASE Keyless(w)
    <3>1. UNCHANGED sends
      BY <1>2, <2>1 DEF Keyless
    <3>2. TopicPair(w) \in sends'
      BY <1>10, <2>1, <3>1 DEF Served
    <3> QED BY <1>1, <2>1, <3>2, WishSame DEF Served
  <2>2. CASE ~Keyless(w)
    <3>1. KeyPair(w) \notin Pairs(c, ks) /\ TopicPair(w) \notin Pairs(c, topics)
      BY <1>6, <1>10, <2>2 DEF KeyPair, TopicPair, Pairs
    <3>2. KeyPair(w) \in keys'
      BY <1>2, <1>10, <2>2, <3>1 DEF Served
    <3>3. /\ TopicPair(w) \in sends => TopicPair(w) \in sends'
          /\ TopicPair(w) \in queue => TopicPair(w) \in queue'
      BY <1>2, <3>1
    <3> QED BY <1>1, <1>10, <3>2, <3>3, ServedStays DEF StaleAuth
  <2> QED BY <2>1, <2>2
<1>11. WishesServed'
  BY <1>1, <1>3, <1>10, ServedKept
<1>12. ChannelsOpen'
  <2>1. ASSUME wexg = "bybit", NEW w \in held', NEW s \in streams,
               RefPair(w) = <<<<s.client, s.chan>>, s.ref>>
        PROVE  FALSE
    <3>1. PICK v : NamedFor(ws, s, v)
      BY <1>1, NamedByWish
    <3>2. IsWish(w) /\ w \in Had'
      BY <1>3 DEF WishesSound, Had
    <3>3. StreamOf(w).chan = s.chan /\ StreamOf(w).ref = s.ref
      BY <2>1 DEF RefPair
    <3>4. w[1] = v[1] /\ w[2] = v[2] /\ (v[1] # "books" => w = v)
      BY <1>1, <2>1, <3>1, <3>2, <3>3, SameRef DEF NamedFor
    <3>5. PICK z \in ws : z[1] = v[1] /\ z[2] = v[2] /\ (v[1] # "books" => z = v)
      BY <3>1 DEF NamedFor
    <3> QED BY <1>5, <3>2, <3>4, <3>5
  <2>2. \A w \in held' : w \in held /\ (RefPair(w) \in refs => RefPair(w) \in refs')
    BY <1>1, <1>2, <2>1
  <2> QED BY <1>1, <2>2, OpenKept
<1> QED BY <1>7, <1>8, <1>9, <1>11, <1>12

-------------------------------------------------------------------------------
(* The reconnections bring again what is watched.                          *)

\* The algo orders come over a client whose reconnection does not log in.
LEMMA AlgoHome ==
  ASSUME wexg = "okx", NEW w
  PROVE  ~LogsIn(AlgoOf(w).client)
<1> PICK d : d = AlgoOf(w).client
  OBVIOUS
<1>1. d = <<"business", w[2]>>
  BY DEF AlgoOf, Okx!AlgoOrders, Okx!Stream, Okx!Algo
<1>2. d[1] = "business"
  BY ONLY <1>1
<1> QED BY <1>2 DEF LogsIn

LEMMA AlgoGoesOn ==
  ASSUME NEW w, AlgoServed(w), NEW d, d = AlgoOf(w).client, d \in authed',
         d \in logged' => d \in logged /\ \A x \in sends : x[1] = d => x \in sends'
  PROVE  AlgoServed(w)'
<1> PICK x : x = <<d, AlgoOf(w).topic>>
  OBVIOUS
<1>1. x[1] = d /\ (d \in logged => x \in sends)
  BY DEF AlgoServed
<1>2. d \in logged' => x \in sends'
  BY <1>1
<1>3. AlgoServed(w)' <=> d \in authed' /\ (d \in logged' => x \in sends')
  BY DEF AlgoServed, AlgoOf
<1> QED BY <1>2, <1>3

\* What the parts are about, where the calls stay as they are.
LEMMA CallsStay ==
  ASSUME UNCHANGED call, held' \subseteq held
  PROVE  /\ \A w \in Wanted' : w \in Wanted
         /\ \A w \in Ready' : w \in Ready
         /\ Had' \subseteq Had /\ Opened' \subseteq Opened
<1>1. \A p \in Callers : W(p)' = W(p)
  BY DEF W
<1> QED BY <1>1 DEF Wanted, Ready, Had, Asked, Opened, W

LEMMA HadIsReady == /\ \A w \in Had : w \in Ready
                    /\ Had \subseteq Wanted
BY DEF Had, Asked, Ready, Wanted

\* A key of a client is in what a reconnection reads.
LEMMA InSub ==
  ASSUME NEW S, NEW c, NEW k, <<c, k>> \in S
  PROVE  k \in Sub(S, c)
<1> PICK x \in S : x = <<c, k>>
  OBVIOUS
<1>1. x[1] = c /\ x[2] = k
  BY ONLY x = <<c, k>>
<1> QED BY <1>1 DEF Sub

\* A pair of a wish is of the client it comes over.
LEMMA PairClient == \A w : TopicPair(w)[1] = Home(w) /\ KeyPair(w)[1] = Home(w)
BY DEF TopicPair, KeyPair, Home

LEMMA ReconnectServes ==
  ASSUME WatchSound, FedSound, NEW c \in up, ReconnectWs(c)
  PROVE  FedSound'
<1> USE DEF FedSound
<1>1. /\ UNCHANGED env /\ UNCHANGED call /\ UNCHANGED <<keys, refs, held>>
      /\ \/ ReconnectKeyless(c) /\ wexg = "bybit" /\ Sub(keys, c) = {}
         \/ LogsIn(c) /\ Relogin(c) /\ ~(wexg = "bybit" /\ Sub(keys, c) = {})
         \/ ~LogsIn(c) /\ Resubscribe(c)
      /\ WatchForms /\ LoginsSound
  BY DEF ReconnectWs, WatchSound
<1>2. /\ \A w \in Wanted' : w \in Wanted
      /\ \A w \in Ready' : w \in Ready
      /\ Had' \subseteq Had /\ Opened' \subseteq Opened
  BY <1>1, CallsStay
<1>3. /\ \A x \in sends : x[1] # c => x \in sends'
      /\ \A x \in back : x[1] # c => x \in back'
      /\ \A x \in queue : x[1] # c => x \in queue'
      /\ \A d : d # c => (d \in relog' <=> d \in relog) /\ (d \in authed' <=> d \in authed)
                         /\ (d \in logged' <=> d \in logged)
      /\ c \notin logged'
  BY <1>1 DEF ReconnectKeyless, Relogin, Resubscribe, Minus
<1>4. WishesSound'
  BY <1>1, <1>2, WishesKept
<1>5. AccountsSound'
  <2>1. ReconnectKeyless(c) => c \notin relog /\ authed' = authed
    BY <1>1 DEF AccountsSound, ReconnectKeyless, Relogin, Resubscribe
  <2>2. authed \cup relog \subseteq authed' \cup relog'
    BY <1>1, <2>1 DEF ReconnectKeyless, Relogin, Resubscribe
  <2>3. ASSUME wexg = "bybit", NEW d \in relog'
        PROVE  (d \in relog /\ Sub(keys, d) \subseteq Sub(keys', d)) \/ Sub(keys', d) # {}
    BY <1>1, <2>3 DEF ReconnectKeyless, Relogin, Resubscribe
  <2> QED BY <1>1, <1>2, <2>2, <2>3, AccountsKept
<1>6. AlgosServed'
  <2>1. ASSUME wexg = "okx", NEW w \in Opened, AlgoServed(w) PROVE AlgoServed(w)'
    <3> PICK d : d = AlgoOf(w).client
      OBVIOUS
    <3>1. ~LogsIn(d) /\ d \in authed
      BY <2>1, AlgoHome DEF AlgoServed
    <3>2. d \in authed'
      BY <1>1, <1>3, <2>1, <3>1 DEF Resubscribe
    <3> QED BY <1>3, <2>1, <3>2, AlgoGoesOn
  <2> QED BY <1>1, <1>2, <2>1, AlgosKept
<1>7. ASSUME NEW w \in Had, ~Poor(w), Served(w) PROVE Served(w)'
  <2>1. IsWish(w) /\ (w \in AccountWishes => creds)
    BY HadIsReady DEF WishesSound, AccountsSound
  <2>2. CASE Home(w) # c
    <3>1. TopicPair(w)[1] # c /\ KeyPair(w)[1] # c
      BY <2>2, PairClient
    <3> QED BY <1>1, <1>3, <1>7, <2>2, <3>1, ServedStays DEF Served, StaleAuth
  <2>3. CASE Home(w) = c /\ Keyless(w)
    <3>1. ~LogsIn(c) /\ Resubscribe(c)
      BY <1>1, <2>3 DEF Keyless, LogsIn
    <3>2. c = <<mkt, "user", w[2]>> /\ StreamOf(w).topic = Binance!UserData
      BY <2>3, BinanceAccount DEF Keyless, Home
    <3>3. c[2] = "user"
      BY ONLY <3>2
    <3>4. TopicPair(w) = <<c, Binance!UserData>>
      BY <2>3, <3>2 DEF TopicPair, Home
    <3>5. TopicPair(w) \in sends'
      BY <2>3, <3>1, <3>3, <3>4 DEF Resubscribe, Keyless, Pairs
    <3> QED BY <1>1, <2>3, <3>5, WishSame DEF Served
  <2>4. CASE Home(w) = c /\ ~Keyless(w)
    <3> PICK t : t = StreamOf(w).topic
      OBVIOUS
    <3>1. /\ KeyPair(w) = <<c, KeyOf(t)>> /\ TopicPair(w) = <<c, t>> /\ KeyPair(w) \in keys
      BY <1>7, <2>4 DEF KeyPair, TopicPair, Home, Served
    <3>2. KeyOf(t) \in Sub(keys, c)
      BY <3>1, InSub
    <3>3. CASE LogsIn(c)
      <4>1. Relogin(c)
        BY <1>1, <3>2, <3>3
      <4>2. KeyPair(w) \in back' /\ c \in relog'
        BY <3>1, <3>2, <4>1 DEF Relogin, Pairs
      <4> QED BY <1>1, <2>4, <3>1, <4>2, WishSame DEF Served
    <3>4. CASE ~LogsIn(c)
      <4>1. Resubscribe(c) /\ c \notin relog'
        BY <1>1, <3>2, <3>4 DEF Resubscribe, LoginsSound
      <4>2. w \notin AccountWishes
        BY <1>1, <2>4, <3>4, AccountExchange, AccountHome DEF Keyless
      <4>3. t \in {TopicOf(k) : k \in Sub(keys, c)}
        BY <1>1, <1>7, <2>1, <2>4, <3>2, RoundTrip
      <4>4. t \in Granted(c, {TopicOf(k) : k \in Sub(keys, c)}, logged \ {c})
        BY <1>1, <1>7, <2>1, <2>4, <4>2, <4>3, GrantedTo
      <4>5. TopicPair(w) \in sends'
        <5> PICK G : G = Granted(c, {TopicOf(k) : k \in Sub(keys, c)}, logged \ {c})
          OBVIOUS
        <5>1. Pairs(c, G) \subseteq sends'
          BY <4>1 DEF Resubscribe
        <5>2. <<c, t>> \in Pairs(c, G)
          BY <4>4 DEF Pairs
        <5> QED BY <3>1, <5>1, <5>2
      <4> QED BY <1>1, <2>4, <3>1, <4>1, <4>5, WishSame DEF Served
    <3> QED BY <3>3, <3>4
  <2> QED BY <2>2, <2>3, <2>4
<1>8. WishesServed'
  BY <1>1, <1>2, <1>7, ServedKept
<1>9. ChannelsOpen'
  BY <1>1, OpenKept
<1> QED BY <1>4, <1>5, <1>6, <1>8, <1>9

\* A connection that ends is of nothing that may be watched with these API keys.
LEMMA EndServes ==
  ASSUME WatchSound, FedSound, NEW c, End(c)
  PROVE  FedSound'
<1> USE DEF FedSound
<1>1. /\ UNCHANGED env /\ UNCHANGED call /\ UNCHANGED <<authed, logged, relog, back, queue>>
      /\ LogsIn(c) /\ ~creds
      /\ sends' = Minus(sends, c) /\ keys' = Minus(keys, c)
      /\ refs' = {r \in refs : r[1][1] # c}
      /\ held' = {w \in held : StreamOf(w).client # c}
      /\ WatchForms /\ LoginsSound
  BY DEF End, auth, WatchSound
<1>2. /\ \A w \in Wanted' : w \in Wanted
      /\ \A w \in Ready' : w \in Ready
      /\ Had' \subseteq Had /\ Opened' \subseteq Opened
  BY <1>1, CallsStay
<1>3. /\ \A x \in sends : x[1] # c => x \in sends'
      /\ \A x \in keys : x[1] # c => x \in keys'
      /\ relog = {}
  BY <1>1 DEF Minus, LoginsSound
<1>4. WishesSound'
  BY <1>1, <1>2, WishesKept
<1>5. AccountsSound'
  BY <1>1, <1>2, <1>3, AccountsKept
<1>6. AlgosServed'
  <2>1. ASSUME wexg = "okx", NEW w \in Opened, AlgoServed(w) PROVE AlgoServed(w)'
    <3> PICK d : d = AlgoOf(w).client
      OBVIOUS
    <3>1. d # c /\ d \in authed
      BY <1>1, <2>1, AlgoHome DEF AlgoServed
    <3> QED BY <1>1, <1>3, <2>1, <3>1, AlgoGoesOn
  <2> QED BY <1>1, <1>2, <2>1, AlgosKept
<1>7. ASSUME NEW w \in Had, ~Poor(w) PROVE Home(w) # c
  <2>1. IsWish(w) /\ (w \in AccountWishes => creds)
    BY HadIsReady DEF WishesSound, AccountsSound
  <2> QED BY <1>1, <1>7, <2>1, HomeStays
<1>8. WishesServed'
  <2>1. ASSUME NEW w \in Had, ~Poor(w), Served(w) PROVE Served(w)'
    <3>1. TopicPair(w)[1] # c /\ KeyPair(w)[1] # c
      BY <1>7, <2>1, PairClient
    <3> QED BY <1>1, <1>3, <2>1, <3>1, ServedStays DEF Served, StaleAuth
  <2> QED BY <1>1, <1>2, <2>1, ServedKept
<1>9. ChannelsOpen'
  <2>1. ASSUME NEW w \in held', ~Poor(w), RefPair(w) \in refs PROVE RefPair(w) \in refs'
    <3> PICK r : r = RefPair(w)
      OBVIOUS
    <3>1. r[1][1] = StreamOf(w).client
      BY DEF RefPair
    <3> QED BY <1>1, <2>1, <3>1
  <2> QED BY <1>1, <2>1, OpenKept
<1> QED BY <1>4, <1>5, <1>6, <1>8, <1>9

\* The answer to the login of a reconnection brings back what was there before it
\* and what was asked for behind it.
LEMMA RestoreServes ==
  ASSUME WatchSound, FedSound, NEW c \in relog, Restore(c)
  PROVE  FedSound'
<1> USE DEF FedSound
<1> PICK ks : ks = Sub(back, c)
  OBVIOUS
<1> PICK ts : ts = {TopicOf(k) : k \in ks} \cup Sub(queue, c)
  OBVIOUS
<1>1. /\ UNCHANGED env /\ UNCHANGED call /\ UNCHANGED <<refs, held>>
      /\ keys \subseteq keys'
      /\ sends' = sends \cup Pairs(c, Granted(c, ts, logged \cup {c}))
      /\ authed' = authed \cup {c} /\ logged' = logged \cup {c}
      /\ relog' = relog \ {c} /\ queue' = Minus(queue, c) /\ back' = Minus(back, c)
      /\ WatchForms /\ LoginsSound
  BY DEF Restore, Answered, WatchSound
<1>2. /\ \A w \in Wanted' : w \in Wanted
      /\ \A w \in Ready' : w \in Ready
      /\ Had' \subseteq Had /\ Opened' \subseteq Opened
  BY <1>1, CallsStay
<1>3. LogsIn(c)
  BY <1>1 DEF LoginsSound
<1>4. WishesSound'
  BY <1>1, <1>2, WishesKept
<1>5. AccountsSound'
  <2>1. \A d : Sub(keys, d) \subseteq Sub(keys', d)
    BY <1>1 DEF Sub
  <2> QED BY <1>1, <1>2, <2>1, AccountsKept
<1>6. AlgosServed'
  <2>1. ASSUME wexg = "okx", NEW w \in Opened, AlgoServed(w) PROVE AlgoServed(w)'
    <3> PICK d : d = AlgoOf(w).client
      OBVIOUS
    <3>1. d # c /\ d \in authed
      BY <1>3, <2>1, AlgoHome DEF AlgoServed
    <3> QED BY <1>1, <2>1, <3>1, AlgoGoesOn
  <2> QED BY <1>1, <1>2, <2>1, AlgosKept
<1>7. ASSUME NEW w \in Had, ~Poor(w), Served(w) PROVE Served(w)'
  <2>1. CASE Home(w) # c
    <3>1. TopicPair(w)[1] # c /\ KeyPair(w)[1] # c
      BY <2>1, PairClient
    <3>2. /\ KeyPair(w) \in back => KeyPair(w) \in back'
          /\ TopicPair(w) \in queue => TopicPair(w) \in queue'
      BY <1>1, <3>1 DEF Minus
    <3> QED BY <1>1, <1>7, <2>1, <3>2, ServedStays DEF Served, StaleAuth
  <2>2. CASE Home(w) = c
    <3> PICK t : t = StreamOf(w).topic
      OBVIOUS
    <3>1. ~Keyless(w) /\ IsWish(w)
      BY <1>3, <2>2, HadIsReady DEF Keyless, LogsIn, WishesSound
    <3>2. KeyPair(w) = <<c, KeyOf(t)>> /\ TopicPair(w) = <<c, t>>
      BY <2>2 DEF KeyPair, TopicPair, Home
    <3>3. KeyPair(w) \in keys /\ (KeyPair(w) \in back \/ TopicPair(w) \in queue)
      BY <1>7, <2>2, <3>1 DEF Served
    <3>4. KeyOf(t) \in ks \/ t \in Sub(queue, c)
      BY <3>2, <3>3, InSub
    <3>5. t \in ts
      BY <1>1, <1>7, <3>1, <3>4, RoundTrip
    <3>6. t \in Granted(c, ts, logged \cup {c})
      BY <1>1, <1>7, <2>2, <3>1, <3>5, GrantedTo
    <3>7. TopicPair(w) \in sends' /\ KeyPair(w) \in keys' /\ c \notin relog'
      BY <1>1, <3>2, <3>3, <3>6 DEF Pairs
    <3> QED BY <1>1, <2>2, <3>1, <3>7, WishSame DEF Served
  <2> QED BY <2>1, <2>2
<1>8. WishesServed'
  BY <1>1, <1>2, <1>7, ServedKept
<1>9. ChannelsOpen'
  BY <1>1, OpenKept
<1> QED BY <1>4, <1>5, <1>6, <1>8, <1>9

-------------------------------------------------------------------------------
(* Every step keeps it.                                                    *)

\* FedSound is of behaviours that watch streams.
FedInv == wexg # "none" => FedSound

LEMMA FedStarts ==
  ASSUME FeedsInit
  PROVE  FedInv
<1> SUFFICES ASSUME wexg # "none" PROVE FedSound
  BY DEF FedInv
<1>1. WatchInit
  BY DEF FeedsInit, NoWatch
<1>2. /\ \A p \in Callers : W(p) = {}
      /\ held = {} /\ relog = {}
  BY <1>1 DEF WatchInit, W
<1>3. Wanted = {} /\ Ready = {} /\ Opened = {} /\ Had = {}
  BY <1>2 DEF Wanted, Ready, Opened, Had, Asked
<1> QED BY <1>2, <1>3 DEF FedSound, WishesSound, AccountsSound, AlgosServed, WishesServed, ChannelsOpen

LEMMA FedRests ==
  ASSUME FedSound, UNCHANGED watchVars
  PROVE  FedSound'
<1> USE DEF FedSound
<1>1. /\ UNCHANGED env /\ UNCHANGED call
      /\ UNCHANGED <<keys, sends, refs, authed, logged, relog, back, queue, held>>
  BY DEF watchVars, env
<1>2. /\ \A w \in Wanted' : w \in Wanted
      /\ \A w \in Ready' : w \in Ready
      /\ Had' \subseteq Had /\ Opened' \subseteq Opened
  BY <1>1, CallsStay
<1>3. WishesSound'
  BY <1>1, <1>2, WishesKept
<1>4. AccountsSound'
  BY <1>1, <1>2, AccountsKept
<1>5. AlgosServed'
  BY <1>1, <1>2, AlgoStays, AlgosKept
<1>6. WishesServed'
  <2>1. \A w : Served(w) => Served(w)'
    BY <1>1, ServedStays DEF Served, StaleAuth
  <2> QED BY <1>1, <1>2, <2>1, ServedKept
<1>7. ChannelsOpen'
  BY <1>1, OpenKept
<1> QED BY <1>3, <1>4, <1>5, <1>6, <1>7

LEMMA FedKept ==
  ASSUME WatchSound, FedSound, WatchNext
  PROVE  FedSound'
<1>1. ASSUME NEW p \in Callers, NEW ws \in Calls, Call(p, ws) PROVE FedSound'
  BY <1>1, CallServes
<1>2. ASSUME NEW p \in Callers, Login(p) \/ Subscribe(p) \/ AskAlgo(p) \/ Open(p) PROVE FedSound'
  BY <1>2, LoginServes, SubscribeServes, AskAlgoServes, OpenServes
<1>3. ASSUME NEW ws, UnWatch(ws) PROVE FedSound'
  BY <1>3, UnWatchServes
<1>4. ASSUME NEW c \in up, ReconnectWs(c) \/ End(c) PROVE FedSound'
  BY <1>4, ReconnectServes, EndServes
<1>5. ASSUME NEW c \in relog, Restore(c) PROVE FedSound'
  BY <1>5, RestoreServes
<1> QED BY <1>1, <1>2, <1>3, <1>4, <1>5 DEF WatchNext

LEMMA FedAlways == FeedsSpec => []FedInv
<1>1. FeedsInit => FedInv
  BY FedStarts
<1>2. WatchInv /\ FedInv /\ [FeedsNext]_<<vars, depthVars, watchVars>> => FedInv'
  <2> SUFFICES ASSUME WatchInv, FedInv, [FeedsNext]_<<vars, depthVars, watchVars>>, wexg' # "none"
               PROVE  FedSound'
    BY DEF FedInv
  <2>1. CASE UNCHANGED watchVars
    <3>1. wexg # "none"
      BY <2>1 DEF watchVars
    <3> QED BY <2>1, <3>1, FedRests DEF FedInv
  <2>2. CASE wexg # "none" /\ WatchNext
    BY <2>2, FedKept DEF WatchInv, FedInv
  <2> QED BY <2>1, <2>2 DEF FeedsNext
<1> QED BY <1>1, <1>2, WatchAlways, PTL DEF FeedsSpec

-------------------------------------------------------------------------------
(* What it means.                                                          *)

\* The configuration of an okx account comes with its positions.
LEMMA ConfigComes ==
  ASSUME WatchForms, wexg = "okx", NEW w, IsWish(w), w[1] = "config",
         NEW v, IsWish(v), v[1] = "positions", v[2] = w[2], v[3] # "ANY"
  PROVE  /\ Home(v) = Home(w) /\ StreamOf(v).topic = Source(w)
         /\ <<Home(w), StreamOf(w).chan>> \in Route(Home(w), Source(w))
<1>1. w \in AccountWishes /\ v \in AccountWishes
  BY DEF IsWish, PublicKinds
<1>2. PICK wch, wtype, winst : OkxAccountTopic(w, wch, wtype, winst)
  BY <1>1, OkxAccount
<1>3. PICK ch, type, inst : OkxAccountTopic(v, ch, type, inst)
  BY <1>1, OkxAccount
<1>4. StreamOf(w).chan = "accConfig"
  BY <1>2 DEF OkxAccountTopic
<1>5. v[3] = "SWAP"
  BY <1>3 DEF OkxAccountTopic
<1>6. Home(v) = Home(w)
  BY <1>2, <1>3 DEF OkxAccountTopic, Home
<1>7. StreamOf(v) = Okx!Positions(v[2], v[3])
  BY DEF StreamOf
<1>8. StreamOf(v).topic = Source(w)
  BY <1>5, <1>7 DEF Source
<1> PICK t : t = Source(w)
  OBVIOUS
<1>9. t = <<"positions", "", "SWAP", "">>
  BY DEF Source, Okx!Positions, Okx!Stream, Okx!Topic
<1>10. t[1] = "positions"
  BY ONLY <1>9
<1>11. Route(Home(w), t) = Okx!PositionChans(Home(w))
  BY <1>10 DEF Route, Okx!Route
<1> QED BY <1>4, <1>6, <1>8, <1>11 DEF Okx!PositionChans

LEMMA FedMeans ==
  ASSUME WatchInv, FedInv
  PROVE  Fed
<1>1. CASE wexg = "none"
  BY <1>1 DEF WatchInv, NoWatch, Fed
<1>2. CASE wexg # "none"
  <2> USE DEF FedSound
  <2>1. WatchForms /\ FedSound
    BY <1>2 DEF WatchInv, FedInv, WatchSound
  <2>2. held \subseteq Had /\ held \subseteq Wanted /\ held \subseteq Opened
    BY DEF Had, Wanted, Opened
  <2>3. ASSUME NEW w \in held, ~Poor(w), Home(w) \notin relog, ~StaleAuth(Home(w))
        PROVE  /\ IsWish(w) /\ TopicPair(w) \in sends
               /\ \E r \in refs : r[1] = <<Home(w), StreamOf(w).chan>>
    <3>1. IsWish(w) /\ Served(w) /\ RefPair(w) \in refs
      BY <2>1, <2>2, <2>3 DEF WishesSound, WishesServed, ChannelsOpen
    <3>2. TopicPair(w) \in sends
      BY <2>3, <3>1 DEF Served
    <3>3. RefPair(w)[1] = <<Home(w), StreamOf(w).chan>>
      BY DEF RefPair, Home
    <3> QED BY <3>1, <3>2, <3>3
  <2>4. ASSUME NEW w \in held, ~Unfed(w), Home(w) \notin relog, ~StaleAuth(Home(w))
        PROVE  Reaches(w)
    <3>1. ~Poor(w)
      BY <2>4 DEF Poor, Unfed
    <3>2. CASE wexg = "okx" /\ w[1] = "config"
      <4>1. PICK v \in held : v[1] = "positions" /\ v[2] = w[2] /\ v[3] # "ANY"
        BY <2>4, <3>2 DEF Unfed
      <4>2. ~Poor(v)
        BY <3>2, <4>1 DEF Poor
      <4>3. IsWish(w) /\ IsWish(v)
        BY <2>1, <2>2 DEF WishesSound
      <4>4. /\ Home(v) = Home(w) /\ StreamOf(v).topic = Source(w)
            /\ <<Home(w), StreamOf(w).chan>> \in Route(Home(w), Source(w))
        BY <2>1, <3>2, <4>1, <4>3, ConfigComes
      <4>5. TopicPair(v) \in sends
        BY <2>3, <2>4, <4>2, <4>4
      <4>6. <<Home(w), Source(w)>> \in sends
        BY <4>4, <4>5 DEF TopicPair, Home
      <4> QED BY <2>3, <2>4, <3>1, <4>4, <4>6 DEF Reaches, Home
    <3>3. CASE ~(wexg = "okx" /\ w[1] = "config")
      <4>1. Source(w) = StreamOf(w).topic
        BY <3>3 DEF Source
      <4>2. <<Home(w), StreamOf(w).chan>> \in Route(Home(w), Source(w))
        BY <2>1, <2>3, <2>4, <3>1, <3>3, <4>1, RouteTo
      <4>3. <<Home(w), Source(w)>> \in sends
        BY <2>3, <2>4, <3>1, <4>1 DEF TopicPair, Home
      <4> QED BY <2>3, <2>4, <3>1, <4>2, <4>3 DEF Reaches, Home
    <3> QED BY <3>2, <3>3
  <2>5. ASSUME NEW w \in held, wexg = "okx", w[1] = "mytrades", ~StaleAuth(AlgoOf(w).client)
        PROVE  <<AlgoOf(w).client, AlgoOf(w).topic>> \in sends
    <3>1. AlgoServed(w)
      BY <2>1, <2>2, <2>5 DEF AlgosServed
    <3> QED BY <2>5, <3>1 DEF AlgoServed, StaleAuth
  <2> QED BY <2>4, <2>5 DEF Fed, Home, AlgoOf
<1> QED BY <1>1, <1>2

\* For every set of instruments, accounts, frames, limits and callers, on each of
\* the four exchanges: what the application has watched and not given up reaches
\* its channel - the exchange sends the topic, the handler of the topic names the
\* channel of GetWsOutChan, and AddWsChanRefs keeps it open - through every
\* interleaving of Watch and UnWatch calls with the reconnections of OnWsReCon and
\* the answers that restorePendingSubscriptions waits for.  The exceptions are
\* those that Fed names.
THEOREM WatchedIsFed == FeedsSpec => []Fed
BY WatchAlways, FedAlways, FedMeans, PTL

-------------------------------------------------------------------------------
(* The books of okx, bybit and bitget.                                     *)

\* A set of numbers has a least one.
LEMMA LeastIs ==
  ASSUME NEW S \in SUBSET Nat, S # {}
  PROVE  Min(S) \in S /\ \A y \in S : Min(S) <= y
<1>1. PICK x \in S : \A y \in S : <<y, x>> \notin OpToRel(<, Nat)
  BY WFMin, NatLessThanWellFounded, Zenon
<1>2. \A y \in S : ~(y < x)
  BY <1>1, Zenon DEF OpToRel
<1>3. \A y \in S : x <= y
  BY <1>2
<1>4. QED
  BY <1>3 DEF Min

\* What the updates of a message come to, one after the other
SetFor(l, d) == Set(l, d[1], d[2])
Updated(l, deltas) == FoldLeft(LAMBDA t, d : Set(t, d[1], d[2]), l, deltas)
Turn(g, base, deltas, S) ==
  IF S = {} THEN base ELSE LET x == Max(S) IN SetFor(g[S \ {x}], deltas[x])

\* The sets of the first k updates have a function that goes on from one to the next.
Folds(base, deltas, k, g) ==
  /\ DOMAIN g = SUBSET (1..k)
  /\ \A S \in SUBSET (1..k) : g[S] = Turn(g, base, deltas, S)

LEMMA FoldExtends ==
  ASSUME NEW base, NEW deltas, NEW k \in Nat, NEW g, Folds(base, deltas, k, g)
  PROVE  \E h : Folds(base, deltas, k + 1, h)
<1> DEFINE h == [S \in SUBSET (1..k + 1) |->
                   IF k + 1 \in S THEN SetFor(g[S \ {k + 1}], deltas[k + 1]) ELSE g[S]]
<1>1. DOMAIN h = SUBSET (1..k + 1)
  OBVIOUS
<1>2. ASSUME NEW S \in SUBSET (1..k + 1), k + 1 \notin S PROVE h[S] = g[S] /\ S \in SUBSET (1..k)
  <2>1. S \in SUBSET (1..k)
    BY <1>2
  <2>2. QED
    BY <1>2, <2>1
<1>3. ASSUME NEW S \in SUBSET (1..k + 1), k + 1 \in S
      PROVE  h[S] = SetFor(g[S \ {k + 1}], deltas[k + 1])
  BY <1>3
<1> HIDE DEF h
<1>4. ASSUME NEW S \in SUBSET (1..k + 1) PROVE h[S] = Turn(h, base, deltas, S)
  <2>1. CASE k + 1 \in S
    <3>1. Max(S) = k + 1
      <4>1. S \subseteq Int /\ \A y \in S : k + 1 >= y
        BY <1>4
      <4>2. QED
        BY <2>1, <4>1, MaxIs
    <3>2. S \ {k + 1} \in SUBSET (1..k + 1) /\ h[S \ {k + 1}] = g[S \ {k + 1}]
      BY <1>2
    <3>3. h[S] = SetFor(h[S \ {k + 1}], deltas[k + 1])
      BY <1>3, <2>1, <3>2
    <3>4. QED
      BY <2>1, <3>1, <3>3 DEF Turn
  <2>2. CASE k + 1 \notin S
    <3>1. h[S] = g[S] /\ S \in SUBSET (1..k)
      BY <1>2, <2>2
    <3>2. g[S] = Turn(g, base, deltas, S)
      BY <3>1 DEF Folds
    <3>3. \A x : h[S \ {x}] = g[S \ {x}]
      BY <1>2, <2>2, <3>1
    <3>4. QED
      BY <3>1, <3>2, <3>3 DEF Turn
  <2>3. QED
    BY <2>1, <2>2
<1>5. QED
  BY <1>1, <1>4 DEF Folds

LEMMA FoldExists ==
  ASSUME NEW base, NEW deltas, NEW n \in Nat
  PROVE  \E g : Folds(base, deltas, n, g)
<1> DEFINE Bad == {k \in Nat : ~\E g : Folds(base, deltas, k, g)}
<1> SUFFICES ASSUME n \in Bad PROVE FALSE
  OBVIOUS
<1>0. \A k : k \in Bad <=> k \in Nat /\ ~\E g : Folds(base, deltas, k, g)
  OBVIOUS
<1> HIDE DEF Bad
<1>1. Bad \in SUBSET Nat /\ Bad # {}
  BY <1>0
<1>2. PICK m \in Bad : \A y \in Bad : m <= y
  BY <1>1, LeastIs
<1>3. m # 0
  <2> DEFINE g == [S \in SUBSET (1..0) |-> base]
  <2>1. \A S \in SUBSET (1..0) : S = {}
    OBVIOUS
  <2>2. Folds(base, deltas, 0, g)
    BY <2>1 DEF Folds, Turn
  <2>3. QED
    BY <1>0, <2>2
<1>4. m - 1 \in Nat /\ m - 1 \notin Bad
  BY <1>0, <1>2, <1>3
<1>5. PICK g : Folds(base, deltas, m - 1, g)
  BY <1>0, <1>4
<1>6. \E h : Folds(base, deltas, (m - 1) + 1, h)
  BY <1>4, <1>5, FoldExtends
<1>7. (m - 1) + 1 = m
  BY <1>0, <1>2
<1>8. QED
  BY <1>0, <1>2, <1>6, <1>7

\* An update after the other
LEMMA FoldSteps ==
  ASSUME NEW base, NEW deltas, NEW n \in Nat, DOMAIN deltas = 1..n
  PROVE  \E F : /\ F[0] = base /\ \A k \in 1..n : F[k] = Set(F[k - 1], deltas[k][1], deltas[k][2])
                /\ Updated(base, deltas) = F[n]
<1> DEFINE g == CHOOSE g : g = [S \in SUBSET (1..n) |-> Turn(g, base, deltas, S)]
           F == [k \in 0..n |-> g[1..k]]
<1>1. g = [S \in SUBSET (1..n) |-> Turn(g, base, deltas, S)]
  <2>1. PICK h : Folds(base, deltas, n, h)
    BY FoldExists
  <2> DEFINE f == [S \in SUBSET (1..n) |-> h[S]]
  <2>2. \A S \in SUBSET (1..n) : f[S] = Turn(f, base, deltas, S)
    <3> SUFFICES ASSUME NEW S \in SUBSET (1..n) PROVE f[S] = Turn(f, base, deltas, S)
      OBVIOUS
    <3>1. h[S] = Turn(h, base, deltas, S)
      BY <2>1 DEF Folds
    <3>2. f[S] = h[S] /\ \A x : f[S \ {x}] = h[S \ {x}]
      OBVIOUS
    <3> HIDE DEF f
    <3>3. QED
      BY <3>1, <3>2 DEF Turn
  <2>3. f = [S \in SUBSET (1..n) |-> Turn(f, base, deltas, S)]
    BY <2>2
  <2> HIDE DEF f
  <2>4. QED
    BY <2>3
<1>2. Updated(base, deltas) = g[1..n]
  BY DEF Updated, FoldLeft, MapThenFoldSet, Turn, SetFor
<1> HIDE DEF g
<1>3. \A S \in SUBSET (1..n) : g[S] = Turn(g, base, deltas, S)
  BY <1>1
<1>4. F[0] = base
  <2>1. 1..0 = {} /\ 0 \in 0..n
    OBVIOUS
  <2>2. QED
    BY <1>3, <2>1 DEF Turn
<1>5. ASSUME NEW k \in 1..n PROVE F[k] = Set(F[k - 1], deltas[k][1], deltas[k][2])
  <2>1. k \in 0..n /\ k - 1 \in 0..n /\ k \in Nat
    OBVIOUS
  <2>2. Max(1..k) = k /\ (1..k) \ {k} = 1..k - 1 /\ 1..k # {} /\ 1..k \in SUBSET (1..n)
    <3>1. 1..k \subseteq Int /\ k \in 1..k /\ \A y \in 1..k : k >= y
      OBVIOUS
    <3>2. Max(1..k) = k
      BY <3>1, MaxIs
    <3>3. (1..k) \ {k} = 1..k - 1 /\ 1..k # {}
      <4>1. \A y : y \in (1..k) \ {k} <=> y \in 1..k - 1
        BY <2>1
      <4>2. QED
        BY <3>1, <4>1
    <3>4. 1..k \in SUBSET (1..n)
      OBVIOUS
    <3>5. QED
      BY <3>2, <3>3, <3>4
  <2>3. g[1..k] = SetFor(g[1..k - 1], deltas[k])
    BY <1>3, <2>2 DEF Turn
  <2>4. QED
    BY <2>1, <2>3 DEF SetFor
<1>6. F[n] = g[1..n]
  OBVIOUS
<1>7. QED
  BY <1>2, <1>4, <1>5, <1>6

-------------------------------------------------------------------------------
\* A side: levels at prices there are, the best first; and what it has.
Sided(l) == /\ l \in Seq(Prices \X Nat)
            /\ \A i, j \in 1..Len(l) : i < j => Better(l[i][1], l[j][1])
Has(l, p, n) == \E i \in 1..Len(l) : l[i] = <<p, n>>

LEMMA PriceOrder ==
  /\ Prices \in SUBSET Nat
  /\ \A p, q \in Prices : p = q \/ Better(p, q) \/ Better(q, p)
  /\ \A p, q \in Prices : Better(p, q) => ~Better(q, p) /\ p # q
  /\ \A p, q, r \in Prices : Better(p, q) /\ Better(q, r) => Better(p, r)
<1>1. Prices \in SUBSET Nat
  BY DepthAssumption
<1>2. \A p, q \in Prices : p = q \/ Better(p, q) \/ Better(q, p)
  BY <1>1 DEF Better
<1>3. \A p, q \in Prices : Better(p, q) => ~Better(q, p) /\ p # q
  BY <1>1 DEF Better
<1>4. \A p, q, r \in Prices : Better(p, q) /\ Better(q, r) => Better(p, r)
  BY <1>1 DEF Better
<1>5. QED
  BY <1>1, <1>2, <1>3, <1>4

LEMMA LevelsTyped ==
  ASSUME NEW l, Sided(l)
  PROVE  /\ Len(l) \in Nat /\ l \in Seq(Prices \X Nat)
         /\ \A i \in 1..Len(l) : l[i][1] \in Prices /\ l[i][2] \in Nat /\ l[i] = <<l[i][1], l[i][2]>>
                                 /\ l[i] \in Prices \X Nat
<1>1. l \in Seq(Prices \X Nat)
  BY DEF Sided
<1>2. QED
  BY <1>1

\* sort.Search: what comes before the place is better, what comes after it is not.
LEMMA SearchIs ==
  ASSUME NEW l, Sided(l), NEW p \in Prices
  PROVE  /\ Search(l, p) \in 1..Len(l) + 1
         /\ \A j \in 1..Len(l) : j < Search(l, p) => Better(l[j][1], p)
         /\ \A j \in 1..Len(l) : j >= Search(l, p) => l[j][1] = p \/ Better(p, l[j][1])
         /\ \A j \in 1..Len(l) : j > Search(l, p) => Better(p, l[j][1])
         /\ \A j \in 1..Len(l) : l[j][1] = p => j = Search(l, p)
<1> DEFINE N == Len(l)
           S == {j \in 1..N : ~Better(l[j][1], p)} \cup {N + 1}
           i == Search(l, p)
<1>0. N \in Nat /\ \A j \in 1..N : l[j][1] \in Prices
  BY LevelsTyped
<1>1. \A j : j \in S <=> (j \in 1..N /\ ~Better(l[j][1], p)) \/ j = N + 1
  OBVIOUS
<1>2. i = Min(S)
  BY DEF Search
<1>o. \A j, k \in 1..N : j < k => Better(l[j][1], l[k][1])
  BY DEF Sided
<1> HIDE DEF N, S, i
<1>3. S \in SUBSET Nat /\ S # {}
  BY <1>0, <1>1
<1>4. i \in S /\ \A y \in S : i <= y
  BY <1>2, <1>3, LeastIs
<1>5. i \in 1..N + 1
  BY <1>0, <1>1, <1>4
<1>6. \A j \in 1..N : j < i => Better(l[j][1], p)
  BY <1>0, <1>1, <1>4, <1>5
<1>7. ASSUME NEW j \in 1..N, j >= i PROVE ~Better(l[j][1], p)
  <2>1. i \in 1..N /\ ~Better(l[i][1], p)
    BY <1>0, <1>1, <1>4, <1>5, <1>7
  <2>2. CASE j = i
    BY <2>1, <2>2
  <2>3. CASE j > i
    <3>1. PICK a \in Prices, b \in Prices : a = l[i][1] /\ b = l[j][1]
      BY <1>0, <2>1
    <3>2. Better(a, b) /\ ~Better(a, p)
      BY <1>o, <2>1, <2>3, <3>1
    <3>3. Better(p, b) \/ a = p
      BY <3>2, PriceOrder
    <3>4. ~Better(b, p)
      BY <3>2, <3>3, PriceOrder
    <3>5. QED
      BY <3>1, <3>4
  <2>4. QED
    BY <1>5, <1>7, <2>2, <2>3
<1>8. \A j \in 1..N : j >= i => l[j][1] = p \/ Better(p, l[j][1])
  BY <1>0, <1>7, PriceOrder
<1>9. ASSUME NEW j \in 1..N, j > i PROVE Better(p, l[j][1])
  <2>1. i \in 1..N /\ j >= i
    BY <1>0, <1>5, <1>9
  <2>2. Better(l[i][1], l[j][1]) /\ l[i][1] \in Prices /\ l[j][1] \in Prices
    BY <1>0, <1>o, <1>9, <2>1
  <2>3. l[i][1] = p \/ Better(p, l[i][1])
    BY <1>5, <1>8, <2>1
  <2>4. QED
    <3>1. PICK a \in Prices, b \in Prices : a = l[i][1] /\ b = l[j][1]
      BY <2>2
    <3>2. Better(a, b) /\ (a = p \/ Better(p, a))
      BY <2>2, <2>3, <3>1
    <3>3. Better(p, b)
      BY <3>2, PriceOrder
    <3>4. QED
      BY <3>1, <3>3
<1>10. ASSUME NEW j \in 1..N, l[j][1] = p PROVE j = i
  <2>1. ~Better(p, p)
    BY PriceOrder
  <2>2. ~(j < i) /\ ~(j > i)
    BY <1>6, <1>9, <1>10, <2>1
  <2>3. QED
    BY <1>0, <1>5, <2>2
<1>11. QED
  BY <1>5, <1>6, <1>8, <1>9, <1>10 DEF N, i

LEMMA InsertedAt ==
  ASSUME NEW T, NEW s \in Seq(T), NEW i \in 1..Len(s) + 1, NEW e \in T
  PROVE  /\ InsertAt(s, i, e) \in Seq(T) /\ Len(InsertAt(s, i, e)) = Len(s) + 1
         /\ \A j \in 1..Len(s) + 1 :
              InsertAt(s, i, e)[j] = IF j < i THEN s[j] ELSE IF j = i THEN e ELSE s[j - 1]
<1> DEFINE a == SubSeq(s, 1, i - 1)  b == SubSeq(s, i, Len(s))
<1>0. Len(s) \in Nat /\ i \in Int /\ i - 1 \in Int /\ Len(s) \in Int /\ \A j \in 1..Len(s) : s[j] \in T
  OBVIOUS
<1>1. /\ a \in Seq(T) /\ Len(a) = i - 1 /\ \A j \in 1..i - 1 : a[j] = s[j]
  <2>1. \A j \in 1..i - 1 : s[j] \in T
    BY <1>0
  <2>2. /\ a \in Seq(T) /\ Len(a) = IF 1 <= i - 1 THEN (i - 1) - 1 + 1 ELSE 0
        /\ \A j \in 1..(i - 1) - 1 + 1 : a[j] = s[1 + j - 1]
    BY <1>0, <2>1, SubSeqProperties
  <2>3. QED
    BY <1>0, <2>2
<1>2. /\ b \in Seq(T) /\ Len(b) = Len(s) - i + 1 /\ \A j \in 1..Len(s) - i + 1 : b[j] = s[i + j - 1]
  <2>1. \A j \in i..Len(s) : s[j] \in T
    BY <1>0
  <2>2. /\ b \in Seq(T) /\ Len(b) = IF i <= Len(s) THEN Len(s) - i + 1 ELSE 0
        /\ \A j \in 1..Len(s) - i + 1 : b[j] = s[i + j - 1]
    BY <1>0, <2>1, SubSeqProperties
  <2>3. QED
    BY <1>0, <2>2
<1>3. InsertAt(s, i, e) = (a \o <<e>>) \o b
  BY DEF InsertAt
<1> HIDE DEF a, b
<1>4. <<e>> \in Seq(T) /\ Len(<<e>>) = 1 /\ <<e>>[1] = e
  OBVIOUS
<1> PICK one \in Seq(T) : one = <<e>>
  BY <1>4
<1>a. a \in Seq(T)
  BY <1>1
<1> PICK c \in Seq(T) : c = a \o one
  BY <1>a, ConcatProperties
<1>5. Len(c) = i /\ \A j \in 1..i : c[j] = IF j < i THEN s[j] ELSE e
  <2>1. Len(c) = Len(a) + Len(one) /\ \A j \in 1..Len(a) + Len(one) : c[j] = IF j <= Len(a) THEN a[j] ELSE one[j - Len(a)]
    BY <1>a, ConcatProperties
  <2>2. QED
    BY <1>0, <1>1, <1>4, <2>1
<1>t. b \in Seq(T)
  BY <1>2
<1>6. /\ c \o b \in Seq(T) /\ Len(c \o b) = Len(c) + Len(b)
      /\ \A j \in 1..Len(c) + Len(b) : (c \o b)[j] = IF j <= Len(c) THEN c[j] ELSE b[j - Len(c)]
  BY <1>t, ConcatProperties
<1>7. InsertAt(s, i, e) = c \o b
  BY <1>3
<1>8. ASSUME NEW j \in 1..Len(s) + 1
      PROVE  (c \o b)[j] = IF j < i THEN s[j] ELSE IF j = i THEN e ELSE s[j - 1]
  <2>1. CASE j <= i
    BY <1>0, <1>2, <1>5, <1>6, <2>1
  <2>2. CASE j > i
    <3>1. j - i \in 1..Len(s) - i + 1 /\ i + (j - i) - 1 = j - 1
      BY <1>0, <2>2
    <3>2. b[j - i] = s[j - 1]
      BY <1>2, <3>1
    <3>3. QED
      BY <1>0, <1>2, <1>5, <1>6, <2>2, <3>2
  <2>3. j <= i \/ j > i
    BY <1>0
  <2>4. QED
    BY <2>1, <2>2, <2>3
<1>9. QED
  BY <1>0, <1>2, <1>5, <1>6, <1>7, <1>8

LEMMA RemovedAt ==
  ASSUME NEW T, NEW s \in Seq(T), NEW i \in 1..Len(s)
  PROVE  /\ RemoveAt(s, i) \in Seq(T) /\ Len(RemoveAt(s, i)) = Len(s) - 1
         /\ \A j \in 1..Len(s) - 1 : RemoveAt(s, i)[j] = IF j < i THEN s[j] ELSE s[j + 1]
<1> DEFINE a == SubSeq(s, 1, i - 1)  b == SubSeq(s, i + 1, Len(s))
<1>0. Len(s) \in Nat /\ i \in Int /\ i - 1 \in Int /\ i + 1 \in Int /\ Len(s) \in Int
      /\ \A j \in 1..Len(s) : s[j] \in T
  OBVIOUS
<1>1. /\ a \in Seq(T) /\ Len(a) = i - 1 /\ \A j \in 1..i - 1 : a[j] = s[j]
  <2>1. \A j \in 1..i - 1 : s[j] \in T
    BY <1>0
  <2>2. /\ a \in Seq(T) /\ Len(a) = IF 1 <= i - 1 THEN (i - 1) - 1 + 1 ELSE 0
        /\ \A j \in 1..(i - 1) - 1 + 1 : a[j] = s[1 + j - 1]
    BY <1>0, <2>1, SubSeqProperties
  <2>3. QED
    BY <1>0, <2>2
<1>2. /\ b \in Seq(T) /\ Len(b) = Len(s) - i /\ \A j \in 1..Len(s) - i : b[j] = s[i + j]
  <2>1. \A j \in i + 1..Len(s) : s[j] \in T
    BY <1>0
  <2>2. /\ b \in Seq(T) /\ Len(b) = IF i + 1 <= Len(s) THEN Len(s) - (i + 1) + 1 ELSE 0
        /\ \A j \in 1..Len(s) - (i + 1) + 1 : b[j] = s[(i + 1) + j - 1]
    BY <1>0, <2>1, SubSeqProperties
  <2>3. QED
    BY <1>0, <2>2
<1>3. RemoveAt(s, i) = a \o b
  BY DEF RemoveAt
<1> HIDE DEF a, b
<1>4. /\ a \o b \in Seq(T) /\ Len(a \o b) = Len(a) + Len(b)
      /\ \A j \in 1..Len(a) + Len(b) : (a \o b)[j] = IF j <= Len(a) THEN a[j] ELSE b[j - Len(a)]
  BY <1>1, <1>2, ConcatProperties
<1>5. ASSUME NEW j \in 1..Len(s) - 1 PROVE (a \o b)[j] = IF j < i THEN s[j] ELSE s[j + 1]
  <2>1. CASE j < i
    BY <1>0, <1>1, <1>2, <1>4, <2>1
  <2>2. CASE j >= i
    <3>1. j - (i - 1) \in 1..Len(s) - i /\ i + (j - (i - 1)) = j + 1
      BY <1>0, <2>2
    <3>2. b[j - (i - 1)] = s[j + 1]
      BY <1>2, <3>1
    <3>3. QED
      BY <1>0, <1>1, <1>2, <1>4, <2>2, <3>2
  <2>3. j < i \/ j >= i
    BY <1>0
  <2>4. QED
    BY <2>1, <2>2, <2>3
<1>6. QED
  BY <1>0, <1>1, <1>2, <1>3, <1>4, <1>5

\* Set leaves a side of which only the level at the price has changed.
LEMMA SetIs ==
  ASSUME NEW l, Sided(l), NEW p \in Prices, NEW n \in Nat
  PROVE  /\ Sided(Set(l, p, n))
         /\ \A q, m : Has(Set(l, p, n), q, m) <=> IF q = p THEN m = n /\ n > 0 ELSE Has(l, q, m)
<1> DEFINE N == Len(l)  i == Search(l, p)  R == Set(l, p, n)  e == <<p, n>>  T == Prices \X Nat
           found == i <= Len(l) /\ l[i][1] = p
<1>1. /\ N \in Nat /\ l \in Seq(T) /\ e \in T /\ e[1] = p
      /\ \A j \in 1..N : l[j][1] \in Prices /\ l[j][2] \in Nat /\ l[j] = <<l[j][1], l[j][2]>> /\ l[j] \in T
  BY LevelsTyped
<1>2. /\ i \in 1..N + 1
      /\ \A j \in 1..N : j < i => Better(l[j][1], p)
      /\ \A j \in 1..N : j >= i => l[j][1] = p \/ Better(p, l[j][1])
      /\ \A j \in 1..N : j > i => Better(p, l[j][1])
      /\ \A j \in 1..N : l[j][1] = p => j = i
  BY SearchIs
<1>3. \A j, k \in 1..N : j < k => Better(l[j][1], l[k][1])
  BY DEF Sided
<1>4. R = IF n > 0 THEN IF found THEN ReplaceAt(l, i, e) ELSE InsertAt(l, i, e)
          ELSE IF found THEN RemoveAt(l, i) ELSE l
  BY DEF Set
<1>h. \A s, q, m : Has(s, q, m) <=> \E j \in 1..Len(s) : s[j] = <<q, m>>
  BY DEF Has
<1>q. \A q, m : \A j \in 1..N : l[j] = <<q, m>> => l[j][1] = q
  OBVIOUS
<1>f. \A q, m : <<q, m>> = e <=> q = p /\ m = n
  OBVIOUS
<1> HIDE DEF N, i, R, e
<1>5. CASE n > 0 /\ found
  <2>1. /\ R \in Seq(T) /\ Len(R) = N /\ i \in 1..N
        /\ \A j \in 1..N : R[j] = IF j = i THEN e ELSE l[j]
    BY <1>1, <1>2, <1>4, <1>5 DEF ReplaceAt, N
  <2>2. \A j \in 1..N : R[j][1] = l[j][1]
    BY <1>1, <1>5, <2>1
  <2>3. Sided(R)
    BY <1>3, <2>1, <2>2 DEF Sided
  <2>4. ASSUME NEW q, NEW m PROVE Has(R, q, m) <=> IF q = p THEN m = n /\ n > 0 ELSE Has(l, q, m)
    <3>1. CASE q = p
      <4>1. Has(R, q, m) <=> \E j \in 1..N : R[j] = <<q, m>>
        BY <1>h, <2>1
      <4>2. \A j \in 1..N : j # i => R[j] = l[j] /\ l[j][1] # p
        BY <1>2, <2>1
      <4>3. R[i] = e
        BY <2>1
      <4>4. Has(R, q, m) => m = n
        <5>1. SUFFICES ASSUME NEW j \in 1..N, R[j] = <<q, m>> PROVE m = n
          BY <4>1
        <5>2. j = i
          BY <1>q, <3>1, <4>2, <5>1
        <5>3. QED
          BY <1>f, <4>3, <5>1, <5>2
      <4>5. m = n => Has(R, q, m)
        BY <1>f, <2>1, <3>1, <4>1, <4>3
      <4>6. QED
        BY <1>5, <3>1, <4>4, <4>5
    <3>2. CASE q # p
      <4>1. ASSUME NEW j \in 1..N PROVE R[j] = <<q, m>> <=> l[j] = <<q, m>>
        <5>1. CASE j = i
          <6>1. R[j] = e /\ l[j][1] = p
            BY <1>5, <2>1, <5>1
          <6>2. R[j] # <<q, m>>
            BY <1>f, <3>2, <6>1
          <6>3. l[j] # <<q, m>>
            BY <1>q, <3>2, <6>1
          <6>4. QED
            BY <6>2, <6>3
        <5>2. CASE j # i
          BY <2>1, <5>2
        <5>3. QED
          BY <5>1, <5>2
      <4>2. QED
        BY <1>h, <2>1, <3>2, <4>1 DEF N
    <3>3. QED
      BY <3>1, <3>2
  <2>5. QED
    BY <2>3, <2>4 DEF R
<1>6. CASE n > 0 /\ ~found
  <2>1. /\ R \in Seq(T) /\ Len(R) = N + 1
        /\ \A j \in 1..N + 1 : R[j] = IF j < i THEN l[j] ELSE IF j = i THEN e ELSE l[j - 1]
    <3>1. R = InsertAt(l, i, e)
      BY <1>4, <1>6
    <3>2. l \in Seq(T) /\ e \in T /\ i \in 1..Len(l) + 1 /\ N = Len(l)
      BY <1>1, <1>2 DEF N
    <3>3. PICK f \in T, k \in 1..Len(l) + 1 : f = e /\ k = i
      BY <3>2
    <3>t. l \in Seq(T)
      BY <3>2
    <3>4. /\ InsertAt(l, k, f) \in Seq(T) /\ Len(InsertAt(l, k, f)) = Len(l) + 1
          /\ \A j \in 1..Len(l) + 1 :
               InsertAt(l, k, f)[j] = IF j < k THEN l[j] ELSE IF j = k THEN f ELSE l[j - 1]
      <4> HIDE DEF T
      <4>1. QED
        BY <3>t, InsertedAt
    <3>5. QED
      BY <3>1, <3>2, <3>3, <3>4, Zenon
  <2>2. \A j \in 1..N : l[j][1] # p
    BY <1>2, <1>6 DEF N
  <2>3. \A j \in 1..N : (j < i => Better(l[j][1], p)) /\ (j >= i => Better(p, l[j][1]))
    BY <1>2, <2>2
  <2>4. ASSUME NEW j \in 1..N + 1, NEW k \in 1..N + 1, j < k PROVE Better(R[j][1], R[k][1])
    <3>1. CASE k < i
      <4>1. j \in 1..N /\ k \in 1..N /\ R[j] = l[j] /\ R[k] = l[k]
        BY <1>1, <1>2, <2>1, <2>4, <3>1
      <4>2. QED
        BY <1>3, <2>4, <4>1
    <3>2. CASE k = i
      <4>1. j \in 1..N /\ j < i /\ R[j] = l[j] /\ R[k] = e
        BY <1>1, <1>2, <2>1, <2>4, <3>2
      <4>2. QED
        BY <1>1, <2>3, <4>1
    <3>3. CASE k > i
      <4>1. k - 1 \in 1..N /\ k - 1 >= i /\ R[k] = l[k - 1]
        BY <1>1, <1>2, <2>1, <2>4, <3>3
      <4>2. CASE j = i
        BY <1>1, <2>1, <2>3, <2>4, <4>1, <4>2
      <4>3. CASE j < i
        <5>1. j \in 1..N /\ j < k - 1 /\ R[j] = l[j]
          BY <1>1, <1>2, <2>1, <2>4, <4>1, <4>3
        <5>2. QED
          BY <1>3, <4>1, <5>1
      <4>4. CASE j > i
        <5>0. j - 1 \in 1..N /\ j - 1 < k - 1 /\ ~(j < i) /\ j # i
          BY <1>1, <1>2, <2>4, <4>4
        <5>1. j - 1 \in 1..N /\ j - 1 < k - 1 /\ R[j] = l[j - 1]
          BY <2>1, <5>0
        <5>2. QED
          BY <1>3, <4>1, <5>1
      <4>5. QED
        BY <1>2, <4>2, <4>3, <4>4
    <3>4. QED
      BY <1>2, <3>1, <3>2, <3>3
  <2>5. Sided(R)
    BY <2>1, <2>4 DEF Sided
  <2>6. ASSUME NEW q, NEW m PROVE Has(R, q, m) <=> IF q = p THEN m = n /\ n > 0 ELSE Has(l, q, m)
    <3>0. i \in 1..N + 1 /\ R[i] = e
      BY <1>2, <2>1
    <3>1. ASSUME NEW j \in 1..N + 1, R[j] = <<q, m>> PROVE (q = p /\ m = n) \/ (q # p /\ Has(l, q, m))
      <4>1. CASE j = i
        <5>1. R[i] = e
          BY <1>2, <2>1
        <5>2. QED
          BY <1>f, <3>1, <4>1, <5>1
      <4>2. CASE j # i
        <5>1. PICK k \in 1..N : R[j] = l[k]
          BY <1>1, <1>2, <2>1, <4>2
        <5>2. QED
          BY <1>h, <1>q, <2>2, <3>1, <5>1 DEF N
      <4>3. QED
        BY <4>1, <4>2
    <3>2. ASSUME NEW k \in 1..N, l[k] = <<q, m>> PROVE Has(R, q, m)
      <4>1. CASE k < i
        <5>1. k \in 1..N + 1 /\ R[k] = l[k]
          BY <1>1, <2>1, <4>1
        <5>2. QED
          BY <1>h, <2>1, <3>2, <5>1
      <4>2. CASE k >= i
        <5>1. k + 1 \in 1..N + 1 /\ R[k + 1] = l[k]
          BY <1>1, <1>2, <2>1, <4>2
        <5>2. QED
          BY <1>h, <2>1, <3>2, <5>1
      <4>3. QED
        BY <1>1, <1>2, <4>1, <4>2
    <3>3. q = p /\ m = n => Has(R, q, m)
      BY <1>f, <1>h, <2>1, <3>0
    <3>4. QED
      BY <1>6, <1>h, <2>1, <3>1, <3>2, <3>3 DEF N
  <2>7. QED
    BY <2>5, <2>6 DEF R
<1>7. CASE ~(n > 0) /\ found
  <2>0. i \in 1..N /\ l[i][1] = p
    BY <1>1, <1>2, <1>7 DEF N
  <2>1. /\ R \in Seq(T) /\ Len(R) = N - 1
        /\ \A j \in 1..N - 1 : R[j] = IF j < i THEN l[j] ELSE l[j + 1]
    BY <1>1, <1>4, <1>7, <2>0, RemovedAt DEF N
  <2>2. ASSUME NEW j \in 1..N - 1, NEW k \in 1..N - 1, j < k PROVE Better(R[j][1], R[k][1])
    <3>1. PICK a \in 1..N, b \in 1..N : a < b /\ R[j] = l[a] /\ R[k] = l[b]
      <4>1. CASE k < i
        <5>1. j \in 1..N /\ k \in 1..N /\ R[j] = l[j] /\ R[k] = l[k]
          BY <1>1, <2>0, <2>1, <2>2, <4>1
        <5>2. QED
          BY <2>2, <5>1
      <4>2. CASE j < i /\ k >= i
        <5>1. j \in 1..N /\ k + 1 \in 1..N /\ R[j] = l[j] /\ R[k] = l[k + 1] /\ j < k + 1
          BY <1>1, <2>0, <2>1, <2>2, <4>2
        <5>2. QED
          BY <5>1
      <4>3. CASE j >= i
        <5>1. j + 1 \in 1..N /\ k + 1 \in 1..N /\ R[j] = l[j + 1] /\ R[k] = l[k + 1] /\ j + 1 < k + 1
          BY <1>1, <2>0, <2>1, <2>2, <4>3
        <5>2. QED
          BY <5>1
      <4>4. QED
        BY <2>0, <4>1, <4>2, <4>3
    <3>2. QED
      BY <1>3, <3>1
  <2>3. Sided(R)
    BY <2>1, <2>2 DEF Sided
  <2>4. ASSUME NEW q, NEW m PROVE Has(R, q, m) <=> IF q = p THEN m = n /\ n > 0 ELSE Has(l, q, m)
    <3>1. ASSUME NEW j \in 1..N - 1, R[j] = <<q, m>> PROVE q # p /\ Has(l, q, m)
      <4>0. IF j < i THEN j \in 1..N /\ j # i /\ R[j] = l[j]
            ELSE j + 1 \in 1..N /\ j + 1 # i /\ R[j] = l[j + 1]
        BY <1>1, <2>0, <2>1
      <4>1. PICK k \in 1..N : k # i /\ R[j] = l[k]
        BY <4>0
      <4>2. QED
        BY <1>2, <1>h, <1>q, <3>1, <4>1 DEF N
    <3>2. ASSUME NEW k \in 1..N, l[k] = <<q, m>>, q # p PROVE Has(R, q, m)
      <4>0. k # i
        BY <1>q, <2>0, <3>2
      <4>1. CASE k < i
        <5>1. k \in 1..N - 1 /\ R[k] = l[k]
          BY <1>1, <2>0, <2>1, <4>1
        <5>2. QED
          BY <1>h, <2>1, <3>2, <5>1
      <4>2. CASE k > i
        <5>1. k - 1 \in 1..N - 1 /\ R[k - 1] = l[k]
          BY <1>1, <2>0, <2>1, <4>2
        <5>2. QED
          BY <1>h, <2>1, <3>2, <5>1
      <4>3. QED
        BY <2>0, <4>0, <4>1, <4>2
    <3>3. QED
      BY <1>7, <1>h, <2>1, <3>1, <3>2 DEF N
  <2>5. QED
    BY <2>3, <2>4 DEF R
<1>8. CASE ~(n > 0) /\ ~found
  <2>1. R = l
    BY <1>4, <1>8
  <2>2. \A j \in 1..N : l[j][1] # p
    BY <1>2, <1>8 DEF N
  <2>3. \A m : ~Has(l, p, m)
    BY <1>h, <1>q, <2>2 DEF N
  <2>4. QED
    BY <1>8, <2>1, <2>3 DEF R
<1>9. QED
  BY <1>5, <1>6, <1>7, <1>8

\* The levels of a side after updates that say how large each level is now.
LEMMA FoldIs ==
  ASSUME NEW l, Sided(l), NEW now, NEW deltas, NEW n \in Nat, DOMAIN deltas = 1..n,
         \A k \in 1..n : deltas[k][1] \in Prices /\ deltas[k][2] \in Nat /\ deltas[k][2] = now[deltas[k][1]]
  PROVE  /\ Sided(Updated(l, deltas))
         /\ \A q, m : Has(Updated(l, deltas), q, m) <=>
              IF \E k \in 1..n : deltas[k][1] = q THEN m = now[q] /\ m > 0 ELSE Has(l, q, m)
<1> DEFINE r == Updated(l, deltas)
           Among(j, q) == \E k \in 1..j : deltas[k][1] = q
           Good(s, j) == /\ Sided(s)
                         /\ \A q, m : Has(s, q, m) <=>
                              IF Among(j, q) THEN m = now[q] /\ m > 0 ELSE Has(l, q, m)
<1>0. n \in Nat /\ DOMAIN deltas = 1..n
  OBVIOUS
<1>1. PICK F : /\ F[0] = l /\ \A k \in 1..n : F[k] = Set(F[k - 1], deltas[k][1], deltas[k][2])
               /\ Updated(l, deltas) = F[n]
  BY ONLY <1>0, FoldSteps
<1> HIDE DEF r
<1>2. Good(F[0], 0)
  <2>1. \A q : ~Among(0, q)
    OBVIOUS
  <2>2. QED
    BY <1>1, <2>1
<1>3. ASSUME NEW k \in 1..n, Good(F[k - 1], k - 1) PROVE Good(F[k], k)
  <2>1. PICK p \in Prices, v \in Nat : p = deltas[k][1] /\ v = deltas[k][2] /\ v = now[p]
    OBVIOUS
  <2>2. F[k] = Set(F[k - 1], p, v)
    BY <1>1, <2>1
  <2>a. Sided(F[k - 1])
    BY <1>3
  <2>3. /\ Sided(F[k])
        /\ \A q, m : Has(F[k], q, m) <=> IF q = p THEN m = v /\ v > 0 ELSE Has(F[k - 1], q, m)
    BY <2>2, <2>a, SetIs
  <2>4. \A q : Among(k, q) <=> q = p \/ Among(k - 1, q)
    BY <2>1
  <2>b. \A q, m : Has(F[k - 1], q, m) <=>
                    IF Among(k - 1, q) THEN m = now[q] /\ m > 0 ELSE Has(l, q, m)
    BY <1>3
  <2> HIDE DEF Among
  <2>5. ASSUME NEW q, NEW m
        PROVE  Has(F[k], q, m) <=> IF Among(k, q) THEN m = now[q] /\ m > 0 ELSE Has(l, q, m)
    <3>1. CASE q = p
      BY <2>1, <2>3, <2>4, <3>1
    <3>2. CASE q # p
      BY <2>3, <2>4, <2>b, <3>2
    <3>3. QED
      BY <3>1, <3>2
  <2>6. QED
    BY <2>3, <2>5
<1> DEFINE Bad == {j \in 0..n : ~Good(F[j], j)}
<1>4. \A j : j \in Bad <=> j \in 0..n /\ ~Good(F[j], j)
  OBVIOUS
<1> HIDE DEF Good, Bad
<1>5. Bad = {}
  <2> SUFFICES ASSUME Bad # {} PROVE FALSE
    OBVIOUS
  <2>1. Bad \in SUBSET Nat
    BY <1>4
  <2>2. PICK j \in Bad : \A y \in Bad : j <= y
    BY <2>1, LeastIs
  <2>3. j \in 1..n /\ j - 1 \in 0..n /\ j - 1 \notin Bad
    BY <1>2, <1>4, <2>2
  <2>4. QED
    BY <1>3, <1>4, <2>2, <2>3
<1>6. Good(F[n], n)
  BY <1>4, <1>5
<1>7. Good(r, n)
  BY <1>1, <1>6 DEF r
<1>8. QED
  BY <1>7 DEF Good, r

\* The elements of a finite set, one after the other
LEMMA Listed ==
  ASSUME NEW S, IsFiniteSet(S)
  PROVE  /\ Cardinality(S) \in Nat /\ DOMAIN SetToSeq(S) = 1..Cardinality(S)
         /\ \A k \in 1..Cardinality(S) : SetToSeq(S)[k] \in S
         /\ \A x \in S : \E k \in 1..Cardinality(S) : SetToSeq(S)[k] = x
<1> DEFINE n == Cardinality(S)  f == SetToSeq(S)
<1>1. n \in Nat /\ ExistsBijection(1..n, S)
  BY FS_CardinalityType
<1> HIDE DEF n, f
<1>2. \E g \in [1..n -> S] : IsInjective(g)
  BY <1>1 DEF ExistsBijection, Bijection, Injection
<1>3. f \in [1..n -> S] /\ IsInjective(f)
  BY <1>2 DEF SetToSeq, n, f
<1>4. f \in Injection(1..n, S)
  BY <1>3 DEF Injection
<1>5. IsFiniteSet(1..n) /\ Cardinality(1..n) = n
  BY <1>1, FS_Interval
<1>6. f \in Surjection(1..n, S)
  BY <1>4, <1>5, FS_Injection DEF n
<1>7. QED
  BY <1>1, <1>3, <1>6 DEF Surjection, n, f

\* A side that is cut to a depth
LEMMA CutIs ==
  ASSUME NEW l, Sided(l), NEW depth \in Nat
  PROVE  /\ Sided(Cut(l, depth))
         /\ \A q, m : Has(Cut(l, depth), q, m) => Has(l, q, m)
         /\ Len(l) <= depth => \A q, m : Has(l, q, m) => Has(Cut(l, depth), q, m)
<1> DEFINE N == Len(l)  c == Min({depth, N})  R == Cut(l, depth)  T == Prices \X Nat
<1>1. N \in Nat /\ l \in Seq(T) /\ \A j \in 1..N : l[j] \in T
  BY LevelsTyped
<1>2. c \in {depth, N} /\ c <= N /\ (N <= depth => c = N)
  <2>1. {depth, N} \in SUBSET Nat /\ {depth, N} # {}
    BY <1>1
  <2>2. c \in {depth, N} /\ \A y \in {depth, N} : c <= y
    BY <2>1, LeastIs
  <2>3. QED
    BY <1>1, <2>2
<1>3. R = SubSeq(l, 1, c)
  BY DEF Cut
<1>o. \A j, k \in 1..N : j < k => Better(l[j][1], l[k][1])
  BY DEF Sided
<1>h. \A s, q, m : Has(s, q, m) <=> \E j \in 1..Len(s) : s[j] = <<q, m>>
  BY DEF Has
<1> HIDE DEF c, R, N
<1>4. c \in 0..N
  BY <1>1, <1>2
<1>5. R \in Seq(T) /\ Len(R) = c /\ \A j \in 1..c : R[j] = l[j]
  <2>1. \A j \in 1..c : l[j] \in T
    BY <1>1, <1>4
  <2>2. /\ R \in Seq(T) /\ Len(R) = IF 1 <= c THEN c - 1 + 1 ELSE 0
        /\ \A j \in 1..c - 1 + 1 : R[j] = l[1 + j - 1]
    BY <1>1, <1>3, <1>4, <2>1, SubSeqProperties
  <2>3. QED
    BY <1>4, <2>2
<1>s. \A j \in 1..c : j \in 1..N
  BY <1>1, <1>4
<1>6. Sided(R)
  <2>1. \A j, k \in 1..c : j < k => Better(R[j][1], R[k][1])
    BY <1>o, <1>s, <1>5
  <2>2. QED
    BY <1>5, <2>1 DEF Sided
<1>7. ASSUME NEW q, NEW m, Has(R, q, m) PROVE Has(l, q, m)
  <2>1. PICK j \in 1..c : R[j] = <<q, m>>
    BY <1>h, <1>5, <1>7
  <2>2. j \in 1..N /\ l[j] = <<q, m>>
    BY <1>s, <1>5, <2>1
  <2>3. QED
    BY <1>h, <2>2 DEF N
<1>8. ASSUME N <= depth, NEW q, NEW m, Has(l, q, m) PROVE Has(R, q, m)
  BY <1>h, <1>1, <1>2, <1>5, <1>8 DEF N
<1>9. QED
  BY <1>6, <1>7, <1>8 DEF R, N

\* A side has no more levels than there are prices in it.
LEMMA NoMoreLevels ==
  ASSUME NEW l, Sided(l), NEW S, IsFiniteSet(S), \A q, m : Has(l, q, m) => q \in S
  PROVE  Len(l) <= Cardinality(S)
<1> DEFINE N == Len(l)  f == [i \in 1..N |-> l[i][1]]
<1>1. N \in Nat /\ \A i \in 1..N : l[i][1] \in Prices /\ l[i] = <<l[i][1], l[i][2]>>
  BY LevelsTyped
<1>2. \A i \in 1..N : l[i][1] \in S
  BY <1>1 DEF Has
<1>3. \A i, j \in 1..N : i < j => Better(l[i][1], l[j][1])
  BY DEF Sided
<1> HIDE DEF N
<1>4. \A i, j \in 1..N : l[i][1] = l[j][1] => i = j
  <2> SUFFICES ASSUME NEW i \in 1..N, NEW j \in 1..N, l[i][1] = l[j][1], i # j PROVE FALSE
    OBVIOUS
  <2>1. PICK p \in Prices : p = l[i][1] /\ p = l[j][1]
    BY <1>1
  <2>2. Better(p, p)
    BY <1>1, <1>3, <2>1
  <2>3. QED
    BY <2>2, PriceOrder
<1>5. f \in Injection(1..N, S)
  BY <1>2, <1>4 DEF Injection, IsInjective
<1> HIDE DEF f
<1>6. Cardinality(1..N) = N
  BY <1>1, FS_Interval
<1>7. QED
  BY <1>5, <1>6, FS_Injection DEF N

-------------------------------------------------------------------------------
(* The messages under way.                                                 *)

Sizes == [Prices -> Nat]
DepthMessages == [action : {"snapshot", "update"}, now : Sizes, other : Nat, deltas : Seq(Prices \X Nat)]
Tells(m, p) == \E k \in 1..Len(m.deltas) : m.deltas[k][1] = p

\* A message takes a side from one state to the next: it tells of nothing but the
\* levels as they are now, and leaves out none that has changed; a snapshot none
\* there is.
Carries(old, m) ==
  /\ m \in DepthMessages /\ IsFiniteSet(Live(m.now))
  /\ \A k \in 1..Len(m.deltas) : m.deltas[k][2] = m.now[m.deltas[k][1]]
  /\ IF m.action = "snapshot" THEN \A p \in Live(m.now) : Tells(m, p)
     ELSE \A p \in Prices : Tells(m, p) \/ m.now[p] = old[p]

\* The levels of a book, if it is as it was after the last message.
Holds(levels, now, all) ==
  /\ Sided(levels)
  /\ \A q, m : Has(levels, q, m) => q \in Live(now) /\ m = now[q]
  /\ all => \A q \in Live(now) : Has(levels, q, now[q])

\* The exchange's side as the message before has told it
Told(i) == IF i = 1 THEN seen ELSE net[i - 1].now

NetTrue ==
  /\ net \in Seq(DepthMessages) /\ \A i \in 1..Len(net) : Carries(Told(i), net[i])
  /\ View(server) = Told(Len(net) + 1)
  /\ book = <<>> => net # <<>> /\ net[1].action = "snapshot"

BookHolds ==
  book # <<>> => book[1].depth \in Nat /\ Holds(book[1].levels, seen, ~over)

DepthTypes ==
  /\ exg \in {"okx", "bybit"} /\ IsBuy \in BOOLEAN /\ over \in BOOLEAN
  /\ server \in Sizes /\ IsFiniteSet(Live(server)) /\ seen \in Sizes

DepthInv == DepthTypes /\ NetTrue /\ BookHolds

LEMMA ViewIs ==
  ASSUME NEW s \in Sizes, IsFiniteSet(Live(s))
  PROVE  /\ View(s) \in Sizes /\ Live(View(s)) \in SUBSET Live(s) /\ IsFiniteSet(Live(View(s)))
<1>1. \A p \in Prices : s[p] \in Nat
  BY DEF Sizes
<1>2. \A p \in Prices : View(s)[p] = s[p] \/ View(s)[p] = 0
  BY DEF View
<1>3. View(s) \in Sizes
  BY <1>1 DEF View, Sizes
<1>4. Live(View(s)) \in SUBSET Live(s)
  BY <1>1, <1>2 DEF Live
<1>5. QED
  BY <1>3, <1>4, FS_Subset

\* The levels of a message
LEMMA Lists ==
  ASSUME NEW S, IsFiniteSet(S), NEW now \in Sizes, \A x \in S : \E p \in Prices : x = <<p, now[p]>>
  PROVE  /\ SetToSeq(S) \in Seq(Prices \X Nat)
         /\ \A k \in 1..Len(SetToSeq(S)) : SetToSeq(S)[k][2] = now[SetToSeq(S)[k][1]]
         /\ \A p \in Prices : <<p, now[p]>> \in S => \E k \in 1..Len(SetToSeq(S)) : SetToSeq(S)[k][1] = p
<1> DEFINE f == SetToSeq(S)  n == Cardinality(S)
<1>1. /\ n \in Nat /\ DOMAIN f = 1..n /\ \A k \in 1..n : f[k] \in S
      /\ \A x \in S : \E k \in 1..n : f[k] = x
  BY Listed
<1>2. \A x \in S : x \in Prices \X Nat /\ x[2] = now[x[1]]
  BY DEF Sizes
<1>f. f \in [1..n -> S]
  <2>1. n \in Nat /\ ExistsBijection(1..n, S)
    BY FS_CardinalityType
  <2>2. \E g \in [1..n -> S] : IsInjective(g)
    BY <2>1 DEF ExistsBijection, Bijection, Injection
  <2>3. QED
    BY <2>2 DEF SetToSeq
<1> HIDE DEF f, n
<1>3. f \in Seq(Prices \X Nat) /\ Len(f) = n
  <2>1. S \in SUBSET (Prices \X Nat)
    BY <1>2
  <2>2. f \in [1..n -> Prices \X Nat]
    BY <1>f, <2>1
  <2>3. QED
    BY <1>1, <2>2
<1>4. \A k \in 1..Len(f) : f[k][2] = now[f[k][1]]
  BY <1>1, <1>2, <1>3
<1>5. ASSUME NEW p \in Prices, <<p, now[p]>> \in S PROVE \E k \in 1..Len(f) : f[k][1] = p
  <2>1. PICK k \in 1..n : f[k] = <<p, now[p]>>
    BY <1>1, <1>5
  <2>2. QED
    BY <1>3, <2>1
<1>6. QED
  BY <1>3, <1>4, <1>5 DEF f

LEMMA PairsFinite ==
  ASSUME NEW C, IsFiniteSet(C), NEW g
  PROVE  IsFiniteSet({<<p, g[p]>> : p \in C})
<1> DEFINE S == {<<p, g[p]>> : p \in C}  f == [p \in C |-> <<p, g[p]>>]
<1>1. f \in Surjection(C, S)
  BY DEF Surjection
<1> HIDE DEF f, S
<1>2. IsFiniteSet(S)
  BY <1>1, FS_Surjection
<1>3. QED
  BY <1>2 DEF S

LEMMA SnapshotCarries ==
  ASSUME NEW s \in Sizes, IsFiniteSet(Live(s)), NEW m \in Snapshots(s), NEW old
  PROVE  Carries(old, m) /\ m.now = View(s) /\ m.action = "snapshot"
<1> DEFINE v == View(s)  S == {<<p, s[p]>> : p \in Live(v)}
<1>1. /\ m.action = "snapshot" /\ m.now = v /\ m.other \in 0..Window /\ m.deltas = SetToSeq(S)
      /\ m = [action |-> m.action, now |-> m.now, other |-> m.other, deltas |-> m.deltas]
  BY DEF Snapshots
<1>2. v \in Sizes /\ Live(v) \in SUBSET Live(s) /\ IsFiniteSet(Live(v))
  BY ViewIs
<1>3. \A p \in Live(v) : p \in Prices /\ s[p] = v[p]
  BY DEF Live, View
<1>4. IsFiniteSet(S)
  BY <1>2, PairsFinite
<1>5. \A x \in S : \E p \in Prices : x = <<p, v[p]>>
  BY <1>3
<1>6. \A p \in Live(v) : <<p, v[p]>> \in S
  BY <1>3
<1> HIDE DEF S, v
<1>7. /\ SetToSeq(S) \in Seq(Prices \X Nat)
      /\ \A k \in 1..Len(SetToSeq(S)) : SetToSeq(S)[k][2] = v[SetToSeq(S)[k][1]]
      /\ \A p \in Prices : <<p, v[p]>> \in S => \E k \in 1..Len(SetToSeq(S)) : SetToSeq(S)[k][1] = p
  BY <1>2, <1>4, <1>5, Lists
<1>8. m.other \in Nat
  BY <1>1, DepthAssumption
<1>9. m \in DepthMessages
  BY <1>1, <1>2, <1>7, <1>8 DEF DepthMessages
<1>10. ASSUME NEW p \in Live(v) PROVE Tells(m, p)
  <2>1. \E k \in 1..Len(SetToSeq(S)) : SetToSeq(S)[k][1] = p
    BY <1>3, <1>6, <1>7
  <2>2. QED
    BY <1>1, <2>1 DEF Tells
<1>11. QED
  BY <1>1, <1>2, <1>7, <1>9, <1>10 DEF Carries, v

LEMMA DeltaCarries ==
  ASSUME NEW s \in Sizes, IsFiniteSet(Live(s)), NEW t \in Sizes, IsFiniteSet(Live(t))
  PROVE  Carries(View(s), Delta(s, t)) /\ Delta(s, t).now = View(t)
<1> DEFINE a == View(s)  b == View(t)  C == {q \in Prices : b[q] # a[q]}
           S == {<<p, b[p]>> : p \in C}  m == Delta(s, t)
<1>1. /\ m.action = "update" /\ m.now = b /\ m.other = 0 /\ m.deltas = SetToSeq(S)
      /\ m = [action |-> m.action, now |-> m.now, other |-> m.other, deltas |-> m.deltas]
  BY DEF Delta
<1>2. a \in Sizes /\ IsFiniteSet(Live(a)) /\ b \in Sizes /\ IsFiniteSet(Live(b))
  BY ViewIs
<1>3. IsFiniteSet(C)
  <2>1. \A p \in Prices : a[p] \in Nat /\ b[p] \in Nat
    BY <1>2 DEF Sizes
  <2>2. C \in SUBSET (Live(a) \cup Live(b))
    BY <2>1 DEF Live
  <2>3. QED
    BY <1>2, <2>2, FS_Union, FS_Subset
<1>4. IsFiniteSet(S)
  BY <1>3, PairsFinite
<1>5. \A x \in S : \E p \in Prices : x = <<p, b[p]>>
  OBVIOUS
<1>6. \A p \in Prices : b[p] # a[p] => <<p, b[p]>> \in S
  OBVIOUS
<1> HIDE DEF S, C, a, b, m
<1>7. /\ SetToSeq(S) \in Seq(Prices \X Nat)
      /\ \A k \in 1..Len(SetToSeq(S)) : SetToSeq(S)[k][2] = b[SetToSeq(S)[k][1]]
      /\ \A p \in Prices : <<p, b[p]>> \in S => \E k \in 1..Len(SetToSeq(S)) : SetToSeq(S)[k][1] = p
  BY <1>2, <1>4, <1>5, Lists
<1>8. m \in DepthMessages
  BY <1>1, <1>2, <1>7 DEF DepthMessages
<1>9. ASSUME NEW p \in Prices, b[p] # a[p] PROVE Tells(m, p)
  <2>1. \E k \in 1..Len(SetToSeq(S)) : SetToSeq(S)[k][1] = p
    BY <1>6, <1>7, <1>9
  <2>2. QED
    BY <1>1, <2>1 DEF Tells
<1>10. m.action # "snapshot"
  BY <1>1
<1>11. QED
  BY <1>1, <1>2, <1>7, <1>8, <1>9, <1>10 DEF Carries, a, b, m

\* The next message makes a book that holds what the message tells.
LEMMA AppliedHolds ==
  ASSUME NEW old, NEW m, Carries(old, m), NEW levels, NEW depth \in Nat, NEW all \in BOOLEAN,
         old \in Sizes, IF m.action = "snapshot" THEN levels = <<>> /\ all ELSE Holds(levels, old, all)
  PROVE  Holds(Update(levels, depth, m.deltas), m.now, all /\ ~(Cardinality(Live(m.now)) > depth))
<1> DEFINE n == Len(m.deltas)  r == Updated(levels, m.deltas)  now == m.now
<1>1. /\ n \in Nat /\ DOMAIN m.deltas = 1..n /\ now \in Sizes
      /\ \A k \in 1..n : m.deltas[k] \in Prices \X Nat
  BY DEF Carries, DepthMessages
<1>2. \A k \in 1..n : m.deltas[k][1] \in Prices /\ m.deltas[k][2] \in Nat
                      /\ m.deltas[k][2] = now[m.deltas[k][1]]
  BY <1>1 DEF Carries
<1>3. Update(levels, depth, m.deltas) = Cut(r, depth)
  BY DEF Update, Updated
<1>4. Sided(levels)
  <2>1. Sided(<<>>)
    BY DEF Sided
  <2>2. QED
    BY <2>1 DEF Holds
<1>5. \A p : Tells(m, p) <=> \E k \in 1..n : m.deltas[k][1] = p
  BY DEF Tells
<1>t. \A p : Tells(m, p) => p \in Prices
  BY <1>2, <1>5
<1>d. DOMAIN m.deltas = 1..n /\ n \in Nat
  BY <1>1
<1> HIDE DEF n, r, now
<1>6. /\ Sided(r)
      /\ \A q, k : Has(r, q, k) <=> IF Tells(m, q) THEN k = now[q] /\ k > 0 ELSE Has(levels, q, k)
  <2>1. /\ Sided(r)
        /\ \A q, k : Has(r, q, k) <=>
             IF \E j \in 1..n : m.deltas[j][1] = q THEN k = now[q] /\ k > 0 ELSE Has(levels, q, k)
    <3>1. PICK ds : ds = m.deltas
      OBVIOUS
    <3>2. /\ Sided(levels) /\ n \in Nat /\ DOMAIN ds = 1..n
          /\ \A k \in 1..n : ds[k][1] \in Prices /\ ds[k][2] \in Nat /\ ds[k][2] = now[ds[k][1]]
      BY <1>2, <1>4, <1>d, <3>1
    <3>3. /\ Sided(Updated(levels, ds))
          /\ \A q, k : Has(Updated(levels, ds), q, k) <=>
               IF \E j \in 1..n : ds[j][1] = q THEN k = now[q] /\ k > 0 ELSE Has(levels, q, k)
      <4>1. /\ Sided(levels) /\ n \in Nat /\ DOMAIN ds = 1..n
        BY <3>2
      <4>2. \A k \in 1..n : ds[k][1] \in Prices /\ ds[k][2] \in Nat /\ ds[k][2] = now[ds[k][1]]
        BY <3>2
      <4>3. QED
        BY ONLY <4>1, <4>2, FoldIs
    <3>4. QED
      BY <3>1, <3>3 DEF r
  <2>2. QED
    BY <1>5, <2>1
<1>n. \A p \in Prices : (p \in Live(now) <=> now[p] > 0) /\ now[p] \in Nat
  BY <1>1 DEF Live, Sizes
<1>e. \A q, k : ~Has(<<>>, q, k)
  BY DEF Has
<1>7. ASSUME NEW q, NEW k, Has(r, q, k) PROVE q \in Live(now) /\ k = now[q]
  <2>1. CASE Tells(m, q)
    BY <1>6, <1>7, <1>n, <1>t, <2>1
  <2>2. CASE ~Tells(m, q)
    <3>1. Has(levels, q, k)
      BY <1>6, <1>7, <2>2
    <3>2. m.action # "snapshot"
      BY <1>e, <3>1
    <3>3. q \in Live(old) /\ k = old[q]
      BY <3>1, <3>2 DEF Holds
    <3>4. q \in Prices /\ old[q] > 0
      BY <3>3 DEF Live
    <3>5. now[q] = old[q]
      BY <2>2, <3>2, <3>4 DEF Carries, now
    <3>6. QED
      BY <1>n, <3>3, <3>4, <3>5
  <2>3. QED
    BY <2>1, <2>2
<1>8. ASSUME all, NEW q \in Live(now) PROVE Has(r, q, now[q])
  <2>0. q \in Prices /\ now[q] > 0
    BY <1>n DEF Live
  <2>1. CASE Tells(m, q)
    BY <1>6, <2>0, <2>1
  <2>2. CASE ~Tells(m, q)
    <3>1. m.action # "snapshot" /\ now[q] = old[q]
      BY <2>0, <2>2 DEF Carries, now
    <3>2. q \in Live(old)
      BY <2>0, <3>1 DEF Live
    <3>3. Has(levels, q, old[q])
      BY <1>8, <3>1, <3>2 DEF Holds
    <3>4. QED
      BY <1>6, <2>2, <3>1, <3>3
  <2>3. QED
    BY <2>1, <2>2
<1>9. IsFiniteSet(Live(now))
  BY DEF Carries, now
<1>10. Len(r) <= Cardinality(Live(now))
  BY <1>6, <1>7, <1>9, NoMoreLevels
<1>11. /\ Sided(Cut(r, depth)) /\ \A q, k : Has(Cut(r, depth), q, k) => Has(r, q, k)
       /\ Len(r) <= depth => \A q, k : Has(r, q, k) => Has(Cut(r, depth), q, k)
  BY <1>6, CutIs
<1>12. ~(Cardinality(Live(now)) > depth) => Len(r) <= depth
  <2>1. Cardinality(Live(now)) \in Nat /\ Len(r) \in Nat
    BY <1>6, <1>9, FS_CardinalityType, LevelsTyped
  <2>2. QED
    BY <1>10, <2>1
<1>13. QED
  BY <1>3, <1>7, <1>8, <1>11, <1>12 DEF Holds, now

LEMMA DepthStart == DepthInit => DepthInv
<1> SUFFICES ASSUME DepthInit PROVE DepthInv
  OBVIOUS
<1>1. /\ exg \in {"okx", "bybit"} /\ IsBuy \in BOOLEAN /\ over = FALSE /\ book = <<>> /\ seen = Empty
      /\ server = [p \in Prices |-> IF p = 1 THEN 1 ELSE 0]
  BY DEF DepthInit
<1>2. server \in Sizes /\ seen \in Sizes
  BY <1>1 DEF Sizes, Empty
<1>3. IsFiniteSet(Live(server))
  <2>1. Live(server) \in SUBSET {1}
    BY <1>1 DEF Live
  <2>2. IsFiniteSet({1})
    BY FS_Singleton
  <2>3. QED
    BY <2>1, <2>2, FS_Subset
<1>4. PICK m \in Snapshots(server) : net = <<m>>
  BY DEF DepthInit
<1>5. Carries(seen, m) /\ m.now = View(server) /\ m.action = "snapshot"
  BY <1>2, <1>3, SnapshotCarries
<1>6. NetTrue
  <2>1. m \in DepthMessages
    BY <1>5 DEF Carries
  <2>2. net \in Seq(DepthMessages) /\ Len(net) = 1 /\ net[1] = m
    BY <1>4, <2>1
  <2>3. Told(1) = seen /\ Told(2) = m.now
    BY <2>2 DEF Told
  <2>4. net # <<>>
    BY <2>2
  <2>5. \A i \in 1..Len(net) : Carries(Told(i), net[i])
    BY <1>5, <2>2, <2>3
  <2>6. QED
    BY <1>5, <2>2, <2>3, <2>4, <2>5 DEF NetTrue
<1>7. QED
  BY <1>1, <1>2, <1>3, <1>6 DEF DepthInv, DepthTypes, BookHolds

\* What nobody touches stays as it is.
LEMMA BookStays ==
  ASSUME BookHolds, UNCHANGED <<IsBuy, book, seen, over>>
  PROVE  BookHolds'
BY DEF BookHolds, Holds, Sided, Has, Better

LEMMA DepthChanges == DepthInv /\ Change => DepthInv'
<1> SUFFICES ASSUME DepthInv, Change PROVE DepthInv'
  OBVIOUS
<1>1. PICK p \in Prices, size \in 0..MaxSize :
        /\ server' = [server EXCEPT ![p] = size]
        /\ net' = IF View([server EXCEPT ![p] = size]) = View(server) THEN net
                  ELSE Append(net, Delta(server, [server EXCEPT ![p] = size]))
  BY DEF Change
<1>2. UNCHANGED <<exg, IsBuy, book, seen, over>>
  BY DEF Change
<1>3. PICK t : t = [server EXCEPT ![p] = size]
  OBVIOUS
<1>4. /\ server' = t
      /\ net' = IF View(t) = View(server) THEN net ELSE Append(net, Delta(server, t))
  BY <1>1, <1>3
<1>5. server \in Sizes /\ IsFiniteSet(Live(server))
  BY DEF DepthInv, DepthTypes
<1>6. t \in Sizes /\ IsFiniteSet(Live(t))
  <2>1. size \in Nat
    BY DepthAssumption
  <2>2. t \in Sizes
    BY <1>3, <1>5, <2>1 DEF Sizes
  <2>3. Live(t) \in SUBSET (Live(server) \cup {p})
    BY <1>3, <1>5 DEF Live, Sizes
  <2>4. IsFiniteSet(Live(server) \cup {p})
    BY <1>5, FS_AddElement
  <2>5. QED
    BY <2>2, <2>3, <2>4, FS_Subset
<1>7. View(server)' = View(t)
  BY <1>2, <1>4 DEF View, Better, Live
<1>8. DepthTypes'
  BY <1>2, <1>4, <1>6 DEF DepthInv, DepthTypes, Live
<1>9. /\ net \in Seq(DepthMessages) /\ \A i \in 1..Len(net) : Carries(Told(i), net[i])
      /\ View(server) = Told(Len(net) + 1) /\ (book = <<>> => net # <<>> /\ net[1].action = "snapshot")
  BY DEF DepthInv, NetTrue
<1>10. CASE View(t) = View(server)
  <2>1. net' = net /\ \A i : Told(i)' = Told(i)
    BY <1>2, <1>4, <1>10 DEF Told
  <2>2. NetTrue'
    BY <1>2, <1>7, <1>9, <1>10, <2>1 DEF NetTrue
  <2>3. QED
    BY <1>2, <1>8, <2>2, BookStays DEF DepthInv
<1>11. CASE View(t) # View(server)
  <2> DEFINE m == Delta(server, t)
  <2>1. Carries(View(server), m) /\ m.now = View(t)
    BY <1>5, <1>6, DeltaCarries
  <2> HIDE DEF m
  <2>2. m \in DepthMessages
    BY <2>1 DEF Carries
  <2>3. net' = Append(net, m)
    BY <1>4, <1>11 DEF m
  <2>4. /\ net' \in Seq(DepthMessages) /\ Len(net') = Len(net) + 1 /\ net'[Len(net) + 1] = m
        /\ \A i \in 1..Len(net) : net'[i] = net[i]
    BY <1>9, <2>2, <2>3
  <2>5. \A i \in 1..Len(net) + 1 : Told(i)' = Told(i)
    BY <1>2, <1>9, <2>4 DEF Told
  <2>n. PICK N \in Nat : N = Len(net)
    BY <1>9
  <2>6. Told(N + 2)' = m.now
    <3>1. N + 2 # 1 /\ (N + 2) - 1 = N + 1 /\ net'[N + 1] = m
      BY <2>n, <2>4
    <3>2. QED
      BY <3>1 DEF Told
  <2>7. ASSUME NEW i \in 1..Len(net) + 1 PROVE Carries(Told(i)', net'[i])
    <3>1. CASE i = Len(net) + 1
      BY <1>9, <2>1, <2>4, <2>5, <3>1
    <3>2. CASE i # Len(net) + 1
      <4>1. i \in 1..Len(net)
        BY <1>9, <3>2
      <4>2. QED
        BY <1>9, <2>4, <2>5, <4>1
    <3>3. QED
      BY <3>1, <3>2
  <2>8. book' = <<>> => net' # <<>> /\ net'[1].action = "snapshot"
    BY <1>2, <1>9, <2>4
  <2>9. NetTrue'
    <3>1. Len(net') + 1 = N + 2 /\ 1..Len(net') = 1..Len(net) + 1
      BY <2>n, <2>4
    <3>2. View(server)' = Told(Len(net) + 1)'
      BY <1>7, <2>1, <2>6, <3>1
    <3>3. QED
      BY <2>4, <2>7, <2>8, <3>1, <3>2 DEF NetTrue, Carries
  <2>10. QED
    BY <1>2, <1>8, <2>9, BookStays DEF DepthInv
<1>12. QED
  BY <1>10, <1>11

LEMMA DepthRestarts == DepthInv /\ Reconnect => DepthInv'
<1> SUFFICES ASSUME DepthInv, Reconnect PROVE DepthInv'
  OBVIOUS
<1>1. PICK m \in Snapshots(server) : net' = <<m>>
  BY DEF Reconnect
<1>2. UNCHANGED <<exg, IsBuy, server, book, seen, over>>
  BY DEF Reconnect
<1>3. Carries(seen, m) /\ m.now = View(server) /\ m.action = "snapshot"
  BY SnapshotCarries DEF DepthInv, DepthTypes
<1>4. m \in DepthMessages
  BY <1>3 DEF Carries
<1>5. net' \in Seq(DepthMessages) /\ Len(net') = 1 /\ net'[1] = m /\ net' # <<>>
  BY <1>1, <1>4
<1>6. Told(1)' = seen /\ Told(2)' = m.now
  BY <1>2, <1>5 DEF Told
<1>7. View(server)' = View(server)
  BY <1>2 DEF View, Better, Live
<1>8. \A i \in 1..Len(net') : Carries(Told(i)', net'[i])
  BY <1>3, <1>5, <1>6
<1>9. NetTrue'
  BY <1>2, <1>3, <1>5, <1>6, <1>7, <1>8 DEF NetTrue, Carries
<1>10. DepthTypes'
  BY <1>2 DEF DepthInv, DepthTypes, Live
<1>11. QED
  BY <1>2, <1>9, <1>10, BookStays DEF DepthInv

LEMMA DepthOfIs ==
  ASSUME NEW m \in DepthMessages
  PROVE  DepthOf(m) \in Nat
<1> DEFINE a == Len(m.deltas)  b == m.other
<1>1. a \in Nat /\ b \in Nat
  BY DEF DepthMessages
<1>2. Max({a, b}) \in Nat
  <2>1. {a, b} \subseteq Int /\ a \in {a, b} /\ b \in {a, b}
    BY <1>1
  <2>2. (\A y \in {a, b} : a >= y) \/ (\A y \in {a, b} : b >= y)
    BY <1>1
  <2>3. Max({a, b}) = a \/ Max({a, b}) = b
    BY <2>1, <2>2, MaxIs
  <2>4. QED
    BY <1>1, <2>3
<1>3. QED
  BY <1>2, DepthAssumption DEF DepthOf

LEMMA DepthApplies == DepthInv /\ Apply => DepthInv'
<1> SUFFICES ASSUME DepthInv, Apply PROVE DepthInv'
  OBVIOUS
<1>1. /\ net \in Seq(DepthMessages) /\ \A i \in 1..Len(net) : Carries(Told(i), net[i])
      /\ View(server) = Told(Len(net) + 1) /\ (book = <<>> => net # <<>> /\ net[1].action = "snapshot")
  BY DEF DepthInv, NetTrue
<1>2. net # <<>> /\ net' = Tail(net) /\ UNCHANGED <<exg, IsBuy, server>>
  BY DEF Apply
<1> DEFINE new == book = <<>> \/ Head(net).action = "snapshot"
           depth0 == IF new THEN DepthOf(Head(net)) ELSE book[1].depth
           old0 == IF new THEN <<>> ELSE book[1].levels
<1>3. /\ book' = <<[depth |-> depth0, levels |-> Update(old0, depth0, Head(net).deltas)]>>
      /\ over' = (Cardinality(Live(Head(net).now)) > depth0 \/ (over /\ ~new))
      /\ seen' = Head(net).now
  BY DEF Apply
<1>4. Head(net) = net[1] /\ Len(net) \in Nat \ {0} /\ Head(net) \in DepthMessages
  BY <1>1, <1>2
<1>5. PICK m \in DepthMessages : m = Head(net) /\ m = net[1]
  BY <1>4
<1>6. Carries(seen, m)
  <2>1. Told(1) = seen
    BY DEF Told
  <2>2. QED
    BY <1>1, <1>4, <1>5, <2>1
<1>7. new <=> m.action = "snapshot"
  BY <1>1, <1>5
<1>8. BookHolds /\ DepthTypes
  BY DEF DepthInv
<1>9. depth0 \in Nat
  BY <1>4, <1>8, DepthOfIs DEF BookHolds
<1>b. (new \/ ~over) \in BOOLEAN
  OBVIOUS
<1> HIDE DEF new, depth0, old0
<1> PICK old : old = old0
  OBVIOUS
<1>10. PICK depth \in Nat, all \in BOOLEAN : depth = depth0 /\ old = old0 /\ all = (new \/ ~over)
  BY <1>9, <1>b
<1>11. IF m.action = "snapshot" THEN old = <<>> /\ all ELSE Holds(old, seen, all)
  <2>1. CASE new
    BY <1>7, <1>10, <2>1 DEF old0
  <2>2. CASE ~new
    <3>1. book # <<>> /\ old = book[1].levels /\ all = ~over
      BY <1>8, <1>10, <2>2 DEF new, old0, DepthTypes
    <3>2. QED
      BY <1>7, <1>8, <2>2, <3>1 DEF BookHolds
  <2>3. QED
    BY <2>1, <2>2
<1>12. Holds(Update(old, depth, m.deltas), m.now, all /\ ~(Cardinality(Live(m.now)) > depth))
  BY <1>6, <1>8, <1>11, AppliedHolds DEF DepthTypes
<1>13. /\ book' = <<[depth |-> depth, levels |-> Update(old, depth, m.deltas)]>>
       /\ over' = (Cardinality(Live(m.now)) > depth \/ (over /\ ~new))
       /\ seen' = m.now
  BY <1>3, <1>5, <1>10
<1>14. ~over' <=> all /\ ~(Cardinality(Live(m.now)) > depth)
  BY <1>10, <1>13
<1>15. BookHolds'
  <2>1. book'[1].depth = depth /\ book'[1].levels = Update(old, depth, m.deltas)
    BY <1>13
  <2>2. PICK ls : ls = Update(old, depth, m.deltas)
    OBVIOUS
  <2>3. Holds(ls, m.now, all /\ ~(Cardinality(Live(m.now)) > depth))
    BY <1>12, <2>2
  <2>4. Holds(ls, m.now, ~over)'
    BY <1>2, <1>14, <2>3 DEF Holds, Sided, Has, Better
  <2>5. QED
    BY <1>13, <2>1, <2>2, <2>4 DEF BookHolds
<1>16. DepthTypes'
  <2>1. seen' \in Sizes
    BY <1>5, <1>13 DEF DepthMessages
  <2>2. over' \in BOOLEAN
    BY <1>13
  <2>3. QED
    BY <1>2, <1>8, <2>1, <2>2 DEF DepthTypes, Live
<1>17. NetTrue'
  <2>1. /\ net' \in Seq(DepthMessages) /\ Len(net') = Len(net) - 1
        /\ \A i \in 1..Len(net) - 1 : net'[i] = net[i + 1]
    BY <1>1, <1>2
  <2>2. \A i \in 1..Len(net) : Told(i)' = Told(i + 1)
    <3> SUFFICES ASSUME NEW i \in 1..Len(net) PROVE Told(i)' = Told(i + 1)
      OBVIOUS
    <3>1. i + 1 # 1 /\ (i + 1) - 1 = i
      OBVIOUS
    <3>2. Told(i + 1) = net[i].now
      BY <3>1 DEF Told
    <3>3. CASE i = 1
      BY <1>5, <1>13, <3>2, <3>3 DEF Told
    <3>4. CASE i # 1
      <4>1. i - 1 \in 1..Len(net) - 1 /\ (i - 1) + 1 = i
        BY <1>4, <3>4
      <4>2. net'[i - 1] = net[i]
        BY <2>1, <4>1
      <4>3. QED
        BY <3>2, <3>4, <4>2 DEF Told
    <3>5. QED
      BY <3>3, <3>4
  <2>3. View(server)' = View(server)
    BY <1>2 DEF View, Better, Live
  <2>4. \A i \in 1..Len(net') : Carries(Told(i)', net'[i])
    BY <1>1, <1>4, <2>1, <2>2
  <2>5. View(server)' = Told(Len(net) + 1)'
    <3>1. PICK N \in 1..Len(net) : N = Len(net)
      BY <1>4
    <3>2. Told(N)' = Told(N + 1) /\ Len(net') + 1 = N
      BY <1>4, <2>1, <2>2, <3>1
    <3>3. QED
      BY <1>1, <2>3, <3>1, <3>2
  <2>6. book' # <<>>
    BY <1>13
  <2>7. QED
    BY <2>1, <2>4, <2>5, <2>6 DEF NetTrue, Carries
<1>18. QED
  BY <1>15, <1>16, <1>17 DEF DepthInv

LEMMA DepthStays == DepthInv /\ UNCHANGED depthVars => DepthInv'
<1> SUFFICES ASSUME DepthInv, UNCHANGED depthVars PROVE DepthInv'
  OBVIOUS
<1>1. UNCHANGED <<exg, IsBuy, server, net, book, seen, over>>
  BY DEF depthVars
<1>2. DepthTypes' /\ BookHolds'
  BY <1>1, BookStays DEF DepthInv, DepthTypes, Live
<1>3. View(server)' = View(server) /\ \A i : Told(i)' = Told(i)
  BY <1>1 DEF View, Better, Live, Told
<1>4. NetTrue'
  BY <1>1, <1>3 DEF DepthInv, NetTrue
<1>5. QED
  BY <1>2, <1>4 DEF DepthInv

LEMMA DepthShows == DepthInv => SideTrue
<1> SUFFICES ASSUME DepthInv, book # <<>> PROVE
      /\ \A i, j \in 1..Len(Levels) : i < j => Better(Levels[i][1], Levels[j][1])
      /\ \A i \in 1..Len(Levels) : Levels[i][2] = seen[Levels[i][1]]
      /\ ~over => InBook = Live(seen)
  BY DEF SideTrue
<1>1. Holds(Levels, seen, ~over)
  BY DEF DepthInv, BookHolds, Levels
<1>2. PICK l : l = Levels
  OBVIOUS
<1>3. /\ Sided(l) /\ \A q, m : Has(l, q, m) => q \in Live(seen) /\ m = seen[q]
      /\ ~over => \A q \in Live(seen) : Has(l, q, seen[q])
  BY <1>1, <1>2 DEF Holds
<1>4. \A i \in 1..Len(l) : l[i] = <<l[i][1], l[i][2]>>
  BY <1>3, LevelsTyped
<1>5. \A i \in 1..Len(l) : Has(l, l[i][1], l[i][2])
  BY <1>4 DEF Has
<1>6. \A i, j \in 1..Len(l) : i < j => Better(l[i][1], l[j][1])
  BY <1>3 DEF Sided
<1>7. \A i \in 1..Len(l) : l[i][2] = seen[l[i][1]] /\ l[i][1] \in Live(seen)
  BY <1>3, <1>5
<1>8. ASSUME ~over PROVE InBook = Live(seen)
  <2>1. \A q : q \in InBook <=> \E i \in 1..Len(l) : l[i][1] = q
    BY <1>2 DEF InBook
  <2>2. \A q \in Live(seen) : \E i \in 1..Len(l) : l[i][1] = q
    <3> SUFFICES ASSUME NEW q \in Live(seen) PROVE \E i \in 1..Len(l) : l[i][1] = q
      OBVIOUS
    <3>1. Has(l, q, seen[q])
      BY <1>3, <1>8
    <3>2. PICK i \in 1..Len(l) : l[i] = <<q, seen[q]>>
      BY <3>1 DEF Has
    <3>3. QED
      BY ONLY <3>2
  <2>3. QED
    BY <1>7, <2>1, <2>2
<1>9. QED
  BY <1>2, <1>6, <1>7, <1>8

\* SideTrue, a safety invariant of every behaviour (applyWsOrderBookUpdate,
\* applyBybitWsOrderBook, OdBookSide.Update): whatever changes, losses and
\* snapshots come, a side of the local book has the sizes of the exchange, the
\* best level first, and every level until the side has outgrown its depth.
THEOREM SideIsTrue == FeedsSpec => []SideTrue
<1> DEFINE Unused == exg = "none" /\ book = <<>>
<1>1. FeedsInit => Unused \/ DepthInv
  BY DepthStart DEF FeedsInit, Off
<1>2. (Unused \/ DepthInv) /\ [FeedsNext]_<<vars, depthVars, watchVars>> => (Unused \/ DepthInv)'
  <2> SUFFICES ASSUME Unused \/ DepthInv, [FeedsNext]_<<vars, depthVars, watchVars>> PROVE (Unused \/ DepthInv)'
    OBVIOUS
  <2>1. CASE UNCHANGED depthVars
    <3>1. CASE Unused
      BY <2>1, <3>1 DEF depthVars
    <3>2. CASE DepthInv
      BY <2>1, <3>2, DepthStays
    <3>3. QED
      BY <3>1, <3>2
  <2>2. CASE exg # "none" /\ DepthNext
    <3>1. DepthInv
      BY <2>2
    <3>2. QED
      BY <2>2, <3>1, DepthChanges, DepthRestarts, DepthApplies DEF DepthNext
  <2>3. QED
    BY <2>1, <2>2 DEF FeedsNext
<1>3. Unused \/ DepthInv => SideTrue
  BY DepthShows DEF SideTrue
<1>4. QED
  BY <1>1, <1>2, <1>3, PTL DEF FeedsSpec

-------------------------------------------------------------------------------
(* Volumes and their cost.                                                 *)

\* Sums of the first items, one after the other
Sums(w, n, F) == F[0] = 0 /\ \A k \in 1..n : F[k] = F[k - 1] + w[k]

\* A sum over the first k numbers, as the community modules define it: the largest
\* number is taken out of the set, turn by turn.
AddTurn(g, w, S) == IF S = {} THEN 0 ELSE LET x == Max(S) IN g[S \ {x}] + w[x]
Adds(w, k, g) ==
  /\ DOMAIN g = SUBSET (1..k)
  /\ \A S \in SUBSET (1..k) : g[S] = AddTurn(g, w, S)

\* One number more can be added,
LEMMA AddsExtend ==
  ASSUME NEW w, NEW k \in Nat, NEW g, Adds(w, k, g)
  PROVE  \E h : Adds(w, k + 1, h)
<1> DEFINE h == [S \in SUBSET (1..k + 1) |->
                   IF k + 1 \in S THEN g[S \ {k + 1}] + w[k + 1] ELSE g[S]]
<1>1. DOMAIN h = SUBSET (1..k + 1)
  OBVIOUS
<1>2. ASSUME NEW S \in SUBSET (1..k + 1), k + 1 \notin S PROVE h[S] = g[S] /\ S \in SUBSET (1..k)
  <2>1. S \in SUBSET (1..k)
    BY <1>2
  <2>2. QED
    BY <1>2, <2>1
<1>3. ASSUME NEW S \in SUBSET (1..k + 1), k + 1 \in S
      PROVE  h[S] = g[S \ {k + 1}] + w[k + 1]
  BY <1>3
<1> HIDE DEF h
<1>4. ASSUME NEW S \in SUBSET (1..k + 1) PROVE h[S] = AddTurn(h, w, S)
  <2>1. CASE k + 1 \in S
    <3>1. Max(S) = k + 1
      <4>1. S \subseteq Int /\ \A y \in S : k + 1 >= y
        BY <1>4
      <4>2. QED
        BY <2>1, <4>1, MaxIs
    <3>2. S \ {k + 1} \in SUBSET (1..k + 1) /\ h[S \ {k + 1}] = g[S \ {k + 1}]
      BY <1>2
    <3>3. h[S] = h[S \ {k + 1}] + w[k + 1]
      BY <1>3, <2>1, <3>2
    <3>4. QED
      BY <2>1, <3>1, <3>3 DEF AddTurn
  <2>2. CASE k + 1 \notin S
    <3>1. h[S] = g[S] /\ S \in SUBSET (1..k)
      BY <1>2, <2>2
    <3>2. g[S] = AddTurn(g, w, S)
      BY <3>1 DEF Adds
    <3>3. \A x : h[S \ {x}] = g[S \ {x}]
      BY <1>2, <2>2, <3>1
    <3>4. QED
      BY <3>1, <3>2, <3>3 DEF AddTurn
  <2>3. QED
    BY <2>1, <2>2
<1>5. QED
  BY <1>1, <1>4 DEF Adds

\* so a sum over any range exists.
LEMMA AddsExist ==
  ASSUME NEW w, NEW n \in Nat
  PROVE  \E g : Adds(w, n, g)
<1> DEFINE Bad == {k \in Nat : ~\E g : Adds(w, k, g)}
<1> SUFFICES ASSUME n \in Bad PROVE FALSE
  OBVIOUS
<1>0. \A k : k \in Bad <=> k \in Nat /\ ~\E g : Adds(w, k, g)
  OBVIOUS
<1> HIDE DEF Bad
<1>1. Bad \in SUBSET Nat /\ Bad # {}
  BY <1>0
<1>2. PICK m \in Bad : \A y \in Bad : m <= y
  BY <1>1, LeastIs
<1>3. m # 0
  <2> DEFINE g == [S \in SUBSET (1..0) |-> 0]
  <2>1. \A S \in SUBSET (1..0) : S = {}
    OBVIOUS
  <2>2. Adds(w, 0, g)
    BY <2>1 DEF Adds, AddTurn
  <2>3. QED
    BY <1>0, <2>2
<1>4. m - 1 \in Nat /\ m - 1 \notin Bad
  BY <1>0, <1>2, <1>3
<1>5. PICK g : Adds(w, m - 1, g)
  BY <1>0, <1>4
<1>6. \E h : Adds(w, (m - 1) + 1, h)
  BY <1>4, <1>5, AddsExtend
<1>7. (m - 1) + 1 = m
  BY <1>0, <1>2
<1>8. QED
  BY <1>0, <1>2, <1>6, <1>7

\* A total is what the sums come to.
LEMMA TotalSums ==
  ASSUME NEW w, NEW n \in Nat, DOMAIN w = 1..n
  PROVE  \E F : Sums(w, n, F) /\ Total(w) = F[n]
<1> DEFINE g == CHOOSE g : g = [S \in SUBSET (1..n) |-> AddTurn(g, w, S)]
           F == [k \in 0..n |-> g[1..k]]
<1>1. g = [S \in SUBSET (1..n) |-> AddTurn(g, w, S)]
  <2>1. PICK h : Adds(w, n, h)
    BY AddsExist
  <2> DEFINE f == [S \in SUBSET (1..n) |-> h[S]]
  <2>2. \A S \in SUBSET (1..n) : f[S] = AddTurn(f, w, S)
    <3> SUFFICES ASSUME NEW S \in SUBSET (1..n) PROVE f[S] = AddTurn(f, w, S)
      OBVIOUS
    <3>1. h[S] = AddTurn(h, w, S)
      BY <2>1 DEF Adds
    <3>2. f[S] = h[S] /\ \A x : f[S \ {x}] = h[S \ {x}]
      OBVIOUS
    <3> HIDE DEF f
    <3>3. QED
      BY <3>1, <3>2 DEF AddTurn
  <2>3. f = [S \in SUBSET (1..n) |-> AddTurn(f, w, S)]
    BY <2>2
  <2> HIDE DEF f
  <2>4. QED
    BY <2>3
<1>2. Total(w) = g[1..n]
  BY DEF Total, FoldLeft, MapThenFoldSet, AddTurn
<1> HIDE DEF g
<1>3. \A S \in SUBSET (1..n) : g[S] = AddTurn(g, w, S)
  BY <1>1
<1>4. F[0] = 0
  <2>1. 1..0 = {} /\ 0 \in 0..n
    OBVIOUS
  <2>2. QED
    BY <1>3, <2>1 DEF AddTurn
<1>5. ASSUME NEW k \in 1..n PROVE F[k] = F[k - 1] + w[k]
  <2>1. k \in 0..n /\ k - 1 \in 0..n /\ k \in Nat
    OBVIOUS
  <2>2. Max(1..k) = k /\ (1..k) \ {k} = 1..k - 1 /\ 1..k # {} /\ 1..k \in SUBSET (1..n)
    <3>1. 1..k \subseteq Int /\ k \in 1..k /\ \A y \in 1..k : k >= y
      OBVIOUS
    <3>2. Max(1..k) = k
      BY <3>1, MaxIs
    <3>3. (1..k) \ {k} = 1..k - 1 /\ 1..k # {}
      <4>1. \A y : y \in (1..k) \ {k} <=> y \in 1..k - 1
        BY <2>1
      <4>2. QED
        BY <3>1, <4>1
    <3>4. 1..k \in SUBSET (1..n)
      OBVIOUS
    <3>5. QED
      BY <3>2, <3>3, <3>4
  <2>3. g[1..k] = g[1..k - 1] + w[k]
    BY <1>3, <2>2 DEF AddTurn
  <2>4. QED
    BY <2>1, <2>3
<1>6. F[n] = g[1..n]
  OBVIOUS
<1>7. QED
  BY <1>2, <1>4, <1>5, <1>6 DEF Sums

\* The total of the first items is the sum that far.
LEMMA TotalIs ==
  ASSUME NEW w, NEW n \in Nat, NEW F, Sums(w, n, F),
         NEW v, NEW k \in 0..n, DOMAIN v = 1..k, \A j \in 1..k : v[j] = w[j]
  PROVE  Total(v) = F[k]
<1>1. k \in Nat
  OBVIOUS
<1>2. PICK G : Sums(v, k, G) /\ Total(v) = G[k]
  BY <1>1, TotalSums
<1> DEFINE Bad == {j \in 0..k : G[j] # F[j]}
<1> SUFFICES ASSUME k \in Bad PROVE FALSE
  BY <1>1, <1>2
<1>3. Bad \in SUBSET Nat /\ Bad # {}
  OBVIOUS
<1>4. PICK m \in Bad : \A y \in Bad : m <= y
  BY <1>3, LeastIs
<1>5. m # 0
  BY <1>2 DEF Sums
<1>6. m \in 1..k /\ m \in 1..n /\ m - 1 \in 0..k
  BY <1>5
<1>7. m - 1 \notin Bad
  BY <1>4, <1>6
<1>8. G[m] = G[m - 1] + v[m] /\ F[m] = F[m - 1] + w[m]
  BY <1>2, <1>6 DEF Sums
<1>9. QED
  BY <1>6, <1>7, <1>8

\* Sums of numbers are numbers and never fall.
LEMMA SumsGrow ==
  ASSUME NEW w, NEW n \in Nat, NEW F, Sums(w, n, F), \A k \in 1..n : w[k] \in Nat
  PROVE  \A k \in 0..n : F[k] \in Nat /\ \A j \in 0..k : F[j] \in Nat /\ F[j] <= F[k]
<1> DEFINE Good(k) == F[k] \in Nat /\ \A j \in 0..k : F[j] \in Nat /\ F[j] <= F[k]
           Bad == {k \in 0..n : ~Good(k)}
<1> SUFFICES ASSUME Bad # {} PROVE FALSE
  OBVIOUS
<1>1. Bad \in SUBSET Nat
  OBVIOUS
<1>2. PICK m \in Bad : \A y \in Bad : m <= y
  BY <1>1, LeastIs
<1>3. F[0] = 0
  BY DEF Sums
<1>4. Good(0)
  <2>1. \A j \in 0..0 : j = 0
    OBVIOUS
  <2>2. QED
    BY <1>3, <2>1
<1>5. m # 0
  BY <1>4
<1>6. m \in 1..n /\ m - 1 \in 0..n /\ m - 1 \in Nat
  BY <1>5
<1>7. m - 1 \notin Bad
  BY <1>2, <1>6
<1>8. Good(m - 1)
  BY <1>6, <1>7
<1>9. F[m] = F[m - 1] + w[m] /\ w[m] \in Nat
  BY <1>6 DEF Sums
<1>10. F[m] \in Nat /\ F[m - 1] <= F[m]
  BY <1>8, <1>9
<1>11. ASSUME NEW j \in 0..m PROVE F[j] \in Nat /\ F[j] <= F[m]
  <2>1. j = m \/ j \in 0..m - 1
    BY <1>6
  <2>2. QED
    BY <1>8, <1>10, <2>1
<1>12. QED
  BY <1>10, <1>11

\* Arithmetic of products, kept apart from everything else.
LEMMA Products ==
  /\ \A a, b, c \in Nat : b <= c => a * b <= a * c
  /\ \A a, b, c \in Nat : a * (b + c) = a * b + a * c
  /\ \A a, b \in Nat : a * b \in Nat /\ a * b = b * a
<1>1. \A a, b, c \in Nat : a * (b + c) = a * b + a * c
  OBVIOUS
<1>2. \A a, b \in Nat : a * b \in Nat /\ a * b = b * a
  OBVIOUS
<1>3. ASSUME NEW a \in Nat, NEW b \in Nat, NEW c \in Nat, b <= c PROVE a * b <= a * c
  <2>1. PICK d \in Nat : c = b + d
    <3>1. c - b \in Nat /\ c = b + (c - b)
      BY <1>3
    <3> QED BY <3>1
  <2>2. a * c = a * b + a * d
    BY <1>1, <2>1
  <2> QED BY <1>2, <2>2
<1> QED BY <1>1, <1>2, <1>3

\* A cost is between the volume at the lowest price and that at the highest.
LEMMA CostAtMost ==
  ASSUME NEW p, NEW s, NEW n \in Nat, NEW w,
         \A i \in 1..n : p[i] \in Nat /\ s[i] \in Nat /\ w[i] = p[i] * s[i],
         NEW F, Sums(s, n, F), NEW G, Sums(w, n, G), NEW c \in Nat, NEW k \in 0..n,
         \A i \in 1..k : p[i] <= c
  PROVE  G[k] <= c * F[k]
<1>1. \A j \in 0..n : F[j] \in Nat
  BY SumsGrow
<1>2. \A i \in 1..n : w[i] \in Nat
  BY Products
<1>3. \A j \in 0..n : G[j] \in Nat
  BY <1>2, SumsGrow
<1> DEFINE Bad == {j \in 0..k : ~(G[j] <= c * F[j])}
<1> SUFFICES ASSUME k \in Bad PROVE FALSE
  OBVIOUS
<1>4. Bad \in SUBSET Nat /\ Bad # {}
  OBVIOUS
<1>5. PICK m \in Bad : \A y \in Bad : m <= y
  BY <1>4, LeastIs
<1>6. m # 0
  <2>1. F[0] = 0 /\ G[0] = 0 /\ c * 0 = 0
    BY DEF Sums
  <2>2. QED
    BY <2>1
<1>7. m \in 1..k /\ m \in 1..n /\ m - 1 \in 0..k /\ m - 1 \in 0..n
  BY <1>6
<1>8. G[m - 1] <= c * F[m - 1]
  BY <1>5, <1>7
<1>9. F[m] = F[m - 1] + s[m] /\ G[m] = G[m - 1] + w[m]
  BY <1>7 DEF Sums
<1>10. PICK a \in Nat, b \in Nat, q \in Nat, z \in Nat :
         a = F[m - 1] /\ b = G[m - 1] /\ q = p[m] /\ z = s[m] /\ w[m] = q * z /\ q <= c
  BY <1>1, <1>3, <1>7
<1>11. q * z <= c * z /\ c * (a + z) = c * a + c * z /\ c * a \in Nat /\ c * z \in Nat /\ q * z \in Nat
  BY <1>10, Products
<1>12. b <= c * a
  BY <1>8, <1>10
<1>13. b + q * z <= c * (a + z)
  BY <1>11, <1>12
<1>14. QED
  BY <1>9, <1>10, <1>13

\* The same from below
LEMMA CostAtLeast ==
  ASSUME NEW p, NEW s, NEW n \in Nat, NEW w,
         \A i \in 1..n : p[i] \in Nat /\ s[i] \in Nat /\ w[i] = p[i] * s[i],
         NEW F, Sums(s, n, F), NEW G, Sums(w, n, G), NEW c \in Nat, NEW k \in 0..n,
         \A i \in 1..k : c <= p[i]
  PROVE  c * F[k] <= G[k]
<1>1. \A j \in 0..n : F[j] \in Nat
  BY SumsGrow
<1>2. \A i \in 1..n : w[i] \in Nat
  BY Products
<1>3. \A j \in 0..n : G[j] \in Nat
  BY <1>2, SumsGrow
<1> DEFINE Bad == {j \in 0..k : ~(c * F[j] <= G[j])}
<1> SUFFICES ASSUME k \in Bad PROVE FALSE
  OBVIOUS
<1>4. Bad \in SUBSET Nat /\ Bad # {}
  OBVIOUS
<1>5. PICK m \in Bad : \A y \in Bad : m <= y
  BY <1>4, LeastIs
<1>6. m # 0
  <2>1. F[0] = 0 /\ G[0] = 0 /\ c * 0 = 0
    BY DEF Sums
  <2>2. QED
    BY <2>1
<1>7. m \in 1..k /\ m \in 1..n /\ m - 1 \in 0..k /\ m - 1 \in 0..n
  BY <1>6
<1>8. c * F[m - 1] <= G[m - 1]
  BY <1>5, <1>7
<1>9. F[m] = F[m - 1] + s[m] /\ G[m] = G[m - 1] + w[m]
  BY <1>7 DEF Sums
<1>10. PICK a \in Nat, b \in Nat, q \in Nat, z \in Nat :
         a = F[m - 1] /\ b = G[m - 1] /\ q = p[m] /\ z = s[m] /\ w[m] = q * z /\ c <= q
  BY <1>1, <1>3, <1>7
<1>11. c * z <= q * z /\ c * (a + z) = c * a + c * z /\ c * a \in Nat /\ c * z \in Nat /\ q * z \in Nat
  BY <1>10, Products
<1>12. c * a <= b
  BY <1>8, <1>10
<1>13. c * (a + z) <= b + q * z
  BY <1>11, <1>12
<1>14. QED
  BY <1>9, <1>10, <1>13

\* The volume of levels that are all different is a count of their units, so it does
\* not depend on their order.
Units(E, B) == {x \in E \X (1..B) : x[2] <= x[1][2]}

LEMMA VolumeCounts ==
  ASSUME NEW t, NEW n \in Nat, DOMAIN t = 1..n, NEW B \in Nat,
         \A i \in 1..n : t[i][2] \in 0..B, \A i, j \in 1..n : t[i] = t[j] => i = j
  PROVE  SumSizes(t) = Cardinality(Units({t[i] : i \in 1..n}, B))
<1> DEFINE s == [i \in DOMAIN t |-> t[i][2]]
           E(k) == {t[i] : i \in 1..k}  Upto(k) == Units(E(k), B)
<1>1. DOMAIN s = 1..n /\ \A i \in 1..n : s[i] = t[i][2]
  OBVIOUS
<1>2. SumSizes(t) = Total(s)
  BY DEF SumSizes
<1>0. \A k \in 1..n : k \in 0..n /\ k - 1 \in 0..n
  OBVIOUS
<1>00. \A k, x : x \in Upto(k) <=> \E i \in 1..k, y \in 1..B : x = <<t[i], y>> /\ y <= t[i][2]
  BY DEF Units
<1> HIDE DEF s
<1>3. PICK F : Sums(s, n, F) /\ Total(s) = F[n]
  BY <1>1, TotalSums
<1> DEFINE Good(k) == IsFiniteSet(Upto(k)) /\ Cardinality(Upto(k)) = F[k]
           Bad == {k \in 0..n : ~Good(k)}
<1> SUFFICES ASSUME n \in Bad PROVE FALSE
  BY <1>2, <1>3
<1> HIDE DEF Good
<1>4. Bad \in SUBSET Nat /\ Bad # {}
  OBVIOUS
<1>5. PICK m \in Bad : \A y \in Bad : m <= y
  BY <1>4, LeastIs
<1> USE DEF Good
<1> HIDE DEF Upto, E
<1>6. m # 0
  <2>1. Upto(0) = {}
    BY <1>00
  <2>2. F[0] = 0
    BY <1>3 DEF Sums
  <2>3. Good(0)
    BY <2>1, <2>2, FS_EmptySet
  <2>4. QED
    BY <2>3
<1>7. m \in 1..n /\ m - 1 \in 0..n /\ m - 1 \in Nat
  BY <1>6
<1>8. m - 1 \notin Bad
  BY <1>5, <1>7
<1>9. Good(m - 1)
  BY <1>7, <1>8
<1> DEFINE z == t[m][2]  Row == {t[m]} \X (1..z)
<1>10. z \in Nat /\ z <= B /\ s[m] = z
  BY <1>1, <1>7
<1>11. Upto(m) = Upto(m - 1) \cup Row
  <2>1. ASSUME NEW x PROVE x \in Upto(m) <=> x \in Upto(m - 1) \/ x \in Row
    <3>1. x \in Row <=> \E y \in 1..B : x = <<t[m], y>> /\ y <= z
      BY <1>10
    <3>2. \A i : i \in 1..m <=> i \in 1..m - 1 \/ i = m
      BY <1>7
    <3> HIDE DEF Row
    <3>3. QED
      BY <1>00, <3>1, <3>2
  <2>2. QED
    BY <2>1
<1>12. Upto(m - 1) \cap Row = {}
  <2> SUFFICES ASSUME NEW x \in Upto(m - 1), x \in Row PROVE FALSE
    OBVIOUS
  <2>1. PICK i \in 1..m - 1, y \in 1..B : x = <<t[i], y>>
    BY <1>00
  <2>2. t[i] = t[m]
    BY <2>1
  <2>3. i \in 1..n /\ i # m
    BY <1>7
  <2>4. QED
    BY <1>7, <2>2, <2>3
<1>13. IsFiniteSet(Row) /\ Cardinality(Row) = z
  <2>1. PICK b \in Nat : b = z
    BY <1>10
  <2>e. PICK e : e = t[m]
    OBVIOUS
  <2>2. IsFiniteSet(1..b) /\ Cardinality(1..b) = b
    <3>1. 1 \in Int /\ b \in Int /\ (1 > b => b = 0) /\ b - 1 + 1 = b
      BY <2>1
    <3>2. QED
      BY ONLY <3>1, FS_Interval
  <2>3. IsFiniteSet({e}) /\ Cardinality({e}) = 1
    BY FS_Singleton
  <2>4. IsFiniteSet({e} \X (1..b)) /\ Cardinality({e} \X (1..b)) = 1 * b
    BY ONLY <2>2, <2>3, FS_Product
  <2>5. 1 * b = b
    BY <2>1
  <2>6. QED
    BY <2>1, <2>e, <2>4, <2>5
<1> HIDE DEF Row
<1>14. /\ IsFiniteSet(Upto(m))
       /\ Cardinality(Upto(m)) = Cardinality(Upto(m - 1)) + Cardinality(Row) - Cardinality({})
  <2>1. PICK X, Y : X = Upto(m - 1) /\ Y = Row
    OBVIOUS
  <2>2. IsFiniteSet(X) /\ IsFiniteSet(Y) /\ X \cap Y = {} /\ Upto(m) = X \cup Y
    BY <1>9, <1>11, <1>12, <1>13, <2>1
  <2>3. /\ IsFiniteSet(X \cup Y)
        /\ Cardinality(X \cup Y) = Cardinality(X) + Cardinality(Y) - Cardinality(X \cap Y)
    BY ONLY <2>2, FS_Union
  <2>4. QED
    BY <2>1, <2>2, <2>3
<1>15. Cardinality({}) = 0 /\ Cardinality(Upto(m - 1)) \in Nat
  BY <1>9, FS_EmptySet, FS_CardinalityType
<1>16. F[m] = F[m - 1] + s[m]
  BY <1>3, <1>7 DEF Sums
<1>17. PICK a \in Nat, b \in Nat : a = F[m - 1] /\ b = z
  BY <1>9, <1>10, <1>15
<1>18. F[m] = a + b /\ Cardinality(Upto(m)) = a + b - 0
  BY <1>9, <1>10, <1>13, <1>14, <1>15, <1>16, <1>17
<1>19. Cardinality(Upto(m)) = F[m]
  BY <1>18
<1>20. QED
  BY <1>14, <1>19

\* The first levels of a side
LEMMA FirstLevels ==
  ASSUME NEW l, Sided(l), NEW k \in 0..Len(l)
  PROVE  /\ Len(SubSeq(l, 1, k)) = k /\ DOMAIN SubSeq(l, 1, k) = 1..k
         /\ \A j \in 1..k : SubSeq(l, 1, k)[j] = l[j] /\ j \in 1..Len(l)
<1>1. Len(l) \in Nat /\ \A j \in 1..Len(l) : l[j] \in Prices \X Nat
  BY LevelsTyped
<1>2. k \in Nat /\ \A j \in 1..k : j \in 1..Len(l) /\ l[j] \in Prices \X Nat
  BY <1>1
<1>3. PICK s : s = SubSeq(l, 1, k)
  OBVIOUS
<1>4. /\ s \in Seq(Prices \X Nat) /\ Len(s) = IF 1 <= k THEN k - 1 + 1 ELSE 0
      /\ \A j \in 1..k - 1 + 1 : s[j] = l[1 + j - 1]
  <2>1. l \in Seq(Prices \X Nat) /\ 1 \in Int /\ k \in Int
    BY <1>2, LevelsTyped
  <2>2. QED
    BY <1>2, <1>3, <2>1, SubSeqProperties
<1>5. Len(s) = k /\ \A j \in 1..k : s[j] = l[j]
  BY <1>2, <1>4
<1>6. DOMAIN s = 1..k
  BY <1>4, <1>5
<1>7. QED
  BY <1>2, <1>3, <1>5, <1>6

\* The sizes and the costs of the first levels, summed up
LEMMA LevelSums ==
  ASSUME NEW l, Sided(l)
  PROVE  \E F, G :
           /\ Sums([i \in 1..Len(l) |-> l[i][2]], Len(l), F)
           /\ Sums([i \in 1..Len(l) |-> l[i][1] * l[i][2]], Len(l), G)
           /\ \A k \in 0..Len(l) : SumSizes(SubSeq(l, 1, k)) = F[k] /\ Cost(SubSeq(l, 1, k)) = G[k]
           /\ SumSizes(l) = F[Len(l)]
<1> DEFINE n == Len(l)  s == [i \in 1..n |-> l[i][2]]  w == [i \in 1..n |-> l[i][1] * l[i][2]]
<1>1. n \in Nat /\ DOMAIN l = 1..n
  BY LevelsTyped
<1>2. DOMAIN s = 1..n /\ DOMAIN w = 1..n /\ \A i \in 1..n : s[i] = l[i][2] /\ w[i] = l[i][1] * l[i][2]
  OBVIOUS
<1> HIDE DEF s, w, n
<1>3. PICK F : Sums(s, n, F) /\ Total(s) = F[n]
  BY <1>1, <1>2, TotalSums
<1>4. PICK G : Sums(w, n, G) /\ Total(w) = G[n]
  BY <1>1, <1>2, TotalSums
<1>5. SumSizes(l) = F[n]
  BY <1>1, <1>3 DEF SumSizes, s
<1>6. ASSUME NEW k \in 0..n
      PROVE  SumSizes(SubSeq(l, 1, k)) = F[k] /\ Cost(SubSeq(l, 1, k)) = G[k]
  <2>1. PICK t : t = SubSeq(l, 1, k)
    OBVIOUS
  <2>2. DOMAIN t = 1..k /\ \A j \in 1..k : t[j] = l[j] /\ j \in 1..n
    BY <2>1, FirstLevels DEF n
  <2> DEFINE sk == [i \in DOMAIN t |-> t[i][2]]  wk == [i \in DOMAIN t |-> t[i][1] * t[i][2]]
  <2>3. DOMAIN sk = 1..k /\ \A j \in 1..k : sk[j] = s[j]
    BY <1>2, <2>2
  <2>4. DOMAIN wk = 1..k /\ \A j \in 1..k : wk[j] = w[j]
    BY <1>2, <2>2
  <2>5. SumSizes(t) = Total(sk) /\ Cost(t) = Total(wk)
    BY DEF SumSizes, Cost
  <2> HIDE DEF sk, wk
  <2>6. Total(sk) = F[k]
    BY <1>1, <1>3, <2>3, TotalIs
  <2>7. Total(wk) = G[k]
    BY <1>1, <1>4, <2>4, TotalIs
  <2>8. QED
    BY <2>1, <2>5, <2>6, <2>7
<1>7. QED
  BY <1>3, <1>4, <1>5, <1>6 DEF s, w, n

\* No element stands in SetToSeq twice.
LEMMA ListedOnce ==
  ASSUME NEW S, IsFiniteSet(S)
  PROVE  \A i, j \in 1..Cardinality(S) : SetToSeq(S)[i] = SetToSeq(S)[j] => i = j
<1> DEFINE n == Cardinality(S)  f == SetToSeq(S)
<1>1. n \in Nat /\ ExistsBijection(1..n, S)
  BY FS_CardinalityType
<1> HIDE DEF n, f
<1>2. \E g \in [1..n -> S] : IsInjective(g)
  BY <1>1 DEF ExistsBijection, Bijection, Injection
<1>3. f \in [1..n -> S] /\ IsInjective(f)
  BY <1>2 DEF SetToSeq, n, f
<1>4. QED
  BY <1>3 DEF IsInjective, n, f

\* Whether a side has a level that is not better than the price
GoesTo(B, price) == \E p \in B : ~Better(p, price)

\* The levels of the exchange that are better than the price
Offers(B, now, price) == {<<p, now[p]>> : p \in {q \in B : Better(q, price)}}

\* A side l with prices B and the sizes now
Offered(l, B, now) ==
  /\ Sided(l) /\ \A p \in Prices : now[p] \in 0..MaxSize
  /\ \A i \in 1..Len(l) : l[i][2] = now[l[i][1]]
  /\ \A q : q \in B <=> \E i \in 1..Len(l) : l[i][1] = q

\* SumVolTo is of the levels better than the price, and its rate is 1 exactly if the
\* side has another.
LEMMA VolumeTo ==
  ASSUME NEW l, NEW B, NEW now, Offered(l, B, now), NEW price \in Prices, NEW got, got = SumVolTo(l, price)
  PROVE  /\ got.vol = SumSizes(SetToSeq(Offers(B, now, price)))
         /\ got.rate[1] = got.rate[2] <=> GoesTo(B, price) \/ l = <<>>
         /\ ~GoesTo(B, price) /\ l # <<>> => IF IsBuy THEN got.rate[2] < got.rate[1] /\ got.rate[1] <= 0
                                    ELSE got.rate[2] > got.rate[1] /\ got.rate[1] >= 0
<1>0. /\ Sided(l) /\ \A p \in Prices : now[p] \in 0..MaxSize
      /\ \A i \in 1..Len(l) : l[i][2] = now[l[i][1]]
      /\ \A q : q \in B <=> \E i \in 1..Len(l) : l[i][1] = q
  BY DEF Offered
<1> USE <1>0
<1> DEFINE n == Len(l)
<1>1. /\ n \in Nat /\ l \in Seq(Prices \X Nat)
      /\ \A i \in 1..n : l[i][1] \in Prices /\ l[i][2] \in Nat /\ l[i] = <<l[i][1], l[i][2]>>
  BY LevelsTyped
<1>2. /\ Search(l, price) \in 1..n + 1
      /\ \A j \in 1..n : j < Search(l, price) => Better(l[j][1], price)
      /\ \A j \in 1..n : j >= Search(l, price) => l[j][1] = price \/ Better(price, l[j][1])
  BY SearchIs
<1>3. PICK k \in 0..n : k = Search(l, price) - 1
  BY <1>1, <1>2
<1>4. \A j \in 1..n : j <= k <=> Better(l[j][1], price)
  <2> SUFFICES ASSUME NEW j \in 1..n PROVE j <= k <=> Better(l[j][1], price)
    OBVIOUS
  <2>1. j <= k => Better(l[j][1], price)
    BY <1>2, <1>3
  <2>2. ~(j <= k) => l[j][1] = price \/ Better(price, l[j][1])
    BY <1>2, <1>3
  <2>3. QED
    BY <1>1, <2>1, <2>2, PriceOrder
<1>5. PICK t : t = SubSeq(l, 1, k)
  OBVIOUS
<1>6. Len(t) = k /\ DOMAIN t = 1..k /\ \A j \in 1..k : t[j] = l[j] /\ j \in 1..n
  BY <1>5, FirstLevels
<1>7. /\ got.vol = SumSizes(t)
      /\ got.rate = IF Len(t) < Len(l) \/ l = <<>> THEN <<1, 1>>
                    ELSE <<l[Len(l)][1] - l[1][1], price - l[1][1]>>
  BY <1>3, <1>5 DEF SumVolTo
<1>8. l = <<>> <=> n = 0
  BY <1>1
<1>9. GoesTo(B, price) <=> k < n
  <2>1. ASSUME k < n PROVE GoesTo(B, price)
    <3>1. k + 1 \in 1..n /\ ~(k + 1 <= k)
      BY <2>1
    <3>2. ~Better(l[k + 1][1], price) /\ l[k + 1][1] \in B
      BY <1>4, <3>1
    <3>3. QED
      BY <3>2 DEF GoesTo
  <2>2. ASSUME GoesTo(B, price) PROVE k < n
    <3>1. PICK p \in B : ~Better(p, price)
      BY <2>2 DEF GoesTo
    <3>2. PICK j \in 1..n : l[j][1] = p
      OBVIOUS
    <3>3. ~(j <= k)
      BY <1>4, <3>1, <3>2
    <3>4. QED
      BY <3>3
  <2>3. QED
    BY <2>1, <2>2
<1> HIDE DEF n
<1>10. got.rate[1] = got.rate[2] <=> GoesTo(B, price) \/ l = <<>>
  <2>1. CASE k < n \/ l = <<>>
    BY <1>6, <1>7, <1>9, <2>1 DEF n
  <2>2. CASE ~(k < n \/ l = <<>>)
    <3>1. k = n /\ n \in 1..n /\ 1 \in 1..n /\ got.rate = <<l[n][1] - l[1][1], price - l[1][1]>>
      BY <1>1, <1>6, <1>7, <1>8, <2>2 DEF n
    <3>2. Better(l[n][1], price) /\ l[n][1] \in Nat /\ l[1][1] \in Nat /\ price \in Nat
      <4>1. n <= k
        BY <3>1
      <4>2. Better(l[n][1], price)
        BY <1>4, <3>1, <4>1
      <4>3. l[n][1] \in Prices /\ l[1][1] \in Prices
        BY <1>1, <3>1
      <4>4. QED
        BY <4>2, <4>3, PriceOrder
    <3>3. l[n][1] # price
      BY <3>2 DEF Better
    <3>4. QED
      BY <1>9, <2>2, <3>1, <3>2, <3>3
  <2>3. QED
    BY <2>1, <2>2
<1>11. ASSUME ~GoesTo(B, price), l # <<>>
       PROVE  IF IsBuy THEN got.rate[2] < got.rate[1] /\ got.rate[1] <= 0
              ELSE got.rate[2] > got.rate[1] /\ got.rate[1] >= 0
  <2>1. k = n /\ n \in 1..n /\ 1 \in 1..n /\ got.rate = <<l[n][1] - l[1][1], price - l[1][1]>>
    BY <1>1, <1>6, <1>7, <1>8, <1>9, <1>11 DEF n
  <2>2. Better(l[n][1], price) /\ l[n][1] \in Nat /\ l[1][1] \in Nat /\ price \in Nat
    <3>1. n <= k
      BY <2>1
    <3>2. Better(l[n][1], price)
      BY <1>4, <2>1, <3>1
    <3>3. l[n][1] \in Prices /\ l[1][1] \in Prices
      BY <1>1, <2>1
    <3>4. QED
      BY <3>2, <3>3, PriceOrder
  <2>3. l[1][1] = l[n][1] \/ Better(l[1][1], l[n][1])
    <3>1. 1 = n \/ 1 < n
      BY <2>1
    <3>2. QED
      BY <2>1, <3>1 DEF Sided, n
  <2>4. PICK a \in Nat, b \in Nat, c \in Nat : a = l[1][1] /\ b = l[n][1] /\ c = price
    BY <2>2
  <2>5. got.rate[1] = b - a /\ got.rate[2] = c - a
    BY <2>1, <2>4
  <2>6. CASE IsBuy
    <3>1. b > c /\ a >= b
      BY <2>2, <2>3, <2>4, <2>6 DEF Better
    <3>2. QED
      BY <2>5, <2>6, <3>1
  <2>7. CASE ~IsBuy
    <3>1. b < c /\ a <= b
      BY <2>2, <2>3, <2>4, <2>7 DEF Better
    <3>2. QED
      BY <2>5, <2>7, <3>1
  <2>8. QED
    BY <2>6, <2>7
\* The same levels, in the order of SetToSeq
<1>12. SumSizes(t) = SumSizes(SetToSeq(Offers(B, now, price)))
  <2> DEFINE S == {<<p, now[p]>> : p \in {q \in B : Better(q, price)}}  E == {t[i] : i \in 1..k}
             f == SetToSeq(S)  m == Cardinality(S)
  <2>1. ASSUME NEW x PROVE x \in S <=> \E i \in 1..k : t[i] = x
    <3>1. ASSUME x \in S PROVE \E i \in 1..k : t[i] = x
      <4>1. PICK p \in B : Better(p, price) /\ x = <<p, now[p]>>
        BY <3>1
      <4>2. PICK j \in 1..n : l[j][1] = p
        BY DEF n
      <4>3. j <= k /\ j \in 1..k
        BY <1>4, <4>1, <4>2
      <4>4. t[j] = l[j] /\ l[j] = <<p, now[p]>>
        BY <1>1, <1>6, <4>2, <4>3 DEF n
      <4>5. QED
        BY <4>1, <4>3, <4>4
    <3>2. ASSUME NEW i \in 1..k, t[i] = x PROVE x \in S
      <4>1. i \in 1..n /\ t[i] = l[i] /\ i <= k
        BY <1>6
      <4>2. l[i] = <<l[i][1], now[l[i][1]]>> /\ l[i][1] \in B /\ Better(l[i][1], price)
        BY <1>1, <1>4, <4>1 DEF n
      <4>3. QED
        BY <3>2, <4>1, <4>2
    <3>3. QED
      BY <3>1, <3>2
  <2>2. S = E
    BY <2>1
  <2> HIDE DEF S
  <2>3. \A i, j \in 1..k : t[i] = t[j] => i = j
    <3> SUFFICES ASSUME NEW i \in 1..k, NEW j \in 1..k, t[i] = t[j] PROVE i = j
      OBVIOUS
    <3>1. i \in 1..n /\ j \in 1..n /\ l[i][1] = l[j][1] /\ l[i][1] \in Prices
      BY <1>1, <1>6
    <3>2. ~(i < j) /\ ~(j < i)
      <4>1. \A p \in Prices : ~Better(p, p)
        BY PriceOrder
      <4>2. i < j => Better(l[i][1], l[j][1])
        BY <3>1 DEF Sided, n
      <4>3. j < i => Better(l[j][1], l[i][1])
        BY <3>1 DEF Sided, n
      <4>4. QED
        BY <3>1, <4>1, <4>2, <4>3
    <3>3. QED
      BY <3>2
  <2>4. IsFiniteSet(S)
    <3> DEFINE h == [i \in 1..k |-> t[i]]
    <3>1. h \in Surjection(1..k, S)
      BY <2>1 DEF Surjection
    <3>2. IsFiniteSet(1..k)
      <4>1. 1 \in Int /\ k \in Int
        OBVIOUS
      <4>2. QED
        BY <4>1, FS_Interval
    <3> HIDE DEF h
    <3>3. QED
      BY <3>1, <3>2, FS_Surjection
  <2>5. /\ m \in Nat /\ DOMAIN f = 1..m /\ \A i \in 1..m : f[i] \in S
        /\ \A x \in S : \E i \in 1..m : f[i] = x
    BY <2>4, Listed
  <2>6. \A i, j \in 1..m : f[i] = f[j] => i = j
    BY <2>4, ListedOnce
  <2>7. \A x \in S : x[2] \in 0..MaxSize
    <3> SUFFICES ASSUME NEW x \in S PROVE x[2] \in 0..MaxSize
      OBVIOUS
    <3>1. PICK i \in 1..k : t[i] = x
      BY <2>1
    <3>2. l[i][2] = now[l[i][1]] /\ l[i][1] \in Prices /\ t[i] = l[i]
      BY <1>1, <1>6 DEF n
    <3>3. QED
      BY <3>1, <3>2
  <2> HIDE DEF f, m
  <2>8. MaxSize \in Nat
    BY DepthAssumption
  <2>9. SumSizes(f) = Cardinality(Units({f[i] : i \in 1..m}, MaxSize))
    BY <2>5, <2>6, <2>7, <2>8, VolumeCounts
  <2>10. SumSizes(t) = Cardinality(Units({t[i] : i \in 1..k}, MaxSize))
    <3>1. \A i \in 1..k : t[i] \in S
      BY <2>1
    <3>2. k \in Nat /\ \A i \in 1..k : t[i][2] \in 0..MaxSize
      BY <2>7, <3>1
    <3>3. QED
      BY <1>6, <2>3, <2>8, <3>2, VolumeCounts
  <2>11. {f[i] : i \in 1..m} = {t[i] : i \in 1..k}
    <3>1. {f[i] : i \in 1..m} = S
      BY <2>5
    <3>2. {t[i] : i \in 1..k} = S
      BY <2>1
    <3>3. QED
      BY <3>1, <3>2
  <2>12. QED
    BY <2>9, <2>10, <2>11 DEF f, S, Offers
<1>13. QED
  BY <1>7, <1>10, <1>11, <1>12

\* AvgPrice takes the first levels that fill the volume, between the first price of
\* all and the last price of these.
LEMMA VolumeTaken ==
  ASSUME NEW l, Sided(l), \A i \in 1..Len(l) : l[i][2] \in 0..MaxSize, NEW v \in Nat, v # 0,
         NEW got, got = AvgPrice(l, v)
  PROVE  /\ got.full <=> SumSizes(l) >= v
         /\ got.full => got.vol - v < MaxSize /\
              \E i \in 1..Len(l) :
                /\ got.vol = SumSizes(SubSeq(l, 1, i)) /\ got.vol - l[i][2] < v
                /\ ~Better(got.cost, l[1][1] * got.vol)
                /\ ~Better(l[i][1] * got.vol, got.cost)
<1> DEFINE n == Len(l)  p == [i \in 1..n |-> l[i][1]]  s == [i \in 1..n |-> l[i][2]]
           w == [i \in 1..n |-> l[i][1] * l[i][2]]
<1>1. n \in Nat /\ \A i \in 1..n : l[i][1] \in Nat /\ l[i][1] \in Prices /\ l[i][2] \in Nat
  BY LevelsTyped, PriceOrder
<1>2. \A i \in 1..n : p[i] = l[i][1] /\ s[i] = l[i][2] /\ w[i] = p[i] * s[i]
  OBVIOUS
<1>3. PICK F, G : /\ Sums(s, n, F) /\ Sums(w, n, G)
                  /\ \A k \in 0..n : SumSizes(SubSeq(l, 1, k)) = F[k] /\ Cost(SubSeq(l, 1, k)) = G[k]
                  /\ SumSizes(l) = F[n]
  BY LevelSums
<1> HIDE DEF p, s, w
<1>4. \A i \in 1..n : p[i] \in Nat /\ s[i] \in Nat /\ w[i] = p[i] * s[i]
  BY <1>1, <1>2
<1>5. \A k \in 0..n : F[k] \in Nat /\ \A j \in 0..k : F[j] \in Nat /\ F[j] <= F[k]
  BY <1>1, <1>3, <1>4, SumsGrow
<1>6. \A k \in 0..n : G[k] \in Nat
  <2>1. \A i \in 1..n : w[i] \in Nat
    BY <1>4, Products
  <2>2. QED
    BY <1>1, <1>3, <2>1, SumsGrow
<1> DEFINE filled == {k \in 1..n : SumSizes(SubSeq(l, 1, k)) >= v}
           taken == SubSeq(l, 1, Min(filled \cup {n}))
<1>7. got = [cost |-> Cost(taken), vol |-> SumSizes(taken), full |-> filled # {}]
  BY DEF AvgPrice
<1>8. \A k : k \in filled <=> k \in 1..n /\ F[k] >= v
  <2>1. \A k \in 1..n : k \in 0..n
    OBVIOUS
  <2>2. QED
    BY <1>3, <2>1
<1> HIDE DEF filled
<1>9. got.full <=> filled # {}
  <2>1. got.full = (filled # {})
    BY <1>7
  <2>2. QED
    BY <2>1
<1>10. filled # {} <=> SumSizes(l) >= v
  <2>1. ASSUME NEW k \in filled PROVE F[n] >= v
    <3>1. k \in 0..n /\ n \in 0..n /\ k \in 0..n /\ F[k] >= v
      BY <1>1, <1>8
    <3>2. F[k] \in Nat /\ F[n] \in Nat /\ F[k] <= F[n]
      BY <1>5, <3>1
    <3>3. QED
      BY <3>1, <3>2
  <2>2. ASSUME F[n] >= v PROVE filled # {}
    <3>1. CASE n = 0
      BY <1>3, <2>2, <3>1 DEF Sums
    <3>2. CASE n # 0
      <4>1. n \in 1..n
        BY <1>1, <3>2
      <4>2. QED
        BY <1>8, <2>2, <4>1
    <3>3. QED
      BY <3>1, <3>2
  <2>3. QED
    BY <1>3, <2>1, <2>2
<1>11. ASSUME filled # {}
       PROVE  got.vol - v < MaxSize /\
              \E i \in 1..n :
                /\ got.vol = SumSizes(SubSeq(l, 1, i)) /\ got.vol - l[i][2] < v
                /\ ~Better(got.cost, l[1][1] * got.vol)
                /\ ~Better(l[i][1] * got.vol, got.cost)
  <2>1. PICK k \in filled : k = Min(filled \cup {n}) /\ \A y \in filled : k <= y
    <3>1. filled \cup {n} \in SUBSET Nat /\ filled \cup {n} # {}
      BY <1>1, <1>8
    <3>2. Min(filled \cup {n}) \in filled \cup {n} /\ \A y \in filled \cup {n} : Min(filled \cup {n}) <= y
      BY <3>1, LeastIs
    <3>3. PICK y \in filled : TRUE
      BY <1>11
    <3>4. y \in 1..n /\ Min(filled \cup {n}) <= y
      BY <1>8, <3>2, <3>3
    <3>5. Min(filled \cup {n}) \in filled
      <4>1. CASE Min(filled \cup {n}) = n
        BY <1>1, <3>4, <4>1
      <4>2. CASE Min(filled \cup {n}) # n
        BY <3>2, <4>2
      <4>3. QED
        BY <4>1, <4>2
    <3>6. QED
      BY <3>2, <3>5
  <2>2. k \in 1..n /\ k \in 0..n /\ k - 1 \in 0..n /\ 1 \in 1..n /\ F[k] >= v
    BY <1>1, <1>8, <2>1
  <2>3. got.vol = F[k] /\ got.cost = G[k] /\ SumSizes(SubSeq(l, 1, k)) = F[k]
    BY <1>3, <1>7, <2>1, <2>2
  <2>4. F[k] = F[k - 1] + s[k]
    BY <1>3, <2>2 DEF Sums
  <2>5. F[k - 1] < v
    <3>1. CASE k = 1
      BY <1>3, <3>1 DEF Sums
    <3>2. CASE k # 1
      <4>1. k - 1 \in 1..n /\ ~(k <= k - 1)
        BY <2>2, <3>2
      <4>2. k - 1 \notin filled
        BY <2>1, <4>1
      <4>3. F[k - 1] \in Nat
        BY <1>5, <2>2
      <4>4. QED
        BY <1>8, <4>1, <4>2, <4>3
    <3>3. QED
      BY <3>1, <3>2
  <2>6. PICK a \in Nat, z \in Nat : a = F[k - 1] /\ z = s[k] /\ z = l[k][2] /\ z <= MaxSize
    <3>1. F[k - 1] \in Nat /\ s[k] \in Nat /\ s[k] = l[k][2]
      BY <1>2, <1>4, <1>5, <2>2
    <3>2. l[k][2] \in 0..MaxSize
      BY <2>2
    <3>3. s[k] <= MaxSize
      BY <3>1, <3>2
    <3>4. QED
      BY <3>1, <3>3
  <2>7. got.vol = a + z
    BY <2>3, <2>4, <2>6
  <2>8. MaxSize \in Nat
    BY DepthAssumption
  <2>9. got.vol - v < MaxSize /\ got.vol - l[k][2] < v
    <3>1. (a + z) - v < MaxSize
      BY <2>5, <2>6, <2>8
    <3>2. (a + z) - z < v
      BY <2>5, <2>6
    <3>3. QED
      BY <2>6, <2>7, <3>1, <3>2
  <2>10. PICK c \in Nat, d \in Nat : c = l[1][1] /\ d = l[k][1]
    BY <1>1, <2>2
\* The first price is the best of them, and that of level k the worst.
  <2>11. ASSUME NEW i \in 1..k PROVE ~Better(p[i], c) /\ ~Better(d, p[i])
    <3>1. i \in 1..n /\ p[i] = l[i][1]
      BY <1>2, <2>2
    <3>2. (1 = i \/ 1 < i) /\ (i = k \/ i < k)
      BY <2>2
    <3>3. l[1][1] = l[i][1] \/ Better(l[1][1], l[i][1])
      BY <2>2, <3>1, <3>2 DEF Sided
    <3>4. l[i][1] = l[k][1] \/ Better(l[i][1], l[k][1])
      BY <2>2, <3>1, <3>2 DEF Sided
    <3>5. l[1][1] \in Prices /\ l[i][1] \in Prices /\ l[k][1] \in Prices
      BY <1>1, <2>2, <3>1
    <3>6. ~Better(l[i][1], l[1][1]) /\ ~Better(l[k][1], l[i][1])
      BY <3>3, <3>4, <3>5, PriceOrder
    <3>7. QED
      BY <2>10, <3>1, <3>6
  <2>12. ~Better(G[k], c * F[k]) /\ ~Better(d * F[k], G[k])
    <3>0. \A i \in 1..k : i \in 1..n /\ p[i] \in Nat
      BY <1>4, <2>2
    <3>1. CASE IsBuy
      <4>1. \A i \in 1..k : p[i] <= c /\ d <= p[i]
        BY <2>10, <2>11, <3>0, <3>1 DEF Better
      <4>2. G[k] <= c * F[k]
        BY <1>1, <1>3, <1>4, <2>2, <4>1, CostAtMost
      <4>3. d * F[k] <= G[k]
        BY <1>1, <1>3, <1>4, <2>2, <4>1, CostAtLeast
      <4>4. PICK x \in Nat, y \in Nat, g \in Nat : x = c * F[k] /\ y = d * F[k] /\ g = G[k]
        BY <1>5, <1>6, <2>2, Products
      <4>5. QED
        BY <3>1, <4>2, <4>3, <4>4 DEF Better
    <3>2. CASE ~IsBuy
      <4>1. \A i \in 1..k : c <= p[i] /\ p[i] <= d
        BY <2>10, <2>11, <3>0, <3>2 DEF Better
      <4>2. c * F[k] <= G[k]
        BY <1>1, <1>3, <1>4, <2>2, <4>1, CostAtLeast
      <4>3. G[k] <= d * F[k]
        BY <1>1, <1>3, <1>4, <2>2, <4>1, CostAtMost
      <4>4. PICK x \in Nat, y \in Nat, g \in Nat : x = c * F[k] /\ y = d * F[k] /\ g = G[k]
        BY <1>5, <1>6, <2>2, Products
      <4>5. QED
        BY <3>2, <4>2, <4>3, <4>4 DEF Better
    <3>3. QED
      BY <3>1, <3>2
  <2>13. ~Better(got.cost, l[1][1] * got.vol) /\ ~Better(l[k][1] * got.vol, got.cost)
    BY <2>3, <2>10, <2>12
  <2>14. QED
    BY <2>2, <2>3, <2>9, <2>13
<1>12. QED
  BY <1>9, <1>10, <1>11

-------------------------------------------------------------------------------
\* No size is larger than the exchange's largest.
InSizes(s) == \A p \in Prices : s[p] \in 0..MaxSize
SizesIn == InSizes(server) /\ InSizes(seen) /\ \A i \in 1..Len(net) : InSizes(net[i].now)

\* A view of a side shows its sizes or none, and the exchange begins with none;
LEMMA ViewInSizes ==
  ASSUME NEW s, InSizes(s) PROVE InSizes(View(s))
BY DepthAssumption DEF InSizes, View

LEMMA SizesStart == DepthInit => SizesIn
<1> SUFFICES ASSUME DepthInit PROVE SizesIn
  OBVIOUS
<1>1. PICK m \in Snapshots(server) : net = <<m>>
  BY DEF DepthInit
<1>2. InSizes(server) /\ InSizes(seen)
  BY DepthAssumption DEF DepthInit, InSizes, Empty
<1>3. m.now = View(server)
  BY DEF Snapshots
<1>4. \A i \in 1..Len(net) : net[i] = m
  BY <1>1
<1>5. QED
  BY <1>2, <1>3, <1>4, ViewInSizes DEF SizesIn

\* a change, a snapshot and a message handled bring no larger one.
LEMMA SizesStay ==
  ASSUME DepthInv, SizesIn, DepthNext
  PROVE  SizesIn'
<1>1. /\ net \in Seq(DepthMessages) /\ Len(net) \in Nat
      /\ InSizes(server) /\ InSizes(seen) /\ \A i \in 1..Len(net) : InSizes(net[i].now)
  BY DEF DepthInv, NetTrue, SizesIn
<1>2. CASE Change
  <2>1. PICK p \in Prices, size \in 0..MaxSize :
          /\ server' = [server EXCEPT ![p] = size]
          /\ net' = IF View([server EXCEPT ![p] = size]) = View(server) THEN net
                    ELSE Append(net, Delta(server, [server EXCEPT ![p] = size]))
    BY <1>2 DEF Change
  <2>2. PICK t : t = [server EXCEPT ![p] = size]
    OBVIOUS
  <2>3. server' = t /\ seen' = seen
    BY <1>2, <2>1, <2>2 DEF Change
  <2>4. InSizes(t)
    <3>1. server \in [Prices -> Nat]
      BY DEF DepthInv, DepthTypes, Sizes
    <3>2. QED
      BY <1>1, <2>2, <3>1 DEF InSizes
  <2>5. PICK d : d = Delta(server, t)
    OBVIOUS
  <2>6. net' = net \/ net' = Append(net, d)
    BY <2>1, <2>2, <2>5
  <2>7. InSizes(d.now)
    <3>1. d.now = View(t)
      BY <2>5 DEF Delta
    <3>2. QED
      BY <2>4, <3>1, ViewInSizes
  <2>8. ASSUME NEW i \in 1..Len(net') PROVE InSizes(net'[i].now)
    <3>1. CASE net' = net
      BY <1>1, <3>1
    <3>2. CASE net' = Append(net, d)
      <4>1. Len(net') = Len(net) + 1 /\ (i = Len(net) + 1 => net'[i] = d)
            /\ (i \in 1..Len(net) => net'[i] = net[i])
        BY <1>1, <3>2, AppendProperties
      <4>2. i = Len(net) + 1 \/ i \in 1..Len(net)
        BY <1>1, <4>1
      <4>3. QED
        BY <1>1, <2>7, <4>1, <4>2
    <3>3. QED
      BY <2>6, <3>1, <3>2
  <2>9. InSizes(server') /\ InSizes(seen')
    BY <1>1, <2>3, <2>4
  <2>10. QED
    BY <2>8, <2>9 DEF SizesIn, InSizes
<1>3. CASE Reconnect
  <2>1. PICK m \in Snapshots(server) : net' = <<m>>
    BY <1>3 DEF Reconnect
  <2>2. server' = server /\ seen' = seen
    BY <1>3 DEF Reconnect
  <2>3. m.now = View(server)
    BY DEF Snapshots
  <2>4. \A i \in 1..Len(net') : net'[i] = m
    BY <2>1
  <2>5. InSizes(server') /\ InSizes(seen') /\ \A i \in 1..Len(net') : InSizes(net'[i].now)
    BY <1>1, <2>2, <2>3, <2>4, ViewInSizes
  <2>6. QED
    BY <2>5 DEF SizesIn, InSizes
<1>4. CASE Apply
  <2>1. net # <<>> /\ net' = Tail(net) /\ seen' = Head(net).now /\ server' = server
    BY <1>4 DEF Apply
  <2>2. Head(net) = net[1] /\ 1 \in 1..Len(net)
    BY <1>1, <2>1
  <2>3. Len(net') = Len(net) - 1 /\ \A i \in 1..Len(net') : net'[i] = net[i + 1] /\ i + 1 \in 1..Len(net)
    BY <1>1, <2>1
  <2>4. InSizes(server') /\ InSizes(seen') /\ \A i \in 1..Len(net') : InSizes(net'[i].now)
    BY <1>1, <2>1, <2>2, <2>3
  <2>5. QED
    BY <2>4 DEF SizesIn, InSizes
<1>5. QED
  BY <1>2, <1>3, <1>4 DEF DepthNext

\* What is computed from a side is what the levels seen make.
LEMMA VolumesShow == DepthInv /\ SizesIn => VolumesTrue
<1> SUFFICES ASSUME DepthInv, SizesIn, book # <<>> PROVE
      /\ \A price \in Prices :
           LET got == SumVolTo(Levels, price)
               reached == \E p \in InBook : ~Better(p, price)
           IN /\ got.vol = SumSizes(SetToSeq({<<p, seen[p]>> : p \in {q \in InBook : Better(q, price)}}))
              /\ got.rate[1] = got.rate[2] <=> reached \/ Levels = <<>>
              /\ ~reached /\ Levels # <<>> => IF IsBuy THEN got.rate[2] < got.rate[1] /\ got.rate[1] <= 0
                                                       ELSE got.rate[2] > got.rate[1] /\ got.rate[1] >= 0
      /\ \A v \in 1..(MaxSize * Window) :
           LET got == AvgPrice(Levels, v)
           IN /\ got.full <=> SumSizes(Levels) >= v
              /\ got.full => got.vol - v < MaxSize /\
                   \E i \in 1..Len(Levels) :
                     /\ got.vol = SumSizes(SubSeq(Levels, 1, i)) /\ got.vol - Levels[i][2] < v
                     /\ ~Better(got.cost, Levels[1][1] * got.vol)
                     /\ ~Better(Levels[i][1] * got.vol, got.cost)
  BY DEF VolumesTrue
<1>1. PICK l : l = Levels
  OBVIOUS
<1>2. Sided(l) /\ \A q, m : Has(l, q, m) => q \in Live(seen) /\ m = seen[q]
  BY <1>1 DEF DepthInv, BookHolds, Levels, Holds
<1>3. \A p \in Prices : seen[p] \in 0..MaxSize
  BY DEF SizesIn, InSizes
<1>4. \A i \in 1..Len(l) : l[i][2] = seen[l[i][1]] /\ l[i][1] \in Prices /\ l[i][2] \in 0..MaxSize
  <2> SUFFICES ASSUME NEW i \in 1..Len(l)
               PROVE  l[i][2] = seen[l[i][1]] /\ l[i][1] \in Prices /\ l[i][2] \in 0..MaxSize
    OBVIOUS
  <2>1. l[i] = <<l[i][1], l[i][2]>> /\ l[i][1] \in Prices
    BY <1>2, LevelsTyped
  <2>2. Has(l, l[i][1], l[i][2])
    BY <2>1 DEF Has
  <2>3. QED
    BY <1>2, <1>3, <2>1, <2>2
<1>5. \A q : q \in InBook <=> \E i \in 1..Len(l) : l[i][1] = q
  BY <1>1 DEF InBook
<1>6. PICK B, now : B = InBook /\ now = seen
  OBVIOUS
<1>7. ASSUME NEW price \in Prices, NEW got, got = SumVolTo(l, price)
      PROVE  /\ got.vol = SumSizes(SetToSeq(Offers(B, now, price)))
             /\ got.rate[1] = got.rate[2] <=> GoesTo(B, price) \/ l = <<>>
             /\ ~GoesTo(B, price) /\ l # <<>> => IF IsBuy THEN got.rate[2] < got.rate[1] /\ got.rate[1] <= 0
                                        ELSE got.rate[2] > got.rate[1] /\ got.rate[1] >= 0
  <2>1. Offered(l, B, now) /\ price \in Prices
    BY <1>2, <1>3, <1>4, <1>5, <1>6 DEF Offered
  <2>2. got = SumVolTo(l, price)
    BY <1>7
  <2>3. QED
    BY ONLY <2>1, <2>2, VolumeTo
<1>8. ASSUME NEW v \in 1..(MaxSize * Window), NEW got, got = AvgPrice(l, v)
      PROVE  /\ got.full <=> SumSizes(l) >= v
             /\ got.full => got.vol - v < MaxSize /\
                  \E i \in 1..Len(l) :
                    /\ got.vol = SumSizes(SubSeq(l, 1, i)) /\ got.vol - l[i][2] < v
                    /\ ~Better(got.cost, l[1][1] * got.vol)
                    /\ ~Better(l[i][1] * got.vol, got.cost)
  <2>1. v \in Nat /\ v # 0
    OBVIOUS
  <2>2. QED
    BY <1>2, <1>4, <1>8, <2>1, VolumeTaken
<1>9. ASSUME NEW price \in Prices
      PROVE  LET got == SumVolTo(Levels, price)
                 reached == \E p \in InBook : ~Better(p, price)
             IN /\ got.vol = SumSizes(SetToSeq({<<p, seen[p]>> : p \in {q \in InBook : Better(q, price)}}))
                /\ got.rate[1] = got.rate[2] <=> reached \/ Levels = <<>>
                /\ ~reached /\ Levels # <<>> => IF IsBuy THEN got.rate[2] < got.rate[1] /\ got.rate[1] <= 0
                                                         ELSE got.rate[2] > got.rate[1] /\ got.rate[1] >= 0
  <2>1. PICK got : got = SumVolTo(l, price)
    OBVIOUS
  <2>2. QED
    BY <1>1, <1>6, <1>7, <2>1 DEF GoesTo, Offers
<1>10. ASSUME NEW v \in 1..(MaxSize * Window)
       PROVE  LET got == AvgPrice(Levels, v)
              IN /\ got.full <=> SumSizes(Levels) >= v
                 /\ got.full => got.vol - v < MaxSize /\
                      \E i \in 1..Len(Levels) :
                        /\ got.vol = SumSizes(SubSeq(Levels, 1, i)) /\ got.vol - Levels[i][2] < v
                        /\ ~Better(got.cost, Levels[1][1] * got.vol)
                        /\ ~Better(Levels[i][1] * got.vol, got.cost)
  BY <1>1, <1>8
<1>11. QED
  BY <1>9, <1>10

\* VolumesTrue, a safety invariant of every behaviour (OdBookSide.SumVolTo, AvgPrice):
\* on every side of okx, bybit and bitget that comes about, the volume before a price
\* is that of the exchange's levels there, and a volume is filled exactly if the side
\* holds it, by no level more than it takes, at a price between the first and the last.
THEOREM VolumesAreTrue == FeedsSpec => []VolumesTrue
<1> DEFINE Unused == exg = "none" /\ book = <<>>
<1>1. FeedsInit => Unused \/ (DepthInv /\ SizesIn)
  BY DepthStart, SizesStart DEF FeedsInit, Off
<1>2. (Unused \/ (DepthInv /\ SizesIn)) /\ [FeedsNext]_<<vars, depthVars, watchVars>>
        => (Unused \/ (DepthInv /\ SizesIn))'
  <2> SUFFICES ASSUME Unused \/ (DepthInv /\ SizesIn), [FeedsNext]_<<vars, depthVars, watchVars>>
               PROVE (Unused \/ (DepthInv /\ SizesIn))'
    OBVIOUS
  <2>1. CASE UNCHANGED depthVars
    <3>1. CASE Unused
      BY <2>1, <3>1 DEF depthVars
    <3>2. CASE DepthInv /\ SizesIn
      <4>1. DepthInv'
        BY <2>1, <3>2, DepthStays
      <4>2. SizesIn'
        BY <2>1, <3>2 DEF SizesIn, InSizes, depthVars
      <4>3. QED
        BY <4>1, <4>2
    <3>3. QED
      BY <3>1, <3>2
  <2>2. CASE exg # "none" /\ DepthNext
    <3>1. DepthInv /\ SizesIn
      BY <2>2
    <3>2. DepthInv'
      BY <2>2, <3>1, DepthChanges, DepthRestarts, DepthApplies DEF DepthNext
    <3>3. SizesIn'
      BY <2>2, <3>1, SizesStay
    <3>4. QED
      BY <3>2, <3>3
  <2>3. QED
    BY <2>1, <2>2 DEF FeedsNext
<1>3. Unused \/ (DepthInv /\ SizesIn) => VolumesTrue
  BY VolumesShow DEF VolumesTrue
<1>4. QED
  BY <1>1, <1>2, <1>3, PTL DEF FeedsSpec
================================================================================
