------------------------------- MODULE DepthBook -------------------------------
(***************************************************************************)
(* One side of a local order book of okx, bybit or bitget, kept from a     *)
(* stream of one snapshot and of the levels that change after it           *)
(* (applyWsOrderBookUpdate, applyBybitWsOrderBook), and what callers       *)
(* compute from it (common.go: OdBookSide).                                *)
(*                                                                         *)
(* The channel covers the best Window levels of the exchange's side.  A    *)
(* connection that is lost takes its messages with it; its subscription,   *)
(* restored, begins with a snapshot.                                       *)
(***************************************************************************)
EXTENDS Integers, SequencesExt

CONSTANTS
  Prices,      \* the prices of the levels
  MaxSize,     \* bound on the size of a level
  Window,      \* levels the channel covers
  MaxQueue     \* bound on the messages under way

ASSUME DepthAssumption ==
  Prices \subseteq Nat \ {0} /\ MaxSize \in Nat \ {0} /\ Window \in Nat \ {0} /\ MaxQueue \in Nat \ {0}

VARIABLES
  exg,      \* whose way the book is kept: bybit or okx, which is also that of
            \* bitget; "none": this book is not in use
  IsBuy,    \* the side
  server,   \* the exchange's side: the size at each price
  net,      \* messages under way
  book,     \* what OrderBooks holds for the symbol: the levels, and the depth they are cut to
  seen,     \* ghost: the exchange's side as of the last message that was handled
  over      \* ghost: since the snapshot the side has held more levels than the depth

depthVars == <<exg, IsBuy, server, net, book, seen, over>>

Better(p, q) == IF IsBuy THEN p > q ELSE p < q

\* The levels of a side within the window of the channel.
Live(s) == {p \in Prices : s[p] > 0}
View(s) ==
  [p \in Prices |-> IF Cardinality({q \in Live(s) : Better(q, p)}) < Window THEN s[p] ELSE 0]

\* A snapshot also tells how many levels the other side has.
Snapshots(s) == [action : {"snapshot"}, now : {View(s)}, other : 0..Window,
                 deltas : {SetToSeq({<<p, s[p]>> : p \in Live(View(s))})}]
Delta(old, new) ==
  [action |-> "update", now |-> View(new), other |-> 0,
   deltas |-> SetToSeq({<<p, View(new)[p]>> : p \in {q \in Prices : View(new)[q] # View(old)[q]}})]

Empty == [p \in Prices |-> 0]
Off == exg = "none" /\ IsBuy = FALSE /\ server = Empty /\ net = <<>> /\ book = <<>>
       /\ seen = Empty /\ over = FALSE

DepthInit ==
  /\ exg \in {"okx", "bybit"} /\ IsBuy \in BOOLEAN
  /\ server = [p \in Prices |-> IF p = 1 THEN 1 ELSE 0]
  /\ \E m \in Snapshots(server) : net = <<m>>
  /\ book = <<>> /\ seen = Empty /\ over = FALSE

-----------------------------------------------------------------------------
(* OdBookSide: levels <<price, size>>, the best first *)

\* sort.Search: the first level that is not better than the price.
Search(levels, p) ==
  Min({i \in 1..Len(levels) : ~Better(levels[i][1], p)} \cup {Len(levels) + 1})

Set(levels, p, size) ==
  LET i == Search(levels, p)
      found == i <= Len(levels) /\ levels[i][1] = p
  IN IF size > 0 THEN IF found THEN ReplaceAt(levels, i, <<p, size>>)
                               ELSE InsertAt(levels, i, <<p, size>>)
     ELSE IF found THEN RemoveAt(levels, i) ELSE levels

Cut(levels, depth) == SubSeq(levels, 1, Min({depth, Len(levels)}))
Update(levels, depth, deltas) ==
  Cut(FoldLeft(LAMBDA l, d : Set(l, d[1], d[2]), levels, deltas), depth)

\* A running sum, the size and the cost of some levels
Total(xs) == FoldLeft(LAMBDA n, x : n + x, 0, xs)
SumSizes(levels) == Total([i \in DOMAIN levels |-> levels[i][2]])
Cost(levels) == Total([i \in DOMAIN levels |-> levels[i][1] * levels[i][2]])
\* Fault: the level at the price is taken too.
SumVolToPast(levels, price) ==
  LET before == SelectSeq(levels, LAMBDA l : ~Better(price, l[1]))
  IN [vol |-> SumSizes(before),
      rate |-> IF Len(before) < Len(levels) \/ levels = <<>> THEN <<1, 1>>
               ELSE <<levels[Len(levels)][1] - levels[1][1], price - levels[1][1]>>]
\* The size of the levels before the price, and how far the side reaches to it as
\* a fraction.
SumVolTo(levels, price) ==
  LET before == SubSeq(levels, 1, Search(levels, price) - 1)
  IN [vol |-> SumSizes(before),
      rate |-> IF Len(before) < Len(levels) \/ levels = <<>> THEN <<1, 1>>
               ELSE <<levels[Len(levels)][1] - levels[1][1], price - levels[1][1]>>]

\* The levels a volume takes: up to the first that fills it, and their cost.
AvgPrice(levels, volume) ==
  LET filled == {n \in 1..Len(levels) : SumSizes(SubSeq(levels, 1, n)) >= volume}
      taken == SubSeq(levels, 1, Min(filled \cup {Len(levels)}))
  IN [cost |-> Cost(taken), vol |-> SumSizes(taken), full |-> filled # {}]

-----------------------------------------------------------------------------
(* The exchange and the network *)

Change ==
  /\ exg # "none" /\ Len(net) < MaxQueue
  /\ \E p \in Prices, size \in 0..MaxSize :
       LET s == [server EXCEPT ![p] = size]
       IN /\ s # server /\ server' = s
          /\ net' = IF View(s) = View(server) THEN net ELSE Append(net, Delta(server, s))
  /\ UNCHANGED <<exg, IsBuy, book, seen, over>>

\* The connection is lost and its subscription restored.
Reconnect ==
  /\ exg # "none" /\ \E m \in Snapshots(server) : net' = <<m>>
  /\ UNCHANGED <<exg, IsBuy, server, book, seen, over>>

-----------------------------------------------------------------------------
(* applyWsOrderBookUpdate, applyBybitWsOrderBook *)

\* The depth of a new book: that of bybit's topic; else the levels of the longer
\* side of the snapshot, 400 (more than any window) when it is empty.
DepthOf(m) ==
  LET n == Max({Len(m.deltas), m.other})
  IN IF exg = "bybit" \/ n = 0 THEN Window ELSE n

\* Fault: a snapshot is applied to the book that is there.
ApplyOnto ==
  /\ net # <<>>
  /\ LET m == Head(net)
         depth == IF book = <<>> THEN DepthOf(m) ELSE book[1].depth
         old == IF book = <<>> THEN <<>> ELSE book[1].levels
     IN /\ book' = <<[depth |-> depth, levels |-> Update(old, depth, m.deltas)]>>
        /\ over' = (over \/ Cardinality(Live(m.now)) > depth)
        /\ seen' = m.now
  /\ net' = Tail(net)
  /\ UNCHANGED <<exg, IsBuy, server>>

\* The next message: a snapshot, or the first message, makes the book anew.
Apply ==
  /\ net # <<>>
  /\ LET m == Head(net)
         new == book = <<>> \/ m.action = "snapshot"
         depth == IF new THEN DepthOf(m) ELSE book[1].depth
         old == IF new THEN <<>> ELSE book[1].levels
     IN /\ book' = <<[depth |-> depth, levels |-> Update(old, depth, m.deltas)]>>
        /\ over' = (Cardinality(Live(m.now)) > depth \/ (over /\ ~new))
        /\ seen' = m.now
  /\ net' = Tail(net)
  /\ UNCHANGED <<exg, IsBuy, server>>

DepthNext == Change \/ Reconnect \/ Apply

-----------------------------------------------------------------------------

Levels == book[1].levels
InBook == {Levels[i][1] : i \in 1..Len(Levels)}

\* Whatever changes, losses and snapshots come, no level of the book is one the
\* exchange has changed or taken away: each has the size it has there and the
\* best stands first.  All levels of the window are there, unless the side has
\* outgrown the depth the snapshot gave it: what was cut off then never returns.
SideTrue ==
  book # <<>> =>
    /\ \A i, j \in 1..Len(Levels) : i < j => Better(Levels[i][1], Levels[j][1])
    /\ \A i \in 1..Len(Levels) : Levels[i][2] = seen[Levels[i][1]]
    /\ ~over => InBook = Live(seen)

\* On every side that comes about, SumVolTo is the size on offer before the price,
\* with rate 1 exactly if the side reaches it and else a true fraction; a volume is
\* filled exactly if the side holds it, with no level more than it takes, at an
\* average no better than the best level and no worse than the last one it takes.
VolumesTrue ==
  book # <<>> =>
    /\ \A price \in Prices :
         LET got == SumVolTo(Levels, price)
             reached == \E p \in InBook : ~Better(p, price)
         IN /\ got.vol = SumSizes(SetToSeq({<<p, seen[p]>> : p \in {q \in InBook : Better(q, price)}}))
            /\ got.rate[1] = got.rate[2] <=> reached \/ Levels = <<>>
            /\ ~reached /\ Levels # <<>> => IF IsBuy THEN got.rate[2] < got.rate[1] /\ got.rate[1] <= 0
                                                     ELSE got.rate[2] > got.rate[1] /\ got.rate[1] >= 0
    /\ \A v \in 1..(MaxSize * Window) :
         LET got == AvgPrice(Levels, v)
         IN /\ got.full <=> SumSizes(Levels) >= v
            /\ got.full => got.vol - v < MaxSize /\
                 \E i \in 1..Len(Levels) :
                   /\ got.vol = SumSizes(SubSeq(Levels, 1, i)) /\ got.vol - Levels[i][2] < v
                   /\ ~Better(got.cost, Levels[1][1] * got.vol)
                   /\ ~Better(Levels[i][1] * got.vol, got.cost)
=============================================================================
