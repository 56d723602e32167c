------------------------------- MODULE Holdings -------------------------------
(***************************************************************************)
(* The balances and positions of an account: WatchBalance and              *)
(* WatchPositions of binance, okx and bybit, which fetch them and store    *)
(* the answer in acc.MarBalances and acc.MarPositions, and the messages of *)
(* the account's stream, whose handlers write them too.                    *)
(*                                                                         *)
(* The stream is open before the request is sent.  A change at the         *)
(* exchange is told in one message; the answer to a request is what the    *)
(* exchange had when it answered.                                          *)
(***************************************************************************)
EXTENDS Integers, Sequences, Functions

CONSTANTS
  HoldExchanges,  \* of "binance", "okx", "bybit"
  Insts,          \* contracts
  Coins,          \* currencies
  MaxSize,        \* bound: the size of a position, and of a balance
  MaxEvents,      \* bound: changes at the exchange
  MaxFetches      \* bound: requests

ASSUME HoldingsAssumption ==
  /\ HoldExchanges \subseteq {"binance", "okx", "bybit"}
  /\ MaxSize \in Nat \ {0} /\ MaxEvents \in Nat /\ MaxFetches \in Nat

VARIABLES
  hexg,     \* the exchange, "" if there is none
  topic,    \* what is watched: "spot", "margin" (balances of contracts), "hedge",
            \* "oneWay" (positions in either mode)
  xpos,     \* contract, side -> the signed size of a position at the exchange
  xbal,     \* currency -> its free and used amount there
  msgs,     \* the messages on their way: [of, n, to, delta], and what a difference
            \* was added to (was: ghost)
  pos,      \* acc.MarPositions: a set of [i, side, amt]
  bal,      \* acc.MarBalances: currency -> free and used; a part of Coins
  snap,     \* the request: [st, todo, pos, bal] (todo: contracts still to ask for),
            \* and ghosts: old, how many messages on their way are older than the
            \* answer, and lost, whether a newer one was handled before the answer
            \* was stored
  hand,     \* the handler: what it read (binance), and if a store came since
  fetches, events,
  last,     \* ghost: <<what the last message told of>>
  fresh     \* ghost: "none" before a store, "raced" if the last one lost a message
            \* or had one twice, "ok"

holdVars == <<hexg, topic, xpos, xbal, msgs, pos, bal, snap, hand, fetches, events, last, fresh>>

Sides  == IF topic = "oneWay" THEN {"both"} ELSE {"long", "short"}
PosKeys == Insts \X Sides
OfPositions == topic \in {"hedge", "oneWay"}
Abs(n) == IF n < 0 THEN -n ELSE n

NoSnap == [st |-> "idle", todo |-> {}, pos |-> {}, bal |-> <<>>, old |-> 0, lost |-> FALSE]
NoHand == [busy |-> FALSE, base |-> {}, stored |-> FALSE]
Zero   == [free |-> 0, used |-> 0]

HoldInit ==
  /\ hexg \in HoldExchanges /\ topic \in {"spot", "margin", "hedge", "oneWay"}
  /\ topic = "spot" => hexg = "binance"
  /\ xpos = [k \in PosKeys |-> 0] /\ xbal = [c \in Coins |-> Zero]
  /\ msgs = <<>> /\ pos = {} /\ bal = <<>> /\ snap = NoSnap /\ hand = NoHand
  /\ fetches = 0 /\ events = 0 /\ last = <<>> /\ fresh = "none"

-------------------------------------------------------------------------------
(* The exchange.                                                           *)

Tell(m) ==
  /\ events < MaxEvents /\ events' = events + 1
  /\ msgs' = Append(msgs, m)
  /\ UNCHANGED <<hexg, topic, pos, bal, snap, hand, fetches, last, fresh>>

\* A position is opened, changed or closed; a short one has a negative size.
ChangePosition(k, n) ==
  /\ OfPositions /\ xpos[k] # n
  /\ k[2] = "long" => n >= 0
  /\ k[2] = "short" => n <= 0
  /\ xpos' = [xpos EXCEPT ![k] = n] /\ UNCHANGED xbal
  /\ Tell([of |-> k, n |-> n, to |-> <<>>, delta |-> FALSE, was |-> 0])

\* A trade or an order changes a balance.  okx and bybit may tell of others.
ChangeBalance(c, b, S) ==
  /\ ~OfPositions /\ xbal[c] # b
  /\ hexg = "binance" => S = {}
  /\ xbal' = [xbal EXCEPT ![c] = b] /\ UNCHANGED xpos
  /\ Tell([of |-> c, n |-> 0, to |-> [d \in S \cup {c} |-> xbal'[d]], delta |-> FALSE,
           was |-> 0])

\* A deposit, a withdrawal or a transfer: "balanceUpdate" has the difference.
Transfer(c, d) ==
  /\ topic = "spot" /\ d # 0 /\ xbal[c].free + d \in 0..MaxSize
  /\ xbal' = [xbal EXCEPT ![c].free = @ + d] /\ UNCHANGED xpos
  /\ Tell([of |-> c, n |-> d, to |-> <<>>, delta |-> TRUE, was |-> xbal[c].free])

-------------------------------------------------------------------------------
(* What the code makes of an answer and of a message.                      *)

\* The side of a position is the one it is told with, or else that of its sign;
\* bybit has no other than "Buy" and "Sell".  Its size has no sign.
SideOfSign(n) == IF n < 0 THEN "short" ELSE "long"
BinanceSide(k, n) == IF k[2] = "both" THEN SideOfSign(n) ELSE k[2]
OkxSide(k, n)     == IF k[2] \in {"long", "short"} THEN k[2] ELSE SideOfSign(n)
BybitSide(n)      == SideOfSign(n)

StdPos(k, n) ==
  [i |-> k[1], amt |-> Abs(n),
   side |-> CASE hexg = "binance" -> BinanceSide(k, n)
              [] hexg = "okx"     -> OkxSide(k, n)
              [] hexg = "bybit"   -> BybitSide(n)]

Open(S) == {StdPos(k, xpos[k]) : k \in {q \in S \X Sides : xpos[q] # 0}}

\* parseSpotBalances and its like and parseBybitBalance leave out what is empty;
\* parseBalance of okx keeps it.
Empty(b) == b.free + b.used = 0
FilledBalances == [c \in {d \in Coins : ~Empty(xbal[d])} |-> xbal[c]]
AllBalances    == xbal
Balances       == IF hexg = "okx" THEN AllBalances ELSE FilledBalances

\* Fault: a position that was not held yet is left out.
MergedKnownOnly(base, m) ==
  {p \in {IF p.i = m.of[1] /\ p.side = m.of[2] THEN [p EXCEPT !.amt = m.n] ELSE p : p \in base} :
     p.amt # 0}

\* handleAccountUpdate: the position of the message replaces the one with its
\* symbol and side, which is "both" here in one-way mode; without size it goes.
Merged(base, m) ==
  {p \in base : ~(p.i = m.of[1] /\ p.side = m.of[2]) /\ p.amt # 0}
    \cup {p \in {[i |-> m.of[1], side |-> m.of[2], amt |-> m.n]} : p.amt # 0}

With(f, c, b) == [d \in DOMAIN f \cup {c} |-> IF d = c THEN b ELSE f[d]]

\* handleBalance of a spot account, and handleAccountUpdate, which knows of the
\* wallet only.
Updated(base, m) ==
  CASE topic = "spot" /\ m.delta  ->
         IF m.of \in DOMAIN base THEN With(base, m.of, [base[m.of] EXCEPT !.free = @ + m.n])
         ELSE base
    [] topic = "spot" /\ ~m.delta -> With(base, m.of, m.to[m.of])
    [] OTHER                      ->
         With(base, m.of,
              [free |-> m.to[m.of].free + m.to[m.of].used,
               used |-> IF m.of \in DOMAIN base THEN base[m.of].used ELSE 0])

\* parseWsBalanceData of okx takes what is in the account for what is available
\* if nothing is.
FreeShown(b) == IF hexg = "okx" /\ b.free = 0 THEN b.free + b.used ELSE b.free

\* handleWsBalanceAndPosition, handleWsPositions and handleWsWallet: what the
\* message has replaces all.  One of a closed position has none for them.
Told(m) ==
  IF OfPositions THEN {StdPos(m.of, m.n)}
  ELSE [c \in DOMAIN m.to |-> [m.to[c] EXCEPT !.free = FreeShown(m.to[c])]]

-------------------------------------------------------------------------------
(* WatchBalance and WatchPositions.                                        *)

Ask ==
  /\ snap.st = "idle" /\ fetches < MaxFetches
  /\ fetches' = fetches + 1
  /\ snap' = [NoSnap EXCEPT !.st = "asked", !.todo = Insts]
  /\ UNCHANGED <<hexg, topic, xpos, xbal, msgs, pos, bal, hand, events, last, fresh>>

AnswerBalance ==
  /\ snap.st = "asked" /\ ~OfPositions
  /\ \/ snap' = [snap EXCEPT !.st = "answered", !.bal = Balances, !.old = Len(msgs)]
     \/ snap' = NoSnap
  /\ UNCHANGED <<hexg, topic, xpos, xbal, msgs, pos, bal, hand, fetches, events, last, fresh>>

\* The positions come in one answer; on bybit in one for each currency they are
\* settled in, one after the other (each contract has its own here).
AnswerPositions(S) ==
  /\ snap.st = "asked" /\ OfPositions
  /\ S \subseteq snap.todo /\ S # {}
  /\ hexg # "bybit" => S = snap.todo
  /\ \/ snap' = [snap EXCEPT !.todo = @ \ S, !.pos = @ \cup Open(S),
                              !.st = IF S = snap.todo THEN "answered" ELSE "asked",
                              !.old = IF snap.todo = Insts THEN Len(msgs) ELSE @]
     \/ snap' = NoSnap
  /\ UNCHANGED <<hexg, topic, xpos, xbal, msgs, pos, bal, hand, fetches, events, last, fresh>>

\* okx and bybit leave the positions alone if the answer has none.
Kept == OfPositions /\ hexg # "binance" /\ snap.pos = {}

\* A difference that the answer has already will be added once more.
Twice == \E i \in 1..snap.old : msgs[i].delta

StoreSnap ==
  /\ snap.st = "answered" /\ snap' = NoSnap
  /\ IF Kept THEN UNCHANGED <<pos, bal, hand, fresh>>
     ELSE /\ IF OfPositions THEN pos' = snap.pos /\ UNCHANGED bal
             ELSE bal' = snap.bal /\ UNCHANGED pos
          /\ hand' = [hand EXCEPT !.stored = hand.busy]
          /\ fresh' = IF snap.lost \/ Twice THEN "raced" ELSE "ok"
  /\ UNCHANGED <<hexg, topic, xpos, xbal, msgs, fetches, events, last>>

-------------------------------------------------------------------------------
(* The handlers.                                                           *)

\* The message is gone from the stream: older than an answer, or newer.
Passed ==
  IF snap.old > 0 THEN [snap EXCEPT !.old = @ - 1]
  ELSE [snap EXCEPT !.lost = snap.st = "answered" \/ (snap.st = "asked" /\ snap.todo # Insts)]

\* A handler of okx or bybit takes a message.
Handled ==
  /\ msgs' = Tail(msgs) /\ snap' = Passed /\ last' = <<Head(msgs).of>>
  /\ fresh' = IF fresh = "none" THEN "ok" ELSE fresh
  /\ UNCHANGED <<hexg, topic, xpos, xbal, hand, fetches, events>>

\* handleBalance and handleAccountUpdate of binance read the map under its lock.
ReadHeld ==
  /\ hexg = "binance" /\ msgs # <<>> /\ ~hand.busy
  /\ hand' = [busy |-> TRUE, base |-> pos, stored |-> FALSE]
  /\ UNCHANGED <<hexg, topic, xpos, xbal, msgs, pos, bal, snap, fetches, events, last, fresh>>

\* They write the positions anew, and the balances in place: what was stored
\* since is overwritten, or left without the message.
WriteHeld ==
  LET m == Head(msgs)
  IN  /\ hand.busy /\ hand' = NoHand
      /\ msgs' = Tail(msgs) /\ snap' = Passed /\ last' = <<m.of>>
      /\ IF OfPositions THEN pos' = Merged(hand.base, m) /\ UNCHANGED bal
         ELSE /\ bal' = IF hand.stored THEN bal ELSE Updated(bal, m)
              /\ UNCHANGED pos
      /\ fresh' = IF hand.stored THEN "raced" ELSE fresh
      /\ UNCHANGED <<hexg, topic, xpos, xbal, fetches, events>>

HandleWallet ==
  /\ hexg # "binance" /\ ~OfPositions /\ msgs # <<>>
  /\ bal' = Told(Head(msgs))
  /\ Handled /\ UNCHANGED pos

\* A message of a closed position only has none, and changes nothing.
HandleOpenPositions ==
  /\ hexg # "binance" /\ OfPositions /\ msgs # <<>>
  /\ pos' = IF Head(msgs).n = 0 THEN pos ELSE Told(Head(msgs))
  /\ Handled /\ UNCHANGED bal

HoldNext ==
  \/ \E k \in PosKeys, n \in -MaxSize..MaxSize : ChangePosition(k, n)
  \/ \E c \in Coins, f \in 0..MaxSize, u \in 0..1, S \in SUBSET Coins :
       ChangeBalance(c, [free |-> f, used |-> u], S)
  \/ \E c \in Coins, d \in -MaxSize..MaxSize : Transfer(c, d)
  \/ \E S \in SUBSET Insts : AnswerPositions(S)
  \/ Ask \/ AnswerBalance \/ StoreSnap \/ ReadHeld \/ WriteHeld
  \/ HandleWallet \/ HandleOpenPositions

-------------------------------------------------------------------------------
(* Properties.                                                             *)

Settled == msgs = <<>> /\ snap.st # "answered" /\ fresh = "ok"

\* When every message has been handled, what is held is what the exchange has.
\* On binance that is so of all positions in hedge mode (a short one with the sign
\* of the message or, from the answer, with none) and of the free amounts of a spot
\* account, unless a message and the answer were stored over each other or a
\* difference was taken twice or lost.  Elsewhere it is so of what the last message
\* told of: a position that is still open, and the free amount of a currency, but
\* where the code has no more than the whole amount.
HoldingsTrue ==
  Settled =>
    CASE hexg = "binance" /\ topic = "hedge" ->
           {[p EXCEPT !.amt = Abs(@)] : p \in pos} = Open(Insts)
      [] OfPositions /\ ~(hexg = "binance" /\ topic = "hedge") ->
           \A k \in Range(last) : xpos[k] # 0 =>
             \E p \in pos : p.i = k[1] /\ Abs(p.amt) = Abs(xpos[k])
      [] topic = "spot" -> \A c \in DOMAIN bal : bal[c].free = xbal[c].free
      [] OTHER ->
           \A c \in Range(last) \cap DOMAIN bal :
             bal[c].free \in {xbal[c].free, xbal[c].free + xbal[c].used}

-------------------------------------------------------------------------------
(* Why what is held is true.                                               *)

Amounts   == [free : Int, used : Int]
Parts     == UNION {[D -> Amounts] : D \in SUBSET Coins}
HoldKeys  == IF OfPositions THEN PosKeys ELSE Coins
HeldSides == {"long", "short"} \cup Sides
Positions == [i : Insts, side : HeldSides, amt : Int \ {0}]
Messages  == [of : HoldKeys, n : Int, to : Parts, delta : BOOLEAN, was : Int]

\* A balance is told with what it is of, and a difference of a spot balance only.
SoundMessage(m) ==
  /\ m.delta => topic = "spot"
  /\ ~OfPositions /\ ~m.delta => m.of \in DOMAIN m.to

\* Every variable has its type; the handler of binance has a message while it is busy,
\* and the answers come in parts on bybit only.
HoldTypeOK ==
  /\ hexg \in {"", "binance", "okx", "bybit"}
  /\ topic \in {"", "spot", "margin", "hedge", "oneWay"} /\ (topic = "spot" => hexg = "binance")
  /\ xpos \in [PosKeys -> Int] /\ xbal \in [Coins -> Amounts]
  /\ msgs \in Seq(Messages) /\ (\A i \in DOMAIN msgs : SoundMessage(msgs[i]))
  /\ pos \subseteq Positions /\ bal \in Parts /\ Range(last) \subseteq HoldKeys
  /\ snap \in [st : {"idle", "asked", "answered"}, todo : SUBSET Insts, pos : SUBSET Positions,
               bal : Parts, old : Nat, lost : BOOLEAN]
  /\ snap.old <= Len(msgs)
  /\ hand \in [busy : BOOLEAN, base : SUBSET Positions, stored : BOOLEAN]
  /\ hand.busy => hexg = "binance" /\ msgs # <<>>
  /\ snap.st = "asked" =>
       /\ snap.todo = Insts => snap.pos = {} /\ snap.old = 0
       /\ snap.todo # Insts => hexg = "bybit" /\ OfPositions
       /\ ~OfPositions => DOMAIN snap.bal = {}
  /\ snap.st = "answered" /\ OfPositions => snap.todo = {}

\* No message of k comes after the first n; message i is the first one of its
\* position or currency after those; it is the last one.
NoneAfter(n, k)  == \A i \in DOMAIN msgs : i > n => msgs[i].of # k
FirstAfter(n, i) == i > n /\ \A j \in DOMAIN msgs : n < j /\ j < i => msgs[j].of # msgs[i].of
LastOfIts(i)     == \A j \in DOMAIN msgs : j > i => msgs[j].of # msgs[i].of

\* The last message of a position or a currency tells what the exchange has; a
\* difference is added to what the message before it left.
Leaves(m) == IF m.delta THEN m.was + m.n ELSE m.to[m.of].free
Tells(m) ==
  IF OfPositions THEN m.n = xpos[m.of]
  ELSE IF m.delta THEN Leaves(m) = xbal[m.of].free
  ELSE m.to[m.of] = xbal[m.of]
ToldTrue ==
  /\ \A i \in DOMAIN msgs : LastOfIts(i) => Tells(msgs[i])
  /\ \A i, j \in DOMAIN msgs :
       i < j /\ msgs[j].of = msgs[i].of /\ FirstAfter(i, j) /\ msgs[j].delta =>
         msgs[j].was = Leaves(msgs[i])

\* What P says of the position k, and B of the currency c, is right.
PosRight(P, k) ==
  IF hexg = "binance" /\ topic = "hedge"
  THEN /\ \A p \in P : p.i = k[1] /\ p.side = k[2] => Abs(p.amt) = Abs(xpos[k])
       /\ xpos[k] # 0 => \E p \in P : p.i = k[1] /\ p.side = k[2]
  ELSE xpos[k] # 0 => \E p \in P : p.i = k[1] /\ Abs(p.amt) = Abs(xpos[k])
BalRight(B, c) ==
  c \in DOMAIN B =>
    IF topic = "spot" THEN B[c].free = xbal[c].free
    ELSE B[c].free \in {xbal[c].free, xbal[c].free + xbal[c].used}

\* Where the cache keeps them all they are right, else what came last is.
Minded(k)    == (hexg = "binance" /\ topic \in {"hedge", "spot"}) \/ k \in Range(last)
Right(k)     == IF OfPositions THEN PosRight(pos, k) ELSE BalRight(bal, k)
SnapRight(k) == IF OfPositions THEN k[1] \in snap.todo \/ PosRight(snap.pos, k)
                ELSE BalRight(snap.bal, k)

\* Balances B are what the first difference after n messages was added to.
AddsUp(B, n) ==
  \A i \in DOMAIN msgs : FirstAfter(n, i) /\ msgs[i].delta /\ msgs[i].of \in DOMAIN B =>
    B[msgs[i].of].free = msgs[i].was

\* What is held is right where no message is to come, and so is what an answer has
\* where no message came since it was given.
HeldTrue ==
  fresh # "raced" =>
    /\ \A k \in HoldKeys : Minded(k) /\ NoneAfter(0, k) => Right(k)
    /\ AddsUp(bal, 0)
AnswerTrue ==
  snap.st # "idle" /\ ~snap.lost =>
    /\ \A k \in HoldKeys : NoneAfter(snap.old, k) => SnapRight(k)
    /\ AddsUp(snap.bal, snap.old)

\* The handler goes by what is held, unless an answer was stored since.
HandTrue == hand.busy /\ ~hand.stored => hand.base = pos
===============================================================================
