------------------------------- MODULE Leverage -------------------------------
(***************************************************************************)
(* The leverage of the symbols of an account: SetLeverage, GetLeverage,    *)
(* LoadLeverageBrackets and CalcMaintMargin of okx, bybit and binance, the *)
(* cache acc.Leverages they keep and the messages of the account's stream  *)
(* that write it.                                                          *)
(*                                                                         *)
(* A call asks the exchange in one step, is answered in another and stores *)
(* the answer in a third; the messages of an account come in their order.  *)
(* The symbols are perpetuals and futures of one family on okx, and of two *)
(* categories (linear, inverse) on bybit and binance.                      *)
(***************************************************************************)
EXTENDS Naturals, Sequences, SequencesExt

CONSTANTS
  Names, DefName,  \* the accounts, and e.DefAccName
  Syms,            \* symbols, each of a category of its own
  Tiers,           \* the tiers of a symbol, and those of the table "*" of binance:
                   \* a set of [floor, cap, lev, rate]
  Levs, FirstLev,  \* leverages, and the one every symbol begins with
  Notionals,       \* values of positions
  LevCallers,      \* goroutines
  LevExchanges,    \* of "okx", "bybit", "binance"
  MaxChanges,      \* bound: changes of a leverage
  MaxLevCalls      \* bound: calls

ASSUME LeverageAssumption ==
  /\ DefName \in Names /\ Levs \subseteq Nat \ {0} /\ FirstLev \in Levs /\ Notionals \subseteq Nat
  /\ MaxChanges \in Nat /\ MaxLevCalls \in Nat

VARIABLES
  lexg,            \* the exchange, "" if there is none
  xlev,            \* the leverage the exchange has for an account and a symbol
  nth,             \* how many times it was changed
  feed,            \* account -> the messages on their way: [s, l, n]
  lev,             \* acc.Leverages; 0: not there
  bk,              \* e.LeverageBrackets: key -> the symbol whose tiers it has, "" if none
  lcall,           \* caller -> its call
  had,             \* ghost: account, symbol -> the leverages it has had
  newest,          \* ghost: account, symbol -> nth of the newest value lev was written from
  crossed,         \* ghost: lev was then overwritten by an older value
  borrowed,        \* ghost: GetLeverage of okx has named the account
  shown,           \* the last leverage written to the channel of WatchAccountConfig
  lcalls,           \* how many calls there were
  hidden           \* ghost: lev was last written by an answer, not by a message

levVars == <<lexg, xlev, nth, feed, lev, bk, lcall, had, newest, crossed, borrowed, shown, lcalls, hidden>>

Pairs  == Names \X Syms
NewCall(op, a, s, x, st) ==
  [op |-> op, a |-> a, s |-> s, x |-> x, st |-> st, l |-> 0, n |-> 0, max |-> 0, from |-> ""]
NoCall == NewCall("none", DefName, "", 0, "idle")

-------------------------------------------------------------------------------
(* The brackets.                                                           *)

Span(r) == IF r.cap > r.floor THEN (r.cap - r.floor) * r.rate ELSE 0

\* The elements of S by their keys g, the least first (sort.Slice).
SortedBy(S, g) ==
  CHOOSE f \in [1..Cardinality(S) -> S] :
    IsInjective(f) /\ \A i, j \in DOMAIN f : i < j => g[f[i]] <= g[f[j]]

\* buildLeverageBrackets sorts by the least size, buildBybitLeverageBrackets by the
\* limit (a row then begins where the one before it ended); binance's come sorted.
Rows(s) ==
  IF lexg = "okx" THEN SortedBy(Tiers[s], [t \in Tiers[s] |-> t.floor])
  ELSE LET rows  == {t \in Tiers[s] : t.cap > 0}
           byCap == SortedBy(rows, [t \in rows |-> t.cap])
       IN  [i \in DOMAIN byCap |->
              [byCap[i] EXCEPT !.floor = IF i = 1 THEN 0 ELSE byCap[i - 1].cap]]

\* What CalcMaintMargin takes off: summed up by the code, or told by binance.
Cum(rs, i) ==
  IF lexg = "binance"
  THEN MapThenSumSet(LAMBDA j : rs[j].floor * (rs[j].rate - rs[j - 1].rate), 2..i)
  ELSE MapThenSumSet(LAMBDA j : Span(rs[j]), 1..i - 1)

\* Fault: a value on the bound of two rows is of the higher one.
ReachedPastCap(rs, x) ==
  {i \in DOMAIN rs : \A j \in 1..i : x >= rs[j].floor /\ (j < i => x >= rs[j].cap)}

\* The rows the loop of a lookup takes: it ends before a row that begins above the
\* value and after one that holds it; binance looks at the floors only.
Reached(rs, x) ==
  {i \in DOMAIN rs :
     /\ \A j \in 1..i : x >= rs[j].floor
     /\ lexg # "binance" => \A j \in 1..i - 1 : rs[j].cap = 0 \/ x > rs[j].cap}

\* The loop of GetLeverage of binance ends after its first row.
MaxLev(s, x) ==
  LET rs == Rows(s)  In == Reached(rs, x)
  IN  IF In = {} THEN 0 ELSE rs[IF lexg = "binance" THEN 1 ELSE Max(In)].lev

\* CalcMaintMargin
Margin(s, x) ==
  LET rs == Rows(s)  i == Max(Reached(rs, x)) IN rs[i].rate * x - Cum(rs, i)

\* The key the tiers of a symbol are under: those of okx name the family of the
\* instrument; else it is the symbol.
OkxKey(s) == "family"
OwnKey(s) == s
Key(s) == IF lexg = "okx" THEN OkxKey(s) ELSE OwnKey(s)
Keys   == Syms \cup {"family", "*"}
Loaded == \E k \in Keys : bk[k] # ""

\* LoadLeverageBrackets of binance replaces what there is, that of bybit adds to
\* it, and okx loads the tiers of one kind of instrument of the family.
Filled(s) ==
  IF lexg = "binance" THEN [k \in Keys |-> IF k = s THEN s ELSE ""]
  ELSE [bk EXCEPT ![Key(s)] = s]

\* Whether GetLeverage (CalcMaintMargin on okx only) loads the tiers first.
Missing(op, s) ==
  \/ lexg = "okx" /\ bk[Key(s)] = ""
  \/ lexg = "bybit" /\ op = "get" /\ ~Loaded

-------------------------------------------------------------------------------
LevInit ==
  /\ lexg \in LevExchanges
  /\ xlev = [p \in Pairs |-> FirstLev] /\ had = [p \in Pairs |-> {FirstLev}]
  /\ nth = [p \in Pairs |-> 0] /\ feed = [a \in Names |-> <<>>]
  /\ lev = [p \in Pairs |-> 0] /\ bk = [k \in Keys |-> ""]
  /\ lcall = [c \in LevCallers |-> NoCall]
  /\ newest = [p \in Pairs |-> 0] /\ crossed = {} /\ borrowed = {}
  /\ shown = [p \in Pairs |-> 0] /\ hidden = {} /\ lcalls = 0

Changes == MapThenSumSet(LAMBDA p : nth[p], Pairs)

\* The exchange changes a leverage and tells the stream of the account.
Changed(a, s, l) ==
  /\ Changes < MaxChanges
  /\ xlev' = [xlev EXCEPT ![<<a, s>>] = l]
  /\ nth' = [nth EXCEPT ![<<a, s>>] = @ + 1]
  /\ had' = [had EXCEPT ![<<a, s>>] = @ \cup {l}]
  /\ feed' = [feed EXCEPT ![a] = Append(@, [s |-> s, l |-> l, n |-> nth[<<a, s>>] + 1])]

\* Another client of the account changes its leverage.
ChangeElsewhere(a, s, l) ==
  /\ xlev[<<a, s>>] # l /\ Changed(a, s, l)
  /\ UNCHANGED <<lexg, lev, bk, lcall, newest, crossed, borrowed, shown, lcalls, hidden>>

\* acc.Leverages[s] = l, which the exchange had after n changes.
StoreLev(a, s, l, n) ==
  /\ lev' = [lev EXCEPT ![<<a, s>>] = l]
  /\ newest' = [newest EXCEPT ![<<a, s>>] = IF n < @ THEN @ ELSE n]
  /\ crossed' = IF n < newest[<<a, s>>] THEN crossed \cup {<<a, s>>}
                ELSE crossed \ {<<a, s>>}

Receive(a) == feed[a] # <<>> /\ feed' = [feed EXCEPT ![a] = Tail(@)]

\* handleAccountConfigUpdate of binance stores what it is told, and shows it.
HandleConfig(a) ==
  LET m == Head(feed[a])
  IN  /\ lexg = "binance" /\ Receive(a)
      /\ StoreLev(a, m.s, m.l, m.n) /\ shown' = [shown EXCEPT ![<<a, m.s>>] = m.l]
      /\ UNCHANGED <<lexg, xlev, nth, bk, lcall, had, borrowed, lcalls, hidden>>

\* Fault: a leverage the cache has already stays.
HandlePositionsOnce(a) ==
  LET m == Head(feed[a])
  IN  /\ lexg # "binance" /\ Receive(a)
      /\ IF lev[<<a, m.s>>] = 0
         THEN StoreLev(a, m.s, m.l, m.n) /\ shown' = [shown EXCEPT ![<<a, m.s>>] = m.l]
         ELSE UNCHANGED <<lev, newest, crossed, shown>>
      /\ UNCHANGED <<lexg, xlev, nth, bk, lcall, had, borrowed, lcalls, hidden>>

\* Fault: a leverage is shown only if none was before.
HandlePositionsShownOnce(a) ==
  LET m == Head(feed[a])
  IN  /\ lexg # "binance" /\ Receive(a)
      /\ StoreLev(a, m.s, m.l, m.n)
      /\ shown' = IF shown[<<a, m.s>>] = 0 THEN [shown EXCEPT ![<<a, m.s>>] = m.l] ELSE shown
      /\ UNCHANGED <<lexg, xlev, nth, bk, lcall, had, borrowed, lcalls, hidden>>

\* updateAccLeverages of okx and updateBybitAccLeveragesFromWsPositions, with a
\* message of positions: a leverage the cache has already is not shown again.
HandlePositions(a) ==
  LET m == Head(feed[a])
  IN  /\ lexg # "binance" /\ Receive(a)
      /\ StoreLev(a, m.s, m.l, m.n)
      /\ IF lev[<<a, m.s>>] = m.l THEN UNCHANGED <<shown, hidden>>
         ELSE shown' = [shown EXCEPT ![<<a, m.s>>] = m.l] /\ hidden' = hidden \ {<<a, m.s>>}
      /\ UNCHANGED <<lexg, xlev, nth, bk, lcall, had, borrowed, lcalls>>

-------------------------------------------------------------------------------
SetCall(c, rec) == lcall' = [lcall EXCEPT ![c] = rec]

\* The call returns; what it answered about the tiers stays in sight.
Answer(c, r) == SetCall(c, [r EXCEPT !.st = "answered", !.a = DefName, !.l = 0, !.n = 0])

\* SetLeverage, GetLeverage for a value x, and CalcMaintMargin of it begin.
BeginCall(c) == lcall[c].st = "idle" /\ lcalls < MaxLevCalls /\ lcalls' = lcalls + 1

CallSet(c, a, s, l) ==
  /\ BeginCall(c)
  /\ SetCall(c, NewCall("set", a, s, l, "sent"))
  /\ UNCHANGED <<lexg, xlev, nth, feed, lev, bk, had, newest, crossed, borrowed, shown, hidden>>

CallGet(c, a, s, x) ==
  /\ BeginCall(c)
  /\ SetCall(c, NewCall("get", a, s, x, IF Missing("get", s) THEN "load" ELSE "read"))
  /\ borrowed' = IF lexg = "okx" /\ a # DefName THEN borrowed \cup {a} ELSE borrowed
  /\ UNCHANGED <<lexg, xlev, nth, feed, lev, bk, had, newest, crossed, shown, hidden>>

CallMargin(c, s, x) ==
  /\ BeginCall(c)
  /\ SetCall(c, NewCall("margin", DefName, s, x,
                        IF Missing("margin", s) THEN "load" ELSE "read"))
  /\ UNCHANGED <<lexg, xlev, nth, feed, lev, bk, had, newest, crossed, borrowed, shown, hidden>>

\* SetLeverage: the exchange refuses, or does it.  bybit says 110043 if that is
\* the leverage already, which the call takes for a success without a result.
Execute(c) ==
  LET r == lcall[c]
  IN  /\ r.st = "sent"
      /\ \/ /\ SetCall(c, NoCall)
            /\ UNCHANGED <<xlev, nth, had, feed>>
         \/ /\ xlev[<<r.a, r.s>>] = r.x
            /\ SetCall(c, IF lexg = "bybit" THEN NoCall
                     ELSE [r EXCEPT !.st = "set", !.l = r.x, !.n = nth[<<r.a, r.s>>]])
            /\ UNCHANGED <<xlev, nth, had, feed>>
         \/ /\ xlev[<<r.a, r.s>>] # r.x /\ Changed(r.a, r.s, r.x)
            /\ SetCall(c, [r EXCEPT !.st = "set", !.l = r.x, !.n = nth'[<<r.a, r.s>>]])
      /\ UNCHANGED <<lexg, lev, bk, newest, crossed, borrowed, shown, lcalls, hidden>>

\* The success of SetLeverage: binance leaves the cache to the stream.
StoreSet(c) ==
  LET r == lcall[c]
  IN  /\ r.st = "set"
      /\ IF lexg = "binance" THEN UNCHANGED <<lev, newest, crossed>>
         ELSE StoreLev(r.a, r.s, r.l, r.n)
      /\ hidden' = IF lexg = "binance" THEN hidden ELSE hidden \cup {<<r.a, r.s>>}
      /\ SetCall(c, NoCall)
      /\ UNCHANGED <<lexg, xlev, nth, feed, bk, had, borrowed, lcalls, shown>>

\* The request for the tiers is answered, or fails.
LoadTiers(c) ==
  /\ lcall[c].st = "load"
  /\ bk' \in {Filled(lcall[c].s), bk}
  /\ SetCall(c, [lcall[c] EXCEPT !.st = "read"])
  /\ UNCHANGED <<lexg, xlev, nth, feed, lev, had, newest, crossed, borrowed, shown, lcalls, hidden>>

\* LoadLeverageBrackets called on its own (nothing on okx), and InitLeverageBrackets
\* of binance, which adds a table of its own under "*".
LoadBrackets(s, reload) ==
  /\ lexg # "okx" /\ (~Loaded \/ reload)
  /\ bk' = Filled(s)
  /\ UNCHANGED <<lexg, xlev, nth, feed, lev, lcall, had, newest, crossed, borrowed, shown, lcalls, hidden>>

InitBrackets ==
  /\ lexg = "binance" /\ bk["*"] = ""
  /\ bk' = [bk EXCEPT !["*"] = "*"]
  /\ UNCHANGED <<lexg, xlev, nth, feed, lev, lcall, had, newest, crossed, borrowed, shown, lcalls, hidden>>

\* The tiers a call goes by: CalcMaintMargin of binance has the table to fall back
\* on.
TiersFor(op, s) ==
  IF op = "margin" /\ lexg = "binance" /\ bk[s] = "" THEN bk["*"] ELSE bk[Key(s)]

\* CalcMaintMargin has the margin of a value.
ReadMargin(c) ==
  LET r == lcall[c]  t == TiersFor("margin", r.s)
  IN  /\ r.st = "read" /\ r.op = "margin"
      /\ Answer(c, [r EXCEPT !.from = t, !.max = IF t = "" THEN 0 ELSE Margin(t, r.x)])
      /\ UNCHANGED <<lexg, xlev, nth, feed, lev, bk, had, newest, crossed, borrowed, shown, lcalls, hidden>>

\* GetLeverage looks into both caches; okx then asks the exchange whatever it
\* found, bybit if it found nothing.
ReadCaches(c) ==
  LET r == lcall[c]
      t == TiersFor("get", r.s)
      found == [r EXCEPT !.from = t, !.max = IF t = "" THEN 0 ELSE MaxLev(t, r.x)]
  IN  /\ r.st = "read" /\ r.op = "get"
      /\ IF lexg = "okx" \/ (lexg = "bybit" /\ lev[<<r.a, r.s>>] = 0)
         THEN SetCall(c, [found EXCEPT !.st = "fetch"])
         ELSE Answer(c, found)
      /\ UNCHANGED <<lexg, xlev, nth, feed, lev, bk, had, newest, crossed, borrowed, shown, lcalls, hidden>>

\* fetchCurrentLeverage of okx names no account.
FetchedFor(r) == IF lexg = "okx" THEN DefName ELSE r.a

FetchLev(c) ==
  LET r == lcall[c]  a == FetchedFor(r)
  IN  /\ r.st = "fetch"
      /\ SetCall(c, [r EXCEPT !.st = "store", !.l = xlev[<<a, r.s>>], !.n = nth[<<a, r.s>>]])
         \/ Answer(c, r)
      /\ UNCHANGED <<lexg, xlev, nth, feed, lev, bk, had, newest, crossed, borrowed, shown, lcalls, hidden>>

StoreGet(c) ==
  LET r == lcall[c]
  IN  /\ r.st = "store"
      /\ StoreLev(r.a, r.s, r.l, r.n)
      /\ hidden' = hidden \cup {<<r.a, r.s>>}
      /\ Answer(c, r)
      /\ UNCHANGED <<lexg, xlev, nth, feed, bk, had, borrowed, lcalls, shown>>

Return(c) ==
  /\ lcall[c].st = "answered" /\ SetCall(c, NoCall)
  /\ UNCHANGED <<lexg, xlev, nth, feed, lev, bk, had, newest, crossed, borrowed, shown, lcalls, hidden>>

LevNext ==
  \/ \E a \in Names : HandleConfig(a) \/ HandlePositions(a)
  \/ \E a \in Names, s \in Syms, l \in Levs : ChangeElsewhere(a, s, l)
  \/ \E c \in LevCallers :
       \/ \E a \in Names, s \in Syms, l \in Levs : CallSet(c, a, s, l)
       \/ \E a \in Names, s \in Syms, x \in Notionals : CallGet(c, a, s, x)
       \/ \E s \in Syms, x \in Notionals : CallMargin(c, s, x)
       \/ Execute(c) \/ StoreSet(c) \/ LoadTiers(c) \/ ReadMargin(c) \/ ReadCaches(c)
       \/ FetchLev(c) \/ StoreGet(c) \/ Return(c)
  \/ \E s \in Syms, reload \in BOOLEAN : LoadBrackets(s, reload)
  \/ InitBrackets

-------------------------------------------------------------------------------
(* Properties.                                                             *)

\* The cached leverage of an account is one the account has had, never another
\* account's; but GetLeverage of okx stores the default account's under whatever
\* account it is asked for.  When nothing is under way, it is the one in force,
\* whoever changed it and in whatever order answers and messages were stored,
\* unless an older answer was stored over a newer one or over a newer message.
LeverageInForce ==
  \A p \in Pairs : p[1] \notin borrowed =>
    /\ lev[p] \in had[p] \cup {0}
    /\ (\A a \in Names : feed[a] = <<>>) /\ (\A c \in LevCallers : lcall[c].st = "idle") =>
         lev[p] \in {0, xlev[p]} \/ p \in crossed

\* When every message has been handled, a caller of WatchAccountConfig has been
\* shown the leverage in force, whoever set it, but where the code of okx and bybit
\* hides it: a message that tells what an answer has already put into the cache.
ConfigShown ==
  (\A a \in Names : feed[a] = <<>>) =>
    \A p \in Pairs : shown[p] \in {0, xlev[p]} \/ p \in hidden \cup crossed \/ p[1] \in borrowed

\* The tier of a value: the least one that holds it, or else the last.
TierOf(s, x) ==
  LET Hold == {t \in Tiers[s] : x <= t.cap}
  IN  IF Hold = {} THEN CHOOSE t \in Tiers[s] : \A u \in Tiers[s] : u.cap <= t.cap
      ELSE CHOOSE t \in Hold : \A u \in Hold : t.cap <= u.cap

\* Tiers as exchanges have them: each begins where another ends, or one above, the
\* first at 0, and the higher ones have no lower rate.
InSteps ==
  /\ "" \notin Syms
  /\ \A s \in Syms :
       LET T == Tiers[s]
       IN  /\ IsFiniteSet(T) /\ T # {} /\ T \subseteq [floor : Nat, cap : Nat, lev : Nat, rate : Nat]
           /\ \A t \in T : t.floor < t.cap
           /\ \A t \in T : t.floor = 0 \/ \E u \in T : u.cap <= t.floor /\ t.floor <= u.cap + 1
           /\ \A t, u \in T : t = u \/ (t.cap <= u.floor /\ t.rate <= u.rate)
                                    \/ (u.cap <= t.floor /\ u.rate <= t.rate)

\* The maximal leverage GetLeverage of okx and bybit answers is that of the tier
\* the value is in, in whatever order the exchange lists the tiers, and the margin
\* is at most the tier's rate of it and at least that of what is above the tier's
\* floor; but okx answers from the tiers of the instrument of the family that was
\* asked for first.
TierServed ==
  \A c \in LevCallers :
    LET r == lcall[c]  t == TierOf(r.s, r.x)
    IN  r.st = "answered" /\ lexg # "binance" /\ r.from = r.s =>
          IF r.op = "get" THEN r.max = t.lev
          ELSE r.max \in t.rate * (IF r.x > t.floor THEN r.x - t.floor ELSE 0)..t.rate * r.x

-------------------------------------------------------------------------------
(* Why the cache is right.                                                 *)

LevMessages == [s : Syms, l : Nat, n : Nat]
LevRecords(max, from) ==
  [op : {"none", "set", "get", "margin"}, a : Names, s : Syms \cup {""}, x : Nat,
   st : {"idle", "sent", "set", "load", "read", "fetch", "store", "answered"},
   l : Nat, n : Nat, max : {max}, from : {from}]

\* What a message or an answer says of the leverage of p: it had it after n changes.
Says(p, l, n) ==
  l \in had[p] \cup {0} /\ n <= nth[p] /\ (n = nth[p] => l = xlev[p])

\* What is so of the record r of a call at every step of it: it is a record of the
\* call's symbol and leverage; the answer it has is true; and GetLeverage of okx has
\* named the account it asks for.
TypedCall(r) ==
  /\ r \in LevRecords(r.max, r.from)
  /\ r.st \notin {"idle", "answered"} => r.s \in Syms
  /\ r.st \in {"sent", "set"} => r.x \in Levs
  /\ r.st \in {"fetch", "store"} => r.op = "get"
TrueCall(r)  == r.st \in {"set", "store"} /\ r.a \notin borrowed => Says(<<r.a, r.s>>, r.l, r.n)
NamedCall(r) ==
  lexg = "okx" /\ r.op = "get" /\ r.st \in {"load", "read", "fetch", "store"} =>
    r.a \in borrowed \cup {DefName}
SoundCalls == \A c \in LevCallers : TypedCall(lcall[c]) /\ TrueCall(lcall[c]) /\ NamedCall(lcall[c])

\* Every variable the cache hangs on has its type.
LevTypeOK ==
  /\ xlev \in [Pairs -> Nat] /\ nth \in [Pairs -> Nat] /\ had \in [Pairs -> SUBSET Nat]
  /\ lev \in [Pairs -> Nat] /\ newest \in [Pairs -> Nat] /\ shown \in [Pairs -> Nat]
  /\ feed \in [Names -> Seq(LevMessages)]
  /\ lcall = [c \in LevCallers |-> lcall[c]]
  /\ crossed \subseteq Pairs /\ hidden \subseteq Pairs /\ borrowed \subseteq Names

\* The exchange has one of the leverages the account has had, and every message on
\* its way is true.
SaidTrue ==
  /\ \A p \in Pairs : xlev[p] \in had[p] \cup {0}
  /\ \A a \in Names : \A i \in DOMAIN feed[a] :
       Says(<<a, feed[a][i].s>>, feed[a][i].l, feed[a][i].n)

\* The newest change has been stored, or a message tells of it; what was stored last
\* is the leverage in force, if that was the newest change and nothing older came.
NewestComes ==
  \A p \in Pairs : p[1] \notin borrowed =>
    /\ newest[p] <= nth[p] /\ lev[p] \in had[p] \cup {0}
    /\ newest[p] = nth[p]
         \/ \E i \in DOMAIN feed[p[1]] : feed[p[1]][i].s = p[2] /\ feed[p[1]][i].n = nth[p]
    /\ newest[p] = nth[p] => lev[p] \in {0, xlev[p]} \/ p \in crossed

\* What a message stored was shown.
ShownIsHeld == \A p \in Pairs \ hidden : shown[p] = lev[p]
===============================================================================
