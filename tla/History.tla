-------------------------------- MODULE History --------------------------------
(***************************************************************************)
(* The calls that read a history page by page: FetchOrders and             *)
(* FetchMyTrades of bybit (windows of time, and pages by cursor in each),  *)
(* FetchIncomeHistory of okx (pages by the id of the last bill),           *)
(* FetchFundingRateHistory of okx (pages by the time of the last rate) and *)
(* of binance (pages by the next time a rate is due), and FetchOrders of   *)
(* binance (windows, one request each).                                    *)
(*                                                                         *)
(* The exchange has rows in the order of their times; the id of a row is   *)
(* its place.  Rows are added while a call reads.  Times are small         *)
(* numbers: Week is the 7 days bybit allows a request, Period the 8 hours  *)
(* between two funding rates.                                              *)
(***************************************************************************)
EXTENDS Naturals, Sequences, FiniteSets

CONSTANTS
  Queries,        \* arguments of a call
  Week,           \* bybitHistoryWindowMS
  Period,         \* 8 hours
  PageSize,       \* rows of the largest page
  MaxTime,        \* bound: times
  MaxRows         \* bound: rows of the exchange

\* Which history is read, from when to when (0: no bound), by windows of intv (0: none),
\* backwards or not, whether a long range may be cut up, and how many rows (0: all).
Kinds == {"bybit", "okxBills", "okxRates", "binanceOrders", "binanceRates"}
QueryTypes == [kind : Kinds, since : Nat, until : Nat, intv : Nat, back : BOOLEAN,
               clip : BOOLEAN, limit : Nat]

ASSUME HistoryAssumption ==
  /\ Queries \subseteq QueryTypes
  /\ Week \in Nat \ {0} /\ Period \in Nat \ {0} /\ PageSize \in Nat \ {0, 1}
  /\ MaxTime \in Nat /\ MaxRows \in Nat

VARIABLES
  rows,           \* the times of the rows
  ask,            \* the arguments of the call
  st,             \* "start", "read", "done", "failed"
  lo, hi,         \* the window of the next request; hi is after for okx's rates
  cur,            \* the cursor: rows below it are still to come
  got, twice,     \* the rows of the result, and those it has twice
  owed            \* ghost: the rows in range when the call began

histVars == <<rows, ask, st, lo, hi, cur, got, twice, owed>>

Ids       == DOMAIN rows
Least(S)  == CHOOSE x \in S : \A y \in S : x <= y
Most(S)   == CHOOSE x \in S : \A y \in S : x >= y
LessOf(x, y) == IF x < y THEN x ELSE y
MoreOf(x, y) == IF x > y THEN x ELSE y
Newest(S, n) == {i \in S : Cardinality({j \in S : j > i}) < n}
Oldest(S, n) == {i \in S : Cardinality({j \in S : j < i}) < n}

Within(a, b) == {i \in Ids : a <= rows[i] /\ rows[i] <= b}

\* A history of rates has one rate per Period.
Histories(kind) ==
  {r \in UNION {[1..n -> 1..MaxTime] : n \in 0..MaxRows - 1} :
     \A i \in DOMAIN r : i + 1 \in DOMAIN r =>
       IF kind \in {"okxRates", "binanceRates"} THEN r[i + 1] = r[i] + Period
       ELSE r[i] <= r[i + 1]}

HistInit ==
  /\ ask \in Queries
  /\ rows \in Histories(ask.kind)
  /\ st = "start" /\ lo = 0 /\ hi = 0 /\ cur = 0
  /\ got = {} /\ twice = {} /\ owed = {}

-------------------------------------------------------------------------------
(* The windows of bybit and binance.                                       *)

Windowed == ask.kind \in {"bybit", "binanceOrders"}
Spans    == ask.since > 0 /\ ask.until > 0 /\ ask.until - ask.since > Week

\* FetchOrders of bybit goes by windows if it is asked to, and with autoClip if
\* the range is too long for one request; without, both are refused.
NeedLoop == ask.intv > 0 \/ (ask.kind = "bybit" /\ Spans)
Refused  ==
  \/ ask.kind = "bybit" /\ ~ask.clip /\ (ask.intv > Week \/ (ask.intv = 0 /\ Spans))
  \/ ask.kind = "bybit" /\ NeedLoop /\ ask.since = 0 /\ ~ask.back
  \/ ask.kind = "binanceOrders" /\ NeedLoop /\ ask.since = 0 /\ ask.until = 0 /\ ask.limit = 0

\* normalizeBybitLoopIntv
Intv == IF ask.kind = "bybit" /\ (ask.intv = 0 \/ ask.intv > Week) THEN Week ELSE ask.intv

\* As far as the arguments ask: without until, up to now; of FetchFundingRateHistory
\* of binance with since, as far as limit rates go.
Upto ==
  IF ask.until > 0 THEN ask.until
  ELSE IF ask.kind = "binanceRates" /\ ask.since > 0
    THEN ask.since + (IF ask.limit = 0 THEN PageSize ELSE ask.limit) * Period
  ELSE MaxTime + 1

\* Two calls of binance return before they have read that, with no error: FetchOrders
\* by windows with since and no until, and FetchFundingRateHistory without since.
Curtailed ==
  \/ ask.kind = "binanceOrders" /\ NeedLoop /\ ask.since > 0 /\ ask.until = 0
  \/ ask.kind = "binanceRates" /\ ask.since = 0

\* The variable until of the code: in these calls it stays 0 where none is given.
Until == IF Curtailed /\ ask.until = 0 THEN 0 ELSE Upto

Clipped(a, b) == MoreOf(a, IF b > Intv THEN b - Intv ELSE 0)

\* Fault: the windows leave a gap.
WindowPast ==
  IF ask.back THEN lo' = Clipped(ask.since, lo - 1) /\ hi' = lo - 1
  ELSE lo' = hi + 2 /\ hi' = LessOf(Until, hi + 2 + Intv)

\* Fault: the window stays.
WindowSame == UNCHANGED <<lo, hi>>

\* bybitLoopTimeRange: a window begins where the last one ended.
NextWindow ==
  IF ask.back THEN lo' = Clipped(ask.since, lo) /\ hi' = lo
  ELSE lo' = hi /\ hi' = LessOf(Until, hi + Intv)

LastWindow == ~NeedLoop \/ (IF ask.back THEN lo <= ask.since ELSE hi >= Until)

-------------------------------------------------------------------------------
\* The rates of okx are those after since and before until; the rate at until is
\* none of binance's, if it would be the first of a page.
InRange ==
  CASE ask.kind = "okxRates"      -> {i \in Ids : ask.since < rows[i] /\ rows[i] < Upto}
    [] ask.kind = "binanceRates"  -> {i \in Ids : ask.since <= rows[i] /\ rows[i] < Upto}
    [] OTHER                      -> Within(ask.since, Upto)

Start ==
  /\ st = "start"
  /\ st' = IF Refused THEN "failed" ELSE "read"
  /\ owed' = InRange
  /\ cur' = MaxRows + 1
  /\ IF NeedLoop /\ Windowed
       THEN IF ask.back THEN lo' = Clipped(ask.since, Until) /\ hi' = Until
            ELSE lo' = ask.since /\ hi' = LessOf(Until, ask.since + Intv)
       ELSE lo' = ask.since /\ hi' = Upto
  /\ UNCHANGED <<rows, ask, got, twice>>

\* limit is the size of a page for rates and for binance, and the length of the
\* result for the others.
PerPage == IF ask.limit = 0 THEN PageSize ELSE LessOf(PageSize, ask.limit)
Left    == IF ask.limit = 0 THEN PageSize ELSE LessOf(PageSize, ask.limit - Cardinality(got))

\* What the exchange answers: bybit and okx the newest rows, binance the oldest, but
\* the newest rates where no startTime is sent.
Page ==
  CASE ask.kind \in {"bybit", "okxBills"}  -> Newest({i \in Within(lo, hi) : i < cur}, Left)
    [] ask.kind = "okxRates"               ->
         Newest({i \in Ids : ask.since < rows[i] /\ rows[i] < hi}, PerPage)
    [] ask.kind = "binanceRates" /\ lo = 0 -> Newest(Within(lo, hi), PerPage)
    [] OTHER                               -> Oldest(Within(lo, hi), PerPage)

\* bybit drops what it has already; the others append.
Keep(page) ==
  /\ got' = got \cup page
  /\ twice' = IF ask.kind = "bybit" THEN twice ELSE twice \cup (got \cap page)

\* A page that is not full is the last one.  (shouldContinueFundRateHistory looks
\* at since as well; binance asks whether another rate is due before until.)
More(page) ==
  /\ Cardinality(page) = IF ask.kind = "okxRates" THEN PerPage ELSE PageSize
  /\ ask.kind = "okxRates"     => rows[Least(page)] > ask.since
  /\ ask.kind = "binanceRates" => rows[Most(page)] + Period < Until

Enough(page) ==
  ask.kind \notin {"okxRates", "binanceRates"} /\ ask.limit > 0
  /\ Cardinality(got \cup page) >= ask.limit

Read(page) ==
  /\ Keep(page)
  /\ CASE ~Enough(page) /\ ask.kind \in {"bybit", "okxBills"} /\ More(page) ->
            cur' = Least(page) /\ UNCHANGED <<st, lo, hi>>
       [] ask.kind = "okxRates" /\ More(page) ->
            hi' = rows[Least(page)] /\ UNCHANGED <<st, lo, cur>>
       \* the time after the last rate is as long as that between the first two
       [] ask.kind = "binanceRates" /\ More(page) ->
            LET first == Least(page) IN
            lo' = rows[Most(page)] + (rows[first + 1] - rows[first]) /\ UNCHANGED <<st, hi, cur>>
       [] Windowed /\ ~Enough(page) /\ (ask.kind = "bybit" => ~More(page)) /\ ~LastWindow ->
            NextWindow /\ cur' = MaxRows + 1 /\ UNCHANGED st
       [] OTHER -> st' = "done" /\ UNCHANGED <<lo, hi, cur>>
  /\ UNCHANGED <<rows, ask, owed>>

GetPage == st = "read" /\ Read(Page)

\* The request fails: the call ends with an error.
Fail == st = "read" /\ st' = "failed" /\ UNCHANGED <<rows, ask, lo, hi, cur, got, twice, owed>>

\* A row is added.
Arrive ==
  /\ Len(rows) < MaxRows /\ st # "start"
  /\ \E t \in 1..MaxTime :
       /\ Append(rows, t) \in {r \in [1..Len(rows) + 1 -> 1..MaxTime] :
            Len(rows) > 0 =>
              IF ask.kind \in {"okxRates", "binanceRates"} THEN t = rows[Len(rows)] + Period
              ELSE t >= rows[Len(rows)]}
       /\ rows' = Append(rows, t)
  /\ UNCHANGED <<ask, st, lo, hi, cur, got, twice, owed>>

HistNext == Start \/ GetPage \/ Fail \/ Arrive

HistSpec == HistInit /\ [][HistNext]_histVars /\ WF_histVars(Start \/ GetPage)

-------------------------------------------------------------------------------
(* What must hold.                                                         *)

\* What the exchange cannot give in one answer, FetchOrders of binance leaves
\* out: its windows have no second page.
FitsWindows ==
  \A i \in Ids : ask.kind = "binanceOrders" =>
    Cardinality(Within(rows[i], rows[i] + (IF NeedLoop THEN Intv ELSE MaxTime))) <= PerPage

\* A call that returns without an error has every row that was in range when it
\* began, though rows were added between its pages: all of them without a limit, but
\* for the two calls that are Curtailed, and with one the newest, with no gap.
\* (Where rows of windows are counted, one may be left out under a limit: a row on
\* the bound of two windows counts twice.)  It has no row outside the range, and none
\* twice.  (Windows share their bounds: bybit drops the second copy, binance does not.)
Complete ==
  st = "done" /\ FitsWindows =>
    /\ ask.limit = 0 /\ ~Curtailed => owed \subseteq got
    /\ ask.kind \in {"bybit", "okxBills"} /\ ~NeedLoop =>
         \A i \in got, j \in owed : j > i => j \in got
    /\ \A i \in got : ask.since <= rows[i] /\ rows[i] <= Upto
    /\ ask.kind # "binanceOrders" => twice = {}

\* A call ends, whatever is added meanwhile.
Ends == <>(st \in {"done", "failed"})
===============================================================================
