------------------------------- MODULE MCTrades -------------------------------
(* Small instances of Trades for TLC.                                      *)
EXTENDS Trades, TLC

Plain == [type |-> "market", side |-> "buy", price |-> FALSE, trigger |-> FALSE, sl |-> FALSE,
          tp |-> FALSE, post |-> FALSE, tif |-> "", trail |-> FALSE]

\* What callers ask for (Sensibly): a maker order, a stop and a take profit.
McAsks ==
  {[Plain EXCEPT !.type = "limit_maker", !.price = TRUE],
   [Plain EXCEPT !.type = "stop_market", !.side = "sell", !.trigger = TRUE],
   [Plain EXCEPT !.type = "take_profit_limit", !.side = "sell", !.price = TRUE, !.tp = TRUE]}

ASSUME AsksSensible == Sensibly

McWanted ==
  {[sym |-> "plain", over |-> ""], [sym |-> "plain", over |-> "linear"]}

\* Ranges with and without bounds, windows longer and shorter than Week, pages
\* that limit cuts; windows only of the calls that go by windows.
McQueries ==
  LET Ask == [kind : {"bybit", "okxBills", "okxRates", "binanceOrders", "binanceRates"},
              since : {0, 1}, until : {0, 5}, intv : {0, 2, 4}, back : BOOLEAN,
              clip : BOOLEAN, limit : {0, 1, 3}]
  IN  {a \in Ask :
         /\ a.kind \notin {"bybit", "binanceOrders"} => a.intv = 0
         /\ a.kind # "bybit" => ~a.clip
         /\ a.intv = 0 => ~a.back
         /\ a.kind = "bybit" /\ a.intv > 0 => a.limit < 3}
===============================================================================
