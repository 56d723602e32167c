--------------------------------- MODULE Feeds ---------------------------------
(***************************************************************************)
(* What the library makes of the exchange's streams: the subscriptions,    *)
(* their keys and the channels they feed (Streams), or the local book of   *)
(* one symbol, as the adapter of the exchange keeps it: binance's by       *)
(* snapshots and numbered events (OrderBookSync), that of okx, bybit and   *)
(* bitget by one stream (DepthBook).  A book sees of its stream no more    *)
(* than the messages and the reconnection, so each is a behaviour by       *)
(* itself.                                                                 *)
(***************************************************************************)
EXTENDS OrderBookSync, DepthBook, Streams

NoWatch ==
  /\ wexg = "none" /\ mkt = "" /\ creds = FALSE
  /\ keys = {} /\ sends = {} /\ up = {} /\ refs = {} /\ limits = <<>>
  /\ authed = {} /\ logged = {} /\ relog = {} /\ back = {} /\ queue = {} /\ algo = <<>>
  /\ call = <<>> /\ held = {} /\ loose = {} /\ calls = 0

FeedsInit ==
  \/ Init /\ Off /\ NoWatch
  \/ Init /\ contract = TRUE /\ DepthInit /\ NoWatch
  \/ Init /\ contract = TRUE /\ Off /\ WatchInit

FeedsNext ==
  \/ exg = "none" /\ wexg = "none" /\ Next /\ UNCHANGED <<depthVars, watchVars>>
  \/ exg # "none" /\ DepthNext /\ UNCHANGED <<vars, watchVars>>
  \/ wexg # "none" /\ WatchNext /\ UNCHANGED <<vars, depthVars>>

FeedsSpec ==
  /\ FeedsInit /\ [][FeedsNext]_<<vars, depthVars, watchVars>>
  /\ WF_vars(exg = "none" /\ wexg = "none" /\ LoopStep /\ UNCHANGED <<depthVars, watchVars>>)
  /\ \A r \in Refreshers :
       WF_vars(exg = "none" /\ wexg = "none" /\ RefStep(r) /\ UNCHANGED <<depthVars, watchVars>>)
================================================================================
