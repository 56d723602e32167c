-------------------------------- MODULE Trades --------------------------------
(***************************************************************************)
(* The calls about orders and what they left behind: those of Orders, or   *)
(* one that reads a history.                                               *)
(***************************************************************************)
EXTENDS Orders, History

NoQuery == [kind |-> "none", since |-> 0, until |-> 0, intv |-> 0, back |-> FALSE,
            clip |-> FALSE, limit |-> 0]

TradesInit ==
  \/ /\ Init
     /\ ask = NoQuery /\ rows = <<>> /\ st = "done" /\ lo = 0 /\ hi = 0 /\ cur = 0
     /\ got = {} /\ twice = {} /\ owed = {}
  \/ /\ HistInit
     /\ exg = "none" /\ dflt = "" /\ mt = "" /\ wants = <<>> /\ flight = {} /\ orders = <<>>
     /\ call = [c \in Callers |-> Idle] /\ known = [c \in Callers |-> {}]

TradesNext ==
  \/ exg # "none" /\ Next /\ UNCHANGED histVars
  \/ exg = "none" /\ HistNext /\ UNCHANGED vars

TradesSpec ==
  /\ TradesInit /\ [][TradesNext]_<<vars, histVars>>
  /\ WF_histVars(exg = "none" /\ (Start \/ GetPage) /\ UNCHANGED vars)
===============================================================================
