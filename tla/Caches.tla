--------------------------------- MODULE Caches ---------------------------------
(***************************************************************************)
(* What the library keeps of what the exchange has told it: the markets    *)
(* (MarketLoader), the leverages of an account (Leverage), or its          *)
(* balances and positions (Holdings).  They have no state in common.       *)
(***************************************************************************)
EXTENDS MarketLoader, Leverage, Holdings

NoLeverage ==
  /\ lexg = "" /\ xlev = [p \in Pairs |-> 0] /\ nth = xlev /\ lev = xlev /\ newest = xlev
  /\ feed = [a \in Names |-> <<>>] /\ bk = [k \in Keys |-> ""]
  /\ lcall = [c \in LevCallers |-> NoCall] /\ had = [p \in Pairs |-> {}]
  /\ crossed = {} /\ borrowed = {} /\ shown = xlev /\ hidden = {} /\ lcalls = 0

NoHoldings ==
  /\ hexg = "" /\ topic = "" /\ xpos = [k \in PosKeys |-> 0]
  /\ xbal = [c \in Coins |-> Zero] /\ msgs = <<>> /\ pos = {} /\ bal = <<>>
  /\ snap = NoSnap /\ hand = NoHand /\ fetches = 0 /\ events = 0
  /\ last = <<>> /\ fresh = "none"

CachesInit ==
  /\ Init
  /\ \/ NoLeverage /\ NoHoldings
     \/ ~currApi /\ LevInit /\ NoHoldings
     \/ ~currApi /\ HoldInit /\ NoLeverage

CachesNext ==
  \/ lexg = "" /\ hexg = "" /\ Next /\ UNCHANGED <<levVars, holdVars>>
  \/ lexg # "" /\ LevNext /\ UNCHANGED <<vars, holdVars>>
  \/ hexg # "" /\ HoldNext /\ UNCHANGED <<vars, levVars>>

CachesSpec == CachesInit /\ [][CachesNext]_<<vars, levVars, holdVars>>
=================================================================================
