------------------------------ MODULE ChanPromise ------------------------------
(***************************************************************************)
(* What the caller of a Watch* function may rely on, whatever goes on      *)
(* behind WsOutChans and WsChanRefs: a channel is made once and closed at  *)
(* most once; while it is open it receives messages in the order in which  *)
(* they arrived, never more than its capacity; once it is closed it only   *)
(* empties.  Message 0 is the first value some Watch* send themselves.     *)
(***************************************************************************)
EXTENDS Naturals, Sequences

CONSTANTS
  Chans, Cap,
  Msgs          \* numbered as they arrive

VARIABLES
  open, shut,   \* the open and the closed channels
  box           \* the messages in each channel

Init ==
  /\ open = {} /\ shut = {}
  /\ box = [c \in Chans |-> << >>]

Make(c) ==
  /\ c \notin open \cup shut
  /\ open' = open \cup {c}
  /\ UNCHANGED <<shut, box>>

\* Newer(q, m): m arrived after every message of q.
Newer(q, m) == m # 0 => \A i \in DOMAIN q : q[i] < m

Push(c, m) ==
  /\ c \in open
  /\ Len(box[c]) < Cap
  /\ Newer(box[c], m)
  /\ box' = [box EXCEPT ![c] = Append(@, m)]
  /\ UNCHANGED <<open, shut>>

\* Received, or dropped to make room.
Take(c) ==
  /\ box[c] # << >>
  /\ box' = [box EXCEPT ![c] = Tail(@)]
  /\ UNCHANGED <<open, shut>>

Shut(cs) ==
  /\ cs # {}
  /\ open' = open \ cs
  /\ shut' = shut \cup cs
  /\ UNCHANGED box

Next ==
  \/ \E c \in Chans : Make(c) \/ Take(c) \/ \E m \in Msgs : Push(c, m)
  \/ \E cs \in SUBSET open : Shut(cs)

Spec == Init /\ [][Next]_<<open, shut, box>>
===============================================================================
