------------------------------- MODULE OutChans -------------------------------
(***************************************************************************)
(* The output channels of an Exchange (websocket.go): Watch* hands the     *)
(* caller a Go channel found or created by GetWsOutChan and records the    *)
(* symbols that use it (AddWsChanRefs); the websocket read goroutines push *)
(* into it (WriteOutChan); UnWatch* drops the symbols and closes the       *)
(* channel with the last one (DelWsChanRefs); a client whose connection is *)
(* lost, and Exchange.Close, close every channel.                          *)
(*                                                                         *)
(* One step is one critical section (lockOutChan, lockWsRef) or one        *)
(* unlocked access to shared memory.  lockOutChan is a variable because    *)
(* WriteOutChan keeps it over two blocking channel operations; every other *)
(* section is a single step.  lockWsRef never spans a step.                *)
(***************************************************************************)
EXTENDS Naturals, Sequences, FiniteSets

CONSTANTS
  Users,        \* goroutines of the application: Watch*, UnWatch*, Close, <-chan
  Readers,      \* websocket read goroutines
  Keys,         \* chanKeys: accName@url#msgHash
  Syms,         \* the keys of AddWsChanRefs: symbols, or "account", "markPrice"
  PopKeys,      \* chanKeys written with popIfNeed = true
  DirectKeys,   \* chanKeys whose Watch* sends a first value itself (balance, positions)
  Chans,        \* identities of the Go channels ever made
  RefMaps,      \* identities of the inner maps of WsChanRefs
  Cap,          \* capacity of a channel
  MaxMsgs,      \* bound: messages that arrive from the websocket
  MaxClosings,  \* bound: calls of handleWsClientClosed
  None          \* nil / missing map entry

ASSUME Assumption ==
  /\ Users \cap Readers = {}
  /\ PopKeys \subseteq Keys
  /\ DirectKeys \subseteq Keys
  /\ Cap \in Nat \ {0}
  /\ MaxMsgs \in Nat
  /\ MaxClosings \in Nat
  /\ None \notin Users \cup Readers \cup Keys \cup Syms \cup Chans \cup RefMaps

VARIABLES
  WsOutChans,   \* chanKey -> registered channel
  WsChanRefs,   \* chanKey -> map object of its references
  refs,         \* map object -> its keys
  buf, closed,  \* contents of every channel; the closed ones
  made,         \* channels made so far
  lock,         \* the reader that holds lockOutChan between two steps
  pc, key, sym, ch, rm, todo,  \* program counter and locals of every goroutine
  held,         \* the channel a user got from Watch* and receives from
  msg, sent,    \* the message a reader is pushing; number of messages so far
  closings      \* number of clients closed so far

vars == <<WsOutChans, WsChanRefs, refs, buf, closed, made, lock,
          pc, key, sym, ch, rm, todo, held, msg, sent, closings>>

Procs == Users \cup Readers
Msgs  == 0 .. MaxMsgs   \* 0 is the value a Watch* sends itself

Init ==
  /\ WsOutChans = [k \in Keys |-> None]
  /\ WsChanRefs = [k \in Keys |-> None]
  /\ refs = [m \in RefMaps |-> {}]
  /\ buf = [c \in Chans |-> << >>]
  /\ closed = {}
  /\ made = {}
  /\ lock = None
  /\ pc = [p \in Procs |-> "idle"]
  /\ key = [p \in Procs |-> None]
  /\ sym = [p \in Procs |-> None]
  /\ ch = [p \in Procs |-> None]
  /\ rm = [p \in Procs |-> None]
  /\ todo = [p \in Procs |-> {}]
  /\ held = [u \in Users |-> None]
  /\ msg = [p \in Procs |-> 0]
  /\ sent = 0
  /\ closings = 0

Goto(p, l) == pc' = [pc EXCEPT ![p] = l]

\* The function p is in returns: its locals are gone.
locals == <<key, sym, ch, rm, todo, msg>>
Return(p) ==
  /\ Goto(p, "idle")
  /\ key' = [key EXCEPT ![p] = None]
  /\ sym' = [sym EXCEPT ![p] = None]
  /\ ch' = [ch EXCEPT ![p] = None]
  /\ rm' = [rm EXCEPT ![p] = None]
  /\ todo' = [todo EXCEPT ![p] = {}]
  /\ msg' = [msg EXCEPT ![p] = 0]

-------------------------------------------------------------------------------
\* Watch*: GetWsOutChan, then AddWsChanRefs, then for some keys a first value.

\* GetWsOutChan looks the key up and, when it is missing, makes a channel that
\* is stored only later, in another critical section.
GetLookup(u, k, s) ==
  /\ pc[u] = "idle" /\ held[u] = None /\ lock = None
  /\ key' = [key EXCEPT ![u] = k]
  /\ sym' = [sym EXCEPT ![u] = s]
  /\ \/ /\ WsOutChans[k] # None
        /\ ch' = [ch EXCEPT ![u] = WsOutChans[k]]
        /\ Goto(u, "addref")
        /\ UNCHANGED made
     \/ /\ WsOutChans[k] = None
        /\ \E c \in Chans \ made :
             /\ made' = made \cup {c}
             /\ ch' = [ch EXCEPT ![u] = c]
        /\ Goto(u, "store")
  /\ UNCHANGED <<WsOutChans, WsChanRefs, refs, buf, closed, lock, rm, todo,
                 held, msg, sent, closings>>

GetStore(u) ==
  /\ pc[u] = "store" /\ lock = None
  /\ WsOutChans' = [WsOutChans EXCEPT ![key[u]] = ch[u]]
  /\ Goto(u, "addref")
  /\ UNCHANGED <<WsChanRefs, refs, buf, closed, made, lock, key, sym, ch, rm,
                 todo, held, msg, sent, closings>>

AddLookup(u) ==
  /\ pc[u] = "addref"
  /\ \/ /\ WsChanRefs[key[u]] # None
        /\ rm' = [rm EXCEPT ![u] = WsChanRefs[key[u]]]
        /\ UNCHANGED <<WsChanRefs, refs>>
     \/ /\ WsChanRefs[key[u]] = None
        /\ \E m \in RefMaps :   \* a new object: nobody can reach it
             /\ \A k \in Keys : WsChanRefs[k] # m
             /\ \A v \in Users : rm[v] # m
             /\ refs' = [refs EXCEPT ![m] = {}]
             /\ WsChanRefs' = [WsChanRefs EXCEPT ![key[u]] = m]
             /\ rm' = [rm EXCEPT ![u] = m]
  /\ Goto(u, "addkeys")
  /\ UNCHANGED <<WsOutChans, buf, closed, made, lock, key, sym, ch, todo,
                 held, msg, sent, closings>>

\* data[k] = struct{}{} runs after lockWsRef is released.
AddKeys(u) ==
  /\ pc[u] = "addkeys"
  /\ refs' = [refs EXCEPT ![rm[u]] = @ \cup {sym[u]}]
  /\ \/ /\ key[u] \in DirectKeys
        /\ Goto(u, "direct")
        /\ UNCHANGED <<held, locals>>
     \/ /\ key[u] \notin DirectKeys
        /\ held' = [held EXCEPT ![u] = ch[u]]
        /\ Return(u)
  /\ UNCHANGED <<WsOutChans, WsChanRefs, buf, closed, made, lock, sent, closings>>

\* out <- balances, out <- positions: no lock is held, the send blocks while the
\* channel is full and panics when it is closed.
DirectSend(u) ==
  /\ pc[u] = "direct"
  /\ \/ /\ ch[u] \in closed
        /\ Goto(u, "panic")
        /\ UNCHANGED <<buf, held, locals>>
     \/ /\ ch[u] \notin closed
        /\ Len(buf[ch[u]]) < Cap
        /\ buf' = [buf EXCEPT ![ch[u]] = Append(@, 0)]
        /\ held' = [held EXCEPT ![u] = ch[u]]
        /\ Return(u)
  /\ UNCHANGED <<WsOutChans, WsChanRefs, refs, closed, made, lock, sent, closings>>

\* The application receives; a closed and drained channel ends the watch.
Receive(u) ==
  /\ held[u] # None
  /\ \/ /\ buf[held[u]] # << >>
        /\ buf' = [buf EXCEPT ![held[u]] = Tail(@)]
        /\ UNCHANGED held
     \/ /\ buf[held[u]] = << >>
        /\ held[u] \in closed
        /\ held' = [held EXCEPT ![u] = None]
        /\ UNCHANGED buf
  /\ UNCHANGED <<WsOutChans, WsChanRefs, refs, closed, made, lock, pc, key, sym,
                 ch, rm, todo, msg, sent, closings>>

-------------------------------------------------------------------------------
\* UnWatch*: DelWsChanRefs

DelLookup(u, k, s) ==
  /\ pc[u] = "idle"
  /\ WsChanRefs[k] # None   \* otherwise it returns -1
  /\ key' = [key EXCEPT ![u] = k]
  /\ sym' = [sym EXCEPT ![u] = s]
  /\ rm' = [rm EXCEPT ![u] = WsChanRefs[k]]
  /\ Goto(u, "delkeys")
  /\ UNCHANGED <<WsOutChans, WsChanRefs, refs, buf, closed, made, lock, ch, todo,
                 held, msg, sent, closings>>

DelKeys(u) ==
  /\ pc[u] = "delkeys"
  /\ refs' = [refs EXCEPT ![rm[u]] = @ \ {sym[u]}]
  /\ Goto(u, "dellen")
  /\ UNCHANGED <<WsOutChans, WsChanRefs, buf, closed, made, lock, key, sym, ch,
                 rm, todo, held, msg, sent, closings>>

\* Fault: the test on the number of references left is the wrong way round.
DelLenSwapped(u) ==
  /\ pc[u] = "dellen"
  /\ \/ refs[rm[u]] # {} /\ Goto(u, "delclose") /\ UNCHANGED locals
     \/ refs[rm[u]] = {} /\ Return(u)
  /\ UNCHANGED <<WsOutChans, WsChanRefs, refs, buf, closed, made, lock, held,
                 sent, closings>>

DelLen(u) ==
  /\ pc[u] = "dellen"
  /\ \/ refs[rm[u]] = {} /\ Goto(u, "delclose") /\ UNCHANGED locals
     \/ refs[rm[u]] # {} /\ Return(u)
  /\ UNCHANGED <<WsOutChans, WsChanRefs, refs, buf, closed, made, lock, held,
                 sent, closings>>

\* Faults: the channel is closed without looking whether there is one; it is not
\* forgotten; the lock is not taken.
CloseUnchecked(k) ==
  /\ lock = None
  /\ closed' = closed \cup {WsOutChans[k]}
  /\ WsOutChans' = [WsOutChans EXCEPT ![k] = None]
CloseNotForgotten(k) ==
  /\ lock = None
  /\ closed' = closed \cup ({WsOutChans[k]} \ {None})
  /\ UNCHANGED WsOutChans
CloseUnlocked(k) ==
  /\ closed' = closed \cup ({WsOutChans[k]} \ {None})
  /\ WsOutChans' = [WsOutChans EXCEPT ![k] = None]

\* The critical section shared by DelWsChanRefs and handleWsClientClosed: close
\* and forget the channel registered under k, if there is one.
CloseRegistered(k) ==
  /\ lock = None
  /\ closed' = closed \cup ({WsOutChans[k]} \ {None})
  /\ WsOutChans' = [WsOutChans EXCEPT ![k] = None]

DelClose(u) ==
  /\ pc[u] = "delclose"
  /\ CloseRegistered(key[u])
  /\ Return(u)
  /\ UNCHANGED <<WsChanRefs, refs, buf, made, lock, held, sent, closings>>

-------------------------------------------------------------------------------
\* Websocket read goroutines

\* WriteOutChan(chanKey, msg, popIfNeed) up to the end of its select.
WriteTry(r, k) ==
  /\ pc[r] = "idle" /\ lock = None /\ sent < MaxMsgs
  /\ sent' = sent + 1
  /\ \/ /\ WsOutChans[k] = None
        /\ UNCHANGED <<buf, lock, pc, key, ch, msg>>
     \/ /\ WsOutChans[k] # None
        /\ Len(buf[WsOutChans[k]]) < Cap
        /\ buf' = [buf EXCEPT ![WsOutChans[k]] = Append(@, sent + 1)]
        /\ UNCHANGED <<lock, pc, key, ch, msg>>
     \/ /\ WsOutChans[k] # None
        /\ Len(buf[WsOutChans[k]]) >= Cap
        /\ k \notin PopKeys
        /\ UNCHANGED <<buf, lock, pc, key, ch, msg>>
     \/ /\ WsOutChans[k] # None
        /\ Len(buf[WsOutChans[k]]) >= Cap
        /\ k \in PopKeys
        /\ lock' = r
        /\ key' = [key EXCEPT ![r] = k]
        /\ ch' = [ch EXCEPT ![r] = WsOutChans[k]]
        /\ msg' = [msg EXCEPT ![r] = sent + 1]
        /\ Goto(r, "pop")
        /\ UNCHANGED buf
  /\ UNCHANGED <<WsOutChans, WsChanRefs, refs, closed, made, sym, rm, todo, held,
                 closings>>

\* Fault: the lock is released before the blocking operations.
WritePopUnlocks(r) ==
  /\ pc[r] = "pop"
  /\ buf[ch[r]] # << >>
  /\ buf' = [buf EXCEPT ![ch[r]] = Tail(@)]
  /\ lock' = None
  /\ Goto(r, "push")
  /\ UNCHANGED <<WsOutChans, WsChanRefs, refs, closed, made, key, sym, ch,
                 rm, todo, held, msg, sent, closings>>

\* <-out: takes the earliest message, blocks while the channel is empty.
WritePop(r) ==
  /\ pc[r] = "pop"
  /\ buf[ch[r]] # << >>
  /\ buf' = [buf EXCEPT ![ch[r]] = Tail(@)]
  /\ Goto(r, "push")
  /\ UNCHANGED <<WsOutChans, WsChanRefs, refs, closed, made, lock, key, sym, ch,
                 rm, todo, held, msg, sent, closings>>

\* Fault: a path that does not unlock.
WritePushKeepsLock(r) ==
  /\ pc[r] = "push"
  /\ Len(buf[ch[r]]) < Cap
  /\ buf' = [buf EXCEPT ![ch[r]] = Append(@, msg[r])]
  /\ Return(r)
  /\ UNCHANGED <<WsOutChans, WsChanRefs, refs, closed, made, lock, held, sent,
                 closings>>

\* out <- msg, then unlock.
WritePush(r) ==
  /\ pc[r] = "push"
  /\ Len(buf[ch[r]]) < Cap
  /\ buf' = [buf EXCEPT ![ch[r]] = Append(@, msg[r])]
  /\ lock' = None
  /\ Return(r)
  /\ UNCHANGED <<WsOutChans, WsChanRefs, refs, closed, made, held, sent, closings>>

\* handleWsClientClosed: the chanKeys of the client that have references now.
ClosedStart(r) ==
  /\ pc[r] = "idle" /\ closings < MaxClosings
  /\ closings' = closings + 1
  /\ todo' = [todo EXCEPT ![r] = {k \in Keys : WsChanRefs[k] # None}]
  /\ Goto(r, "clnext")
  /\ UNCHANGED <<WsOutChans, WsChanRefs, refs, buf, closed, made, lock, key, sym,
                 ch, rm, held, msg, sent>>

ClosedDelRefs(r, k) ==
  /\ pc[r] = "clnext" /\ k \in todo[r]
  /\ WsChanRefs' = [WsChanRefs EXCEPT ![k] = None]
  /\ todo' = [todo EXCEPT ![r] = @ \ {k}]
  /\ key' = [key EXCEPT ![r] = k]
  /\ Goto(r, "clclose")
  /\ UNCHANGED <<WsOutChans, refs, buf, closed, made, lock, sym, ch, rm, held,
                 msg, sent, closings>>

ClosedCloseChan(r) ==
  /\ pc[r] = "clclose"
  /\ CloseRegistered(key[r])
  /\ Goto(r, "clnext")
  /\ UNCHANGED <<WsChanRefs, refs, buf, made, lock, key, sym, ch, rm, todo, held,
                 msg, sent, closings>>

ClosedEnd(r) ==
  /\ pc[r] = "clnext" /\ todo[r] = {}
  /\ Return(r)
  /\ UNCHANGED <<WsOutChans, WsChanRefs, refs, buf, closed, made, lock, held,
                 sent, closings>>

\* Fault: Close does not forget the channels.
ExgCloseKeeps(u) ==
  /\ pc[u] = "idle" /\ lock = None
  /\ closed' = closed \cup ({WsOutChans[k] : k \in Keys} \ {None})
  /\ UNCHANGED <<WsOutChans, WsChanRefs, refs, buf, made, lock, pc, key, sym, ch,
                 rm, todo, held, msg, sent, closings>>

\* Exchange.Close closes and forgets every registered channel under the lock; it
\* leaves WsChanRefs alone.
ExgClose(u) ==
  /\ pc[u] = "idle" /\ lock = None
  /\ closed' = closed \cup ({WsOutChans[k] : k \in Keys} \ {None})
  /\ WsOutChans' = [k \in Keys |-> None]
  /\ UNCHANGED <<WsChanRefs, refs, buf, made, lock, pc, key, sym, ch, rm, todo,
                 held, msg, sent, closings>>

-------------------------------------------------------------------------------
\* What a goroutine does once it has entered one of the functions.
UserStep(u) ==
  \/ GetStore(u) \/ AddLookup(u) \/ AddKeys(u) \/ DirectSend(u)
  \/ DelKeys(u) \/ DelLen(u) \/ DelClose(u)

ReaderStep(r) ==
  \/ WritePop(r) \/ WritePush(r)
  \/ (\E k \in Keys : ClosedDelRefs(r, k)) \/ ClosedCloseChan(r) \/ ClosedEnd(r)

Next ==
  \/ \E u \in Users : \/ \E k \in Keys, s \in Syms : GetLookup(u, k, s) \/ DelLookup(u, k, s)
                      \/ UserStep(u) \/ Receive(u) \/ ExgClose(u)
  \/ \E r \in Readers : \/ \E k \in Keys : WriteTry(r, k)
                        \/ ClosedStart(r) \/ ReaderStep(r)

Spec == Init /\ [][Next]_vars

\* The Go scheduler runs every runnable goroutine.  sync.Mutex hands the lock to
\* a goroutine that has waited 1 ms, so a step that takes lockOutChan is strongly
\* fair.  Nothing obliges the application to call a function or to receive.
Fairness ==
  /\ \A u \in Users : SF_vars(UserStep(u))
  /\ \A r \in Readers : SF_vars(ReaderStep(r))

FairSpec == Spec /\ Fairness
-------------------------------------------------------------------------------
\* Properties

UserPcs   == {"idle", "store", "addref", "addkeys", "direct", "panic",
              "delkeys", "dellen", "delclose"}
ReaderPcs == {"idle", "pop", "push", "clnext", "clclose"}

\* Every variable has its type.
ChanTypes ==
  /\ WsOutChans \in [Keys -> Chans \cup {None}]
  /\ made \subseteq Chans /\ closed \subseteq Chans
  /\ ch \in [Procs -> Chans \cup {None}]
  /\ held \in [Users -> Chans \cup {None}]

RefTypes ==
  /\ WsChanRefs \in [Keys -> RefMaps \cup {None}]
  /\ refs \in [RefMaps -> SUBSET Syms]
  /\ rm \in [Procs -> RefMaps \cup {None}]
  /\ sym \in [Procs -> Syms \cup {None}]

CallTypes ==
  /\ pc \in [Procs -> UserPcs \cup ReaderPcs]
  /\ \A u \in Users : pc[u] \in UserPcs
  /\ \A r \in Readers : pc[r] \in ReaderPcs
  /\ key \in [Procs -> Keys \cup {None}]
  /\ todo \in [Procs -> SUBSET Keys]
  /\ lock \in Readers \cup {None}
  /\ closings \in 0 .. MaxClosings

MsgTypes ==
  /\ buf \in [Chans -> Seq(Msgs)]
  /\ msg \in [Procs -> Msgs]
  /\ sent \in Msgs

TypeOK == ChanTypes /\ RefTypes /\ CallTypes /\ MsgTypes

\* A channel that can still be found through WsOutChans is open, whatever
\* UnWatch*, a lost client and Exchange.Close do at the same time: closing and
\* forgetting a channel is one critical section, so no channel is closed twice
\* (close of a closed channel panics) and no message goes to a closed one.
RegisteredOpen == \A k \in Keys : WsOutChans[k] \notin closed

\* WriteOutChan keeps the lock during its blocking receive and send "so
\* DelWsChanRefs can't close the channel concurrently": at both, the channel is
\* still the one registered under its key, and open.
WriterHoldsOpenChan ==
  \A r \in Readers : pc[r] \in {"pop", "push"} =>
    /\ lock = r
    /\ WsOutChans[key[r]] = ch[r]
    /\ ch[r] \notin closed

\* The messages WriteOutChan leaves in a channel are in the order in which they
\* came from the websocket, also when several readers write to the channel and
\* the oldest ones are dropped.
InOrder(q) ==
  \A i, j \in DOMAIN q : i < j /\ q[i] # 0 /\ q[j] # 0 => q[i] < q[j]
BufferInOrder == \A c \in Chans : InOrder(buf[c])

\* No leak: when no call is in progress, a registered channel is used by at
\* least one symbol, so that the last UnWatch* closes it.
RegisteredInUse ==
  (\A p \in Procs : pc[p] = "idle") =>
    \A k \in Keys : WsOutChans[k] # None =>
      WsChanRefs[k] # None /\ refs[WsChanRefs[k]] # {}

\* The inductive invariant behind the four properties above.
\* Only channels that were made are registered, returned, in use or closed.
MadeChans ==
  /\ \A k \in Keys : WsOutChans[k] # None => WsOutChans[k] \in made
  /\ \A p \in Procs : ch[p] # None => ch[p] \in made
  /\ closed \subseteq made

\* Every call has the locals that its next step uses.
LocalsSet ==
  /\ \A u \in Users :
       /\ pc[u] \in UserPcs \ {"idle", "panic"} => key[u] # None /\ sym[u] # None
       /\ pc[u] \in {"store", "addref", "addkeys", "direct"} => ch[u] # None
       /\ pc[u] \in {"addkeys", "delkeys", "dellen"} => rm[u] # None
       /\ pc[u] = "idle" => rm[u] = None
  /\ \A r \in Readers :
       /\ pc[r] \in {"pop", "push"} => key[r] # None /\ ch[r] # None
       /\ pc[r] = "clclose" => key[r] # None

\* A channel made by GetWsOutChan and not stored yet is nobody else's: it is
\* open, registered under no key, and no other Watch* is about to store it.
StoreFresh ==
  \A u \in Users : pc[u] = "store" =>
    /\ ch[u] \notin closed
    /\ \A k \in Keys : WsOutChans[k] # ch[u]
    /\ \A v \in Users : v # u /\ pc[v] = "store" => ch[v] # ch[u]

ChansDistinct ==
  \A j, k \in Keys : j # k /\ WsOutChans[j] # None => WsOutChans[j] # WsOutChans[k]

\* Nothing in a channel is newer than the last message that arrived, and a
\* WriteOutChan between its receive and its send has that last message.
UpTo(q, n) == \A i \in DOMAIN q : q[i] <= n
WriterNewest ==
  /\ \A c \in Chans : UpTo(buf[c], sent)
  /\ \A r \in Readers : pc[r] \in {"pop", "push"} =>
       /\ msg[r] = sent /\ sent > 0
       /\ \A c \in Chans : UpTo(buf[c], sent - 1)

\* A map object of WsChanRefs belongs to one key for all who can reach it.
MapsOwned ==
  /\ \A j, k \in Keys : WsChanRefs[j] # None /\ WsChanRefs[j] = WsChanRefs[k] => j = k
  /\ \A u \in Users : rm[u] # None =>
       \A k \in Keys : WsChanRefs[k] = rm[u] => key[u] = k

\* While the channel of a key is registered, the key has references, or a call
\* is on its way that gives it one or closes the channel.
HasRefs(k)    == WsChanRefs[k] # None /\ refs[WsChanRefs[k]] # {}
UserOn(u, k)  ==
  /\ key[u] = k
  /\ \/ pc[u] \in {"addref", "delclose"}
     \/ pc[u] \in {"addkeys", "dellen"} /\ WsChanRefs[k] # None /\ rm[u] = WsChanRefs[k]
ClosingOn(r, k) == pc[r] = "clclose" /\ key[r] = k
Tracked ==
  \A k \in Keys : WsOutChans[k] # None =>
    \/ HasRefs(k)
    \/ \E u \in Users : UserOn(u, k)
    \/ \E r \in Readers : ClosingOn(r, k)

IInv ==
  /\ TypeOK /\ LocalsSet /\ MadeChans /\ RegisteredOpen /\ StoreFresh /\ ChansDistinct
  /\ WriterHoldsOpenChan /\ WriterNewest /\ BufferInOrder
  /\ MapsOwned /\ Tracked

\* A WriteOutChan that popped for a full channel finds it drained by the application,
\* or one that is about to push finds the first value of a Watch call in the place.
Drained  == \E r \in Readers : pc[r] = "pop" /\ buf[ch[r]] = << >>
Refilled == \E r \in Readers : pc[r] = "push" /\ Len(buf[ch[r]]) = Cap

\* Every call (Watch*, UnWatch*, WriteOutChan, handleWsClientClosed) returns, or gets
\* to the first value it sends itself, and so lockOutChan is always released; unless
\* a WriteOutChan waits forever for something to pop or for the place it has made:
\* these are the only ways in which the functions of the registry block.
CallsReturnUnlessJammed ==
  \/ \A p \in Procs : pc[p] # "idle" ~> pc[p] \in {"idle", "direct", "panic"}
  \/ <>[]Drained
  \/ <>[]Refilled

\* The module keeps the promise of ChanPromise: whatever Watch*, UnWatch*, lost
\* clients and Close do together, a channel lives as its receiver expects.
Promise == INSTANCE ChanPromise WITH open <- made \ closed, shut <- closed, box <- buf
KeepsPromise == Promise!Spec
===============================================================================
