-------------------------------- MODULE WsConn --------------------------------
(***************************************************************************)
(* One AsyncConn of a WsClient (websocket.go): the read goroutine, which   *)
(* reconnects in ReadMsg; the write goroutine, which drains send and       *)
(* control; the watchdog CheckWsTimeout, which calls ReConnect; and the    *)
(* application, which subscribes and closes.                               *)
(*                                                                         *)
(* ws.conn is replaced by the reader (under ws.lock), by the writer's      *)
(* deferred Close (under ws.lock) and by ReConnect (Close under ws.lock,   *)
(* then a dial without it).  The network and the exchange are external:    *)
(* they lose a connection at any time, answer a close frame by closing,    *)
(* and accept a dial or not.                                               *)
(***************************************************************************)
EXTENDS Naturals, Sequences, FiniteSets, Functions

CONSTANTS
  Batches,     \* subscription messages: each subscribes one batch of keys
  Conns,       \* identities of the connections ever dialled
  SendCap,     \* capacity of AsyncConn.send
  CtlCap,      \* capacity of AsyncConn.control
  Watchdog,    \* TRUE: CheckWsTimeout runs
  Closer,      \* TRUE: the application calls WsClient.Close
  OtherErrs,   \* TRUE: reads also fail with errors that ReadMsg does not know
  None         \* nil

ASSUME Assumption ==
  /\ SendCap \in Nat \ {0}
  /\ CtlCap \in Nat \ {0}
  /\ Watchdog \in BOOLEAN /\ Closer \in BOOLEAN /\ OtherErrs \in BOOLEAN
  /\ None \notin Conns

VARIABLES
  conn,        \* ws.conn
  link,        \* connection -> "new", "up", "lost" (a reconnect error), "failed"
               \*   (any other error) or "closed" (by this side)
  bye,         \* connections on which a close frame was sent
  subs,        \* connection -> batches the exchange has subscribed on it
  wlock,       \* who holds ws.lock for writing, or has announced that it waits
  rlock,       \* who holds ws.lock for reading
  send,        \* AsyncConn.send
  control,     \* AsyncConn.control
  ctl,         \* that channel: "open", "closed" or "nil"
  registered,  \* the connection is in WsClient.conns
  wanted,      \* batches with keys in SubscribeKeys
  pc,          \* program counters of reader, writer, dog, app
  use,         \* the connection object a goroutine is working with
  msg,         \* the message it is about to put into send, or took from there
  todo         \* batches that onReConnect still has to send

vars == <<conn, link, bye, subs, wlock, rlock, send, control, ctl, registered,
          wanted, pc, use, msg, todo>>
net   == <<link, bye, subs>>
queue == <<send, control, ctl, registered>>
local == <<use, msg, todo>>

Procs == {"reader", "writer", "dog", "app"}

Init ==
  \E c \in Conns :   \* newWebSocket has dialled, addConn starts the goroutines
    /\ conn = c
    /\ link = [d \in Conns |-> IF d = c THEN "up" ELSE "new"]
    /\ bye = {}
    /\ subs = [d \in Conns |-> {}]
    /\ wlock = None /\ rlock = {}
    /\ send = << >> /\ control = << >> /\ ctl = "open"
    /\ registered = TRUE
    /\ wanted = {}
    /\ pc = [p \in Procs |-> IF p \in {"reader", "writer"} THEN "top" ELSE "idle"]
    /\ use = [p \in Procs |-> None]
    /\ msg = [p \in Procs |-> None]
    /\ todo = [p \in Procs |-> {}]

At(p, l)   == pc[p] = l
Goto(p, l) == pc' = [pc EXCEPT ![p] = l]

-------------------------------------------------------------------------------
\* ws.lock: a sync.RWMutex lets no new reader in once a writer waits.

MayRead == wlock = None

Announce(p, from, to) ==
  /\ At(p, from) /\ wlock = None
  /\ wlock' = p
  /\ Goto(p, to)
  /\ UNCHANGED <<conn, net, rlock, queue, wanted, local>>

\* Fault: Lock does not wait for the goroutines that hold the lock for reading.
AcquiredAtOnce(p) == wlock = p
Acquired(p) == wlock = p /\ rlock = {}

\* The body of WebSocket.Close once it has the lock.
CloseConn(p, to) ==
  /\ Acquired(p)
  /\ link' = [c \in Conns |-> IF c = conn THEN "closed" ELSE link[c]]
  /\ conn' = None
  /\ wlock' = None
  /\ Goto(p, to)
  /\ UNCHANGED <<bye, subs, rlock, queue, wanted, local>>

\* initConn: a dial that succeeds replaces ws.conn; then onReConnect reads
\* GetSubKeys.
\* Fault: the new connection starts with no subscription to send.
DialForgets(p) ==
  /\ \E c \in Conns :
       /\ link[c] = "new"
       /\ link' = [link EXCEPT ![c] = "up"]
       /\ conn' = c
  /\ todo' = [todo EXCEPT ![p] = {}]
  /\ Goto(p, "resub")
DialOk(p) ==
  /\ \E c \in Conns :
       /\ link[c] = "new"
       /\ link' = [link EXCEPT ![c] = "up"]
       /\ conn' = c
  /\ todo' = [todo EXCEPT ![p] = wanted]
  /\ Goto(p, "resub")

\* onReConnect, batch by batch: UpdateSubs finds the connection in conns; once
\* the writer has removed it, the keys go to another connection of the client.
ResubNext(p) ==
  /\ At(p, "resub")
  /\ \E b \in todo[p] :
       /\ todo' = [todo EXCEPT ![p] = @ \ {b}]
       /\ \/ /\ registered
             /\ msg' = [msg EXCEPT ![p] = b]
             /\ Goto(p, "push")
             /\ UNCHANGED wanted
          \/ /\ ~registered
             /\ wanted' = wanted \ {b}
             /\ UNCHANGED <<msg, pc>>
  /\ UNCHANGED <<conn, net, wlock, rlock, queue, use>>

\* Write: conn.send <- data blocks while the channel is full.
Push(p, to) ==
  /\ At(p, "push")
  /\ Len(send) < SendCap
  /\ send' = Append(send, msg[p])
  /\ msg' = [msg EXCEPT ![p] = None]
  /\ Goto(p, to)
  /\ UNCHANGED <<conn, net, wlock, rlock, control, ctl, registered, wanted, use, todo>>

-------------------------------------------------------------------------------
\* The read goroutine: WsClient.read and WebSocket.ReadMsg

ReadBegin ==
  /\ At("reader", "top") /\ MayRead
  /\ \/ /\ conn # None   \* ReadMessage blocks with the read lock held
        /\ rlock' = rlock \cup {"reader"}
        /\ use' = [use EXCEPT !["reader"] = conn]
        /\ Goto("reader", "reading")
     \/ /\ conn = None
        /\ Goto("reader", "failed")
        /\ UNCHANGED <<rlock, use>>
  /\ UNCHANGED <<conn, net, wlock, queue, wanted, msg, todo>>

ReadEnd(l) ==
  /\ rlock' = rlock \ {"reader"}
  /\ use' = [use EXCEPT !["reader"] = None]
  /\ Goto("reader", l)
  /\ UNCHANGED <<conn, net, wlock, queue, wanted, msg, todo>>

\* A message comes in, is handled, and the loop goes on.
ReadOk   == At("reader", "reading") /\ link[use["reader"]] = "up" /\ ReadEnd("top")
\* Fault: the read lock of ReadMessage is not given back before Lock.
ReadLostKeeps ==
  /\ At("reader", "reading") /\ link[use["reader"]] = "lost"
  /\ Goto("reader", "lock")
  /\ UNCHANGED <<conn, net, wlock, rlock, queue, wanted, local>>

\* A close error of any code, EOF, a reset or a timed out connection.
ReadLost == At("reader", "reading") /\ link[use["reader"]] = "lost" /\ ReadEnd("lock")
ReadFail ==
  /\ At("reader", "reading") /\ link[use["reader"]] \in {"failed", "closed"}
  /\ ReadEnd("failed")

ReadLock == Announce("reader", "lock", "dial")

ReadDialOk ==
  /\ At("reader", "dial") /\ Acquired("reader")
  /\ DialOk("reader")
  /\ UNCHANGED <<bye, subs, wlock, rlock, queue, wanted, use, msg>>

ReadDialFail ==
  /\ At("reader", "dial") /\ Acquired("reader")
  /\ conn' = None
  /\ wlock' = None
  /\ Goto("reader", "failed")
  /\ UNCHANGED <<net, rlock, queue, wanted, local>>

\* Fault: the lock of Close is not given back.
ReadResubKeeps ==
  /\ At("reader", "resub") /\ todo["reader"] = {}
  /\ Goto("reader", "top")
  /\ UNCHANGED <<conn, net, wlock, rlock, queue, wanted, local>>

ReadResubDone ==
  /\ At("reader", "resub") /\ todo["reader"] = {}
  /\ wlock' = None
  /\ Goto("reader", "top")
  /\ UNCHANGED <<conn, net, rlock, queue, wanted, local>>

\* onReConnect fails when no other connection can be made for the keys; the new
\* connection is forgotten, not closed.
ReadResubFail ==
  /\ At("reader", "resub") /\ todo["reader"] # {} /\ ~registered
  /\ conn' = None
  /\ wlock' = None
  /\ todo' = [todo EXCEPT !["reader"] = {}]
  /\ Goto("reader", "failed")
  /\ UNCHANGED <<net, rlock, queue, wanted, use, msg>>

\* read() asks IsOK after an error: OnError and on, or OnClose and stop.
ReadFailed ==
  /\ At("reader", "failed") /\ MayRead
  /\ Goto("reader", IF conn = None THEN "stop" ELSE "top")
  /\ UNCHANGED <<conn, net, wlock, rlock, queue, wanted, local>>

\* if conn.control != nil { conn.control <- v }: the check ...
CheckCtl(p, from, to, else) ==
  /\ At(p, from)
  /\ Goto(p, IF ctl # "nil" THEN to ELSE else)
  /\ UNCHANGED <<conn, net, wlock, rlock, queue, wanted, local>>

\* ... and the send, which panics on a closed channel and blocks on a nil one.
SendCtl(p, from, v, to) ==
  /\ At(p, from)
  /\ \/ /\ ctl = "open" /\ Len(control) < CtlCap
        /\ control' = Append(control, v)
        /\ Goto(p, to)
     \/ /\ ctl = "closed"
        /\ Goto(p, "panic")
        /\ UNCHANGED control
  /\ UNCHANGED <<conn, net, wlock, rlock, send, ctl, registered, wanted, local>>

\* Fault: the reader stops without telling the writer.
ReadStopSilent == CheckCtl("reader", "stop", "done", "done")
ReadStop == CheckCtl("reader", "stop", "tell", "done")
ReadTell == SendCtl("reader", "tell", "closed", "done")

-------------------------------------------------------------------------------
\* The write goroutine: WsClient.write, NextWriter, WriteClose

WriteCtl ==
  /\ At("writer", "top") /\ control # << >>
  /\ control' = Tail(control)
  /\ Goto("writer", IF Head(control) = "closed" THEN "exit" ELSE "bye")
  /\ UNCHANGED <<conn, net, wlock, rlock, send, ctl, registered, wanted, local>>

WriteTake ==
  /\ At("writer", "top") /\ send # << >>
  /\ msg' = [msg EXCEPT !["writer"] = Head(send)]
  /\ send' = Tail(send)
  /\ Goto("writer", "next")
  /\ UNCHANGED <<conn, net, wlock, rlock, control, ctl, registered, wanted, use, todo>>

\* NextWriter returns a writer of the present connection, or fails.
WriteNext ==
  /\ At("writer", "next") /\ MayRead
  /\ \/ /\ conn # None
        /\ use' = [use EXCEPT !["writer"] = conn]
        /\ Goto("writer", "flush")
        /\ UNCHANGED msg
     \/ /\ conn # None => link[conn] # "up"
        /\ msg' = [msg EXCEPT !["writer"] = None]
        /\ Goto("writer", "exit")
        /\ UNCHANGED use
  /\ UNCHANGED <<conn, net, wlock, rlock, queue, wanted, todo>>

\* w.Write and w.Close run without the lock; a lost connection may still take
\* the bytes.
WriteFlush ==
  /\ At("writer", "flush")
  /\ use' = [use EXCEPT !["writer"] = None]
  /\ msg' = [msg EXCEPT !["writer"] = None]
  /\ \/ /\ link[use["writer"]] = "up"
        /\ subs' = [subs EXCEPT ![use["writer"]] = @ \cup {msg["writer"]}]
        /\ Goto("writer", "top")
     \/ /\ link[use["writer"]] \in {"lost", "failed"}
        /\ Goto("writer", "top")
        /\ UNCHANGED subs
     \/ /\ link[use["writer"]] # "up"
        /\ Goto("writer", "exit")
        /\ UNCHANGED subs
  /\ UNCHANGED <<conn, link, bye, wlock, rlock, queue, wanted, todo>>

WriteBye ==
  /\ At("writer", "bye") /\ MayRead
  /\ \/ /\ conn = None
        /\ Goto("writer", "top")
        /\ UNCHANGED bye
     \/ /\ conn # None
        /\ bye' = bye \cup {conn}
        /\ Goto("writer", "top")
     \/ /\ conn # None /\ link[conn] # "up"
        /\ Goto("writer", "exit")
        /\ UNCHANGED bye
  /\ UNCHANGED <<conn, link, subs, wlock, rlock, queue, wanted, local>>

\* The deferred function: Close, then control, then conns.
WriteExit ==
  /\ At("writer", "exit")
  /\ Goto("writer", IF conn = None THEN "closectl" ELSE "lock")
  /\ UNCHANGED <<conn, net, wlock, rlock, queue, wanted, local>>

WriteLock  == Announce("writer", "lock", "close")
WriteClose == At("writer", "close") /\ CloseConn("writer", "closectl")

WriteCloseCtl ==
  /\ At("writer", "closectl")
  /\ ctl' = "closed"
  /\ Goto("writer", "nilctl")
  /\ UNCHANGED <<conn, net, wlock, rlock, send, control, registered, wanted, local>>

WriteNilCtl ==
  /\ At("writer", "nilctl")
  /\ ctl' = "nil"
  /\ Goto("writer", "remove")
  /\ UNCHANGED <<conn, net, wlock, rlock, send, control, registered, wanted, local>>

WriteRemove ==
  /\ At("writer", "remove")
  /\ registered' = FALSE
  /\ Goto("writer", "done")
  /\ UNCHANGED <<conn, net, wlock, rlock, send, control, ctl, wanted, local>>

-------------------------------------------------------------------------------
\* CheckWsTimeout found that most keys of the connection get no messages:
\* ReSubsAll finds it in conns and calls ReConnect.

DogBegin ==
  /\ Watchdog /\ At("dog", "idle") /\ registered /\ wanted # {}
  /\ Goto("dog", IF conn = None THEN "dial" ELSE "lock")
  /\ UNCHANGED <<conn, net, wlock, rlock, queue, wanted, local>>

DogLock  == Announce("dog", "lock", "close")
DogClose == At("dog", "close") /\ CloseConn("dog", "dial")

DogDialOk ==   \* without the lock
  /\ At("dog", "dial")
  /\ DialOk("dog")
  /\ UNCHANGED <<bye, subs, wlock, rlock, queue, wanted, use, msg>>

DogDialFail ==
  /\ At("dog", "dial")
  /\ Goto("dog", "idle")
  /\ UNCHANGED <<conn, net, wlock, rlock, queue, wanted, local>>

DogResubDone ==   \* or onReConnect failed
  /\ At("dog", "resub") /\ (todo["dog"] = {} \/ ~registered)
  /\ todo' = [todo EXCEPT !["dog"] = {}]
  /\ Goto("dog", "idle")
  /\ UNCHANGED <<conn, net, wlock, rlock, queue, wanted, use, msg>>

-------------------------------------------------------------------------------
\* The application

\* UpdateSubs records the keys, then Write sends.
AppSubscribe ==
  /\ At("app", "idle") /\ registered
  /\ \E b \in Batches \ wanted :
       /\ wanted' = wanted \cup {b}
       /\ msg' = [msg EXCEPT !["app"] = b]
  /\ Goto("app", "push")
  /\ UNCHANGED <<conn, net, wlock, rlock, queue, use, todo>>

\* WsClient.Close, after which the application makes no more calls.
AppClose ==
  /\ Closer /\ registered
  /\ CheckCtl("app", "idle", "tell", "done")
AppTell == SendCtl("app", "tell", "doClose", "done")

-------------------------------------------------------------------------------
\* The network and the exchange

Lose ==
  /\ \E c \in Conns, l \in {"lost"} \cup (IF OtherErrs THEN {"failed"} ELSE {}) :
       link[c] = "up" /\ link' = [link EXCEPT ![c] = l]
  /\ UNCHANGED <<conn, bye, subs, wlock, rlock, queue, wanted, pc, local>>

AnswerBye ==
  /\ \E c \in bye : link[c] = "up" /\ link' = [link EXCEPT ![c] = "lost"]
  /\ UNCHANGED <<conn, bye, subs, wlock, rlock, queue, wanted, pc, local>>

-------------------------------------------------------------------------------
\* ReadOk is not here: nothing obliges the exchange to send a message.
ReaderStep ==
  \/ ReadBegin \/ ReadLost \/ ReadFail \/ ReadLock \/ ReadDialOk \/ ReadDialFail
  \/ ResubNext("reader") \/ Push("reader", "resub") \/ ReadResubDone \/ ReadResubFail
  \/ ReadFailed \/ ReadStop \/ ReadTell

WriterStep ==
  \/ WriteCtl \/ WriteTake \/ WriteNext \/ WriteFlush \/ WriteBye
  \/ WriteExit \/ WriteLock \/ WriteClose \/ WriteCloseCtl \/ WriteNilCtl \/ WriteRemove

DogStep ==
  \/ DogLock \/ DogClose \/ DogDialOk \/ DogDialFail
  \/ ResubNext("dog") \/ Push("dog", "resub") \/ DogResubDone

AppStep == Push("app", "idle") \/ AppTell

Next ==
  \/ ReaderStep \/ ReadOk \/ WriterStep
  \/ DogBegin \/ DogStep
  \/ AppSubscribe \/ AppClose \/ AppStep
  \/ Lose \/ AnswerBye

Spec == Init /\ [][Next]_vars

\* Goroutines that can run do run; a waiter of ws.lock is not overtaken forever
\* (sync.RWMutex, starvation mode of sync.Mutex); a closing exchange answers the
\* close frame.  Nothing is assumed of messages, of losses or of the callers.
Fairness ==
  /\ SF_vars(ReaderStep) /\ SF_vars(WriterStep) /\ SF_vars(DogStep) /\ SF_vars(AppStep)
  /\ WF_vars(AnswerBye)

FairSpec == Spec /\ Fairness
-------------------------------------------------------------------------------
\* Properties

\* Close waits for ReadMessage: nobody on this side closes the connection the
\* reader is blocked on (gorilla forbids a read of a closed connection, and
\* panics when it is repeated).
NoCloseUnderRead == At("reader", "reading") => link[use["reader"]] # "closed"

Open == conn # None /\ link[conn] = "up"

\* Resumption of subscriptions, as a state: when all four goroutines are at rest
\* and the reader waits on an open connection, the exchange has every batch the
\* client wants on that very connection, however often it was lost and dialled.
AtRest ==
  /\ Open /\ At("reader", "reading") /\ use["reader"] = conn
  /\ At("writer", "top") /\ send = << >> /\ control = << >>
  /\ pc["dog"] = "idle" /\ pc["app"] \in {"idle", "done"}
Resumed == AtRest => wanted \subseteq subs[conn]

\* Why: while the writer goes on, each wanted batch is on the connection in use, or a
\* message with it will be written there: it is in send, or with somebody who is about
\* to put it there, or left over for an onReConnect.
Writing == pc["writer"] \in {"top", "next", "flush", "bye"}
Coming(b) ==
  \/ b \in subs[conn]
  \/ b \in Range(send)
  \/ \E p \in Procs \ {"writer"} : At(p, "push") /\ msg[p] = b
  \/ \E p \in {"reader", "dog"} : pc[p] \in {"resub", "push"} /\ b \in todo[p]
  \/ At("writer", "next") /\ msg["writer"] = b
  \/ At("writer", "flush") /\ msg["writer"] = b /\ use["writer"] = conn
Resuming ==
  /\ ~registered => At("writer", "done")
  /\ Open /\ Writing => \A b \in wanted : Coming(b)

\* p waits for room in send for ever: the writer, who alone makes room, has ended,
\* or waits for ws.lock, which the reader holds for writing while it runs
\* onReConnect (for NextWriter, for WriteClose, or for the Close of its end).
WriterHeld ==
  \/ At("writer", "done")
  \/ wlock = "reader" /\ pc["writer"] \in {"next", "bye", "lock"}
Jammed(p) == At(p, "push") /\ Len(send) = SendCap /\ WriterHeld

\* A reader that has begun to reconnect gets out of ReadMsg's critical section, on a
\* new connection or with an error: it waits neither for the goroutines that held
\* ws.lock, nor for the other one that dials, nor for the writer, except in one way:
\* onReConnect sends into a full channel whose writer waits for that very lock
\* (websocket.go:180), and then everybody waits for ever.
ReconnectReturns ==
  \/ At("reader", "dial") ~> pc["reader"] \in {"top", "failed"}
  \/ <>[]Jammed("reader")

\* The two goroutines end together: when the reader gives up, the writer stops and
\* takes the connection out of WsClient.conns.
WriterFollowsReader == At("reader", "stop") ~> ~registered

\* binance/biz.go:1306 "If a timeout occurs, automatically reconnect": ReConnect of
\* the watchdog comes back; but its Close waits for the read lock, and so for ever
\* if the reader does in ReadMessage, on a connection that is silent and never fails;
\* or it, or the reader it waits for, is stuck at a full send.
DogReturns ==
  \/ At("dog", "lock") ~> At("dog", "idle")
  \/ <>[]At("reader", "reading")
  \/ <>[](Jammed("dog") \/ Jammed("reader"))

\* readme.md:13 "Automatic reconnection and resumption of subscriptions": after the
\* reader has dialled, the new connection gets every subscription, unless it is
\* lost too.
LossResumes == At("reader", "resub") ~> (Open => wanted \subseteq subs[conn])
===============================================================================
