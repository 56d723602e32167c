------------------------------ MODULE WsConnProofs ------------------------------
(***************************************************************************)
(* Proofs about WsConn, for every set of batches and of connections and    *)
(* every capacity: nobody closes the connection that the reader waits on,  *)
(* and subscriptions are resumed on whichever connection is dialled last.  *)
(***************************************************************************)
EXTENDS WsConn, TLAPS, SequenceTheorems

\* Where a goroutine can be.
Places == {"idle", "top", "reading", "lock", "dial", "resub", "push", "failed", "stop", "tell",
           "done", "panic", "next", "flush", "bye", "exit", "close", "closectl", "nilctl",
           "remove"}

\* The types of the variables the argument needs.
Types ==
  /\ conn \in Conns \cup {None}
  /\ link \in [Conns -> {"new", "up", "lost", "failed", "closed"}]
  /\ pc \in [Procs -> Places]
  /\ use \in [Procs -> Conns \cup {None}]

\* The reader waits for a message with ws.lock held for reading, on a connection
\* that was ws.conn when it took the lock.
ReaderLocked == At("reader", "reading") => "reader" \in rlock /\ use["reader"] \in Conns

\* ws.conn is never a connection that was closed: Close forgets what it closes.
ConnUsable == conn # None => link[conn] # "closed"

IInv == Types /\ ReaderLocked /\ ConnUsable /\ NoCloseUnderRead

\* A step that leaves the reader where it is, the reader's hold on the lock and
\* every state of a connection keeps the invariant.
LEMMA QuietStep ==
  ASSUME IInv, UNCHANGED <<conn, link, rlock>>,
         pc' \in [Procs -> Places], pc'["reader"] = "reading" => pc["reader"] = "reading",
         use' \in [Procs -> Conns \cup {None}], use'["reader"] = use["reader"]
  PROVE  IInv'
BY DEF IInv, Types, ReaderLocked, ConnUsable, NoCloseUnderRead, At

\* So does one in which the reader is not, or no longer, waiting for a message,
\* and ws.conn is forgotten or has not been closed.
LEMMA AwayStep ==
  ASSUME IInv, conn' \in Conns \cup {None},
         link' \in [Conns -> {"new", "up", "lost", "failed", "closed"}],
         pc' \in [Procs -> Places], use' \in [Procs -> Conns \cup {None}],
         pc'["reader"] # "reading", conn' # None => link'[conn'] # "closed"
  PROVE  IInv'
BY DEF IInv, Types, ReaderLocked, ConnUsable, NoCloseUnderRead, At

\* So does a connection that is lost, or one that is dialled, while the reader waits.
LEMMA LinkStep ==
  ASSUME IInv, NEW c \in Conns, NEW l \in {"up", "lost", "failed"},
         link' = [link EXCEPT ![c] = l], conn' = conn \/ conn' = c,
         pc' \in [Procs -> Places], pc'["reader"] = "reading" => pc["reader"] = "reading",
         UNCHANGED <<rlock, use>>
  PROVE  IInv'
BY Assumption DEF IInv, Types, ReaderLocked, ConnUsable, NoCloseUnderRead, At

\* Close waits until nobody holds the lock for reading, the reader included.
LEMMA CloseStep ==
  ASSUME IInv, NEW p \in {"writer", "dog"}, NEW l \in Places, CloseConn(p, l)
  PROVE  IInv'
<1> USE DEF CloseConn, Acquired, Goto, IInv, Types, ReaderLocked, At, local, Procs, Places
<1>1. pc["reader"] # "reading"
  OBVIOUS
<1>2. pc'["reader"] # "reading"
  BY <1>1
<1>3. link' \in [Conns -> {"new", "up", "lost", "failed", "closed"}]
  OBVIOUS
<1>4. conn' = None /\ pc' \in [Procs -> Places] /\ use' \in [Procs -> Conns \cup {None}]
  OBVIOUS
<1>5. QED
  BY <1>2, <1>3, <1>4, AwayStep

\* A dial makes its connection ws.conn.
LEMMA DialStep ==
  ASSUME IInv, NEW p \in {"reader", "dog"}, DialOk(p), UNCHANGED <<rlock, use>>
  PROVE  IInv'
<1>1. PICK c \in Conns : link' = [link EXCEPT ![c] = "up"] /\ conn' = c
  BY DEF DialOk
<1>2. pc' \in [Procs -> Places] /\ (pc'["reader"] = "reading" => pc["reader"] = "reading")
  BY DEF DialOk, Goto, IInv, Types, Procs, Places
<1>3. QED
  BY <1>1, <1>2, LinkStep

-------------------------------------------------------------------------------
\* The steps of the reader.
LEMMA ReaderKeeps == IInv /\ (ReaderStep \/ ReadOk) => IInv'
<1> SUFFICES ASSUME IInv, ReaderStep \/ ReadOk PROVE IInv'
  OBVIOUS
<1>t. Types
  BY DEF IInv
<1> USE <1>t DEF Goto, At, local, net, queue, Procs, Places
<1>1. CASE ReadBegin
  <2>1. CASE conn = None
    BY <1>1, <2>1, AwayStep DEF ReadBegin, IInv, Types
  <2>2. CASE conn # None
    <3>1. rlock' = rlock \cup {"reader"} /\ use' = [use EXCEPT !["reader"] = conn]
      BY <1>1, <2>2 DEF ReadBegin
    <3>2. use'["reader"] = conn /\ conn \in Conns /\ use' \in [Procs -> Conns \cup {None}]
      BY <3>1, <2>2 DEF Types
    <3>3. pc' \in [Procs -> Places] /\ UNCHANGED <<conn, link>>
      BY <1>1, <2>2 DEF ReadBegin, Types
    <3>4. QED
      BY <2>2, <3>1, <3>2, <3>3 DEF IInv, Types, ReaderLocked, ConnUsable, NoCloseUnderRead
  <2>3. QED
    BY <2>1, <2>2
<1>2. CASE ReadOk \/ ReadLost \/ ReadFail
  <2>1. pc' \in [Procs -> Places] /\ use' \in [Procs -> Conns \cup {None}]
        /\ UNCHANGED <<conn, link>> /\ pc'["reader"] # "reading"
    BY <1>2 DEF ReadOk, ReadLost, ReadFail, ReadEnd, Types
  <2>2. QED
    BY <2>1, AwayStep DEF IInv, Types, ConnUsable
<1>3. CASE ReadLock
  BY <1>3, QuietStep DEF ReadLock, Announce, Types
<1>4. CASE ReadDialOk
  BY <1>4, DialStep DEF ReadDialOk
<1>5. CASE ReadDialFail
  BY <1>5, AwayStep DEF ReadDialFail, Types
<1>6. CASE ResubNext("reader")
  BY <1>6, QuietStep DEF ResubNext, Types
<1>7. CASE Push("reader", "resub")
  BY <1>7, QuietStep DEF Push, Types
<1>8. CASE ReadResubDone
  BY <1>8, QuietStep DEF ReadResubDone, Types
<1>9. CASE ReadResubFail
  BY <1>9, AwayStep DEF ReadResubFail, Types
<1>10. CASE ReadFailed
  BY <1>10, QuietStep DEF ReadFailed, Types
<1>11. CASE ReadStop
  BY <1>11, QuietStep DEF ReadStop, CheckCtl, Types
<1>12. CASE ReadTell
  BY <1>12, QuietStep DEF ReadTell, SendCtl, Types
<1>13. QED
  BY <1>1, <1>2, <1>3, <1>4, <1>5, <1>6, <1>7, <1>8, <1>9, <1>10, <1>11, <1>12 DEF ReaderStep

\* The steps of the writer.
LEMMA WriterKeeps == IInv /\ WriterStep => IInv'
<1> SUFFICES ASSUME IInv, WriterStep PROVE IInv'
  OBVIOUS
<1>t. Types
  BY DEF IInv
<1> USE <1>t DEF Goto, At, local, net, queue, Procs, Places
<1>1. CASE WriteClose
  BY <1>1, CloseStep DEF WriteClose
<1>2. CASE WriteNext
  BY <1>2, QuietStep DEF WriteNext, Types
<1>3. CASE WriteFlush
  BY <1>3, QuietStep DEF WriteFlush, Types
<1>4. CASE WriteCtl \/ WriteTake \/ WriteBye
  BY <1>4, QuietStep DEF WriteCtl, WriteTake, WriteBye, Types
<1>5. CASE WriteExit \/ WriteLock
  BY <1>5, QuietStep DEF WriteExit, WriteLock, Announce, Types
<1>6. CASE WriteCloseCtl \/ WriteNilCtl \/ WriteRemove
  BY <1>6, QuietStep DEF WriteCloseCtl, WriteNilCtl, WriteRemove, Types
<1>7. QED
  BY <1>1, <1>2, <1>3, <1>4, <1>5, <1>6 DEF WriterStep

\* The steps of the watchdog.
LEMMA DogKeeps == IInv /\ (DogBegin \/ DogStep) => IInv'
<1> SUFFICES ASSUME IInv, DogBegin \/ DogStep PROVE IInv'
  OBVIOUS
<1>t. Types
  BY DEF IInv
<1> USE <1>t DEF Goto, At, local, net, queue, Procs, Places
<1>1. CASE DogClose
  BY <1>1, CloseStep DEF DogClose
<1>2. CASE DogDialOk
  BY <1>2, DialStep DEF DogDialOk
<1>3. CASE DogBegin \/ DogLock \/ DogDialFail
  BY <1>3, QuietStep DEF DogBegin, DogLock, Announce, DogDialFail, Types
<1>4. CASE ResubNext("dog") \/ Push("dog", "resub") \/ DogResubDone
  BY <1>4, QuietStep DEF ResubNext, Push, DogResubDone, Types
<1>5. QED
  BY <1>1, <1>2, <1>3, <1>4 DEF DogStep

\* The steps of the application, and those of the network and the exchange.
LEMMA OthersKeep == IInv /\ (AppSubscribe \/ AppClose \/ AppStep \/ Lose \/ AnswerBye) => IInv'
<1> SUFFICES ASSUME IInv, AppSubscribe \/ AppClose \/ AppStep \/ Lose \/ AnswerBye PROVE IInv'
  OBVIOUS
<1>t. Types
  BY DEF IInv
<1> USE <1>t DEF Goto, At, local, net, queue, Procs, Places
<1>1. CASE AppSubscribe
  BY <1>1, QuietStep DEF AppSubscribe, Types
<1>2. CASE AppClose
  BY <1>2, QuietStep DEF AppClose, CheckCtl, Types
<1>3. CASE AppStep
  BY <1>3, QuietStep DEF AppStep, Push, AppTell, SendCtl, Types
<1>4. CASE Lose
  <2>1. PICK c \in Conns, l \in {"lost", "failed"} : link' = [link EXCEPT ![c] = l]
    BY <1>4 DEF Lose
  <2>2. UNCHANGED <<conn, rlock, pc, use>>
    BY <1>4 DEF Lose
  <2>3. QED
    BY <2>1, <2>2, LinkStep DEF Types
<1>5. CASE AnswerBye
  <2>1. PICK c \in bye : link[c] = "up" /\ link' = [link EXCEPT ![c] = "lost"]
    BY <1>5 DEF AnswerBye
  <2>2. UNCHANGED <<conn, rlock, pc, use>>
    BY <1>5 DEF AnswerBye
  <2>3. CASE c \in Conns
    BY <2>1, <2>2, <2>3, LinkStep DEF Types
  <2>4. CASE c \notin Conns
    BY <2>1, <2>2, <2>4, QuietStep DEF Types
  <2>5. QED
    BY <2>3, <2>4
<1>6. QED
  BY <1>1, <1>2, <1>3, <1>4, <1>5

-------------------------------------------------------------------------------
\* The types of what the subscriptions travel through.
Messages == Batches \cup {None}
Payload ==
  /\ send \in Seq(Messages)
  /\ msg \in [Procs -> Messages]
  /\ todo \in [Procs -> SUBSET Batches]
  /\ subs \in [Conns -> SUBSET Messages]
  /\ wanted \subseteq Batches

\* What an append adds to the elements of a sequence.
LEMMA RangeAppend ==
  ASSUME NEW T, NEW s \in Seq(T), NEW e \in T
  PROVE  Range(Append(s, e)) = Range(s) \cup {e}
<1>1. <<e>> \in Seq(T) /\ Range(<<e>>) = {e}
  BY DEF Range
<1>2. Append(s, e) = s \o <<e>>
  BY AppendIsConcat
<1>3. Range(s \o <<e>>) = Range(s) \cup Range(<<e>>)
  BY ZenonT(30), <1>1, RangeConcatenation
<1>4. QED
  BY <1>1, <1>2, <1>3

\* The elements of a sequence are its head and those of its tail.
LEMMA RangeTail ==
  ASSUME NEW T, NEW s \in Seq(T), s # << >>
  PROVE  Range(s) = {Head(s)} \cup Range(Tail(s)) /\ Head(s) \in Range(s)
<1>1. <<Head(s)>> \in Seq(T) /\ Tail(s) \in Seq(T) /\ Range(<<Head(s)>>) = {Head(s)}
  BY HeadTailProperties DEF Range
<1>2. s = <<Head(s)>> \o Tail(s)
  OBVIOUS
<1>3. Range(s) = Range(<<Head(s)>>) \cup Range(Tail(s))
  <2>1. ASSUME NEW u \in Seq(T), NEW v \in Seq(T), s = u \o v PROVE Range(s) = Range(u) \cup Range(v)
    BY ZenonT(30), <2>1, RangeConcatenation
  <2>2. QED
    BY <1>1, <1>2, <2>1, Zenon
<1>4. QED
  BY <1>1, <1>3, Zenon

\* Nothing is in the empty sequence.
LEMMA RangeEmpty == ASSUME NEW s, s = << >> PROVE Range(s) = {}
BY DEF Range

\* Every step keeps those types.
LEMMA PayloadStep == IInv /\ Payload /\ [Next]_vars => Payload'
<1> SUFFICES ASSUME IInv, Payload, [Next]_vars PROVE Payload'
  OBVIOUS
<1> USE DEF Payload, Messages, Procs, local, net, queue
<1>1. ASSUME NEW p \in Procs, ResubNext(p) PROVE Payload'
  BY <1>1 DEF ResubNext, Goto
<1>2. ASSUME NEW p \in Procs, NEW l, Push(p, l) PROVE Payload'
  BY <1>2 DEF Push
<1>3. ASSUME NEW p \in Procs, DialOk(p), UNCHANGED <<subs, send, wanted, msg>> PROVE Payload'
  BY <1>3 DEF DialOk
<1>4. CASE ReaderStep \/ ReadOk
  <2>1. CASE ReadDialOk
    BY <2>1, <1>3 DEF ReadDialOk
  <2>2. CASE ReadResubFail
    BY <2>2 DEF ReadResubFail
  <2>3. CASE ReadBegin \/ ReadLost \/ ReadFail \/ ReadOk \/ ReadLock \/ ReadDialFail
    BY <2>3 DEF ReadBegin, ReadLost, ReadFail, ReadOk, ReadEnd, ReadLock, Announce, ReadDialFail
  <2>4. CASE ReadResubDone \/ ReadFailed \/ ReadStop \/ ReadTell
    BY <2>4 DEF ReadResubDone, ReadFailed, ReadStop, ReadTell, CheckCtl, SendCtl
  <2>5. QED
    BY <1>1, <1>2, <1>4, <2>1, <2>2, <2>3, <2>4 DEF ReaderStep
<1>5. CASE WriterStep
  <2>1. CASE WriteTake
    BY <2>1, HeadTailProperties DEF WriteTake
  <2>2. CASE WriteNext
    BY <2>2 DEF WriteNext
  <2>3. CASE WriteFlush
    BY <2>3 DEF WriteFlush
  <2>4. CASE WriteCtl \/ WriteBye \/ WriteExit \/ WriteLock \/ WriteClose
    BY <2>4 DEF WriteCtl, WriteBye, WriteExit, WriteLock, Announce, WriteClose, CloseConn
  <2>5. CASE WriteCloseCtl \/ WriteNilCtl \/ WriteRemove
    BY <2>5 DEF WriteCloseCtl, WriteNilCtl, WriteRemove
  <2>6. QED
    BY <1>5, <2>1, <2>2, <2>3, <2>4, <2>5 DEF WriterStep
<1>6. CASE DogBegin \/ DogStep
  <2>1. CASE DogDialOk
    BY <2>1, <1>3 DEF DogDialOk
  <2>2. CASE DogResubDone
    BY <2>2 DEF DogResubDone
  <2>3. CASE DogBegin \/ DogLock \/ DogClose \/ DogDialFail
    BY <2>3 DEF DogBegin, DogLock, Announce, DogClose, CloseConn, DogDialFail
  <2>4. QED
    BY <1>1, <1>2, <1>6, <2>1, <2>2, <2>3 DEF DogStep
<1>7. CASE AppSubscribe
  BY <1>7 DEF AppSubscribe
<1>8. CASE AppClose \/ AppStep
  BY <1>2, <1>8 DEF AppClose, CheckCtl, AppStep, AppTell, SendCtl
<1>9. CASE Lose \/ AnswerBye
  BY <1>9 DEF Lose, AnswerBye
<1>10. CASE UNCHANGED vars
  BY <1>10 DEF vars
<1>11. QED
  BY <1>4, <1>5, <1>6, <1>7, <1>8, <1>9, <1>10 DEF Next

\* A goroutine that is not resubscribing, writing or pushing goes somewhere else.
LEMMA MoveStep ==
  ASSUME IInv, Resuming, NEW p \in Procs, NEW l \in Places \ {"next", "flush"}, pc' = [pc EXCEPT ![p] = l],
         pc[p] \notin {"resub", "push", "next", "flush", "done"}, Open' => Open,
         p = "writer" => (l \in {"top", "bye"} => Writing),
         use'["writer"] = use["writer"],
         UNCHANGED <<conn, subs, send, registered, wanted, msg, todo>>
  PROVE  Resuming'
<1>1. \A q \in Procs : pc'[q] = IF q = p THEN l ELSE pc[q]
  BY DEF IInv, Types
<1>2. ~registered' => At("writer", "done")'
  BY <1>1 DEF Resuming, At, Procs
<1>3. ASSUME NEW b, Coming(b) PROVE Coming(b)'
  BY <1>1, <1>3 DEF Coming, At, Procs
<1>4. QED
  BY <1>1, <1>2, <1>3 DEF Resuming, Writing, Procs

\* While there is no open connection nothing is to be resumed.
LEMMA DownStep ==
  ASSUME Resuming, ~Open' \/ ~Writing', registered' \in {registered, FALSE},
         ~registered' => At("writer", "done")' \/ (~registered /\ UNCHANGED pc["writer"])
  PROVE  Resuming'
BY DEF Resuming, At

\* onReConnect takes the next batch, or gives it to another connection.
LEMMA NextBatchStep ==
  ASSUME IInv, Payload, Resuming, NEW p \in {"reader", "dog"}, ResubNext(p) PROVE Resuming'
<1>1. PICK b \in todo[p] :
        /\ todo' = [todo EXCEPT ![p] = @ \ {b}]
        /\ \/ registered /\ msg' = [msg EXCEPT ![p] = b] /\ Goto(p, "push") /\ UNCHANGED wanted
           \/ ~registered /\ wanted' = wanted \ {b} /\ UNCHANGED <<msg, pc>>
  BY DEF ResubNext
<1>2. At(p, "resub") /\ UNCHANGED <<conn, link, subs, send, registered, use>> /\ p \in Procs
  BY DEF ResubNext, net, queue, Procs
<1>3. CASE registered
  <2>1. \A q \in Procs : /\ pc'[q] = IF q = p THEN "push" ELSE pc[q]
                         /\ msg'[q] = IF q = p THEN b ELSE msg[q]
                         /\ todo'[q] = IF q = p THEN todo[p] \ {b} ELSE todo[q]
    BY <1>1, <1>2, <1>3 DEF IInv, Types, Payload, Goto
  <2>2. ASSUME NEW d, Coming(d) PROVE Coming(d)'
    BY <1>2, <2>1, <2>2 DEF Coming, At, Procs
  <2>3. QED
    BY <1>1, <1>2, <1>3, <2>1, <2>2 DEF Resuming, Writing, Open, At, Procs
<1>4. CASE ~registered
  BY <1>1, <1>2, <1>4 DEF Resuming, Writing, At
<1>5. QED
  BY <1>3, <1>4

\* A message that is pushed waits in send.
LEMMA PushStep ==
  ASSUME IInv, Payload, Resuming, NEW p \in Procs \ {"writer"}, NEW l \in {"resub", "idle"},
         Push(p, l), p \in {"reader", "dog"} => l = "resub"
  PROVE  Resuming'
<1>1. /\ At(p, "push") /\ pc' = [pc EXCEPT ![p] = l] /\ send' = Append(send, msg[p])
      /\ msg' = [msg EXCEPT ![p] = None]
      /\ UNCHANGED <<conn, link, subs, registered, wanted, todo, use>>
  BY DEF Push, Goto, net
<1>2. \A q \in Procs : /\ pc'[q] = IF q = p THEN l ELSE pc[q]
                       /\ q # p => msg'[q] = msg[q]
  BY <1>1 DEF IInv, Types, Payload
<1>3. Range(send') = Range(send) \cup {msg[p]}
  BY <1>1, RangeAppend DEF Payload, Procs
<1>4. ASSUME NEW b, Coming(b) PROVE Coming(b)'
  BY <1>1, <1>2, <1>3, <1>4 DEF Coming, At, Procs
<1>5. QED
  BY <1>1, <1>2, <1>4 DEF Resuming, Writing, Open, At, Procs

\* Who has dialled is going to send every batch again.
LEMMA DialledStep ==
  ASSUME IInv, Payload, Resuming, NEW p \in {"reader", "dog"}, DialOk(p),
         pc[p] # "done", UNCHANGED <<registered, wanted>>
  PROVE  Resuming'
<1>1. todo' = [todo EXCEPT ![p] = wanted] /\ pc' = [pc EXCEPT ![p] = "resub"]
  BY DEF DialOk, Goto
<1>2. todo'[p] = wanted' /\ pc'[p] = "resub" /\ pc'["writer"] = pc["writer"]
  BY <1>1 DEF IInv, Types, Payload, Procs
<1>3. \A b \in wanted' : Coming(b)'
  BY <1>2 DEF Coming
<1>4. QED
  BY <1>2, <1>3 DEF Resuming, At

\* Whatever the reader does, the batches stay on their way.
LEMMA ReaderResumes == IInv /\ Payload /\ Resuming /\ (ReaderStep \/ ReadOk) => Resuming'
<1> SUFFICES ASSUME IInv, Payload, Resuming, ReaderStep \/ ReadOk PROVE Resuming'
  OBVIOUS
<1>t. "reader" \in Procs /\ pc \in [Procs -> Places] /\ use \in [Procs -> Conns \cup {None}]
  BY DEF Procs, IInv, Types
<1> USE DEF At, Goto, local, net, queue
<1>1. ASSUME NEW l \in {"top", "reading", "lock", "dial", "failed", "stop", "tell", "done", "panic"},
             pc' = [pc EXCEPT !["reader"] = l], pc["reader"] \notin {"resub", "push", "done", "next", "flush"},
             use'["writer"] = use["writer"],
             UNCHANGED <<conn, link, subs, send, registered, wanted, msg, todo>>
      PROVE  Resuming'
  BY <1>t, <1>1, MoveStep DEF Places, Open
<1>2. CASE ReadBegin
  <2>1. use'["writer"] = use["writer"] /\ pc["reader"] = "top"
    BY <1>t, <1>2 DEF ReadBegin, Procs
  <2>2. PICK l \in {"reading", "failed"} : pc' = [pc EXCEPT !["reader"] = l]
    BY <1>2 DEF ReadBegin
  <2>3. UNCHANGED <<conn, link, subs, send, registered, wanted, msg, todo>>
    BY <1>2 DEF ReadBegin
  <2>4. QED
    BY <2>1, <2>2, <2>3, <1>1
<1>3. CASE ReadOk \/ ReadLost \/ ReadFail
  <2>1. PICK l \in {"top", "lock", "failed"} : ReadEnd(l)
    BY <1>3 DEF ReadOk, ReadLost, ReadFail
  <2>2. use'["writer"] = use["writer"]
    BY <1>t, <2>1 DEF ReadEnd, Procs
  <2>3. pc["reader"] = "reading"
    BY <1>3 DEF ReadOk, ReadLost, ReadFail
  <2>4. QED
    BY <2>1, <2>2, <2>3, <1>1 DEF ReadEnd
<1>4. CASE ReadLock
  BY <1>t, <1>1, <1>4 DEF ReadLock, Announce
<1>5. CASE ReadDialOk
  BY <1>5, DialledStep DEF ReadDialOk
<1>6. CASE ReadDialFail \/ ReadResubFail
  <2>1. conn' = None /\ UNCHANGED registered /\ pc' = [pc EXCEPT !["reader"] = "failed"]
    BY <1>6 DEF ReadDialFail, ReadResubFail
  <2>2. pc'["writer"] = pc["writer"]
    BY <1>t, <2>1 DEF Procs
  <2>3. QED
    BY <2>1, <2>2, DownStep DEF Open, Resuming
<1>7. CASE ResubNext("reader")
  BY <1>7, NextBatchStep
<1>8. CASE Push("reader", "resub")
  BY <1>8, PushStep DEF Procs
<1>9. CASE ReadResubDone
  <2>1. /\ pc["reader"] = "resub" /\ todo["reader"] = {} /\ pc' = [pc EXCEPT !["reader"] = "top"]
        /\ UNCHANGED <<conn, link, subs, send, registered, wanted, msg, todo, use>>
    BY <1>9 DEF ReadResubDone
  <2>2. \A q \in Procs : pc'[q] = IF q = "reader" THEN "top" ELSE pc[q]
    BY <1>t, <2>1
  <2>3. ASSUME NEW b, Coming(b) PROVE Coming(b)'
    BY <2>1, <2>2, <2>3 DEF Coming, Procs
  <2>4. QED
    BY <2>1, <2>2, <2>3 DEF Resuming, Writing, Open, Procs
<1>10. CASE ReadFailed
  BY <1>1, <1>10 DEF ReadFailed
<1>11. CASE ReadStop
  BY <1>1, <1>11 DEF ReadStop, CheckCtl
<1>12. CASE ReadTell
  BY <1>1, <1>12 DEF ReadTell, SendCtl
<1>13. QED
  BY <1>2, <1>3, <1>4, <1>5, <1>6, <1>7, <1>8, <1>9, <1>10, <1>11, <1>12 DEF ReaderStep

\* A message that the writer has taken reaches the connection in use, or there is no
\* open one any more, or a newer one on which every batch is sent again.
LEMMA WriterResumes == IInv /\ Payload /\ Resuming /\ WriterStep => Resuming'
<1> SUFFICES ASSUME IInv, Payload, Resuming, WriterStep PROVE Resuming'
  OBVIOUS
<1>t. "writer" \in Procs /\ pc \in [Procs -> Places] /\ msg \in [Procs -> Messages]
      /\ use \in [Procs -> Conns \cup {None}]
  BY DEF Procs, IInv, Types, Payload
<1> USE DEF At, Goto, local, net, queue
<1>1. ASSUME NEW l \in {"top", "bye", "exit"}, pc' = [pc EXCEPT !["writer"] = l],
             pc["writer"] \in {"top", "bye"}, UNCHANGED <<conn, link, use, subs, send, registered, wanted, msg, todo>>
      PROVE  Resuming'
  BY <1>t, <1>1, MoveStep DEF Places, Open, Writing
<1>2. ASSUME pc'["writer"] \notin {"top", "next", "flush", "bye"},
             pc["writer"] \notin {"done"}, registered' = registered \/ pc'["writer"] = "done"
      PROVE  Resuming'
  BY <1>2 DEF Resuming, Writing
<1>3. CASE WriteTake
  <2>1. /\ pc["writer"] = "top" /\ pc' = [pc EXCEPT !["writer"] = "next"] /\ send # << >>
        /\ msg' = [msg EXCEPT !["writer"] = Head(send)] /\ send' = Tail(send)
        /\ UNCHANGED <<conn, link, subs, registered, wanted, todo, use>>
    BY <1>3 DEF WriteTake
  <2>2. \A q \in Procs : /\ pc'[q] = IF q = "writer" THEN "next" ELSE pc[q]
                         /\ msg'[q] = IF q = "writer" THEN Head(send) ELSE msg[q]
    BY <1>t, <2>1
  <2>3. Range(send) = {Head(send)} \cup Range(send')
    BY <2>1, RangeTail DEF Payload
  <2>4. ASSUME NEW b, Coming(b) PROVE Coming(b)'
    BY <2>1, <2>2, <2>3, <2>4 DEF Coming, Procs
  <2>5. QED
    BY <2>1, <2>2, <2>4 DEF Resuming, Writing, Open, Procs
<1>4. CASE WriteNext
  <2>1. CASE pc' = [pc EXCEPT !["writer"] = "exit"]
    BY <1>t, <1>2, <1>4, <2>1 DEF WriteNext
  <2>2. CASE pc' = [pc EXCEPT !["writer"] = "flush"] /\ use' = [use EXCEPT !["writer"] = conn]
    <3>1. /\ pc["writer"] = "next"
          /\ UNCHANGED <<conn, link, subs, send, registered, wanted, todo>>
      BY <1>4 DEF WriteNext
    <3>2. msg' = msg
      BY <1>t, <1>4, <2>2 DEF WriteNext
    <3>3. use'["writer"] = conn /\ \A q \in Procs : pc'[q] = IF q = "writer" THEN "flush" ELSE pc[q]
      BY <1>t, <2>2
    <3>4. ASSUME NEW b, Coming(b) PROVE Coming(b)'
      BY <3>1, <3>2, <3>3, <3>4 DEF Coming, Procs
    <3>5. QED
      BY <3>1, <3>3, <3>4 DEF Resuming, Writing, Open, Procs
  <2>3. QED
    BY <1>4, <2>1, <2>2 DEF WriteNext
<1>5. CASE WriteFlush
  <2>1. /\ pc["writer"] = "flush" /\ use' = [use EXCEPT !["writer"] = None]
        /\ msg' = [msg EXCEPT !["writer"] = None]
        /\ UNCHANGED <<conn, link, send, registered, wanted, todo>>
    BY <1>5 DEF WriteFlush
  <2>2. CASE pc' = [pc EXCEPT !["writer"] = "exit"]
    BY <1>t, <1>2, <2>1, <2>2
  <2>3. CASE pc' = [pc EXCEPT !["writer"] = "top"]
    <3>1. \A q \in Procs : /\ pc'[q] = IF q = "writer" THEN "top" ELSE pc[q]
                           /\ q # "writer" => msg'[q] = msg[q]
      BY <1>t, <2>1, <2>3
    <3>2. subs' = subs \/ subs' = [subs EXCEPT ![use["writer"]] = @ \cup {msg["writer"]}]
      BY <1>5 DEF WriteFlush
    <3>3. Open /\ use["writer"] = conn => subs' = [subs EXCEPT ![conn] = @ \cup {msg["writer"]}]
      BY <1>5, <1>t, <2>3 DEF WriteFlush, Open
    <3>4. \A c \in Conns : subs[c] \subseteq subs'[c]
      BY <3>2 DEF Payload
    <3>5. ASSUME Open, NEW b, Coming(b) PROVE Coming(b)'
      <4>1. conn \in Conns
        BY <3>5 DEF Open, IInv, Types
      <4>2. CASE pc["writer"] = "flush" /\ msg["writer"] = b /\ use["writer"] = conn
        <5>1. b \in subs'[conn']
          BY <2>1, <3>3, <3>5, <4>1, <4>2 DEF Payload
        <5>2. QED
          BY <5>1 DEF Coming
      <4>3. CASE ~(pc["writer"] = "flush" /\ msg["writer"] = b /\ use["writer"] = conn)
        BY <2>1, <3>1, <3>4, <3>5, <4>1, <4>3 DEF Coming, Procs
      <4>4. QED
        BY <4>2, <4>3
    <3>6. QED
      BY <2>1, <3>1, <3>5 DEF Resuming, Writing, Open, Procs
  <2>4. QED
    BY <1>5, <2>2, <2>3 DEF WriteFlush
<1>6. CASE WriteCtl \/ WriteBye
  BY <1>1, <1>6 DEF WriteCtl, WriteBye
<1>7. CASE WriteExit \/ WriteLock \/ WriteClose
  BY <1>t, <1>2, <1>7 DEF WriteExit, WriteLock, Announce, WriteClose, CloseConn
<1>8. CASE WriteCloseCtl \/ WriteNilCtl \/ WriteRemove
  BY <1>t, <1>2, <1>8 DEF WriteCloseCtl, WriteNilCtl, WriteRemove
<1>9. QED
  BY <1>3, <1>4, <1>5, <1>6, <1>7, <1>8 DEF WriterStep

\* The watchdog sends every batch again on what it dials, unless the connection has
\* been taken out of WsClient.conns, and then the writer is gone.
LEMMA DogResumes == IInv /\ Payload /\ Resuming /\ (DogBegin \/ DogStep) => Resuming'
<1> SUFFICES ASSUME IInv, Payload, Resuming, DogBegin \/ DogStep PROVE Resuming'
  OBVIOUS
<1>t. "dog" \in Procs /\ pc \in [Procs -> Places]
  BY DEF Procs, IInv, Types
<1> USE DEF At, Goto, local, net, queue
<1>1. CASE DogBegin \/ DogLock \/ DogDialFail
  <2>1. PICK l \in {"dial", "lock", "close", "idle"} : pc' = [pc EXCEPT !["dog"] = l]
    BY <1>1 DEF DogBegin, DogLock, Announce, DogDialFail
  <2>2. /\ pc["dog"] \notin {"resub", "push", "next", "flush", "done"}
        /\ UNCHANGED <<conn, link, subs, send, registered, wanted, msg, todo, use>>
    BY <1>1 DEF DogBegin, DogLock, Announce, DogDialFail
  <2>3. QED
    BY <1>t, <2>1, <2>2, MoveStep DEF Places, Open
<1>2. CASE DogClose
  <2>1. conn' = None /\ UNCHANGED registered /\ pc' = [pc EXCEPT !["dog"] = "dial"]
    BY <1>2 DEF DogClose, CloseConn
  <2>2. pc'["writer"] = pc["writer"]
    BY <1>t, <2>1 DEF Procs
  <2>3. QED
    BY <2>1, <2>2, DownStep DEF Open, Resuming
<1>3. CASE DogDialOk
  BY <1>3, DialledStep DEF DogDialOk
<1>4. CASE ResubNext("dog")
  BY <1>4, NextBatchStep
<1>5. CASE Push("dog", "resub")
  BY <1>5, PushStep DEF Procs
<1>6. CASE DogResubDone
  <2>1. /\ pc["dog"] = "resub" /\ todo' = [todo EXCEPT !["dog"] = {}] /\ pc' = [pc EXCEPT !["dog"] = "idle"]
        /\ todo["dog"] = {} \/ ~registered
        /\ UNCHANGED <<conn, link, subs, send, registered, wanted, msg, use>>
    BY <1>6 DEF DogResubDone
  <2>2. \A q \in Procs : /\ pc'[q] = IF q = "dog" THEN "idle" ELSE pc[q]
                         /\ q # "dog" => todo'[q] = todo[q]
    BY <1>t, <2>1 DEF Payload
  <2>3. CASE ~registered
    BY <2>1, <2>2, <2>3 DEF Resuming, Writing, Procs
  <2>4. CASE todo["dog"] = {}
    <3>1. ASSUME NEW b, Coming(b) PROVE Coming(b)'
      BY <2>1, <2>2, <2>4, <3>1 DEF Coming, Procs
    <3>2. QED
      BY <2>1, <2>2, <3>1 DEF Resuming, Writing, Open, Procs
  <2>5. QED
    BY <2>1, <2>3, <2>4
<1>7. QED
  BY <1>1, <1>2, <1>3, <1>4, <1>5, <1>6 DEF DogStep

\* A batch that the application adds is with it until it is pushed; a connection that
\* is lost is not open any more.
LEMMA OthersResume ==
  IInv /\ Payload /\ Resuming /\ (AppSubscribe \/ AppClose \/ AppStep \/ Lose \/ AnswerBye) => Resuming'
<1> SUFFICES ASSUME IInv, Payload, Resuming, AppSubscribe \/ AppClose \/ AppStep \/ Lose \/ AnswerBye
             PROVE  Resuming'
  OBVIOUS
<1>t. "app" \in Procs /\ pc \in [Procs -> Places]
  BY DEF Procs, IInv, Types
<1> USE DEF At, Goto, local, net, queue
<1>1. CASE AppSubscribe
  <2>1. PICK b \in Batches : wanted' = wanted \cup {b} /\ msg' = [msg EXCEPT !["app"] = b]
    BY <1>1 DEF AppSubscribe
  <2>2. /\ pc["app"] = "idle" /\ pc' = [pc EXCEPT !["app"] = "push"]
        /\ UNCHANGED <<conn, link, subs, send, registered, todo, use>>
    BY <1>1 DEF AppSubscribe
  <2>3. \A q \in Procs : /\ pc'[q] = IF q = "app" THEN "push" ELSE pc[q]
                         /\ msg'[q] = IF q = "app" THEN b ELSE msg[q]
    BY <1>t, <2>1, <2>2 DEF Payload
  <2>4. ASSUME NEW d, Coming(d) \/ d = b PROVE Coming(d)'
    BY <2>2, <2>3, <2>4 DEF Coming, Procs
  <2>5. QED
    BY <2>1, <2>2, <2>3, <2>4 DEF Resuming, Writing, Open, Procs
<1>2. CASE AppClose \/ AppTell
  <2>1. PICK l \in {"tell", "done", "panic"} : pc' = [pc EXCEPT !["app"] = l]
    BY <1>2 DEF AppClose, CheckCtl, AppTell, SendCtl
  <2>2. /\ pc["app"] \in {"idle", "tell"}
        /\ UNCHANGED <<conn, link, subs, send, registered, wanted, msg, todo, use>>
    BY <1>2 DEF AppClose, CheckCtl, AppTell, SendCtl
  <2>3. QED
    BY <1>t, <2>1, <2>2, MoveStep DEF Places, Open
<1>3. CASE Push("app", "idle")
  BY <1>3, PushStep DEF Procs
<1>4. CASE Lose \/ AnswerBye
  <2>1. UNCHANGED <<conn, subs, send, registered, wanted, msg, todo, use, pc>>
    BY <1>4 DEF Lose, AnswerBye
  <2>2. Open' => Open
    BY <1>4, <2>1 DEF Lose, AnswerBye, Open, IInv, Types
  <2>3. \A b : Coming(b) => Coming(b)'
    BY <2>1 DEF Coming
  <2>4. QED
    BY <2>1, <2>2, <2>3 DEF Resuming, Writing
<1>5. QED
  BY <1>1, <1>2, <1>3, <1>4 DEF AppStep

-------------------------------------------------------------------------------
\* The inductive invariant holds in every state.
THEOREM Inductive == Spec => []IInv
<1>1. Init => IInv
  BY Assumption DEF Init, IInv, Types, ReaderLocked, ConnUsable, NoCloseUnderRead, At, Procs, Places
<1>2. IInv /\ UNCHANGED vars => IInv'
  BY QuietStep DEF vars, local, net, queue, IInv, Types
<1>3. IInv /\ [Next]_vars => IInv'
  BY <1>2, ReaderKeeps, WriterKeeps, DogKeeps, OthersKeep DEF Next
<1>4. QED
  BY <1>1, <1>3, PTL DEF Spec

\* However the reader, the writer and the watchdog lose, close and dial connections,
\* none is closed while the reader is blocked on it in ReadMessage.
THEOREM ReaderUndisturbed == Spec => []NoCloseUnderRead
<1>1. IInv => NoCloseUnderRead
  BY DEF IInv
<1>2. QED
  BY <1>1, Inductive, PTL

\* Subscriptions are resumed, as a state: however the connection was lost, closed and
\* dialled again by the reader and the watchdog, when all goroutines are at rest on an
\* open connection the exchange has every wanted batch on that one.
THEOREM SubscriptionsResumed == Spec => []Resumed
<1>1. Init => Payload /\ Resuming
  BY DEF Init, Payload, Messages, Resuming
<1>2. IInv /\ Payload /\ Resuming /\ UNCHANGED vars => Resuming'
  BY DEF vars, net, queue, local, Resuming, Writing, Open, Coming, At
<1>3. IInv /\ Payload /\ Resuming /\ [Next]_vars => Resuming'
  BY <1>2, ReaderResumes, WriterResumes, DogResumes, OthersResume DEF Next
<1>4. Resuming => Resumed
  BY RangeEmpty DEF Resuming, Resumed, AtRest, Writing, Coming, At, Procs
<1>5. QED
  BY <1>1, <1>3, <1>4, PayloadStep, Inductive, PTL DEF Spec
=================================================================================
