---------------------------- MODULE OutChansProofs ----------------------------
(***************************************************************************)
(* Proofs about OutChans for every set of goroutines, keys, symbols and    *)
(* channels, every capacity and every bound.  One lemma per conjunct of    *)
(* the inductive invariant says that every step keeps it; the theorems at  *)
(* the end combine them.                                                   *)
(***************************************************************************)
EXTENDS OutChans, TLAPS

\* Storing a sequence of messages in one channel keeps the channels typed.
LEMMA BufUpdate ==
  ASSUME MsgTypes, NEW c \in Chans, NEW s \in Seq(Msgs),
         buf' = [buf EXCEPT ![c] = s]
  PROVE  buf' \in [Chans -> Seq(Msgs)]
BY DEF MsgTypes

\* What Append and Tail do to a sequence of messages.
LEMMA SeqOps ==
  ASSUME NEW s \in Seq(Msgs), NEW m \in Msgs
  PROVE  /\ Append(s, m) \in Seq(Msgs)
         /\ s # << >> => Tail(s) \in Seq(Msgs)
OBVIOUS

\* The value a Watch* sends itself is a message.
LEMMA ZeroMsg == 0 \in Msgs
BY Assumption DEF Msgs

\* Every step keeps the variables that hold channels typed.
LEMMA ChanTypesStep ==
  ASSUME TypeOK, LocalsSet, [Next]_vars
  PROVE  ChanTypes'
<1> USE Assumption DEF LocalsSet, TypeOK, ChanTypes, CallTypes, Procs, UserPcs
<1>1. ASSUME NEW u \in Users, NEW k \in Keys, NEW s \in Syms, GetLookup(u, k, s)
      PROVE  ChanTypes'
  BY <1>1 DEF GetLookup, Goto
<1>2. ASSUME NEW u \in Users, GetStore(u)
      PROVE  ChanTypes'
  BY <1>2 DEF GetStore, Goto
<1>3. ASSUME NEW u \in Users, AddLookup(u)
      PROVE  ChanTypes'
  BY <1>3 DEF AddLookup, Goto
<1>4. ASSUME NEW u \in Users, AddKeys(u)
      PROVE  ChanTypes'
  BY <1>4 DEF AddKeys, Return, Goto, locals
<1>5. ASSUME NEW u \in Users, DirectSend(u)
      PROVE  ChanTypes'
  BY <1>5 DEF DirectSend, Return, Goto, locals
<1>6. ASSUME NEW u \in Users, Receive(u)
      PROVE  ChanTypes'
  BY <1>6 DEF Receive
<1>7. ASSUME NEW u \in Users, NEW k \in Keys, NEW s \in Syms, DelLookup(u, k, s)
      PROVE  ChanTypes'
  BY <1>7 DEF DelLookup, Goto
<1>8. ASSUME NEW u \in Users, DelKeys(u)
      PROVE  ChanTypes'
  BY <1>8 DEF DelKeys, Goto
<1>9. ASSUME NEW u \in Users, DelLen(u)
      PROVE  ChanTypes'
  BY <1>9 DEF DelLen, Return, Goto, locals
<1>10. ASSUME NEW u \in Users, DelClose(u)
      PROVE  ChanTypes'
  BY <1>10 DEF DelClose, CloseRegistered, Return, Goto
<1>11. ASSUME NEW u \in Users, ExgClose(u)
      PROVE  ChanTypes'
  BY <1>11 DEF ExgClose
<1>12. ASSUME NEW r \in Readers, NEW k \in Keys, WriteTry(r, k)
      PROVE  ChanTypes'
  BY <1>12 DEF WriteTry, Goto
<1>13. ASSUME NEW r \in Readers, WritePop(r)
      PROVE  ChanTypes'
  BY <1>13 DEF WritePop, Goto
<1>14. ASSUME NEW r \in Readers, WritePush(r)
      PROVE  ChanTypes'
  BY <1>14 DEF WritePush, Return, Goto
<1>15. ASSUME NEW r \in Readers, ClosedStart(r)
      PROVE  ChanTypes'
  BY <1>15 DEF ClosedStart, Goto
<1>16. ASSUME NEW r \in Readers, NEW k \in Keys, ClosedDelRefs(r, k)
      PROVE  ChanTypes'
  BY <1>16 DEF ClosedDelRefs, Goto
<1>17. ASSUME NEW r \in Readers, ClosedCloseChan(r)
      PROVE  ChanTypes'
  BY <1>17 DEF ClosedCloseChan, CloseRegistered, Goto
<1>18. ASSUME NEW r \in Readers, ClosedEnd(r)
      PROVE  ChanTypes'
  BY <1>18 DEF ClosedEnd, Return, Goto
<1>19. CASE UNCHANGED vars
  BY <1>19 DEF vars
<1>20. QED
  BY <1>1, <1>2, <1>3, <1>4, <1>5, <1>6, <1>7, <1>8, <1>9, <1>10, <1>11, <1>12, <1>13, <1>14, <1>15, <1>16, <1>17, <1>18, <1>19 DEF Next, UserStep, ReaderStep

\* Every step keeps the variables that hold reference maps typed.
LEMMA RefTypesStep ==
  ASSUME TypeOK, LocalsSet, [Next]_vars
  PROVE  RefTypes'
<1> USE Assumption DEF LocalsSet, TypeOK, ChanTypes, RefTypes, CallTypes, Procs, UserPcs
<1>1. ASSUME NEW u \in Users, NEW k \in Keys, NEW s \in Syms, GetLookup(u, k, s)
      PROVE  RefTypes'
  BY <1>1 DEF GetLookup, Goto
<1>2. ASSUME NEW u \in Users, GetStore(u)
      PROVE  RefTypes'
  BY <1>2 DEF GetStore, Goto
<1>3. ASSUME NEW u \in Users, AddLookup(u)
      PROVE  RefTypes'
  BY <1>3 DEF AddLookup, Goto
<1>4. ASSUME NEW u \in Users, AddKeys(u)
      PROVE  RefTypes'
  BY <1>4 DEF AddKeys, Return, Goto, locals
<1>5. ASSUME NEW u \in Users, DirectSend(u)
      PROVE  RefTypes'
  BY <1>5 DEF DirectSend, Return, Goto, locals
<1>6. ASSUME NEW u \in Users, Receive(u)
      PROVE  RefTypes'
  BY <1>6 DEF Receive
<1>7. ASSUME NEW u \in Users, NEW k \in Keys, NEW s \in Syms, DelLookup(u, k, s)
      PROVE  RefTypes'
  BY <1>7 DEF DelLookup, Goto
<1>8. ASSUME NEW u \in Users, DelKeys(u)
      PROVE  RefTypes'
  BY <1>8 DEF DelKeys, Goto
<1>9. ASSUME NEW u \in Users, DelLen(u)
      PROVE  RefTypes'
  BY <1>9 DEF DelLen, Return, Goto, locals
<1>10. ASSUME NEW u \in Users, DelClose(u)
      PROVE  RefTypes'
  BY <1>10 DEF DelClose, CloseRegistered, Return, Goto
<1>11. ASSUME NEW u \in Users, ExgClose(u)
      PROVE  RefTypes'
  BY <1>11 DEF ExgClose
<1>12. ASSUME NEW r \in Readers, NEW k \in Keys, WriteTry(r, k)
      PROVE  RefTypes'
  BY <1>12 DEF WriteTry, Goto
<1>13. ASSUME NEW r \in Readers, WritePop(r)
      PROVE  RefTypes'
  BY <1>13 DEF WritePop, Goto
<1>14. ASSUME NEW r \in Readers, WritePush(r)
      PROVE  RefTypes'
  BY <1>14 DEF WritePush, Return, Goto
<1>15. ASSUME NEW r \in Readers, ClosedStart(r)
      PROVE  RefTypes'
  BY <1>15 DEF ClosedStart, Goto
<1>16. ASSUME NEW r \in Readers, NEW k \in Keys, ClosedDelRefs(r, k)
      PROVE  RefTypes'
  BY <1>16 DEF ClosedDelRefs, Goto
<1>17. ASSUME NEW r \in Readers, ClosedCloseChan(r)
      PROVE  RefTypes'
  BY <1>17 DEF ClosedCloseChan, CloseRegistered, Goto
<1>18. ASSUME NEW r \in Readers, ClosedEnd(r)
      PROVE  RefTypes'
  BY <1>18 DEF ClosedEnd, Return, Goto
<1>19. CASE UNCHANGED vars
  BY <1>19 DEF vars
<1>20. QED
  BY <1>1, <1>2, <1>3, <1>4, <1>5, <1>6, <1>7, <1>8, <1>9, <1>10, <1>11, <1>12, <1>13, <1>14, <1>15, <1>16, <1>17, <1>18, <1>19 DEF Next, UserStep, ReaderStep

\* Every step keeps the program counters and the lock typed.
LEMMA CallTypesStep ==
  ASSUME TypeOK, LocalsSet, [Next]_vars
  PROVE  CallTypes'
<1> USE Assumption DEF LocalsSet, TypeOK, CallTypes, Procs, UserPcs, ReaderPcs
<1>1. ASSUME NEW u \in Users, NEW k \in Keys, NEW s \in Syms, GetLookup(u, k, s)
      PROVE  CallTypes'
  BY <1>1 DEF GetLookup, Goto
<1>2. ASSUME NEW u \in Users, GetStore(u)
      PROVE  CallTypes'
  BY <1>2 DEF GetStore, Goto
<1>3. ASSUME NEW u \in Users, AddLookup(u)
      PROVE  CallTypes'
  BY <1>3 DEF AddLookup, Goto
<1>4. ASSUME NEW u \in Users, AddKeys(u)
      PROVE  CallTypes'
  BY <1>4 DEF AddKeys, Return, Goto, locals
<1>5. ASSUME NEW u \in Users, DirectSend(u)
      PROVE  CallTypes'
  BY <1>5 DEF DirectSend, Return, Goto, locals
<1>6. ASSUME NEW u \in Users, Receive(u)
      PROVE  CallTypes'
  BY <1>6 DEF Receive
<1>7. ASSUME NEW u \in Users, NEW k \in Keys, NEW s \in Syms, DelLookup(u, k, s)
      PROVE  CallTypes'
  BY <1>7 DEF DelLookup, Goto
<1>8. ASSUME NEW u \in Users, DelKeys(u)
      PROVE  CallTypes'
  BY <1>8 DEF DelKeys, Goto
<1>9. ASSUME NEW u \in Users, DelLen(u)
      PROVE  CallTypes'
  BY <1>9 DEF DelLen, Return, Goto, locals
<1>10. ASSUME NEW u \in Users, DelClose(u)
      PROVE  CallTypes'
  BY <1>10 DEF DelClose, CloseRegistered, Return, Goto
<1>11. ASSUME NEW u \in Users, ExgClose(u)
      PROVE  CallTypes'
  BY <1>11 DEF ExgClose
<1>12. ASSUME NEW r \in Readers, NEW k \in Keys, WriteTry(r, k)
      PROVE  CallTypes'
  BY <1>12 DEF WriteTry, Goto
<1>13. ASSUME NEW r \in Readers, WritePop(r)
      PROVE  CallTypes'
  BY <1>13 DEF WritePop, Goto
<1>14. ASSUME NEW r \in Readers, WritePush(r)
      PROVE  CallTypes'
  BY <1>14 DEF WritePush, Return, Goto
<1>15. ASSUME NEW r \in Readers, ClosedStart(r)
      PROVE  CallTypes'
  BY <1>15 DEF ClosedStart, Goto
<1>16. ASSUME NEW r \in Readers, NEW k \in Keys, ClosedDelRefs(r, k)
      PROVE  CallTypes'
  BY <1>16 DEF ClosedDelRefs, Goto
<1>17. ASSUME NEW r \in Readers, ClosedCloseChan(r)
      PROVE  CallTypes'
  BY <1>17 DEF ClosedCloseChan, CloseRegistered, Goto
<1>18. ASSUME NEW r \in Readers, ClosedEnd(r)
      PROVE  CallTypes'
  BY <1>18 DEF ClosedEnd, Return, Goto
<1>19. CASE UNCHANGED vars
  BY <1>19 DEF vars
<1>20. QED
  BY <1>1, <1>2, <1>3, <1>4, <1>5, <1>6, <1>7, <1>8, <1>9, <1>10, <1>11, <1>12, <1>13, <1>14, <1>15, <1>16, <1>17, <1>18, <1>19 DEF Next, UserStep, ReaderStep

\* Every step leaves sequences of messages in the channels.
LEMMA MsgTypesStep ==
  ASSUME TypeOK, LocalsSet, [Next]_vars
  PROVE  MsgTypes'
<1> USE Assumption DEF LocalsSet, TypeOK, ChanTypes, MsgTypes, Procs
<1>1. ASSUME NEW u \in Users, NEW k \in Keys, NEW s \in Syms, GetLookup(u, k, s)
      PROVE  MsgTypes'
  BY <1>1, ZeroMsg DEF GetLookup, Goto
<1>2. ASSUME NEW u \in Users, GetStore(u)
      PROVE  MsgTypes'
  BY <1>2, ZeroMsg DEF GetStore, Goto
<1>3. ASSUME NEW u \in Users, AddLookup(u)
      PROVE  MsgTypes'
  BY <1>3, ZeroMsg DEF AddLookup, Goto
<1>4. ASSUME NEW u \in Users, AddKeys(u)
      PROVE  MsgTypes'
  <2>1. (msg' = msg \/ msg' = [msg EXCEPT ![u] = 0]) /\ UNCHANGED <<buf, sent>>
    BY <1>4 DEF AddKeys, Return, locals
  <2> QED
    BY <2>1, ZeroMsg
<1>5. ASSUME NEW u \in Users, DirectSend(u)
      PROVE  MsgTypes'
  <2>1. ch[u] \in Chans /\ 0 \in Msgs
    BY <1>5, ZeroMsg DEF DirectSend
  <2>2. Append(buf[ch[u]], 0) \in Seq(Msgs)
    BY <2>1, SeqOps
  <2>3. buf' = [buf EXCEPT ![ch[u]] = Append(buf[ch[u]], 0)] \/ buf' = buf
    BY <1>5 DEF DirectSend
  <2>4. buf' \in [Chans -> Seq(Msgs)]
    BY <2>1, <2>2, <2>3, BufUpdate DEF MsgTypes
  <2>5. (msg' = msg \/ msg' = [msg EXCEPT ![u] = 0]) /\ sent' = sent
    BY <1>5 DEF DirectSend, Return, locals
  <2> QED
    BY <2>1, <2>4, <2>5, ZeroMsg
<1>6. ASSUME NEW u \in Users, Receive(u)
      PROVE  MsgTypes'
  <2>1. CASE buf[held[u]] # << >>
    <3>1. held[u] \in Chans
      BY <1>6 DEF Receive
    <3>2. Tail(buf[held[u]]) \in Seq(Msgs)
      BY <2>1, <3>1, SeqOps, ZeroMsg
    <3>3. buf' = [buf EXCEPT ![held[u]] = Tail(buf[held[u]])]
      BY <1>6, <2>1 DEF Receive
    <3>4. MsgTypes
      OBVIOUS
    <3>5. buf' \in [Chans -> Seq(Msgs)]
      BY <3>1, <3>2, <3>3, <3>4, BufUpdate
    <3>6. UNCHANGED <<msg, sent>>
      BY <1>6 DEF Receive
    <3> QED
      BY <3>5, <3>6
  <2>2. CASE buf[held[u]] = << >>
    BY <1>6, <2>2 DEF Receive
  <2> QED
    BY <2>1, <2>2
<1>7. ASSUME NEW u \in Users, NEW k \in Keys, NEW s \in Syms, DelLookup(u, k, s)
      PROVE  MsgTypes'
  BY <1>7, ZeroMsg DEF DelLookup, Goto
<1>8. ASSUME NEW u \in Users, DelKeys(u)
      PROVE  MsgTypes'
  BY <1>8, ZeroMsg DEF DelKeys, Goto
<1>9. ASSUME NEW u \in Users, DelLen(u)
      PROVE  MsgTypes'
  <2>1. (msg' = msg \/ msg' = [msg EXCEPT ![u] = 0]) /\ UNCHANGED <<buf, sent>>
    BY <1>9 DEF DelLen, Return, locals
  <2> QED
    BY <2>1, ZeroMsg
<1>10. ASSUME NEW u \in Users, DelClose(u)
      PROVE  MsgTypes'
  BY <1>10, ZeroMsg DEF DelClose, CloseRegistered, Return, Goto
<1>11. ASSUME NEW u \in Users, ExgClose(u)
      PROVE  MsgTypes'
  BY <1>11, ZeroMsg DEF ExgClose
<1>12. ASSUME NEW r \in Readers, NEW k \in Keys, WriteTry(r, k)
      PROVE  MsgTypes'
  <2>1. sent + 1 \in Msgs
    BY <1>12, Assumption DEF WriteTry, Msgs
  <2>2. \/ buf' = buf
        \/ /\ WsOutChans[k] \in Chans
           /\ buf' = [buf EXCEPT ![WsOutChans[k]] = Append(buf[WsOutChans[k]], sent + 1)]
    BY <1>12 DEF WriteTry
  <2>3. WsOutChans[k] \in Chans => Append(buf[WsOutChans[k]], sent + 1) \in Seq(Msgs)
    BY <2>1, SeqOps
  <2>4. buf' \in [Chans -> Seq(Msgs)]
    BY <2>2, <2>3, BufUpdate DEF MsgTypes
  <2> QED
    BY <1>12, <2>1, <2>4 DEF WriteTry
<1>13. ASSUME NEW r \in Readers, WritePop(r)
      PROVE  MsgTypes'
  <2>1. ch[r] \in Chans /\ buf[ch[r]] # << >>
    BY <1>13 DEF WritePop
  <2>2. Tail(buf[ch[r]]) \in Seq(Msgs)
    BY <2>1, SeqOps, ZeroMsg
  <2>3. buf' = [buf EXCEPT ![ch[r]] = Tail(buf[ch[r]])]
    BY <1>13 DEF WritePop
  <2> QED
    BY <1>13, <2>1, <2>2, <2>3, BufUpdate DEF WritePop
<1>14. ASSUME NEW r \in Readers, WritePush(r)
      PROVE  MsgTypes'
  <2>1. ch[r] \in Chans /\ msg[r] \in Msgs
    BY <1>14, ZeroMsg DEF WritePush
  <2>2. Append(buf[ch[r]], msg[r]) \in Seq(Msgs)
    BY <2>1, SeqOps
  <2>3. buf' = [buf EXCEPT ![ch[r]] = Append(buf[ch[r]], msg[r])] \/ buf' = buf
    BY <1>14 DEF WritePush
  <2>4. buf' \in [Chans -> Seq(Msgs)]
    BY <2>1, <2>2, <2>3, BufUpdate DEF MsgTypes
  <2>5. (msg' = msg \/ msg' = [msg EXCEPT ![r] = 0]) /\ sent' = sent
    BY <1>14 DEF WritePush, Return
  <2> QED
    BY <2>1, <2>4, <2>5, ZeroMsg
<1>15. ASSUME NEW r \in Readers, ClosedStart(r)
      PROVE  MsgTypes'
  BY <1>15, ZeroMsg DEF ClosedStart, Goto
<1>16. ASSUME NEW r \in Readers, NEW k \in Keys, ClosedDelRefs(r, k)
      PROVE  MsgTypes'
  BY <1>16, ZeroMsg DEF ClosedDelRefs, Goto
<1>17. ASSUME NEW r \in Readers, ClosedCloseChan(r)
      PROVE  MsgTypes'
  BY <1>17, ZeroMsg DEF ClosedCloseChan, CloseRegistered, Goto
<1>18. ASSUME NEW r \in Readers, ClosedEnd(r)
      PROVE  MsgTypes'
  BY <1>18, ZeroMsg DEF ClosedEnd, Return, Goto
<1>19. CASE UNCHANGED vars
  BY <1>19 DEF vars
<1>20. QED
  BY <1>1, <1>2, <1>3, <1>4, <1>5, <1>6, <1>7, <1>8, <1>9, <1>10, <1>11, <1>12, <1>13, <1>14, <1>15, <1>16, <1>17, <1>18, <1>19 DEF Next, UserStep, ReaderStep

\* Every step sets the locals that the next step of the call uses.
LEMMA LocalsSetStep ==
  ASSUME TypeOK, LocalsSet, [Next]_vars
  PROVE  LocalsSet'
<1> USE Assumption DEF LocalsSet, TypeOK, ChanTypes, CallTypes, RefTypes, Procs, UserPcs, ReaderPcs
<1>1. ASSUME NEW u \in Users, NEW k \in Keys, NEW s \in Syms, GetLookup(u, k, s)
      PROVE  LocalsSet'
  BY <1>1 DEF GetLookup, Goto
<1>2. ASSUME NEW u \in Users, GetStore(u)
      PROVE  LocalsSet'
  BY <1>2 DEF GetStore, Goto
<1>3. ASSUME NEW u \in Users, AddLookup(u)
      PROVE  LocalsSet'
  BY <1>3 DEF AddLookup, Goto
<1>4. ASSUME NEW u \in Users, AddKeys(u)
      PROVE  LocalsSet'
  BY <1>4 DEF AddKeys, Return, Goto, locals
<1>5. ASSUME NEW u \in Users, DirectSend(u)
      PROVE  LocalsSet'
  BY <1>5 DEF DirectSend, Return, Goto, locals
<1>6. ASSUME NEW u \in Users, Receive(u)
      PROVE  LocalsSet'
  BY <1>6 DEF Receive
<1>7. ASSUME NEW u \in Users, NEW k \in Keys, NEW s \in Syms, DelLookup(u, k, s)
      PROVE  LocalsSet'
  BY <1>7 DEF DelLookup, Goto
<1>8. ASSUME NEW u \in Users, DelKeys(u)
      PROVE  LocalsSet'
  BY <1>8 DEF DelKeys, Goto
<1>9. ASSUME NEW u \in Users, DelLen(u)
      PROVE  LocalsSet'
  BY <1>9 DEF DelLen, Return, Goto, locals
<1>10. ASSUME NEW u \in Users, DelClose(u)
      PROVE  LocalsSet'
  BY <1>10 DEF DelClose, CloseRegistered, Return, Goto
<1>11. ASSUME NEW u \in Users, ExgClose(u)
      PROVE  LocalsSet'
  BY <1>11 DEF ExgClose
<1>12. ASSUME NEW r \in Readers, NEW k \in Keys, WriteTry(r, k)
      PROVE  LocalsSet'
  BY <1>12 DEF WriteTry, Goto
<1>13. ASSUME NEW r \in Readers, WritePop(r)
      PROVE  LocalsSet'
  BY <1>13 DEF WritePop, Goto
<1>14. ASSUME NEW r \in Readers, WritePush(r)
      PROVE  LocalsSet'
  BY <1>14 DEF WritePush, Return, Goto
<1>15. ASSUME NEW r \in Readers, ClosedStart(r)
      PROVE  LocalsSet'
  BY <1>15 DEF ClosedStart, Goto
<1>16. ASSUME NEW r \in Readers, NEW k \in Keys, ClosedDelRefs(r, k)
      PROVE  LocalsSet'
  BY <1>16 DEF ClosedDelRefs, Goto
<1>17. ASSUME NEW r \in Readers, ClosedCloseChan(r)
      PROVE  LocalsSet'
  BY <1>17 DEF ClosedCloseChan, CloseRegistered, Goto
<1>18. ASSUME NEW r \in Readers, ClosedEnd(r)
      PROVE  LocalsSet'
  BY <1>18 DEF ClosedEnd, Return, Goto
<1>19. CASE UNCHANGED vars
  BY <1>19 DEF vars
<1>20. QED
  BY <1>1, <1>2, <1>3, <1>4, <1>5, <1>6, <1>7, <1>8, <1>9, <1>10, <1>11, <1>12, <1>13, <1>14, <1>15, <1>16, <1>17, <1>18, <1>19 DEF Next, UserStep, ReaderStep

\* Every step takes channels from those that were made.
LEMMA MadeChansStep ==
  ASSUME TypeOK, LocalsSet, MadeChans, [Next]_vars
  PROVE  MadeChans'
<1> USE Assumption DEF TypeOK, ChanTypes, CallTypes, Procs, UserPcs, ReaderPcs, LocalsSet, MadeChans
<1>1. ASSUME NEW u \in Users, NEW k \in Keys, NEW s \in Syms, GetLookup(u, k, s)
      PROVE  MadeChans'
  BY <1>1 DEF GetLookup, Goto
<1>2. ASSUME NEW u \in Users, GetStore(u)
      PROVE  MadeChans'
  BY <1>2 DEF GetStore, Goto
<1>3. ASSUME NEW u \in Users, AddLookup(u)
      PROVE  MadeChans'
  BY <1>3 DEF AddLookup, Goto
<1>4. ASSUME NEW u \in Users, AddKeys(u)
      PROVE  MadeChans'
  BY <1>4 DEF AddKeys, Return, Goto, locals
<1>5. ASSUME NEW u \in Users, DirectSend(u)
      PROVE  MadeChans'
  BY <1>5 DEF DirectSend, Return, Goto, locals
<1>6. ASSUME NEW u \in Users, Receive(u)
      PROVE  MadeChans'
  BY <1>6 DEF Receive
<1>7. ASSUME NEW u \in Users, NEW k \in Keys, NEW s \in Syms, DelLookup(u, k, s)
      PROVE  MadeChans'
  BY <1>7 DEF DelLookup, Goto
<1>8. ASSUME NEW u \in Users, DelKeys(u)
      PROVE  MadeChans'
  BY <1>8 DEF DelKeys, Goto
<1>9. ASSUME NEW u \in Users, DelLen(u)
      PROVE  MadeChans'
  BY <1>9 DEF DelLen, Return, Goto, locals
<1>10. ASSUME NEW u \in Users, DelClose(u)
      PROVE  MadeChans'
  BY <1>10 DEF DelClose, CloseRegistered, Return, Goto
<1>11. ASSUME NEW u \in Users, ExgClose(u)
      PROVE  MadeChans'
  BY <1>11 DEF ExgClose
<1>12. ASSUME NEW r \in Readers, NEW k \in Keys, WriteTry(r, k)
      PROVE  MadeChans'
  BY <1>12 DEF WriteTry, Goto
<1>13. ASSUME NEW r \in Readers, WritePop(r)
      PROVE  MadeChans'
  BY <1>13 DEF WritePop, Goto
<1>14. ASSUME NEW r \in Readers, WritePush(r)
      PROVE  MadeChans'
  BY <1>14 DEF WritePush, Return, Goto
<1>15. ASSUME NEW r \in Readers, ClosedStart(r)
      PROVE  MadeChans'
  BY <1>15 DEF ClosedStart, Goto
<1>16. ASSUME NEW r \in Readers, NEW k \in Keys, ClosedDelRefs(r, k)
      PROVE  MadeChans'
  BY <1>16 DEF ClosedDelRefs, Goto
<1>17. ASSUME NEW r \in Readers, ClosedCloseChan(r)
      PROVE  MadeChans'
  BY <1>17 DEF ClosedCloseChan, CloseRegistered, Goto
<1>18. ASSUME NEW r \in Readers, ClosedEnd(r)
      PROVE  MadeChans'
  BY <1>18 DEF ClosedEnd, Return, Goto
<1>19. CASE UNCHANGED vars
  BY <1>19 DEF vars
<1>20. QED
  BY <1>1, <1>2, <1>3, <1>4, <1>5, <1>6, <1>7, <1>8, <1>9, <1>10, <1>11, <1>12, <1>13, <1>14, <1>15, <1>16, <1>17, <1>18, <1>19 DEF Next, UserStep, ReaderStep

\* Every step keeps the registered channels distinct.
LEMMA ChansDistinctStep ==
  ASSUME TypeOK, LocalsSet, MadeChans, StoreFresh, ChansDistinct, [Next]_vars
  PROVE  ChansDistinct'
<1> USE Assumption DEF TypeOK, ChanTypes, CallTypes, Procs, UserPcs, ReaderPcs, LocalsSet, MadeChans, StoreFresh, ChansDistinct
<1>1. ASSUME NEW u \in Users, NEW k \in Keys, NEW s \in Syms, GetLookup(u, k, s)
      PROVE  ChansDistinct'
  BY <1>1 DEF GetLookup, Goto
<1>2. ASSUME NEW u \in Users, GetStore(u)
      PROVE  ChansDistinct'
  BY <1>2 DEF GetStore, Goto
<1>3. ASSUME NEW u \in Users, AddLookup(u)
      PROVE  ChansDistinct'
  BY <1>3 DEF AddLookup, Goto
<1>4. ASSUME NEW u \in Users, AddKeys(u)
      PROVE  ChansDistinct'
  BY <1>4 DEF AddKeys, Return, Goto, locals
<1>5. ASSUME NEW u \in Users, DirectSend(u)
      PROVE  ChansDistinct'
  BY <1>5 DEF DirectSend, Return, Goto, locals
<1>6. ASSUME NEW u \in Users, Receive(u)
      PROVE  ChansDistinct'
  BY <1>6 DEF Receive
<1>7. ASSUME NEW u \in Users, NEW k \in Keys, NEW s \in Syms, DelLookup(u, k, s)
      PROVE  ChansDistinct'
  BY <1>7 DEF DelLookup, Goto
<1>8. ASSUME NEW u \in Users, DelKeys(u)
      PROVE  ChansDistinct'
  BY <1>8 DEF DelKeys, Goto
<1>9. ASSUME NEW u \in Users, DelLen(u)
      PROVE  ChansDistinct'
  BY <1>9 DEF DelLen, Return, Goto, locals
<1>10. ASSUME NEW u \in Users, DelClose(u)
      PROVE  ChansDistinct'
  BY <1>10 DEF DelClose, CloseRegistered, Return, Goto
<1>11. ASSUME NEW u \in Users, ExgClose(u)
      PROVE  ChansDistinct'
  BY <1>11 DEF ExgClose
<1>12. ASSUME NEW r \in Readers, NEW k \in Keys, WriteTry(r, k)
      PROVE  ChansDistinct'
  BY <1>12 DEF WriteTry, Goto
<1>13. ASSUME NEW r \in Readers, WritePop(r)
      PROVE  ChansDistinct'
  BY <1>13 DEF WritePop, Goto
<1>14. ASSUME NEW r \in Readers, WritePush(r)
      PROVE  ChansDistinct'
  BY <1>14 DEF WritePush, Return, Goto
<1>15. ASSUME NEW r \in Readers, ClosedStart(r)
      PROVE  ChansDistinct'
  BY <1>15 DEF ClosedStart, Goto
<1>16. ASSUME NEW r \in Readers, NEW k \in Keys, ClosedDelRefs(r, k)
      PROVE  ChansDistinct'
  BY <1>16 DEF ClosedDelRefs, Goto
<1>17. ASSUME NEW r \in Readers, ClosedCloseChan(r)
      PROVE  ChansDistinct'
  BY <1>17 DEF ClosedCloseChan, CloseRegistered, Goto
<1>18. ASSUME NEW r \in Readers, ClosedEnd(r)
      PROVE  ChansDistinct'
  BY <1>18 DEF ClosedEnd, Return, Goto
<1>19. CASE UNCHANGED vars
  BY <1>19 DEF vars
<1>20. QED
  BY <1>1, <1>2, <1>3, <1>4, <1>5, <1>6, <1>7, <1>8, <1>9, <1>10, <1>11, <1>12, <1>13, <1>14, <1>15, <1>16, <1>17, <1>18, <1>19 DEF Next, UserStep, ReaderStep

\* Every step leaves a channel that is about to be stored alone.
LEMMA StoreFreshStep ==
  ASSUME TypeOK, LocalsSet, MadeChans, StoreFresh, [Next]_vars
  PROVE  StoreFresh'
<1> USE Assumption DEF TypeOK, ChanTypes, CallTypes, Procs, UserPcs, ReaderPcs, LocalsSet, MadeChans, StoreFresh
<1>1. ASSUME NEW u \in Users, NEW k \in Keys, NEW s \in Syms, GetLookup(u, k, s)
      PROVE  StoreFresh'
  BY <1>1 DEF GetLookup, Goto
<1>2. ASSUME NEW u \in Users, GetStore(u)
      PROVE  StoreFresh'
  BY <1>2 DEF GetStore, Goto
<1>3. ASSUME NEW u \in Users, AddLookup(u)
      PROVE  StoreFresh'
  BY <1>3 DEF AddLookup, Goto
<1>4. ASSUME NEW u \in Users, AddKeys(u)
      PROVE  StoreFresh'
  BY <1>4 DEF AddKeys, Return, Goto, locals
<1>5. ASSUME NEW u \in Users, DirectSend(u)
      PROVE  StoreFresh'
  BY <1>5 DEF DirectSend, Return, Goto, locals
<1>6. ASSUME NEW u \in Users, Receive(u)
      PROVE  StoreFresh'
  BY <1>6 DEF Receive
<1>7. ASSUME NEW u \in Users, NEW k \in Keys, NEW s \in Syms, DelLookup(u, k, s)
      PROVE  StoreFresh'
  BY <1>7 DEF DelLookup, Goto
<1>8. ASSUME NEW u \in Users, DelKeys(u)
      PROVE  StoreFresh'
  BY <1>8 DEF DelKeys, Goto
<1>9. ASSUME NEW u \in Users, DelLen(u)
      PROVE  StoreFresh'
  BY <1>9 DEF DelLen, Return, Goto, locals
<1>10. ASSUME NEW u \in Users, DelClose(u)
      PROVE  StoreFresh'
  BY <1>10 DEF DelClose, CloseRegistered, Return, Goto
<1>11. ASSUME NEW u \in Users, ExgClose(u)
      PROVE  StoreFresh'
  BY <1>11 DEF ExgClose
<1>12. ASSUME NEW r \in Readers, NEW k \in Keys, WriteTry(r, k)
      PROVE  StoreFresh'
  BY <1>12 DEF WriteTry, Goto
<1>13. ASSUME NEW r \in Readers, WritePop(r)
      PROVE  StoreFresh'
  BY <1>13 DEF WritePop, Goto
<1>14. ASSUME NEW r \in Readers, WritePush(r)
      PROVE  StoreFresh'
  BY <1>14 DEF WritePush, Return, Goto
<1>15. ASSUME NEW r \in Readers, ClosedStart(r)
      PROVE  StoreFresh'
  BY <1>15 DEF ClosedStart, Goto
<1>16. ASSUME NEW r \in Readers, NEW k \in Keys, ClosedDelRefs(r, k)
      PROVE  StoreFresh'
  BY <1>16 DEF ClosedDelRefs, Goto
<1>17. ASSUME NEW r \in Readers, ClosedCloseChan(r)
      PROVE  StoreFresh'
  BY <1>17 DEF ClosedCloseChan, CloseRegistered, Goto
<1>18. ASSUME NEW r \in Readers, ClosedEnd(r)
      PROVE  StoreFresh'
  BY <1>18 DEF ClosedEnd, Return, Goto
<1>19. CASE UNCHANGED vars
  BY <1>19 DEF vars
<1>20. QED
  BY <1>1, <1>2, <1>3, <1>4, <1>5, <1>6, <1>7, <1>8, <1>9, <1>10, <1>11, <1>12, <1>13, <1>14, <1>15, <1>16, <1>17, <1>18, <1>19 DEF Next, UserStep, ReaderStep

\* Every step that closes a channel forgets it, and nothing else stores a closed one.
LEMMA RegisteredOpenStep ==
  ASSUME TypeOK, LocalsSet, MadeChans, StoreFresh, ChansDistinct, RegisteredOpen, [Next]_vars
  PROVE  RegisteredOpen'
<1> USE Assumption DEF TypeOK, ChanTypes, CallTypes, Procs, UserPcs, ReaderPcs, LocalsSet, MadeChans, StoreFresh, ChansDistinct, RegisteredOpen
<1>1. ASSUME NEW u \in Users, NEW k \in Keys, NEW s \in Syms, GetLookup(u, k, s)
      PROVE  RegisteredOpen'
  BY <1>1 DEF GetLookup, Goto
<1>2. ASSUME NEW u \in Users, GetStore(u)
      PROVE  RegisteredOpen'
  BY <1>2 DEF GetStore, Goto
<1>3. ASSUME NEW u \in Users, AddLookup(u)
      PROVE  RegisteredOpen'
  BY <1>3 DEF AddLookup, Goto
<1>4. ASSUME NEW u \in Users, AddKeys(u)
      PROVE  RegisteredOpen'
  BY <1>4 DEF AddKeys, Return, Goto, locals
<1>5. ASSUME NEW u \in Users, DirectSend(u)
      PROVE  RegisteredOpen'
  BY <1>5 DEF DirectSend, Return, Goto, locals
<1>6. ASSUME NEW u \in Users, Receive(u)
      PROVE  RegisteredOpen'
  BY <1>6 DEF Receive
<1>7. ASSUME NEW u \in Users, NEW k \in Keys, NEW s \in Syms, DelLookup(u, k, s)
      PROVE  RegisteredOpen'
  BY <1>7 DEF DelLookup, Goto
<1>8. ASSUME NEW u \in Users, DelKeys(u)
      PROVE  RegisteredOpen'
  BY <1>8 DEF DelKeys, Goto
<1>9. ASSUME NEW u \in Users, DelLen(u)
      PROVE  RegisteredOpen'
  BY <1>9 DEF DelLen, Return, Goto, locals
<1>10. ASSUME NEW u \in Users, DelClose(u)
      PROVE  RegisteredOpen'
  BY <1>10 DEF DelClose, CloseRegistered, Return, Goto
<1>11. ASSUME NEW u \in Users, ExgClose(u)
      PROVE  RegisteredOpen'
  BY <1>11 DEF ExgClose
<1>12. ASSUME NEW r \in Readers, NEW k \in Keys, WriteTry(r, k)
      PROVE  RegisteredOpen'
  BY <1>12 DEF WriteTry, Goto
<1>13. ASSUME NEW r \in Readers, WritePop(r)
      PROVE  RegisteredOpen'
  BY <1>13 DEF WritePop, Goto
<1>14. ASSUME NEW r \in Readers, WritePush(r)
      PROVE  RegisteredOpen'
  BY <1>14 DEF WritePush, Return, Goto
<1>15. ASSUME NEW r \in Readers, ClosedStart(r)
      PROVE  RegisteredOpen'
  BY <1>15 DEF ClosedStart, Goto
<1>16. ASSUME NEW r \in Readers, NEW k \in Keys, ClosedDelRefs(r, k)
      PROVE  RegisteredOpen'
  BY <1>16 DEF ClosedDelRefs, Goto
<1>17. ASSUME NEW r \in Readers, ClosedCloseChan(r)
      PROVE  RegisteredOpen'
  BY <1>17 DEF ClosedCloseChan, CloseRegistered, Goto
<1>18. ASSUME NEW r \in Readers, ClosedEnd(r)
      PROVE  RegisteredOpen'
  BY <1>18 DEF ClosedEnd, Return, Goto
<1>19. CASE UNCHANGED vars
  BY <1>19 DEF vars
<1>20. QED
  BY <1>1, <1>2, <1>3, <1>4, <1>5, <1>6, <1>7, <1>8, <1>9, <1>10, <1>11, <1>12, <1>13, <1>14, <1>15, <1>16, <1>17, <1>18, <1>19 DEF Next, UserStep, ReaderStep

\* Every step of the others waits while a WriteOutChan holds the lock.
LEMMA WriterHoldsStep ==
  ASSUME TypeOK, LocalsSet, RegisteredOpen, WriterHoldsOpenChan, [Next]_vars
  PROVE  WriterHoldsOpenChan'
<1> USE Assumption DEF TypeOK, ChanTypes, CallTypes, Procs, UserPcs, ReaderPcs, LocalsSet, RegisteredOpen, WriterHoldsOpenChan
<1>1. ASSUME NEW u \in Users, NEW k \in Keys, NEW s \in Syms, GetLookup(u, k, s)
      PROVE  WriterHoldsOpenChan'
  BY <1>1 DEF GetLookup, Goto
<1>2. ASSUME NEW u \in Users, GetStore(u)
      PROVE  WriterHoldsOpenChan'
  BY <1>2 DEF GetStore, Goto
<1>3. ASSUME NEW u \in Users, AddLookup(u)
      PROVE  WriterHoldsOpenChan'
  BY <1>3 DEF AddLookup, Goto
<1>4. ASSUME NEW u \in Users, AddKeys(u)
      PROVE  WriterHoldsOpenChan'
  BY <1>4 DEF AddKeys, Return, Goto, locals
<1>5. ASSUME NEW u \in Users, DirectSend(u)
      PROVE  WriterHoldsOpenChan'
  BY <1>5 DEF DirectSend, Return, Goto, locals
<1>6. ASSUME NEW u \in Users, Receive(u)
      PROVE  WriterHoldsOpenChan'
  BY <1>6 DEF Receive
<1>7. ASSUME NEW u \in Users, NEW k \in Keys, NEW s \in Syms, DelLookup(u, k, s)
      PROVE  WriterHoldsOpenChan'
  BY <1>7 DEF DelLookup, Goto
<1>8. ASSUME NEW u \in Users, DelKeys(u)
      PROVE  WriterHoldsOpenChan'
  BY <1>8 DEF DelKeys, Goto
<1>9. ASSUME NEW u \in Users, DelLen(u)
      PROVE  WriterHoldsOpenChan'
  BY <1>9 DEF DelLen, Return, Goto, locals
<1>10. ASSUME NEW u \in Users, DelClose(u)
      PROVE  WriterHoldsOpenChan'
  BY <1>10 DEF DelClose, CloseRegistered, Return, Goto
<1>11. ASSUME NEW u \in Users, ExgClose(u)
      PROVE  WriterHoldsOpenChan'
  BY <1>11 DEF ExgClose
<1>12. ASSUME NEW r \in Readers, NEW k \in Keys, WriteTry(r, k)
      PROVE  WriterHoldsOpenChan'
  BY <1>12 DEF WriteTry, Goto
<1>13. ASSUME NEW r \in Readers, WritePop(r)
      PROVE  WriterHoldsOpenChan'
  BY <1>13 DEF WritePop, Goto
<1>14. ASSUME NEW r \in Readers, WritePush(r)
      PROVE  WriterHoldsOpenChan'
  BY <1>14 DEF WritePush, Return, Goto
<1>15. ASSUME NEW r \in Readers, ClosedStart(r)
      PROVE  WriterHoldsOpenChan'
  BY <1>15 DEF ClosedStart, Goto
<1>16. ASSUME NEW r \in Readers, NEW k \in Keys, ClosedDelRefs(r, k)
      PROVE  WriterHoldsOpenChan'
  BY <1>16 DEF ClosedDelRefs, Goto
<1>17. ASSUME NEW r \in Readers, ClosedCloseChan(r)
      PROVE  WriterHoldsOpenChan'
  BY <1>17 DEF ClosedCloseChan, CloseRegistered, Goto
<1>18. ASSUME NEW r \in Readers, ClosedEnd(r)
      PROVE  WriterHoldsOpenChan'
  BY <1>18 DEF ClosedEnd, Return, Goto
<1>19. CASE UNCHANGED vars
  BY <1>19 DEF vars
<1>20. QED
  BY <1>1, <1>2, <1>3, <1>4, <1>5, <1>6, <1>7, <1>8, <1>9, <1>10, <1>11, <1>12, <1>13, <1>14, <1>15, <1>16, <1>17, <1>18, <1>19 DEF Next, UserStep, ReaderStep

\* Appending a message keeps the bound and the order of the contents of a channel.
LEMMA AppendOrder ==
  ASSUME NEW q \in Seq(Nat), NEW m \in Nat, NEW n \in Nat
  PROVE  /\ UpTo(q, n) /\ m <= n => UpTo(Append(q, m), n)
         /\ InOrder(q) => InOrder(Append(q, 0))
         /\ InOrder(q) /\ UpTo(q, n) /\ m > n => InOrder(Append(q, m))
BY DEF UpTo, InOrder

\* Taking the first message keeps the bound and the order.
LEMMA TailOrder ==
  ASSUME NEW q \in Seq(Nat), q # << >>, NEW n \in Nat
  PROVE  /\ UpTo(q, n) => UpTo(Tail(q), n)
         /\ InOrder(q) => InOrder(Tail(q))
<1>1. \A i \in DOMAIN Tail(q) : i \in Nat /\ i + 1 \in DOMAIN q /\ Tail(q)[i] = q[i + 1]
  OBVIOUS
<1>2. UpTo(q, n) => UpTo(Tail(q), n)
  BY <1>1 DEF UpTo
<1>3. \A i, j \in DOMAIN Tail(q) : i < j => i + 1 < j + 1
  BY <1>1
<1>4. InOrder(q) => InOrder(Tail(q))
  BY <1>1, <1>3 DEF InOrder
<1> QED
  BY <1>2, <1>4

\* A bound on the messages of a channel may grow.
LEMMA UpToWeaken ==
  ASSUME NEW q \in Seq(Nat), NEW n \in Nat, NEW m \in Nat, n <= m, UpTo(q, n)
  PROVE  UpTo(q, m)
BY DEF UpTo

\* The messages are natural numbers.
LEMMA BufNat ==
  ASSUME MsgTypes
  PROVE  buf \in [Chans -> Seq(Nat)] /\ sent \in Nat /\ msg \in [Procs -> Nat]
<1>1. Msgs \subseteq Nat
  BY Assumption DEF Msgs
<1>2. \A q \in Seq(Msgs) : q \in Seq(Nat)
  BY Assumption DEF Msgs
<1> QED
  BY <1>1, <1>2 DEF MsgTypes

\* Every step keeps a reference map under one key.
LEMMA MapsOwnedStep ==
  ASSUME TypeOK, LocalsSet, MapsOwned, [Next]_vars
  PROVE  MapsOwned'
<1> USE Assumption DEF TypeOK, ChanTypes, RefTypes, CallTypes, Procs, UserPcs, ReaderPcs, LocalsSet, MapsOwned
<1>1. ASSUME NEW u \in Users, NEW k \in Keys, NEW s \in Syms, GetLookup(u, k, s)
      PROVE  MapsOwned'
  BY <1>1 DEF GetLookup, Goto
<1>2. ASSUME NEW u \in Users, GetStore(u)
      PROVE  MapsOwned'
  BY <1>2 DEF GetStore, Goto
<1>3. ASSUME NEW u \in Users, AddLookup(u)
      PROVE  MapsOwned'
  BY <1>3 DEF AddLookup, Goto
<1>4. ASSUME NEW u \in Users, AddKeys(u)
      PROVE  MapsOwned'
  BY <1>4 DEF AddKeys, Return, Goto, locals
<1>5. ASSUME NEW u \in Users, DirectSend(u)
      PROVE  MapsOwned'
  BY <1>5 DEF DirectSend, Return, Goto, locals
<1>6. ASSUME NEW u \in Users, Receive(u)
      PROVE  MapsOwned'
  BY <1>6 DEF Receive
<1>7. ASSUME NEW u \in Users, NEW k \in Keys, NEW s \in Syms, DelLookup(u, k, s)
      PROVE  MapsOwned'
  BY <1>7 DEF DelLookup, Goto
<1>8. ASSUME NEW u \in Users, DelKeys(u)
      PROVE  MapsOwned'
  BY <1>8 DEF DelKeys, Goto
<1>9. ASSUME NEW u \in Users, DelLen(u)
      PROVE  MapsOwned'
  BY <1>9 DEF DelLen, Return, Goto, locals
<1>10. ASSUME NEW u \in Users, DelClose(u)
      PROVE  MapsOwned'
  BY <1>10 DEF DelClose, CloseRegistered, Return, Goto
<1>11. ASSUME NEW u \in Users, ExgClose(u)
      PROVE  MapsOwned'
  BY <1>11 DEF ExgClose
<1>12. ASSUME NEW r \in Readers, NEW k \in Keys, WriteTry(r, k)
      PROVE  MapsOwned'
  BY <1>12 DEF WriteTry, Goto
<1>13. ASSUME NEW r \in Readers, WritePop(r)
      PROVE  MapsOwned'
  BY <1>13 DEF WritePop, Goto
<1>14. ASSUME NEW r \in Readers, WritePush(r)
      PROVE  MapsOwned'
  BY <1>14 DEF WritePush, Return, Goto
<1>15. ASSUME NEW r \in Readers, ClosedStart(r)
      PROVE  MapsOwned'
  BY <1>15 DEF ClosedStart, Goto
<1>16. ASSUME NEW r \in Readers, NEW k \in Keys, ClosedDelRefs(r, k)
      PROVE  MapsOwned'
  BY <1>16 DEF ClosedDelRefs, Goto
<1>17. ASSUME NEW r \in Readers, ClosedCloseChan(r)
      PROVE  MapsOwned'
  BY <1>17 DEF ClosedCloseChan, CloseRegistered, Goto
<1>18. ASSUME NEW r \in Readers, ClosedEnd(r)
      PROVE  MapsOwned'
  BY <1>18 DEF ClosedEnd, Return, Goto
<1>19. CASE UNCHANGED vars
  BY <1>19 DEF vars
<1>20. QED
  BY <1>1, <1>2, <1>3, <1>4, <1>5, <1>6, <1>7, <1>8, <1>9, <1>10, <1>11, <1>12, <1>13, <1>14, <1>15, <1>16, <1>17, <1>18, <1>19 DEF Next, UserStep, ReaderStep

\* Every step that takes the last reference of a key is in a call that closes its channel.
LEMMA TrackedStep ==
  ASSUME TypeOK, LocalsSet, MapsOwned, Tracked, [Next]_vars
  PROVE  Tracked'
<1> USE Assumption DEF TypeOK, ChanTypes, RefTypes, CallTypes, Procs, UserPcs, ReaderPcs, LocalsSet, MapsOwned, Tracked, HasRefs, UserOn, ClosingOn
<1>1. ASSUME NEW u \in Users, NEW k \in Keys, NEW s \in Syms, GetLookup(u, k, s)
      PROVE  Tracked'
  BY <1>1 DEF GetLookup, Goto
<1>2. ASSUME NEW u \in Users, GetStore(u)
      PROVE  Tracked'
  BY <1>2 DEF GetStore, Goto
<1>3. ASSUME NEW u \in Users, AddLookup(u)
      PROVE  Tracked'
  BY <1>3 DEF AddLookup, Goto
<1>4. ASSUME NEW u \in Users, AddKeys(u)
      PROVE  Tracked'
  <2>1. rm[u] \in RefMaps /\ sym[u] \in Syms
    BY <1>4 DEF AddKeys
  <2>2. UNCHANGED <<WsOutChans, WsChanRefs>>
    BY <1>4 DEF AddKeys
  <2>3. refs' = [refs EXCEPT ![rm[u]] = refs[rm[u]] \cup {sym[u]}]
    BY <1>4 DEF AddKeys
  <2>4. \A k \in Keys : HasRefs(k) => HasRefs(k)'
    BY <2>1, <2>2, <2>3
  <2>5. \A k \in Keys : WsChanRefs[k] = rm[u] => HasRefs(k)'
    BY <2>1, <2>2, <2>3
  <2>6. \A v \in Users \ {u} : key'[v] = key[v] /\ pc'[v] = pc[v] /\ rm'[v] = rm[v]
    BY <1>4 DEF AddKeys, Goto, Return, locals
  <2>7. \A k \in Keys, v \in Users \ {u} : UserOn(v, k) => UserOn(v, k)'
    BY <2>2, <2>6
  <2>8. \A k \in Keys : UserOn(u, k) => HasRefs(k)'
    BY <1>4, <2>5 DEF AddKeys
  <2>9. \A k \in Keys, r \in Readers : ClosingOn(r, k) => ClosingOn(r, k)'
    BY <1>4 DEF AddKeys, Goto, Return, locals
  <2> QED
    BY <2>2, <2>4, <2>7, <2>8, <2>9
<1>5. ASSUME NEW u \in Users, DirectSend(u)
      PROVE  Tracked'
  BY SMTT(30), <1>5 DEF DirectSend, Return, Goto, locals
<1>6. ASSUME NEW u \in Users, Receive(u)
      PROVE  Tracked'
  BY <1>6 DEF Receive
<1>7. ASSUME NEW u \in Users, NEW k \in Keys, NEW s \in Syms, DelLookup(u, k, s)
      PROVE  Tracked'
  BY <1>7 DEF DelLookup, Goto
<1>8. ASSUME NEW u \in Users, DelKeys(u)
      PROVE  Tracked'
  BY <1>8 DEF DelKeys, Goto
<1>9. ASSUME NEW u \in Users, DelLen(u)
      PROVE  Tracked'
  BY <1>9 DEF DelLen, Return, Goto, locals
<1>10. ASSUME NEW u \in Users, DelClose(u)
      PROVE  Tracked'
  BY <1>10 DEF DelClose, CloseRegistered, Return, Goto
<1>11. ASSUME NEW u \in Users, ExgClose(u)
      PROVE  Tracked'
  BY <1>11 DEF ExgClose
<1>12. ASSUME NEW r \in Readers, NEW k \in Keys, WriteTry(r, k)
      PROVE  Tracked'
  BY SMTT(30), <1>12 DEF WriteTry, Goto
<1>13. ASSUME NEW r \in Readers, WritePop(r)
      PROVE  Tracked'
  BY <1>13 DEF WritePop, Goto
<1>14. ASSUME NEW r \in Readers, WritePush(r)
      PROVE  Tracked'
  BY <1>14 DEF WritePush, Return, Goto
<1>15. ASSUME NEW r \in Readers, ClosedStart(r)
      PROVE  Tracked'
  BY <1>15 DEF ClosedStart, Goto
<1>16. ASSUME NEW r \in Readers, NEW k \in Keys, ClosedDelRefs(r, k)
      PROVE  Tracked'
  BY <1>16 DEF ClosedDelRefs, Goto
<1>17. ASSUME NEW r \in Readers, ClosedCloseChan(r)
      PROVE  Tracked'
  BY <1>17 DEF ClosedCloseChan, CloseRegistered, Goto
<1>18. ASSUME NEW r \in Readers, ClosedEnd(r)
      PROVE  Tracked'
  BY <1>18 DEF ClosedEnd, Return, Goto
<1>19. CASE UNCHANGED vars
  BY <1>19 DEF vars
<1>20. QED
  BY <1>1, <1>2, <1>3, <1>4, <1>5, <1>6, <1>7, <1>8, <1>9, <1>10, <1>11, <1>12, <1>13, <1>14, <1>15, <1>16, <1>17, <1>18, <1>19 DEF Next, UserStep, ReaderStep

\* WriterNewest survives a step in which no message arrives, no WriteOutChan
\* starts to wait and no channel gets anything newer.
LEMMA NewestKept ==
  ASSUME WriterNewest, sent' = sent, sent \in Nat,
         \A c \in Chans, n \in Nat : UpTo(buf[c], n) => UpTo(buf'[c], n),
         \A r \in Readers : pc'[r] \in {"pop", "push"} =>
                             pc[r] \in {"pop", "push"} /\ msg'[r] = msg[r]
  PROVE  WriterNewest'
<1>1. sent > 0 => sent - 1 \in Nat
  OBVIOUS
<1> QED
  BY <1>1 DEF WriterNewest

\* Every step keeps the channels below the number of messages that arrived.
LEMMA WriterNewestStep ==
  ASSUME TypeOK, LocalsSet, WriterHoldsOpenChan, WriterNewest, [Next]_vars
  PROVE  WriterNewest'
<1> USE Assumption DEF TypeOK, ChanTypes, CallTypes, MsgTypes, Procs, UserPcs, ReaderPcs, LocalsSet
<1>1. ASSUME NEW u \in Users, NEW k \in Keys, NEW s \in Syms, GetLookup(u, k, s)
      PROVE  WriterNewest'
  BY <1>1, BufNat DEF WriterNewest, GetLookup, Goto
<1>2. ASSUME NEW u \in Users, GetStore(u)
      PROVE  WriterNewest'
  BY <1>2, BufNat DEF WriterNewest, GetStore, Goto
<1>3. ASSUME NEW u \in Users, AddLookup(u)
      PROVE  WriterNewest'
  BY <1>3, BufNat DEF WriterNewest, AddLookup, Goto
<1>4. ASSUME NEW u \in Users, AddKeys(u)
      PROVE  WriterNewest'
  BY <1>4, BufNat DEF WriterNewest, AddKeys, Return, Goto, locals
<1>5. ASSUME NEW u \in Users, DirectSend(u)
      PROVE  WriterNewest'
  <2>1. ch[u] \in Chans /\ sent \in Nat /\ buf \in [Chans -> Seq(Nat)]
    BY <1>5, BufNat DEF WriterNewest, DirectSend
  <2>2. buf' = buf \/ buf' = [buf EXCEPT ![ch[u]] = Append(buf[ch[u]], 0)]
    BY <1>5 DEF DirectSend
  <2>3. \A n \in Nat : UpTo(buf[ch[u]], n) => UpTo(Append(buf[ch[u]], 0), n)
    BY <2>1, AppendOrder
  <2>4. \A c \in Chans : \/ buf'[c] = buf[c]
                         \/ c = ch[u] /\ buf'[c] = Append(buf[ch[u]], 0)
    BY <2>1, <2>2
  <2>5. \A c \in Chans, n \in Nat : UpTo(buf[c], n) => UpTo(buf'[c], n)
    BY ZenonT(30), <2>3, <2>4
  <2>6. sent' = sent /\ \A r \in Readers : pc'[r] = pc[r] /\ msg'[r] = msg[r]
    BY <1>5 DEF DirectSend, Return, Goto, locals
  <2> QED
    BY <2>1, <2>5, <2>6, NewestKept
<1>6. ASSUME NEW u \in Users, Receive(u)
      PROVE  WriterNewest'
  <2>1. held[u] \in Chans /\ sent \in Nat /\ buf \in [Chans -> Seq(Nat)]
    BY <1>6, BufNat DEF WriterNewest, Receive
  <2>2. \/ buf' = buf
        \/ buf[held[u]] # << >> /\ buf' = [buf EXCEPT ![held[u]] = Tail(buf[held[u]])]
    BY <1>6 DEF Receive
  <2>3. \A n \in Nat : buf[held[u]] # << >> /\ UpTo(buf[held[u]], n)
                      => UpTo(Tail(buf[held[u]]), n)
    BY <2>1, TailOrder
  <2>4. \A c \in Chans : \/ buf'[c] = buf[c]
                         \/ /\ c = held[u] /\ buf[held[u]] # << >>
                            /\ buf'[c] = Tail(buf[held[u]])
    BY <2>1, <2>2
  <2>5. \A c \in Chans, n \in Nat : UpTo(buf[c], n) => UpTo(buf'[c], n)
    BY <2>3, <2>4
  <2>6. sent' = sent /\ \A r \in Readers : pc'[r] = pc[r] /\ msg'[r] = msg[r]
    BY <1>6 DEF Receive
  <2> QED
    BY <2>1, <2>5, <2>6, NewestKept
<1>7. ASSUME NEW u \in Users, NEW k \in Keys, NEW s \in Syms, DelLookup(u, k, s)
      PROVE  WriterNewest'
  BY <1>7, BufNat DEF WriterNewest, DelLookup, Goto
<1>8. ASSUME NEW u \in Users, DelKeys(u)
      PROVE  WriterNewest'
  BY <1>8, BufNat DEF WriterNewest, DelKeys, Goto
<1>9. ASSUME NEW u \in Users, DelLen(u)
      PROVE  WriterNewest'
  BY <1>9, BufNat DEF WriterNewest, DelLen, Return, Goto, locals
<1>10. ASSUME NEW u \in Users, DelClose(u)
      PROVE  WriterNewest'
  BY <1>10, BufNat DEF WriterNewest, DelClose, CloseRegistered, Return, Goto
<1>11. ASSUME NEW u \in Users, ExgClose(u)
      PROVE  WriterNewest'
  BY <1>11, BufNat DEF WriterNewest, ExgClose
<1>12. ASSUME NEW r \in Readers, NEW k \in Keys, WriteTry(r, k)
      PROVE  WriterNewest'
  <2>1. sent \in Nat /\ buf \in [Chans -> Seq(Nat)] /\ sent' = sent + 1
    BY <1>12, BufNat DEF WriterNewest, WriteTry
  <2>2. \/ buf' = buf
        \/ /\ WsOutChans[k] \in Chans
           /\ buf' = [buf EXCEPT ![WsOutChans[k]] = Append(buf[WsOutChans[k]], sent + 1)]
    BY <1>12 DEF WriteTry
  <2>3. \A c \in Chans : UpTo(buf[c], sent) /\ UpTo(buf[c], sent + 1)
    BY <2>1, UpToWeaken DEF WriterNewest
  <2>4. \A c \in Chans : UpTo(buf'[c], sent + 1)
    <3>1. WsOutChans[k] \in Chans =>
            UpTo(Append(buf[WsOutChans[k]], sent + 1), sent + 1)
      BY <2>1, <2>3, AppendOrder
    <3>2. \A c \in Chans :
            \/ buf'[c] = buf[c]
            \/ /\ c = WsOutChans[k] /\ WsOutChans[k] \in Chans
               /\ buf'[c] = Append(buf[WsOutChans[k]], sent + 1)
      BY <2>1, <2>2
    <3> QED
      BY <2>3, <3>1, <3>2
  <2>5. \A q \in Readers : pc[q] \notin {"pop", "push"}
    BY <1>12, Assumption DEF WriteTry, WriterHoldsOpenChan
  <2>6. \A q \in Readers : pc'[q] \in {"pop", "push"} => buf' = buf /\ msg'[q] = sent + 1
    BY <1>12, <2>5 DEF WriteTry, Goto
  <2>7. sent' > 0 /\ sent' - 1 = sent
    BY <2>1
  <2> QED
    BY <2>1, <2>3, <2>4, <2>6, <2>7 DEF WriterNewest
<1>13. ASSUME NEW r \in Readers, WritePop(r)
      PROVE  WriterNewest'
  <2>1. ch[r] \in Chans /\ sent \in Nat /\ buf \in [Chans -> Seq(Nat)]
    BY <1>13, BufNat DEF WriterNewest, WritePop
  <2>2. buf[ch[r]] # << >> /\ buf' = [buf EXCEPT ![ch[r]] = Tail(buf[ch[r]])]
    BY <1>13 DEF WritePop
  <2>3. \A c \in Chans, n \in Nat : UpTo(buf[c], n) => UpTo(buf'[c], n)
    BY <2>1, <2>2, TailOrder
  <2>4. /\ sent' = sent
        /\ \A q \in Readers : msg'[q] = msg[q]
        /\ \A q \in Readers : pc'[q] \in {"pop", "push"} => pc[q] \in {"pop", "push"}
    BY <1>13 DEF WritePop, Goto
  <2> QED
    BY <2>1, <2>3, <2>4, NewestKept
<1>14. ASSUME NEW r \in Readers, WritePush(r)
      PROVE  WriterNewest'
  <2>1. ch[r] \in Chans /\ sent \in Nat /\ buf \in [Chans -> Seq(Nat)] /\ msg[r] = sent
    BY <1>14, BufNat DEF WriterNewest, WritePush, WriterNewest
  <2>2. buf' = [buf EXCEPT ![ch[r]] = Append(buf[ch[r]], sent)]
    BY <1>14, <2>1 DEF WritePush
  <2>3. \A c \in Chans : UpTo(buf'[c], sent)
    BY <2>1, <2>2, AppendOrder DEF WriterNewest
  <2>4. \A q \in Readers : pc'[q] \notin {"pop", "push"}
    BY <1>14 DEF WritePush, Return, Goto, WriterHoldsOpenChan
  <2>5. sent' = sent
    BY <1>14 DEF WritePush
  <2> QED
    BY <2>3, <2>4, <2>5 DEF WriterNewest
<1>15. ASSUME NEW r \in Readers, ClosedStart(r)
      PROVE  WriterNewest'
  BY <1>15, BufNat DEF WriterNewest, ClosedStart, Goto
<1>16. ASSUME NEW r \in Readers, NEW k \in Keys, ClosedDelRefs(r, k)
      PROVE  WriterNewest'
  BY <1>16, BufNat DEF WriterNewest, ClosedDelRefs, Goto
<1>17. ASSUME NEW r \in Readers, ClosedCloseChan(r)
      PROVE  WriterNewest'
  BY <1>17, BufNat DEF WriterNewest, ClosedCloseChan, CloseRegistered, Goto
<1>18. ASSUME NEW r \in Readers, ClosedEnd(r)
      PROVE  WriterNewest'
  BY <1>18, BufNat DEF WriterNewest, ClosedEnd, Return, Goto
<1>19. CASE UNCHANGED vars
  BY <1>19 DEF vars, WriterNewest
<1>20. QED
  BY <1>1, <1>2, <1>3, <1>4, <1>5, <1>6, <1>7, <1>8, <1>9, <1>10, <1>11, <1>12, <1>13, <1>14, <1>15, <1>16, <1>17, <1>18, <1>19 DEF Next, UserStep, ReaderStep

\* Every step appends a newer message or takes the first one.
LEMMA BufferInOrderStep ==
  ASSUME TypeOK, LocalsSet, WriterNewest, BufferInOrder, [Next]_vars
  PROVE  BufferInOrder'
<1> USE Assumption DEF TypeOK, ChanTypes, CallTypes, MsgTypes, Procs, UserPcs, ReaderPcs, LocalsSet
<1>1. ASSUME NEW u \in Users, NEW k \in Keys, NEW s \in Syms, GetLookup(u, k, s)
      PROVE  BufferInOrder'
  BY <1>1 DEF BufferInOrder, GetLookup, Goto
<1>2. ASSUME NEW u \in Users, GetStore(u)
      PROVE  BufferInOrder'
  BY <1>2 DEF BufferInOrder, GetStore, Goto
<1>3. ASSUME NEW u \in Users, AddLookup(u)
      PROVE  BufferInOrder'
  BY <1>3 DEF BufferInOrder, AddLookup, Goto
<1>4. ASSUME NEW u \in Users, AddKeys(u)
      PROVE  BufferInOrder'
  BY <1>4 DEF BufferInOrder, AddKeys, Return, Goto, locals
<1>5. ASSUME NEW u \in Users, DirectSend(u)
      PROVE  BufferInOrder'
  <2>1. ch[u] \in Chans /\ buf \in [Chans -> Seq(Nat)]
    BY <1>5, BufNat DEF DirectSend
  <2>2. buf' = buf \/ buf' = [buf EXCEPT ![ch[u]] = Append(buf[ch[u]], 0)]
    BY <1>5 DEF BufferInOrder, DirectSend
  <2>3. InOrder(buf[ch[u]]) => InOrder(Append(buf[ch[u]], 0))
    BY <2>1, AppendOrder
  <2>4. \A c \in Chans : \/ buf'[c] = buf[c]
                         \/ c = ch[u] /\ buf'[c] = Append(buf[ch[u]], 0)
    BY <2>1, <2>2
  <2> QED
    BY <2>1, <2>3, <2>4 DEF BufferInOrder
<1>6. ASSUME NEW u \in Users, Receive(u)
      PROVE  BufferInOrder'
  <2>1. held[u] \in Chans /\ buf \in [Chans -> Seq(Nat)]
    BY <1>6, BufNat DEF Receive
  <2>2. \/ buf' = buf
        \/ buf[held[u]] # << >> /\ buf' = [buf EXCEPT ![held[u]] = Tail(buf[held[u]])]
    BY <1>6 DEF BufferInOrder, Receive
  <2>3. buf[held[u]] # << >> /\ InOrder(buf[held[u]]) => InOrder(Tail(buf[held[u]]))
    BY <2>1, TailOrder
  <2>4. \A c \in Chans : \/ buf'[c] = buf[c]
                         \/ /\ c = held[u] /\ buf[held[u]] # << >>
                            /\ buf'[c] = Tail(buf[held[u]])
    BY <2>1, <2>2
  <2> QED
    BY <2>1, <2>3, <2>4 DEF BufferInOrder
<1>7. ASSUME NEW u \in Users, NEW k \in Keys, NEW s \in Syms, DelLookup(u, k, s)
      PROVE  BufferInOrder'
  BY <1>7 DEF BufferInOrder, DelLookup, Goto
<1>8. ASSUME NEW u \in Users, DelKeys(u)
      PROVE  BufferInOrder'
  BY <1>8 DEF BufferInOrder, DelKeys, Goto
<1>9. ASSUME NEW u \in Users, DelLen(u)
      PROVE  BufferInOrder'
  BY <1>9 DEF BufferInOrder, DelLen, Return, Goto, locals
<1>10. ASSUME NEW u \in Users, DelClose(u)
      PROVE  BufferInOrder'
  BY <1>10 DEF BufferInOrder, DelClose, CloseRegistered, Return, Goto
<1>11. ASSUME NEW u \in Users, ExgClose(u)
      PROVE  BufferInOrder'
  BY <1>11 DEF BufferInOrder, ExgClose
<1>12. ASSUME NEW r \in Readers, NEW k \in Keys, WriteTry(r, k)
      PROVE  BufferInOrder'
  <2>1. sent \in Nat /\ sent + 1 \in Nat /\ buf \in [Chans -> Seq(Nat)]
    BY BufNat
  <2>2. \/ buf' = buf
        \/ /\ WsOutChans[k] \in Chans
           /\ buf' = [buf EXCEPT ![WsOutChans[k]] = Append(buf[WsOutChans[k]], sent + 1)]
    BY <1>12 DEF BufferInOrder, WriteTry
  <2>3. \A c \in Chans : UpTo(buf[c], sent) /\ sent + 1 > sent
    BY <2>1 DEF WriterNewest
  <2>4. WsOutChans[k] \in Chans /\ InOrder(buf[WsOutChans[k]]) =>
          InOrder(Append(buf[WsOutChans[k]], sent + 1))
    BY <2>1, <2>3, AppendOrder
  <2>5. \A c \in Chans :
          \/ buf'[c] = buf[c]
          \/ /\ c = WsOutChans[k] /\ WsOutChans[k] \in Chans
             /\ buf'[c] = Append(buf[WsOutChans[k]], sent + 1)
    BY <2>1, <2>2
  <2> QED
    BY <2>4, <2>5 DEF BufferInOrder
<1>13. ASSUME NEW r \in Readers, WritePop(r)
      PROVE  BufferInOrder'
  <2>1. ch[r] \in Chans /\ buf \in [Chans -> Seq(Nat)]
    BY <1>13, BufNat DEF WritePop
  <2>2. buf[ch[r]] # << >> /\ buf' = [buf EXCEPT ![ch[r]] = Tail(buf[ch[r]])]
    BY <1>13 DEF BufferInOrder, WritePop
  <2> QED
    BY <2>1, <2>2, TailOrder DEF BufferInOrder
<1>14. ASSUME NEW r \in Readers, WritePush(r)
      PROVE  BufferInOrder'
  <2>1. ch[r] \in Chans /\ buf \in [Chans -> Seq(Nat)]
    BY <1>14, BufNat DEF WritePush
  <2>2. msg[r] = sent /\ sent \in Nat /\ sent > 0 /\ UpTo(buf[ch[r]], sent - 1)
    BY <1>14, <2>1, BufNat DEF WritePush, WriterNewest
  <2>3. buf' = [buf EXCEPT ![ch[r]] = Append(buf[ch[r]], sent)]
    BY <1>14, <2>2 DEF WritePush
  <2>4. sent - 1 \in Nat /\ sent > sent - 1
    BY <2>2
  <2> QED
    BY <2>1, <2>2, <2>3, <2>4, AppendOrder DEF BufferInOrder
<1>15. ASSUME NEW r \in Readers, ClosedStart(r)
      PROVE  BufferInOrder'
  BY <1>15 DEF BufferInOrder, ClosedStart, Goto
<1>16. ASSUME NEW r \in Readers, NEW k \in Keys, ClosedDelRefs(r, k)
      PROVE  BufferInOrder'
  BY <1>16 DEF BufferInOrder, ClosedDelRefs, Goto
<1>17. ASSUME NEW r \in Readers, ClosedCloseChan(r)
      PROVE  BufferInOrder'
  BY <1>17 DEF BufferInOrder, ClosedCloseChan, CloseRegistered, Goto
<1>18. ASSUME NEW r \in Readers, ClosedEnd(r)
      PROVE  BufferInOrder'
  BY <1>18 DEF BufferInOrder, ClosedEnd, Return, Goto
<1>19. CASE UNCHANGED vars
  BY <1>19 DEF BufferInOrder, vars
<1>20. QED
  BY <1>1, <1>2, <1>3, <1>4, <1>5, <1>6, <1>7, <1>8, <1>9, <1>10, <1>11, <1>12, <1>13, <1>14, <1>15, <1>16, <1>17, <1>18, <1>19 DEF Next, UserStep, ReaderStep

-------------------------------------------------------------------------------
\* The inductive invariant holds at the start and every step keeps it.
LEMMA InitIInv == Init => IInv
<1> SUFFICES ASSUME Init
             PROVE  IInv
  OBVIOUS
<1> USE Assumption DEF Init
<1>1. TypeOK
  <2>1. ChanTypes /\ RefTypes /\ CallTypes
    BY DEF ChanTypes, RefTypes, CallTypes, Procs, UserPcs, ReaderPcs
  <2>2. MsgTypes
    BY ZeroMsg DEF MsgTypes
  <2> QED
    BY <2>1, <2>2 DEF TypeOK
<1>2. LocalsSet /\ MadeChans /\ RegisteredOpen /\ StoreFresh /\ ChansDistinct
  BY DEF LocalsSet, MadeChans, RegisteredOpen, StoreFresh, ChansDistinct, Procs, UserPcs
<1>3. WriterHoldsOpenChan /\ WriterNewest /\ BufferInOrder
  BY DEF WriterHoldsOpenChan, WriterNewest, BufferInOrder, UpTo, InOrder, Procs
<1>4. MapsOwned /\ Tracked
  BY DEF MapsOwned, Tracked, Procs
<1> QED
  BY <1>1, <1>2, <1>3, <1>4 DEF IInv

\* Every step keeps the inductive invariant.
LEMMA StepIInv == IInv /\ [Next]_vars => IInv'
<1> SUFFICES ASSUME IInv, [Next]_vars
             PROVE  IInv'
  OBVIOUS
<1>1. TypeOK'
  BY ChanTypesStep, RefTypesStep, CallTypesStep, MsgTypesStep DEF IInv, TypeOK
<1>2. LocalsSet' /\ MadeChans' /\ RegisteredOpen'
  BY LocalsSetStep, MadeChansStep, RegisteredOpenStep DEF IInv
<1>3. StoreFresh' /\ ChansDistinct' /\ WriterHoldsOpenChan'
  BY StoreFreshStep, ChansDistinctStep, WriterHoldsStep DEF IInv
<1>4. WriterNewest' /\ BufferInOrder'
  BY WriterNewestStep, BufferInOrderStep DEF IInv
<1>5. MapsOwned' /\ Tracked'
  BY MapsOwnedStep, TrackedStep DEF IInv
<1> QED
  BY <1>1, <1>2, <1>3, <1>4, <1>5 DEF IInv

\* The inductive invariant holds in every reachable state.
THEOREM Invariance == Spec => []IInv
BY InitIInv, StepIInv, PTL DEF Spec

\* Type correctness of the output channels.
THEOREM TypeCorrect == Spec => []TypeOK
<1>1. IInv => TypeOK
  BY DEF IInv
<1> QED
  BY <1>1, Invariance, PTL

\* No channel that WsOutChans still offers is closed: no double close, and no
\* WriteOutChan sends on a closed channel, for any number of callers.
THEOREM NoClosedChanRegistered == Spec => []RegisteredOpen
<1>1. IInv => RegisteredOpen
  BY DEF IInv
<1> QED
  BY <1>1, Invariance, PTL

\* A WriteOutChan that waits in the middle of a pop and push still holds the lock
\* and its channel is the registered, open one.
THEOREM WriterSafe == Spec => []WriterHoldsOpenChan
<1>1. IInv => WriterHoldsOpenChan
  BY DEF IInv
<1> QED
  BY <1>1, Invariance, PTL

\* Messages stay in the order of the websocket in every channel, however many
\* readers write to it.
THEOREM OrderKept == Spec => []BufferInOrder
<1>1. IInv => BufferInOrder
  BY DEF IInv
<1> QED
  BY <1>1, Invariance, PTL

\* When no call is in progress every registered channel has a reference left.
THEOREM NoLeak == Spec => []RegisteredInUse
<1>1. IInv => RegisteredInUse
  BY DEF IInv, Tracked, HasRefs, UserOn, ClosingOn, RegisteredInUse, Procs
<1> QED
  BY <1>1, Invariance, PTL

\* The variables of the promise, as this module keeps them.
promiseVars == <<made \ closed, closed, buf>>

\* Closing registered channels is a step of the promise, or none.
LEMMA ShutStep ==
  ASSUME IInv, NEW ks \in SUBSET Keys, UNCHANGED <<made, buf>>,
         closed' = closed \cup ({WsOutChans[k] : k \in ks} \ {None})
  PROVE  [Promise!Next]_promiseVars
<1> DEFINE cs == {WsOutChans[k] : k \in ks} \ {None}
<1>1. cs \in SUBSET (made \ closed)
  BY DEF IInv, MadeChans, RegisteredOpen
<1>2. CASE cs = {}
  BY <1>2 DEF promiseVars
<1>3. CASE cs # {}
  <2>1. made' \ closed' = (made \ closed) \ cs
    OBVIOUS
  <2>2. Promise!Shut(cs)
    BY <1>3, <2>1 DEF Promise!Shut
  <2> QED
    BY <1>1, <2>2 DEF Promise!Next
<1> QED
  BY <1>2, <1>3

\* Sending a message that is newer than those of an open channel with room is a
\* step of the promise.
LEMMA PushStep ==
  ASSUME NEW c \in Chans, NEW m \in Msgs, c \in made \ closed, Len(buf[c]) < Cap,
         m # 0 => \A i \in DOMAIN buf[c] : buf[c][i] < m,
         buf' = [buf EXCEPT ![c] = Append(buf[c], m)], UNCHANGED <<made, closed>>
  PROVE  [Promise!Next]_promiseVars
<1>1. Promise!Push(c, m)
  BY DEF Promise!Push, Promise!Newer
<1> QED
  BY <1>1 DEF Promise!Next

\* So is taking the first message of a channel.
LEMMA TakeStep ==
  ASSUME NEW c \in Chans, buf[c] # << >>,
         buf' = [buf EXCEPT ![c] = Tail(buf[c])], UNCHANGED <<made, closed>>
  PROVE  [Promise!Next]_promiseVars
<1>1. Promise!Take(c)
  BY DEF Promise!Take
<1> QED
  BY <1>1 DEF Promise!Next

\* Every step of the output channels is a step of the promise or leaves its
\* variables alone.
LEMMA PromiseStep ==
  ASSUME IInv, [Next]_vars
  PROVE  [Promise!Next]_promiseVars
<1> USE Assumption
<1>0. TypeOK /\ LocalsSet /\ MadeChans /\ WriterNewest /\ WriterHoldsOpenChan
  BY DEF IInv
<1>1. ASSUME NEW u \in Users, NEW k \in Keys, NEW s \in Syms, GetLookup(u, k, s)
      PROVE  [Promise!Next]_promiseVars
  <2>1. CASE made' = made
    BY <1>1, <2>1 DEF GetLookup, promiseVars
  <2>2. ASSUME NEW c \in Chans \ made, made' = made \cup {c}
        PROVE  [Promise!Next]_promiseVars
    <3>1. c \notin (made \ closed) \cup closed /\ UNCHANGED <<closed, buf>>
      BY <1>0, <1>1, <2>2 DEF MadeChans, GetLookup
    <3>2. made' \ closed' = (made \ closed) \cup {c}
      BY <2>2, <3>1
    <3>3. Promise!Make(c)
      BY <3>1, <3>2 DEF Promise!Make
    <3> QED
      BY <3>3 DEF Promise!Next
  <2> QED
    BY <1>1, <2>1, <2>2 DEF GetLookup
<1>2. ASSUME NEW u \in Users, GetStore(u)
      PROVE  [Promise!Next]_promiseVars
  BY <1>2 DEF GetStore, promiseVars
<1>3. ASSUME NEW u \in Users, AddLookup(u)
      PROVE  [Promise!Next]_promiseVars
  BY <1>3 DEF AddLookup, promiseVars
<1>4. ASSUME NEW u \in Users, AddKeys(u)
      PROVE  [Promise!Next]_promiseVars
  BY <1>4 DEF AddKeys, promiseVars
<1>5. ASSUME NEW u \in Users, NEW k \in Keys, NEW s \in Syms, DelLookup(u, k, s)
      PROVE  [Promise!Next]_promiseVars
  BY <1>5 DEF DelLookup, promiseVars
<1>6. ASSUME NEW u \in Users, DelKeys(u)
      PROVE  [Promise!Next]_promiseVars
  BY <1>6 DEF DelKeys, promiseVars
<1>7. ASSUME NEW u \in Users, DelLen(u)
      PROVE  [Promise!Next]_promiseVars
  BY <1>7 DEF DelLen, promiseVars
<1>8. ASSUME NEW r \in Readers, ClosedStart(r)
      PROVE  [Promise!Next]_promiseVars
  BY <1>8 DEF ClosedStart, promiseVars
<1>9. ASSUME NEW r \in Readers, NEW k \in Keys, ClosedDelRefs(r, k)
      PROVE  [Promise!Next]_promiseVars
  BY <1>9 DEF ClosedDelRefs, promiseVars
<1>10. ASSUME NEW r \in Readers, ClosedEnd(r)
      PROVE  [Promise!Next]_promiseVars
  BY <1>10 DEF ClosedEnd, promiseVars
<1>11. ASSUME NEW u \in Users, DirectSend(u)
      PROVE  [Promise!Next]_promiseVars
  <2>1. CASE buf' = buf
    BY <1>11, <2>1 DEF DirectSend, promiseVars
  <2>2. CASE ch[u] \notin closed /\ buf' = [buf EXCEPT ![ch[u]] = Append(buf[ch[u]], 0)]
    <3>1. ch[u] \in Chans /\ ch[u] \in made
      BY <1>0, <1>11 DEF DirectSend, LocalsSet, MadeChans, TypeOK, ChanTypes, Procs, UserPcs
    <3>2. CASE Len(buf[ch[u]]) < Cap
      BY <1>11, <2>2, <3>1, <3>2, PushStep, ZeroMsg DEF DirectSend
    <3>3. CASE ~(Len(buf[ch[u]]) < Cap)
      BY <1>11, <3>3, <2>2 DEF DirectSend
    <3> QED
      BY <3>2, <3>3
  <2> QED
    BY <1>11, <2>1, <2>2 DEF DirectSend
<1>12. ASSUME NEW u \in Users, Receive(u)
      PROVE  [Promise!Next]_promiseVars
  <2>1. held[u] \in Chans
    BY <1>0, <1>12 DEF Receive, TypeOK, ChanTypes
  <2>2. CASE buf[held[u]] # << >>
    BY <1>12, <2>1, <2>2, TakeStep DEF Receive
  <2>3. CASE buf[held[u]] = << >>
    BY <1>12, <2>3 DEF Receive, promiseVars
  <2> QED
    BY <2>2, <2>3
<1>13. ASSUME NEW u \in Users, DelClose(u)
      PROVE  [Promise!Next]_promiseVars
  <2>1. key[u] \in Keys
    BY <1>0, <1>13 DEF DelClose, LocalsSet, TypeOK, CallTypes, Procs, UserPcs
  <2>2. closed' = closed \cup ({WsOutChans[k] : k \in {key[u]}} \ {None})
    BY <1>13 DEF DelClose, CloseRegistered
  <2>3. {key[u]} \in SUBSET Keys /\ UNCHANGED <<made, buf>>
    BY <1>13, <2>1 DEF DelClose
  <2> QED
    BY <2>2, <2>3, ShutStep
<1>14. ASSUME NEW u \in Users, ExgClose(u)
      PROVE  [Promise!Next]_promiseVars
  BY <1>14, ShutStep DEF ExgClose
<1>15. ASSUME NEW r \in Readers, NEW k \in Keys, WriteTry(r, k)
      PROVE  [Promise!Next]_promiseVars
  <2>1. CASE buf' = buf
    BY <1>15, <2>1 DEF WriteTry, promiseVars
  <2>2. CASE /\ WsOutChans[k] # None /\ Len(buf[WsOutChans[k]]) < Cap
             /\ buf' = [buf EXCEPT ![WsOutChans[k]] = Append(buf[WsOutChans[k]], sent + 1)]
    <3> DEFINE c == WsOutChans[k]
    <3>1. c \in Chans /\ c \in made \ closed
      BY <2>2 DEF IInv, TypeOK, ChanTypes, MadeChans, RegisteredOpen
    <3>2. sent + 1 \in Msgs
      BY <1>0, <1>15 DEF WriteTry, TypeOK, MsgTypes, Msgs
    <3>3. \A i \in DOMAIN buf[c] : buf[c][i] < sent + 1
      <4>1. buf[c] \in Seq(Nat) /\ sent \in Nat
        BY <1>0, <3>1, BufNat DEF TypeOK, MsgTypes, Msgs
      <4>2. \A i \in DOMAIN buf[c] : buf[c][i] <= sent
        BY <1>0, <3>1 DEF WriterNewest, UpTo
      <4> QED
        BY <4>1, <4>2
    <3>4. UNCHANGED <<made, closed>>
      BY <1>15 DEF WriteTry
    <3> QED
      BY <2>2, <3>1, <3>2, <3>3, <3>4, PushStep
  <2> QED
    BY <1>15, <2>1, <2>2 DEF WriteTry
<1>16. ASSUME NEW r \in Readers, WritePop(r)
      PROVE  [Promise!Next]_promiseVars
  <2>1. ch[r] \in Chans
    BY <1>0, <1>16 DEF WritePop, LocalsSet, TypeOK, ChanTypes, Procs
  <2> QED
    BY <1>16, <2>1, TakeStep DEF WritePop
<1>17. ASSUME NEW r \in Readers, WritePush(r)
      PROVE  [Promise!Next]_promiseVars
  <2>1. ch[r] \in Chans /\ ch[r] \in made \ closed
    BY <1>0, <1>17 DEF WritePush, LocalsSet, TypeOK, ChanTypes, MadeChans, WriterHoldsOpenChan, Procs
  <2>2. msg[r] \in Msgs
    BY <1>0 DEF TypeOK, MsgTypes, Procs
  <2>3. \A i \in DOMAIN buf[ch[r]] : buf[ch[r]][i] < msg[r]
    <3>1. buf[ch[r]] \in Seq(Nat) /\ sent \in Nat
      BY <1>0, <2>1, BufNat DEF TypeOK, MsgTypes, Msgs
    <3>2. msg[r] = sent /\ \A i \in DOMAIN buf[ch[r]] : buf[ch[r]][i] <= sent - 1
      BY <1>0, <1>17, <2>1 DEF WritePush, WriterNewest, UpTo
    <3> QED
      BY <3>1, <3>2
  <2> QED
    BY <1>17, <2>1, <2>2, <2>3, PushStep DEF WritePush
<1>18. ASSUME NEW r \in Readers, ClosedCloseChan(r)
      PROVE  [Promise!Next]_promiseVars
  <2>1. key[r] \in Keys
    BY <1>0, <1>18 DEF ClosedCloseChan, LocalsSet, TypeOK, CallTypes, Procs
  <2>2. closed' = closed \cup ({WsOutChans[k] : k \in {key[r]}} \ {None})
    BY <1>18 DEF ClosedCloseChan, CloseRegistered
  <2>3. {key[r]} \in SUBSET Keys /\ UNCHANGED <<made, buf>>
    BY <1>18, <2>1 DEF ClosedCloseChan
  <2> QED
    BY <2>2, <2>3, ShutStep
<1>19. CASE UNCHANGED vars
  BY <1>19 DEF vars, promiseVars
<1>20. QED
  BY <1>1, <1>2, <1>3, <1>4, <1>5, <1>6, <1>7, <1>8, <1>9, <1>10, <1>11, <1>12, <1>13, <1>14, <1>15, <1>16, <1>17, <1>18, <1>19 DEF Next, UserStep, ReaderStep

\* The output channels implement the promise to the receiver of a channel, for any
\* number of goroutines, keys and channels and any capacity.
THEOREM PromiseKept == Spec => KeepsPromise
<1>1. Init => Promise!Init
  BY DEF Init, Promise!Init
<1>2. IInv /\ [Next]_vars => [Promise!Next]_promiseVars
  BY PromiseStep
<1> QED
  BY <1>1, <1>2, Invariance, PTL DEF Spec, KeepsPromise, Promise!Spec, promiseVars
===============================================================================
