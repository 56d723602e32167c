------------------------------ MODULE WsAuthProofs ------------------------------
(***************************************************************************)
(* Proofs about WsAuth, for every set of callers, channels and keys and    *)
(* every value of the bounds: the types, that a login channel never holds  *)
(* a second answer, that WsAuthed is true of the connection, that every    *)
(* key comes back, and that the owner of a login can be answered.          *)
(***************************************************************************)
EXTENDS WsAuth, TLAPS, SequenceTheorems

\* The tail of a sequence has the type of the sequence.
LEMMA TailTyped ==
  ASSUME NEW T, NEW s \in Seq(T), s # << >>
  PROVE  Tail(s) \in Seq(T)
OBVIOUS

\* Every way to put an answer into a channel keeps the channels typed.
LEMMA PutTyped ==
  ASSUME NEW b \in [Chans -> Seq(Answers)], NEW x, NEW r \in Answers
  PROVE  [b EXCEPT ![x] = Append(@, r)] \in [Chans -> Seq(Answers)]
<1>1. x \in Chans => Append(b[x], r) \in Seq(Answers)
  OBVIOUS
<1>2. QED
  BY <1>1

\* What an append adds to the elements of a sequence.
LEMMA RangeAppend ==
  ASSUME NEW T, NEW s \in Seq(T), NEW e \in T
  PROVE  Range(Append(s, e)) = Range(s) \cup {e}
<1>1. <<e>> \in Seq(T) /\ Range(<<e>>) = {e}
  BY DEF Range
<1>2. Append(s, e) = s \o <<e>>
  BY AppendIsConcat
<1>3. Range(s \o <<e>>) = Range(s) \cup Range(<<e>>)
  BY ZenonT(30), <1>1, RangeConcatenation
<1>4. QED
  BY <1>1, <1>2, <1>3

\* The elements of a sequence are its head and those of its tail.
LEMMA RangeTail ==
  ASSUME NEW T, NEW s \in Seq(T), s # << >>
  PROVE  Range(s) = {Head(s)} \cup Range(Tail(s)) /\ Head(s) \in Range(s)
<1>1. <<Head(s)>> \in Seq(T) /\ Tail(s) \in Seq(T) /\ Range(<<Head(s)>>) = {Head(s)}
  BY HeadTailProperties DEF Range
<1>2. s = <<Head(s)>> \o Tail(s)
  OBVIOUS
<1>3. Range(s) = Range(<<Head(s)>>) \cup Range(Tail(s))
  <2>1. ASSUME NEW u \in Seq(T), NEW v \in Seq(T), s = u \o v PROVE Range(s) = Range(u) \cup Range(v)
    BY ZenonT(30), <2>1, RangeConcatenation
  <2>2. QED
    BY <1>1, <1>2, <2>1, Zenon
<1>4. QED
  BY <1>1, <1>3, Zenon

\* No element is in the empty sequence.
LEMMA RangeEmpty == ASSUME NEW s, s = << >> PROVE Range(s) = {}
BY DEF Range

\* The requests and the events that the steps make.
LEMMA Made ==
  /\ LoginReq \in Requests
  /\ \A S \in SUBSET Keys : SubReq(S) \in Requests
  /\ Answers \subseteq Events /\ {"ok", "fail"} \subseteq Events /\ "denied" \in Events
BY DEF LoginReq, SubReq, Requests, Events, Answers

\* A channel with an answer and no second one has nothing behind its first.
LEMMA LastAnswer ==
  ASSUME NEW T, NEW s \in Seq(T), s # << >>, Len(s) <= 1
  PROVE  Tail(s) = << >>
<1>1. Len(s) \in Nat \ {0}
  BY EmptySeq
<1>2. Tail(s) \in Seq(T) /\ Len(Tail(s)) = Len(s) - 1
  BY HeadTailProperties
<1>3. Len(Tail(s)) = 0
  BY <1>1, <1>2
<1>4. QED
  BY <1>2, <1>3, EmptySeq

\* The types of the variables at the start.
LEMMA TypeInit == Init => TypeOK
<1> SUFFICES ASSUME Init PROVE TypeOK
  OBVIOUS
<1> USE DEF Init, TypeOK, Answers
<1>1. out \in Seq(Requests)
  OBVIOUS
<1>2. in \in Seq(Events) /\ box \in [Chans -> Seq(Answers)]
  OBVIOUS
<1>3. pc \in [Callers -> {"idle", "send", "await", "mark", "forget", "wait", "putback", "sub"}]
  OBVIOUS
<1>4. restoring \subseteq SUBSET Keys /\ cleaners \in Nat
  OBVIOUS
<1>5. QED
  BY <1>1, <1>2, <1>3, <1>4

\* Every step keeps the types of the variables, given whose channels are made.
LEMMA TypeStep == TypeOK /\ Fresh /\ [Next]_vars => TypeOK'
<1> SUFFICES ASSUME TypeOK, Fresh, [Next]_vars PROVE TypeOK'
  OBVIOUS
<1> USE Assumption, Made DEF TypeOK, Fresh, Answers
<1>1. ASSUME NEW c \in Callers, Ask(c) PROVE TypeOK'
  <2> USE <1>1 DEF Ask, Go, connVars, ghosts
  <2>1. done' \in made' \cup {None} /\ made' \subseteq Chans /\ cut' \subseteq made'
    <3>1. cut' = cut /\ (UNCHANGED <<done, made>>
                         \/ \E x \in Chans : made' = made \cup {x} /\ done' = x)
      OBVIOUS
    <3>2. QED
      BY <3>1
  <2>2. pc' \in [Callers -> {"idle", "send", "await", "mark", "forget", "wait", "putback", "sub"}]
    <3>1. \E p \in {"sub", "wait", "send"} : pc' = [pc EXCEPT ![c] = p]
      OBVIOUS
    <3>2. QED
      BY <3>1
  <2>3. ch' \in [Callers -> Chans \cup {None}]
    <3>1. CASE UNCHANGED ch
      BY <3>1
    <3>2. CASE ch' = [ch EXCEPT ![c] = done]
      BY <3>2
    <3>3. ASSUME NEW x \in Chans, ch' = [ch EXCEPT ![c] = x] PROVE ch' \in [Callers -> Chans \cup {None}]
      BY <3>3
    <3>4. QED
      BY <3>1, <3>2, <3>3
  <2>4. res' \in [Callers -> Answers \cup {"none", "error", "timeout"}]
    OBVIOUS
  <2>5. QED
    BY <2>1, <2>2, <2>3, <2>4
<1>2. ASSUME NEW c \in Callers, Send(c) PROVE TypeOK'
  BY <1>2 DEF Send, Go, authVars, boxVars, connVars, ghosts, bounds
<1>3. ASSUME NEW c \in Callers, SendFail(c) PROVE TypeOK'
  BY <1>3 DEF SendFail, Go, Delete, boxVars, connVars, bounds
<1>4. ASSUME NEW c \in Callers, Receive(c) PROVE TypeOK'
  BY <1>4 DEF Receive, Go, authVars, connVars, ghosts, bounds
<1>5. ASSUME NEW c \in Callers, Mark(c) PROVE TypeOK'
  BY <1>5 DEF Mark, Go, boxVars, connVars, bounds
<1>6. ASSUME NEW c \in Callers, Timeout(c) PROVE TypeOK'
  BY <1>6 DEF Timeout, Go, authVars, boxVars, connVars, ghosts, bounds
<1>7. ASSUME NEW c \in Callers, Forget(c) PROVE TypeOK'
  BY <1>7 DEF Forget, Go, Delete, boxVars, connVars, bounds
<1>8. ASSUME NEW c \in Callers, WaitReceive(c) PROVE TypeOK'
  BY <1>8 DEF WaitReceive, Go, authVars, connVars, ghosts, bounds
<1>9. ASSUME NEW c \in Callers, PutBack(c) PROVE TypeOK'
  BY <1>9 DEF PutBack, Go, authVars, connVars, ghosts, bounds
<1>10. ASSUME NEW c \in Callers, WaitTimeout(c) PROVE TypeOK'
  BY <1>10 DEF WaitTimeout, Go, authVars, boxVars, connVars, ghosts, bounds
<1>11. ASSUME NEW c \in Callers, Subscribe(c) PROVE TypeOK'
  BY <1>11 DEF Subscribe, Go, authVars, boxVars, connVars, ghosts, bounds
<1>12. CASE HandleLogin
  BY <1>12 DEF HandleLogin, Handling, Notify, callVars, connVars, ghosts, bounds
<1>13. CASE HandleError
  <2> USE DEF HandleError, Handling, Notify
  <2>1. in' \in Seq(Events)
    BY <1>13
  <2>2. box' \in [Chans -> Seq(Answers)]
    <3>1. [box EXCEPT ![done] = Append(@, "fail")] \in [Chans -> Seq(Answers)]
      BY PutTyped
    <3>2. box' = box \/ box' = [box EXCEPT ![done] = Append(@, "fail")]
      BY <1>13
    <3>3. QED
      BY <3>1, <3>2
  <2>3. done' \in made' \cup {None} /\ made' = made
    BY <1>13
  <2>4. QED
    BY <1>13, <2>1, <2>2, <2>3 DEF callVars, connVars, ghosts, bounds
<1>14. CASE ReConn
  BY <1>14 DEF ReConn, Reset, boxVars, callVars, bounds
<1>15. CASE ReLogin
  BY <1>15 DEF ReLogin, authVars, boxVars, callVars, connVars, ghosts, bounds
<1>16. CASE Clean
  BY <1>16 DEF Clean, Delete, boxVars, callVars, connVars, bounds
<1>17. CASE Restore
  BY <1>17 DEF Restore, authVars, boxVars, callVars, connVars, ghosts, bounds
<1>18. CASE Lose
  <2>1. out' \in Seq(Requests)
    <3>1. ASSUME out # << >> PROVE Tail(out) \in Seq(Requests)
      BY <3>1, TailTyped
    <3>2. out' = out \/ (out # << >> /\ out' = Tail(out))
      BY <1>18 DEF Lose
    <3>3. QED
      BY <3>1, <3>2
  <2>2. in' \in Seq(Events) /\ refused' \in BOOLEAN
    BY <1>18 DEF Lose
  <2>3. QED
    BY <1>18, <2>1, <2>2 DEF Lose, authVars, boxVars, callVars
<1>19. ASSUME NEW ok \in BOOLEAN, Serve(ok) PROVE TypeOK'
  <2>1. out' \in Seq(Requests)
    BY <1>19 DEF Serve
  <2>2. Head(out) \in Requests /\ Head(out).keys \subseteq Keys
    <3>1. Head(out) \in Requests
      BY <1>19, HeadTailProperties DEF Serve
    <3>2. QED
      BY <3>1 DEF Requests
  <2>3. in' \in Seq(Events)
    <3>1. in' = in \/ \E e \in Events : in' = Append(in, e)
      BY <1>19 DEF Serve
    <3>2. ASSUME NEW e \in Events, in' = Append(in, e) PROVE in' \in Seq(Events)
      BY <3>2
    <3>3. QED
      BY <3>1, <3>2
  <2>4. loggedIn' \in BOOLEAN /\ refused' \in BOOLEAN
    BY <1>19, ok \in BOOLEAN, loggedIn \in BOOLEAN, refused \in BOOLEAN, Zenon DEF Serve
  <2>5. subs' \subseteq Keys
    BY <1>19, <2>2 DEF Serve
  <2>6. QED
    BY <1>19, <2>1, <2>3, <2>4, <2>5 DEF Serve, authVars, boxVars, callVars
<1>20. CASE UNCHANGED vars
  BY <1>20 DEF vars, authVars, boxVars, callVars, connVars, ghosts, bounds
<1>21. QED
  BY <1>1, <1>2, <1>3, <1>4, <1>5, <1>6, <1>7, <1>8, <1>9, <1>10, <1>11, <1>12, <1>13, <1>14, <1>15, <1>16, <1>17, <1>18, <1>19, <1>20 DEF Next, CallerStep, ReaderStep

\* A step that leaves the channels alone and lets nobody take an answer keeps the
\* channels as they were to everyone.
LEMMA QuietStep ==
  ASSUME OneAnswer, Fresh, UNCHANGED <<made, box, ch>>, done' \in {done, None},
         \A c \in Callers :
           /\ pc'[c] \in {"send", "await", "wait", "putback"}
                => pc[c] \in {"send", "await", "wait", "putback"}
           /\ pc'[c] = "putback" => pc[c] = "putback" /\ res'[c] = res[c]
  PROVE  OneAnswer' /\ Fresh'
<1>1. \A c \in Callers, x \in Chans \cup {done} : Holds(c, x)' => Holds(c, x)
  BY DEF Holds
<1>2. OneAnswer'
  BY <1>1 DEF OneAnswer
<1>3. Fresh'
  BY <1>1 DEF Fresh, Unanswered
<1>4. QED
  BY <1>2, <1>3

\* The handler puts its answer into the channel of WsAuthDone, if there is one, and
\* takes the channel out.
LEMMA NotifyStep ==
  ASSUME TypeOK, OneAnswer, Fresh, NEW r \in Answers, Notify(r), UNCHANGED <<made, pc, ch, res>>
  PROVE  OneAnswer' /\ Fresh'
<1> USE DEF Unanswered, TypeOK
<1>1. CASE done = None
  BY <1>1 DEF Notify, OneAnswer, Fresh, Holds
<1>2. CASE done # None
  <2>1. done \in made /\ made \subseteq Chans /\ done' = None
    BY <1>2 DEF Notify
  <2>2. box' = [box EXCEPT ![done] = Append(@, r)]
    BY <1>2 DEF Notify
  <2>3. box[done] = << >> /\ \A c \in Callers : ~Holds(c, done)
    BY <1>2 DEF Fresh
  <2>4. Len(box'[done]) <= 1
    BY <2>1, <2>2, <2>3
  <2>5. \A x \in Chans \ {done} : box'[x] = box[x]
    BY <2>1, <2>2
  <2>h. \A d \in Callers : \A x : Holds(d, x)' => Holds(d, x)
    BY DEF Holds
  <2>6. OneAnswer'
    <3>1. ASSUME NEW x \in Chans PROVE Len(box'[x]) <= 1
      <4>1. CASE x = done
        BY <2>4, <4>1
      <4>2. CASE x # done
        <5>1. box'[x] = box[x]
          BY <2>5, <4>2
        <5>2. QED
          BY <5>1 DEF OneAnswer
      <4>3. QED
        BY <4>1, <4>2
    <3>2. ASSUME NEW x \in Chans, NEW c \in Callers, Holds(c, x)'
          PROVE  box'[x] = << >> /\ \A d \in Callers : Holds(d, x)' => d = c
      <4>1. Holds(c, x) /\ x # done
        BY <2>3, <2>h, <3>2
      <4>2. box[x] = << >> /\ \A d \in Callers : Holds(d, x) => d = c
        BY <4>1 DEF OneAnswer
      <4>3. QED
        BY <2>5, <2>h, <4>1, <4>2
    <3>3. QED
      BY <3>1, <3>2 DEF OneAnswer
  <2>7. Fresh'
    BY <2>1, <2>5, <2>h, Assumption DEF Fresh
  <2>8. QED
    BY <2>6, <2>7
<1>3. QED
  BY <1>1, <1>2

\* Every step keeps at most one answer in a channel, and those in WsAuthDone unanswered.
LEMMA AnswerStep == TypeOK /\ OneAnswer /\ Fresh /\ [Next]_vars => OneAnswer' /\ Fresh'
<1> SUFFICES ASSUME TypeOK, OneAnswer, Fresh, [Next]_vars PROVE OneAnswer' /\ Fresh'
  OBVIOUS
<1> DEFINE Goal == OneAnswer' /\ Fresh'
<1>p. pc \in [Callers -> {"idle", "send", "await", "mark", "forget", "wait", "putback", "sub"}]
  BY DEF TypeOK
<1>r. res \in [Callers -> Answers \cup {"none", "error", "timeout"}]
  BY DEF TypeOK
<1>1. ASSUME NEW c \in Callers, Ask(c) PROVE Goal
  <2> USE <1>1 DEF Ask, Go
  <2>1. UNCHANGED box /\ \A d \in Callers \ {c} : pc'[d] = pc[d] /\ ch'[d] = ch[d] /\ res'[d] = res[d]
    BY <1>p, <1>r DEF TypeOK
  <2>2. pc'[c] \in {"sub", "wait", "send"} /\ pc[c] = "idle"
    BY <1>p
  <2>3. \A d \in Callers : \A x : Holds(d, x)' => Holds(d, x)
    BY <2>1, <2>2 DEF Holds
  <2>4. OneAnswer'
    BY <2>1, <2>3 DEF OneAnswer
  <2>5. CASE UNCHANGED <<done, made>>
    <3>1. ch'[c] \in made \cup {None} /\ (pc'[c] \in {"send", "await", "wait", "putback"} => ch'[c] # None)
      BY <2>5, <1>p DEF TypeOK, Fresh
    <3>2. Fresh'
      BY <2>1, <2>2, <2>3, <2>5, <3>1 DEF Fresh, Unanswered
    <3>3. QED
      BY <2>4, <3>2
  <2>6. ASSUME NEW x \in Chans \ made, made' = made \cup {x}, done' = x, ch' = [ch EXCEPT ![c] = x]
        PROVE  Goal
    <3>1. ch'[c] = x /\ x # None
      BY <2>6, Assumption DEF TypeOK
    <3>2. \A d \in Callers : ~Holds(d, x)
      BY <2>6, Assumption DEF Fresh, Holds
    <3>3. box[x] = << >>
      BY <2>6 DEF Fresh
    <3>4. Unanswered(x)'
      BY <2>1, <2>3, <3>2, <3>3 DEF Unanswered
    <3>5. Fresh'
      BY <2>1, <2>2, <2>6, <3>1, <3>4 DEF Fresh
    <3>6. QED
      BY <2>4, <3>5
  <2>7. QED
    BY <2>5, <2>6
<1>2. ASSUME NEW c \in Callers, Send(c) PROVE Goal
  BY <1>2, <1>p, QuietStep DEF Send, Go, authVars, boxVars
<1>3. ASSUME NEW c \in Callers, SendFail(c) PROVE Goal
  BY <1>3, <1>p, <1>r, QuietStep DEF SendFail, Go, Delete, boxVars
<1>4. ASSUME NEW c \in Callers, Receive(c) PROVE Goal
  <2> USE <1>4 DEF Receive, Go
  <2>1. ch[c] \in made /\ ch[c] \in Chans /\ box[ch[c]] # << >> /\ ch[c] # done
    BY Assumption DEF Fresh, TypeOK, Unanswered
  <2>2. Len(box[ch[c]]) <= 1 /\ box[ch[c]] \in Seq(Answers)
    BY <2>1 DEF OneAnswer, TypeOK
  <2>3. box' = [box EXCEPT ![ch[c]] = << >>]
    <3>1. Tail(box[ch[c]]) = << >>
      BY <2>1, <2>2, LastAnswer
    <3>2. QED
      BY <3>1 DEF TypeOK
  <2>4. UNCHANGED <<done, made, ch>>
    BY DEF authVars
  <2>5. \A d \in Callers : /\ d # c => pc'[d] = pc[d] /\ res'[d] = res[d]
                           /\ pc'[c] \in {"mark", "idle"}
    BY <1>p, <1>r
  <2>6. \A d \in Callers : \A x : Holds(d, x)' => Holds(d, x)
    BY <2>4, <2>5 DEF Holds
  <2>7. \A x \in Chans : box'[x] = << >> \/ box'[x] = box[x]
    BY <2>3 DEF TypeOK
  <2>8. OneAnswer'
    BY <2>6, <2>7 DEF OneAnswer
  <2>9. Fresh'
    BY <2>1, <2>4, <2>5, <2>6, <2>7 DEF Fresh, Unanswered, TypeOK
  <2>10. QED
    BY <2>8, <2>9
<1>5. ASSUME NEW c \in Callers, Mark(c) PROVE Goal
  BY <1>5, <1>p, QuietStep DEF Mark, Go, boxVars
<1>6. ASSUME NEW c \in Callers, Timeout(c) PROVE Goal
  BY <1>6, <1>p, QuietStep DEF Timeout, Go, authVars, boxVars
<1>7. ASSUME NEW c \in Callers, Forget(c) PROVE Goal
  BY <1>7, <1>p, <1>r, QuietStep DEF Forget, Go, Delete, boxVars
<1>8. ASSUME NEW c \in Callers, WaitReceive(c) PROVE Goal
  <2> USE <1>8 DEF WaitReceive, Go
  <2>1. ch[c] \in made /\ ch[c] \in Chans /\ box[ch[c]] # << >> /\ ch[c] # done
    BY Assumption DEF Fresh, TypeOK, Unanswered
  <2>2. Len(box[ch[c]]) <= 1 /\ box[ch[c]] \in Seq(Answers)
    BY <2>1 DEF OneAnswer, TypeOK
  <2>3. box' = [box EXCEPT ![ch[c]] = << >>]
    <3>1. Tail(box[ch[c]]) = << >>
      BY <2>1, <2>2, LastAnswer
    <3>2. QED
      BY <3>1 DEF TypeOK
  <2>4. UNCHANGED <<done, made, ch>>
    BY DEF authVars
  <2>5. \A d \in Callers : d # c => pc'[d] = pc[d] /\ res'[d] = res[d]
    BY <1>p, <1>r
  <2>6. pc'[c] = "putback" /\ res'[c] = Head(box[ch[c]]) /\ res'[c] \in Answers
    BY <1>p, <1>r, <2>1, <2>2
  <2>7. \A d \in Callers : \A x : Holds(d, x)' => Holds(d, x) \/ (d = c /\ x = ch[c])
    BY <2>4, <2>5 DEF Holds
  <2>8. \A d \in Callers : ~Holds(d, ch[c])
    BY <2>1 DEF OneAnswer
  <2>9. box'[ch[c]] = << >> /\ \A x \in Chans \ {ch[c]} : box'[x] = box[x]
    BY <2>1, <2>3 DEF TypeOK
  <2>10. OneAnswer'
    BY <2>7, <2>8, <2>9 DEF OneAnswer
  <2>11. Fresh'
    BY <2>1, <2>4, <2>5, <2>6, <2>7, <2>9 DEF Fresh, Unanswered, TypeOK
  <2>12. QED
    BY <2>10, <2>11
<1>9. ASSUME NEW c \in Callers, PutBack(c) PROVE Goal
  <2> USE <1>9 DEF PutBack, Go
  <2>1. Holds(c, ch[c]) /\ ch[c] \in made /\ ch[c] \in Chans /\ ch[c] # done /\ res[c] \in Answers
    BY Assumption DEF Fresh, TypeOK, Unanswered, Holds
  <2>2. box[ch[c]] = << >> /\ \A d \in Callers : Holds(d, ch[c]) => d = c
    BY <2>1 DEF OneAnswer
  <2>3. Len(box'[ch[c]]) = 1 /\ \A x \in Chans \ {ch[c]} : box'[x] = box[x]
    BY <2>1, <2>2 DEF TypeOK
  <2>4. UNCHANGED <<done, made, ch, res>>
    BY DEF authVars
  <2>5. pc'[c] \in {"sub", "idle"} /\ \A d \in Callers : d # c => pc'[d] = pc[d]
    BY <1>p
  <2>6. \A d \in Callers : \A x : Holds(d, x)' => Holds(d, x) /\ d # c
    BY <2>4, <2>5 DEF Holds
  <2>7. OneAnswer'
    BY <2>2, <2>3, <2>6 DEF OneAnswer
  <2>8. Fresh'
    BY <2>1, <2>3, <2>4, <2>5, <2>6 DEF Fresh, Unanswered, TypeOK
  <2>9. QED
    BY <2>7, <2>8
<1>10. ASSUME NEW c \in Callers, WaitTimeout(c) PROVE Goal
  BY <1>10, <1>p, <1>r, QuietStep DEF WaitTimeout, Go, authVars, boxVars
<1>11. ASSUME NEW c \in Callers, Subscribe(c) PROVE Goal
  BY <1>11, <1>p, QuietStep DEF Subscribe, Go, authVars, boxVars
<1>12. CASE HandleLogin
  <2>1. Head(in) \in Answers
    BY <1>12 DEF HandleLogin, Handling, Answers
  <2>2. QED
    BY <1>12, <2>1, NotifyStep DEF HandleLogin, callVars
<1>13. CASE HandleError
  <2>1. CASE bybit
    BY <1>13, <2>1, QuietStep DEF HandleError, callVars
  <2>2. CASE ~bybit
    BY <1>13, <2>2, "fail" \in Answers, NotifyStep DEF HandleError, callVars, Answers
  <2>3. QED
    BY <2>1, <2>2
<1>14. CASE ReConn
  BY <1>14, QuietStep DEF ReConn, boxVars, callVars
<1>15. CASE ReLogin
  BY <1>15, QuietStep DEF ReLogin, authVars, boxVars, callVars
<1>16. CASE Clean
  BY <1>16, QuietStep DEF Clean, Delete, boxVars, callVars
<1>17. CASE Restore
  BY <1>17, QuietStep DEF Restore, authVars, boxVars, callVars
<1>18. CASE Lose
  BY <1>18, QuietStep DEF Lose, authVars, boxVars, callVars
<1>19. ASSUME NEW ok \in BOOLEAN, Serve(ok) PROVE Goal
  BY <1>19, QuietStep DEF Serve, authVars, boxVars, callVars
<1>20. CASE UNCHANGED vars
  BY <1>20, QuietStep DEF vars, authVars, boxVars, callVars
<1>21. QED
  BY <1>1, <1>2, <1>3, <1>4, <1>5, <1>6, <1>7, <1>8, <1>9, <1>10, <1>11, <1>12, <1>13,
     <1>14, <1>15, <1>16, <1>17, <1>18, <1>19, <1>20 DEF Next, CallerStep, ReaderStep

\* What every step does to the answers under way: it leaves them, takes the first,
\* loses them all, or appends one.
LEMMA AnswersUnderWay ==
  ASSUME TypeOK, [Next]_vars
  PROVE  \/ UNCHANGED <<in, loggedIn>>
         \/ in' = << >> /\ loggedIn' = FALSE
         \/ Range(in') \subseteq Range(in) /\ UNCHANGED loggedIn
         \/ \E ok \in BOOLEAN : Serve(ok)
<1>1. ASSUME NEW c \in Callers, CallerStep(c) PROVE UNCHANGED <<in, loggedIn>>
  BY <1>1 DEF CallerStep, Ask, Send, SendFail, Receive, Mark, Timeout, Forget, WaitReceive,
              PutBack, WaitTimeout, Subscribe, connVars
<1>2. ASSUME NEW a, Handling(a) PROVE Range(in') \subseteq Range(in)
  BY <1>2, RangeTail DEF Handling, TypeOK
<1>3. CASE HandleLogin \/ HandleError
  BY <1>2, <1>3 DEF HandleLogin, HandleError, connVars
<1>4. CASE ReConn \/ ReLogin \/ Clean \/ Restore
  BY <1>4 DEF ReConn, ReLogin, Clean, Restore, connVars
<1>5. CASE Lose
  BY <1>5 DEF Lose
<1>6. CASE UNCHANGED vars
  BY <1>6 DEF vars, connVars
<1>7. QED
  BY <1>1, <1>3, <1>4, <1>5, <1>6 DEF Next, ReaderStep

\* What a served request adds to the answers under way.
LEMMA ServedAnswers ==
  ASSUME TypeOK, NEW ok \in BOOLEAN, Serve(ok)
  PROVE  /\ in' = in \/ Range(in') = Range(in) \cup {"ok"} \/ Range(in') = Range(in) \cup {"fail"}
              \/ Range(in') = Range(in) \cup {"denied"}
         /\ "ok" \in Range(in') => "ok" \in Range(in) \/ loggedIn'
         /\ loggedIn => loggedIn'
         /\ Range(in') \ {"ok"} # {} => Range(in) \ {"ok"} # {} \/ refused'
         /\ refused => refused'
<1>1. in \in Seq(Events) /\ "ok" \in Events /\ "fail" \in Events /\ "denied" \in Events
  BY Made DEF TypeOK
<1>2. /\ Range(Append(in, "ok")) = Range(in) \cup {"ok"}
      /\ Range(Append(in, "fail")) = Range(in) \cup {"fail"}
      /\ Range(Append(in, "denied")) = Range(in) \cup {"denied"}
  BY <1>1, RangeAppend
<1>3. CASE ok = TRUE
  <2>1. /\ in' = Append(in, "ok") \/ in' = in
        /\ in' # in => loggedIn'
    BY <1>3 DEF Serve
  <2>2. (loggedIn => loggedIn') /\ (refused => refused')
    <3>1. loggedIn' = (loggedIn \/ ok) \/ loggedIn' = loggedIn
      BY DEF Serve
    <3>2. refused' = (refused \/ ~ok)
      BY DEF Serve
    <3>3. loggedIn \in BOOLEAN /\ refused \in BOOLEAN
      BY DEF TypeOK
    <3>4. QED
      BY <1>3, <3>1, <3>2, <3>3
  <2>3. Range(in') = Range(in) \cup {"ok"} \/ in' = in
    BY <1>2, <2>1
  <2>4. QED
    BY <2>1, <2>2, <2>3
<1>4. CASE ok = FALSE
  BY <1>2, <1>4 DEF Serve
<1>5. QED
  BY <1>3, <1>4

\* A yes under way is true of the connection it comes over.
LEMMA YesStep == TypeOK /\ YesIsTrue /\ [Next]_vars => YesIsTrue'
<1> SUFFICES ASSUME TypeOK, YesIsTrue, [Next]_vars PROVE YesIsTrue'
  OBVIOUS
<1>1. CASE in' = << >>
  BY <1>1, RangeEmpty DEF YesIsTrue
<1>2. CASE Range(in') \subseteq Range(in) /\ UNCHANGED loggedIn
  BY <1>2 DEF YesIsTrue
<1>3. ASSUME NEW ok \in BOOLEAN, Serve(ok) PROVE YesIsTrue'
  BY <1>3, ServedAnswers DEF YesIsTrue
<1>4. QED
  BY <1>1, <1>2, <1>3, AnswersUnderWay DEF YesIsTrue

\* Who sets WsAuthed has heard a yes, marks the login stale, or knows it already; and
\* the login is forgotten only with the connection, before the reader dials again.
LEMMA AuthedStep == TypeOK /\ YesIsTrue /\ AuthedIsLoggedIn /\ [Next]_vars => AuthedIsLoggedIn'
<1> SUFFICES ASSUME TypeOK, YesIsTrue, AuthedIsLoggedIn, [Next]_vars PROVE AuthedIsLoggedIn'
  OBVIOUS
<1> USE DEF AuthedIsLoggedIn
<1>1. ASSUME NEW c \in Callers, CallerStep(c) PROVE AuthedIsLoggedIn'
  <2>1. CASE Mark(c)
    BY <2>1 DEF Mark, connVars
  <2>2. CASE ~Mark(c)
    BY <1>1, <2>2 DEF CallerStep, Ask, Send, SendFail, Receive, Timeout, Forget, WaitReceive,
              PutBack, WaitTimeout, Subscribe, connVars, authVars, ghosts
  <2>3. QED
    BY <2>1, <2>2
<1>2. CASE HandleLogin
  <2>1. Head(in) = "ok" => loggedIn
    BY <1>2, RangeTail DEF HandleLogin, Handling, TypeOK, YesIsTrue
  <2>2. QED
    BY <1>2, <2>1 DEF HandleLogin, connVars, ghosts
<1>3. CASE HandleError
  BY <1>3 DEF HandleError, connVars, ghosts
<1>4. CASE ReConn
  BY <1>4 DEF ReConn, Reset
<1>5. CASE ReLogin \/ Clean \/ Restore
  BY <1>5 DEF ReLogin, Clean, Restore, connVars, authVars, ghosts
<1>6. CASE Lose
  BY <1>6 DEF Lose, authVars
<1>7. ASSUME NEW ok \in BOOLEAN, Serve(ok) PROVE AuthedIsLoggedIn'
  BY <1>7, ServedAnswers DEF Serve, authVars
<1>8. CASE UNCHANGED vars
  BY <1>8 DEF vars, connVars, authVars, ghosts
<1>9. QED
  BY <1>1, <1>2, <1>3, <1>4, <1>5, <1>6, <1>7, <1>8 DEF Next, ReaderStep

\* A key stays covered while nothing that covers it goes.
LEMMA CoveredStays ==
  ASSUME NEW k, Covered(k), subs \subseteq subs', Range(out) \subseteq Range(out'),
         restoring \subseteq restoring', UNCHANGED pending, LoginUnderWay => LoginUnderWay'
  PROVE  Covered(k)'
BY DEF Covered

\* A login request that is appended keeps the keys covered.
LEMMA LoginRequested ==
  ASSUME TypeOK, KeysCovered, out' = Append(out, LoginReq), reader = "recon" => reader' = "recon",
         UNCHANGED <<subs, in, restoring, pending, subKeys, refused>>
  PROVE  KeysCovered'
<1>1. Range(out') = Range(out) \cup {LoginReq}
  BY Made, RangeAppend DEF TypeOK
<1>2. LoginUnderWay'
  BY <1>1 DEF LoginUnderWay
<1>3. \A k : Covered(k) => Covered(k)'
  BY <1>1, <1>2, CoveredStays
<1>4. QED
  BY <1>1, <1>3 DEF KeysCovered

\* Every key of SubscribeKeys stays with the exchange or on its way to it, whatever is
\* lost or answered, unless something was refused or the connection is down.
LEMMA KeysStep == TypeOK /\ KeysCovered /\ [Next]_vars => KeysCovered'
<1> SUFFICES ASSUME TypeOK, KeysCovered, [Next]_vars PROVE KeysCovered'
  OBVIOUS
<1>h. in # << >> => Range(in) = {Head(in)} \cup Range(Tail(in))
  BY RangeTail DEF TypeOK
<1>o. out # << >> => Range(out) = {Head(out)} \cup Range(Tail(out))
  BY RangeTail DEF TypeOK
<1>1. ASSUME UNCHANGED <<subs, out, in, restoring, pending, reader, subKeys, refused>>
      PROVE  KeysCovered'
  BY <1>1 DEF KeysCovered, Covered, LoginUnderWay
<1>2. ASSUME NEW c \in Callers, Send(c) PROVE KeysCovered'
  BY <1>2, LoginRequested DEF Send, connVars, authVars, ghosts
<1>3. ASSUME NEW c \in Callers, Subscribe(c) PROVE KeysCovered'
  <2>1. PICK k \in Keys : subKeys' = subKeys \cup {k} /\ out' = Append(out, SubReq({k}))
    BY <1>3 DEF Subscribe
  <2>2. SubReq({k}).keys = {k} /\ {k} \in SUBSET Keys
    BY DEF SubReq
  <2>3. Range(out') = Range(out) \cup {SubReq({k})}
    BY SMTT(30), <2>1, <2>2, Made, RangeAppend DEF TypeOK
  <2>4. UNCHANGED <<subs, in, pending, refused, restoring, reader>>
    BY <1>3 DEF Subscribe, connVars, authVars, ghosts
  <2>5. \A j : Covered(j) => Covered(j)'
    BY <2>3, <2>4, CoveredStays DEF LoginUnderWay
  <2>6. Covered(k)'
    BY <2>2, <2>3 DEF Covered
  <2>7. QED
    BY <2>1, <2>2, <2>3, <2>4, <2>5, <2>6 DEF KeysCovered
<1>4. ASSUME NEW c \in Callers, CallerStep(c), ~Send(c), ~Subscribe(c) PROVE KeysCovered'
  BY <1>1, <1>4 DEF CallerStep, Ask, SendFail, Receive, Mark, Timeout, Forget, WaitReceive,
                    PutBack, WaitTimeout, connVars, authVars, ghosts
<1>5. CASE HandleLogin
  <2>1. in # << >> /\ in' = Tail(in) /\ Head(in) \in {"ok", "fail"}
    BY <1>5 DEF HandleLogin, Handling
  <2>2. UNCHANGED <<subs, out, reader, subKeys, refused>> /\ restoring \subseteq restoring'
    BY <1>5 DEF HandleLogin, connVars, ghosts
  <2>3. ASSUME ~refused, reader # "recon", NEW k \in subKeys PROVE Covered(k)'
    <3>1. Head(in) = "ok" /\ Covered(k)
      BY <1>h, <2>1, <2>3 DEF KeysCovered
    <3>2. CASE pending # None /\ k \in pending
      <4>1. pending \in restoring'
        BY <1>5, <3>1, <3>2 DEF HandleLogin
      <4>2. QED
        BY <3>2, <4>1 DEF Covered
    <3>3. CASE ~(pending # None /\ k \in pending)
      BY <2>2, <3>1, <3>3 DEF Covered
    <3>4. QED
      BY <3>2, <3>3
  <2>4. QED
    BY <1>h, <2>1, <2>2, <2>3 DEF KeysCovered
<1>6. CASE HandleError
  <2>1. in # << >> /\ in' = Tail(in) /\ Head(in) = "denied"
    BY <1>6 DEF HandleError, Handling
  <2>2. refused /\ refused' = refused /\ out' = out
    BY <1>6, <1>h, <2>1 DEF HandleError, KeysCovered, ghosts
  <2>3. QED
    BY <2>2 DEF KeysCovered
<1>7. CASE ReConn
  <2>1. UNCHANGED <<out, in, subKeys, refused>>
    BY <1>7 DEF ReConn
  <2>2. CASE subKeys = {}
    BY <2>1, <2>2 DEF KeysCovered
  <2>3. CASE subKeys # {}
    <3>1. pending' = subKeys /\ reader' = "relogin"
      BY <1>7, <2>3 DEF ReConn, Reset
    <3>2. subKeys # None
      BY Assumption DEF TypeOK
    <3>3. \A k \in subKeys' : Covered(k)'
      BY <2>1, <3>1, <3>2 DEF Covered, LoginUnderWay
    <3>4. QED
      BY <2>1, <3>3 DEF KeysCovered
  <2>4. QED
    BY <2>2, <2>3
<1>8. CASE ReLogin
  BY <1>8, LoginRequested DEF ReLogin, connVars, authVars, ghosts
<1>9. CASE Restore
  <2>1. PICK S \in restoring : /\ restoring' = restoring \ {S}
                               /\ subKeys' = subKeys \cup S
                               /\ out' = Append(out, SubReq(S))
    BY <1>9 DEF Restore
  <2>2. S \in SUBSET Keys /\ SubReq(S).keys = S
    BY DEF TypeOK, SubReq
  <2>3. UNCHANGED <<subs, in, pending, refused, reader>>
    BY <1>9 DEF Restore, connVars, authVars, ghosts
  <2>4. Range(out') = Range(out) \cup {SubReq(S)}
    BY <2>1, <2>2, Made, RangeAppend DEF TypeOK
  <2>5. \A k \in S : Covered(k)'
    BY <2>2, <2>4 DEF Covered
  <2>6. \A k : Covered(k) => Covered(k)'
    BY <2>1, <2>3, <2>4, <2>5 DEF Covered, LoginUnderWay
  <2>7. QED
    BY <2>1, <2>2, <2>3, <2>4, <2>5, <2>6 DEF KeysCovered
<1>10. CASE Lose
  <2>1. in' = << >> /\ reader' = "recon"
    BY <1>10 DEF Lose
  <2>2. out' = out \/ (out # << >> /\ out' = Tail(out))
    BY <1>10 DEF Lose
  <2>3. Range(out') \subseteq Range(out)
    BY <1>o, <2>2
  <2>4. QED
    BY <2>1, <2>3, RangeEmpty DEF KeysCovered
<1>11. ASSUME NEW ok \in BOOLEAN, Serve(ok) PROVE KeysCovered'
  <2> DEFINE r == Head(out)
  <2>1. /\ out # << >> /\ out' = Tail(out) /\ Range(out) = {r} \cup Range(out')
        /\ UNCHANGED <<restoring, reader, subKeys, pending>>
    BY <1>11, <1>o DEF Serve, authVars
  <2>2. Range(in) \subseteq Range(in') /\ (refused => refused') /\ subs \subseteq subs'
    BY <1>11, ServedAnswers DEF Serve
  <2>3. Range(in') \ {"ok"} # {} => refused'
    BY <1>11, ServedAnswers DEF KeysCovered
  <2>4. ASSUME ~refused', reader # "recon", NEW k \in subKeys PROVE Covered(k)'
    <3>1. ok = TRUE /\ Covered(k)
      BY <1>11, <2>2, <2>4, Zenon DEF Serve, KeysCovered
    <3>2. CASE r = LoginReq
      <4>1. "ok" \in Range(in')
        <5>1. in' = Append(in, "ok")
          <6>1. r.op = "login"
            BY <3>2 DEF LoginReq
          <6>2. in' = Append(in, IF ok THEN "ok" ELSE "fail")
            BY <1>11, <6>1 DEF Serve
          <6>3. QED
            BY <3>1, <6>2
        <5>2. QED
          BY <5>1, Made, RangeAppend DEF TypeOK
      <4>2. \A S : LoginReq # SubReq(S)
        BY DEF LoginReq, SubReq
      <4>3. QED
        BY <2>1, <2>2, <3>1, <3>2, <4>1, <4>2 DEF Covered, LoginUnderWay
    <3>3. ASSUME NEW S \in SUBSET Keys, r = SubReq(S) PROVE Covered(k)'
      <4>1. subs' = subs \cup S
        <5>1. r.op = "subscribe" /\ r.keys = S
          BY <3>3 DEF SubReq
        <5>2. subs' = IF ok THEN subs \cup r.keys ELSE subs
          BY <1>11, <5>1 DEF Serve
        <5>3. QED
          BY <3>1, <5>1, <5>2
      <4>2. r # LoginReq /\ \A R : r = SubReq(R) => R = S
        BY <3>3 DEF LoginReq, SubReq
      <4>3. QED
        BY <2>1, <2>2, <3>1, <4>1, <4>2 DEF Covered, LoginUnderWay
    <3>4. QED
      BY <2>1, <3>2, <3>3 DEF KeysCovered
  <2>5. QED
    BY <2>1, <2>2, <2>3, <2>4 DEF KeysCovered
<1>12. CASE Clean \/ UNCHANGED vars
  BY <1>12, <1>1 DEF Clean, vars, connVars, authVars, ghosts
<1>13. QED
  BY <1>2, <1>3, <1>4, <1>5, <1>6, <1>7, <1>8, <1>9, <1>10, <1>11, <1>12
     DEF Next, CallerStep, ReaderStep

\* What every step does to the login channels, for the caller that owns one: a step
\* of somebody else that is not a delete leaves the owner as it is.
LEMMA OwnerStays ==
  ASSUME Owned, UNCHANGED made, cut \subseteq cut',
         \A c \in Callers : Owner(c)' => Owner(c) /\ ch'[c] = ch[c]
                                        /\ (pc'[c] # "forget" => pc[c] # "forget"),
         \A c \in Callers : Owner(c) /\ Owner(c)' /\ Answerable(ch[c])
            => Answerable(ch[c])' \/ ch[c] \in cut'
  PROVE  Owned'
BY DEF Owned

\* A channel that is answerable stays so when only its owner, or nobody, gives up.
LEMMA OwnerStep == TypeOK /\ Fresh /\ Owned /\ [Next]_vars => Owned'
<1> SUFFICES ASSUME TypeOK, Fresh, Owned, [Next]_vars PROVE Owned'
  OBVIOUS
<1>p. pc \in [Callers -> {"idle", "send", "await", "mark", "forget", "wait", "putback", "sub"}]
  BY DEF TypeOK
<1>a. \A x : Answerable(x) /\ UNCHANGED <<done, box, pc, ch>> => Answerable(x)'
  BY DEF Answerable, Holds
<1>1. ASSUME NEW c \in Callers, Ask(c) PROVE Owned'
  <2> USE <1>1 DEF Ask, Go
  <2>1. /\ UNCHANGED <<box, cut>> /\ pc[c] = "idle" /\ made \subseteq made'
        /\ \A d \in Callers \ {c} : pc'[d] = pc[d] /\ ch'[d] = ch[d]
    BY <1>p DEF ghosts, TypeOK
  <2>2. CASE UNCHANGED <<done, made>> /\ pc'[c] # "send"
    <3>1. ~Owner(c)'
      BY <1>p, <2>2 DEF Owner
    <3>2. \A x : Answerable(x) => Answerable(x)'
      BY <2>1, <2>2 DEF Answerable, Holds
    <3>3. QED
      BY <2>1, <2>2, <3>1, <3>2 DEF Owned, Owner
  <2>3. ASSUME NEW x \in Chans \ made, made' = made \cup {x}, done' = x, ch' = [ch EXCEPT ![c] = x],
               done = None
        PROVE  Owned'
    <3>1. ch'[c] = x /\ x # None /\ Answerable(x)'
      BY <2>3, Assumption DEF TypeOK, Answerable
    <3>2. \A d \in Callers \ {c} : Owner(d)' => Owner(d) /\ ch'[d] # x /\ ch[d] # None
      BY <2>1, <2>3, Assumption DEF Owned, Owner, TypeOK
    <3>3. \A y : y # None /\ Answerable(y) => Answerable(y)'
      BY <2>1, <2>3 DEF Answerable, Holds
    <3>4. QED
      BY <2>1, <2>3, <3>1, <3>2, <3>3 DEF Owned, Owner
  <2>4. QED
    BY <1>p, <2>2, <2>3
<1>2. ASSUME NEW c \in Callers, Send(c) PROVE Owned'
  <2>1. /\ UNCHANGED <<done, box, made, ch, cut>>
        /\ pc[c] = "send" /\ pc'[c] = "await" /\ \A d \in Callers \ {c} : pc'[d] = pc[d]
    BY <1>2, <1>p DEF Send, Go, authVars, boxVars, ghosts
  <2>2. \A x : Answerable(x) => Answerable(x)'
    BY <2>1 DEF Answerable, Holds
  <2>3. \A d \in Callers : Owner(d)' => Owner(d) /\ (pc'[d] # "forget" => pc[d] # "forget")
    BY <2>1 DEF Owner
  <2>4. QED
    BY <2>1, <2>2, <2>3, OwnerStays
<1>3. ASSUME NEW c \in Callers, SendFail(c) \/ Forget(c) PROVE Owned'
  <2>1. /\ UNCHANGED <<box, made, ch>> /\ Delete(ch[c])
        /\ Owner(c) /\ pc'[c] = "idle" /\ \A d \in Callers \ {c} : pc'[d] = pc[d]
    BY <1>3, <1>p DEF SendFail, Forget, Go, boxVars, Owner
  <2>2. \A d \in Callers : Owner(d)' => /\ Owner(d) /\ ch[d] # ch[c]
                                       /\ (pc'[d] # "forget" => pc[d] # "forget")
    BY <2>1 DEF Owned, Owner
  <2>3. ASSUME NEW x \in made, x # ch[c], Answerable(x) PROVE Answerable(x)' \/ x \in cut'
    <3>1. CASE done = x
      BY <2>1, <2>3, <3>1, Assumption DEF Delete, TypeOK
    <3>2. CASE done # x
      BY <2>1, <2>3, <3>2 DEF Answerable, Holds, Owner
    <3>3. QED
      BY <3>1, <3>2
  <2>4. QED
    <3>1. cut \subseteq cut' /\ \A d \in Callers : Owner(d) => ch[d] \in made
      BY <2>1 DEF Delete, Owned
    <3>2. QED
      BY <2>1, <2>2, <2>3, <3>1, OwnerStays
<1>4. ASSUME NEW c \in Callers, Receive(c) PROVE Owned'
  <2>1. /\ UNCHANGED <<done, made, ch, cut>> /\ pc[c] = "await"
        /\ pc'[c] \in {"mark", "idle"} /\ \A d \in Callers \ {c} : pc'[d] = pc[d]
        /\ \A x \in Chans \ {ch[c]} : box'[x] = box[x]
    BY <1>4, <1>p DEF Receive, Go, authVars, ghosts, TypeOK
  <2>2. \A d \in Callers : Owner(d)' => /\ Owner(d) /\ ch[d] # ch[c] /\ ch[d] \in Chans
                                       /\ (pc'[d] # "forget" => pc[d] # "forget")
    BY <2>1 DEF Owned, Owner, TypeOK
  <2>3. \A x \in Chans : x # ch[c] /\ Answerable(x) => Answerable(x)'
    BY <2>1 DEF Answerable, Holds
  <2>4. QED
    BY <2>1, <2>2, <2>3, OwnerStays
<1>5. ASSUME NEW c \in Callers, Mark(c) \/ Timeout(c) \/ WaitTimeout(c) \/ Subscribe(c)
      PROVE  Owned'
  <2>1. /\ UNCHANGED <<done, box, made, ch, cut>>
        /\ \E p \in {"idle", "sub", "forget"} : Go(c, p) /\ (p = "forget" => pc[c] = "await")
        /\ pc[c] \in {"mark", "wait", "sub", "await"}
    BY <1>5 DEF Mark, Timeout, WaitTimeout, Subscribe, authVars, boxVars, ghosts
  <2>a. /\ pc'[c] \in {"idle", "sub"} \/ (pc'[c] = "forget" /\ pc[c] = "await")
        /\ \A d \in Callers \ {c} : pc'[d] = pc[d]
    BY <2>1, <1>p DEF Go
  <2>2. \A x : Answerable(x) => Answerable(x)'
    BY <2>1, <2>a DEF Answerable, Holds
  <2>3. \A d \in Callers : Owner(d)' => Owner(d) /\ (pc'[d] # "forget" => pc[d] # "forget")
    BY <2>1, <2>a DEF Owner
  <2>4. QED
    BY <2>1, <2>2, <2>3, OwnerStays
<1>6. ASSUME NEW c \in Callers, WaitReceive(c) PROVE Owned'
  <2>1. /\ UNCHANGED <<done, made, ch, cut>> /\ pc[c] = "wait"
        /\ pc'[c] = "putback" /\ \A d \in Callers \ {c} : pc'[d] = pc[d]
        /\ \A x \in Chans \ {ch[c]} : box'[x] = box[x]
    BY <1>6, <1>p DEF WaitReceive, Go, authVars, ghosts, TypeOK
  <2>2. \A d \in Callers : Owner(d)' => /\ Owner(d) /\ ch[d] \in Chans
                                       /\ (pc'[d] # "forget" => pc[d] # "forget")
    BY <2>1 DEF Owned, Owner, TypeOK
  <2>3. \A x \in Chans : Answerable(x) => Answerable(x)'
    BY <2>1 DEF Answerable, Holds
  <2>4. QED
    BY <2>1, <2>2, <2>3, OwnerStays
<1>7. ASSUME NEW c \in Callers, PutBack(c) PROVE Owned'
  <2>1. /\ UNCHANGED <<done, made, ch, cut>> /\ pc[c] = "putback"
        /\ pc'[c] \in {"sub", "idle"} /\ \A d \in Callers \ {c} : pc'[d] = pc[d]
        /\ \A x \in Chans \ {ch[c]} : box'[x] = box[x]
    BY <1>7, <1>p DEF PutBack, Go, authVars, ghosts, TypeOK
  <2>2. ch[c] \in Chans /\ box'[ch[c]] # << >>
    <3>1. ch[c] \in Chans
      BY <2>1 DEF Fresh, TypeOK
    <3>2. box[ch[c]] \in Seq(Answers) /\ res[c] \in Answers
      BY <2>1, <3>1 DEF Fresh, TypeOK
    <3>3. box'[ch[c]] = Append(box[ch[c]], res[c])
      BY <1>7, <3>1 DEF PutBack, TypeOK
    <3>4. QED
      BY <3>1, <3>2, <3>3
  <2>3. \A d \in Callers : Owner(d)' => /\ Owner(d) /\ ch[d] \in Chans
                                       /\ (pc'[d] # "forget" => pc[d] # "forget")
    BY <2>1 DEF Owned, Owner, TypeOK
  <2>4. \A x \in Chans : Answerable(x) => Answerable(x)'
    BY <2>1, <2>2 DEF Answerable, Holds
  <2>5. QED
    BY <2>1, <2>3, <2>4, OwnerStays
<1>8. CASE HandleLogin \/ HandleError
  <2>1. /\ UNCHANGED <<made, pc, ch, cut>>
        /\ UNCHANGED <<done, box>> \/ \E r \in Answers : Notify(r)
    BY <1>8 DEF HandleLogin, HandleError, Handling, callVars, ghosts, Answers
  <2>2. ASSUME NEW r \in Answers, Notify(r), NEW x \in made, Answerable(x) PROVE Answerable(x)'
    <3>1. CASE done = x
      <4>1. box[x] \in Seq(Answers) /\ x \in Chans /\ x # None
        BY Assumption DEF TypeOK
      <4>2. box'[x] = Append(box[x], r)
        BY <2>2, <3>1, <4>1 DEF Notify, TypeOK
      <4>3. QED
        BY <4>1, <4>2 DEF Answerable
    <3>2. CASE done # x
      <4>1. box'[x] = box[x] /\ \A w \in Callers : Holds(w, x) => Holds(w, x)'
        BY <2>1, <2>2, <3>2 DEF Notify, TypeOK, Holds
      <4>2. QED
        BY <2>2, <3>2, <4>1 DEF Answerable
    <3>3. QED
      BY <3>1, <3>2
  <2>3. \A x \in made : Answerable(x) => Answerable(x)'
    BY <2>1, <2>2, <1>a
  <2>4. \A d \in Callers : Owner(d)' => /\ Owner(d) /\ ch[d] \in made
                                       /\ (pc'[d] # "forget" => pc[d] # "forget")
    BY <2>1 DEF Owned, Owner
  <2>5. QED
    BY <2>1, <2>3, <2>4, OwnerStays
<1>9. CASE Clean
  <2>1. UNCHANGED <<made, box, pc, ch>> /\ Delete(None)
    BY <1>9 DEF Clean, boxVars, callVars
  <2>2. \A x \in made : Answerable(x) => Answerable(x)' \/ x \in cut'
    BY <2>1, Assumption DEF Delete, Answerable, Holds, TypeOK
  <2>3. \A d \in Callers : Owner(d)' => /\ Owner(d) /\ ch[d] \in made
                                       /\ (pc'[d] # "forget" => pc[d] # "forget")
    BY <2>1 DEF Owned, Owner
  <2>4. QED
    BY <2>1, <2>2, <2>3, OwnerStays DEF Delete
<1>10. ASSUME UNCHANGED <<done, made, box, pc, ch, cut>> PROVE Owned'
  BY <1>10 DEF Owned, Owner, Answerable, Holds
<1>11. CASE ReConn \/ ReLogin \/ Restore \/ Lose \/ UNCHANGED vars
  BY <1>10, <1>11 DEF ReConn, ReLogin, Restore, Lose, vars, authVars, boxVars, callVars, ghosts
<1>12. ASSUME NEW ok \in BOOLEAN, Serve(ok) PROVE Owned'
  BY <1>10, <1>12 DEF Serve, authVars, boxVars, callVars
<1>13. QED
  BY <1>1, <1>2, <1>3, <1>4, <1>5, <1>6, <1>7, <1>8, <1>9, <1>11, <1>12
     DEF Next, CallerStep, ReaderStep

\* The inductive invariant holds in every state.
THEOREM Inductive == Spec => []IInv
<1>1. Init => IInv
  <2>1. Init => OneAnswer /\ Fresh
    BY Assumption DEF Init, OneAnswer, Fresh, Holds
  <2>2. Init => UnderWay
    BY RangeEmpty DEF Init, UnderWay, YesIsTrue, AuthedIsLoggedIn, KeysCovered, Owned, Owner
  <2>3. QED
    BY <2>1, <2>2, TypeInit DEF IInv
<1>2. IInv /\ [Next]_vars => IInv'
  BY TypeStep, AnswerStep, YesStep, AuthedStep, KeysStep, OwnerStep DEF IInv, UnderWay
<1>3. QED
  BY <1>1, <1>2, PTL DEF Spec

\* Every variable of the login has its type, whoever logs in, waits or reconnects.
THEOREM TypeCorrect == Spec => []TypeOK
<1>1. IInv => TypeOK
  BY DEF IInv
<1>2. QED
  BY <1>1, Inductive, PTL

\* However many callers wait for a login, time out and put its answer back, and
\* however many answers come, a login channel never holds a second one.
THEOREM OnlyOneAnswer == Spec => []OneAnswer
<1>1. IInv => OneAnswer
  BY DEF IInv
<1>2. QED
  BY <1>1, Inductive, PTL

\* WsAuthed is never set, for long, on the word of another connection: unless a caller
\* marked it late or bybit reconnected without keys, the exchange has logged this one in.
THEOREM AuthedIsTrue == Spec => []AuthedIsLoggedIn
<1>1. IInv => AuthedIsLoggedIn
  BY DEF IInv, UnderWay
<1>2. QED
  BY <1>1, Inductive, PTL

\* When nothing is under way any more and nothing was refused, the exchange has every
\* key of SubscribeKeys, however often the connection was lost in the middle of a login.
THEOREM NoKeyForgotten == Spec => []KeysRestored
<1>1. IInv => KeysRestored
  <2> SUFFICES ASSUME IInv, AtRest, ~refused, NEW k \in subKeys PROVE k \in subs
    BY DEF KeysRestored
  <2>1. Range(in) = {} /\ Range(out) = {} /\ restoring = {} /\ reader = "read"
    BY RangeEmpty DEF AtRest
  <2>2. Covered(k)
    BY <2>1 DEF IInv, UnderWay, KeysCovered
  <2>3. QED
    BY <2>1, <2>2 DEF Covered, LoginUnderWay
<1>2. QED
  BY <1>1, Inductive, PTL

\* The caller that sent the login can be answered while it waits, whatever the others
\* take, put back, delete or give up.
THEOREM OwnerIsAnswered == Spec => []OwnerAnswerable
<1>1. IInv => OwnerAnswerable
  BY DEF IInv, UnderWay, Owned, Owner, OwnerAnswerable, Answerable, Holds
<1>2. QED
  BY <1>1, Inductive, PTL
=================================================================================
