------------------------------ MODULE WsSubsProofs ------------------------------
(***************************************************************************)
(* Proofs about WsSubs, for every set of callers, objects and keys and     *)
(* every value of the bounds: connSubs counts the keys of each connection, *)
(* no two connections of conns have one id, and a connection that is open, *)
(* heard and alone under its id carries the keys it has been given once    *)
(* everybody is done.                                                      *)
(***************************************************************************)
EXTENDS WsSubs, TLAPS, FiniteSetTheorems

\* Where a goroutine can be.
Places == {"unmade", "made", "read", "lost", "gone", "idle", "next", "pick", "dial", "add",
           "any", "panic", "update", "write", "close", "redial"}

\* Where it has a connection in hand, to subscribe on or to dial again.
AtConn == {"update", "write", "close", "redial"}

\* The objects that have been entered in conns.
Entered == {x \in Objs : pc[x] \notin {"unmade", "made"}}

\* The types of the variables the argument needs.
Typed ==
  /\ conns \in SUBSET Objs /\ alive \in SUBSET Objs /\ quiet \in SUBSET Objs
  /\ ended \in SUBSET Objs
  /\ id \in [Objs -> Nat] /\ cbId \in [Objs -> Nat]
  /\ server \in [Objs -> SUBSET Keys]
  /\ SubscribeKeys \in [Keys -> Nat]
  /\ NextConnId \in Nat \ {0}
  /\ pc \in [Procs -> Places]
  /\ call \in [Procs -> {"sub", "resub"}]
  /\ connID \in [Procs -> Nat] /\ newId \in [Procs -> Nat]
  /\ left \in [Procs -> SUBSET Keys] /\ batch \in [Procs -> SUBSET Keys]
  /\ dups \in [Procs -> SUBSET Objs] /\ obj \in [Procs -> Objs \cup {None}]
  /\ \A s \in stats : s.id \in Nat /\ s.keys \in SUBSET Keys

\* An object has no id before it is dialled, one that was handed out after it, and
\* the one of its callback until it is entered in conns.
IdsGiven ==
  /\ \A x \in Objs : id[x] < NextConnId
  /\ \A x \in Objs : (pc[x] = "unmade" => id[x] = NoId) /\ (pc[x] # "unmade" => id[x] # NoId)
  /\ \A x \in Objs : pc[x] \in {"unmade", "made"} => id[x] = cbId[x]
  /\ \A p \in Procs : pc[p] = "dial" => newId[p] # NoId /\ newId[p] <= NextConnId

\* The objects a goroutine has in hand: one to subscribe keys on has been entered in
\* conns, one that is yet to be entered is in the hands of a single goroutine.
InHand ==
  /\ conns \subseteq Entered
  /\ \A p \in Procs : dups[p] \subseteq Entered
  /\ \A p \in Procs : pc[p] \in AtConn => obj[p] \in Entered
  /\ \A p \in Procs : pc[p] = "add" => obj[p] \in Objs /\ pc[obj[p]] = "made"
  /\ \A p, q \in Procs : pc[p] = "add" /\ pc[q] = "add" /\ p # q => obj[p] # obj[q]

\* Two entries of conns have two ids.
ById == \A o, x \in conns : id[o] = id[x] => o = x

\* connSubs has the number of keys of every id.
Counted ==
  /\ DOMAIN connSubs = {SubscribeKeys[k] : k \in Keys} \ {NoId}
  /\ \A i \in DOMAIN connSubs : connSubs[i] = Cardinality(KeysOf(i))

\* A key has the id of an object that was entered in conns.
OfEntered == \A k \in Keys : SubscribeKeys[k] # NoId => \E x \in Entered : id[x] = SubscribeKeys[k]

\* Goroutine p is about to write k to o: it has set out to subscribe k on the
\* connection with the id of o, or has given k that id already.
Writing(p, o, k) ==
  \/ /\ pc[p] = "next" /\ call[p] = "sub"
     /\ connID[p] = id[o] /\ k \in left[p]
  \/ /\ pc[p] = "update" /\ call[p] = "sub" /\ obj[p] = o
     /\ connID[p] = id[o] /\ k \in left[p] \cup batch[p]
  \/ /\ pc[p] = "write" /\ obj[p] = o
     /\ k \in batch[p] \/ (connID[p] = id[o] /\ call[p] = "sub" /\ k \in left[p])

\* o has to carry k: it is open, hears, and its id, which is no other's, is k's.
Owes(o, k) == o \in conns /\ Hears(o) /\ SubscribeKeys[k] = id[o] /\ OwnId(o)
Paid(o, k) == k \in server[o] \/ \E p \in Procs : Writing(p, o, k)
Settled == \A o \in Objs, k \in Keys : Owes(o, k) => Paid(o, k)

IInv == Typed /\ IdsGiven /\ InHand /\ ById /\ Counted /\ OfEntered /\ Settled

-------------------------------------------------------------------------------
\* Types

LEMMA WhoIsWho ==
  /\ Callers \subseteq Procs /\ Objs \subseteq Procs /\ Dog \in Procs
  /\ Dog \notin Objs /\ Dog \notin Callers /\ Callers \cap Objs = {}
  /\ NoId \in Nat /\ None \notin Objs
BY Assumption DEF Procs, NoId

\* WriteWSMsg, from the choice of a connection to the messages.
LEMMA SubscribeTyped ==
  ASSUME Typed, InHand, NEW p \in Procs, Subscribe(p)
  PROVE  Typed'
<1> USE WhoIsWho DEF Goto, Clear, shared, pick, flow, Places, Entered, AtConn
<1>1. CASE Find(p)
  <2>1. PICK b \in SUBSET left[p] :
           batch' = [batch EXCEPT ![p] = b] /\ left' = [left EXCEPT ![p] = @ \ b]
    BY <1>1 DEF Find
  <2>2. batch' \in [Procs -> SUBSET Keys] /\ left' \in [Procs -> SUBSET Keys]
    BY <2>1 DEF Typed
  <2>3. CASE Under(connID[p]) # {}
    <3>1. PICK o \in conns : obj' = [obj EXCEPT ![p] = o] /\ dups' = [dups EXCEPT ![p] = {}]
                            /\ pc' = [pc EXCEPT ![p] = "update"]
      BY <1>1, <2>3 DEF Find, Under
    <3>2. QED
      BY <1>1, <2>2, <3>1 DEF Find, Typed
  <2>4. CASE Under(connID[p]) = {}
    BY <1>1, <2>2, <2>4 DEF Find, Typed
  <2>5. QED
    BY <2>3, <2>4
<1>2. CASE Pick(p)
  <2>1. PICK o \in dups[p] :
           /\ dups' = [dups EXCEPT ![p] = @ \ {o}]
           /\ \/ obj' = [obj EXCEPT ![p] = o] /\ pc' = [pc EXCEPT ![p] = "update"]
              \/ UNCHANGED <<obj, pc>>
    BY <1>2 DEF Pick
  <2>2. obj' \in [Procs -> Objs \cup {None}] /\ pc' \in [Procs -> Places]
    BY <2>1 DEF Typed
  <2>3. dups' \in [Procs -> SUBSET Objs]
    BY <2>1 DEF Typed
  <2>4. QED
    BY <1>2, <2>2, <2>3 DEF Pick, Typed
<1>3. CASE NewConn(p)
  BY <1>3 DEF NewConn, Typed
<1>4. CASE DialOk(p)
  <2>1. PICK o \in Objs : /\ id' = [id EXCEPT ![o] = newId[p]] /\ cbId' = [cbId EXCEPT ![o] = newId[p]]
                          /\ alive' = alive \cup {o} /\ obj' = [obj EXCEPT ![p] = o]
                          /\ pc' = [pc EXCEPT ![p] = "add", ![o] = "made"]
    BY <1>4 DEF DialOk
  <2>2. id' \in [Objs -> Nat] /\ cbId' \in [Objs -> Nat] /\ alive' \in SUBSET Objs
    BY <2>1 DEF Typed
  <2>3. obj' \in [Procs -> Objs \cup {None}] /\ pc' \in [Procs -> Places]
    BY <2>1 DEF Typed
  <2>4. QED
    BY <1>4, <2>2, <2>3 DEF DialOk, Typed
<1>5. CASE AddConn(p)
  <2>1. obj[p] \in Objs
    BY <1>5 DEF AddConn, InHand
  <2>2. QED
    BY <1>5, <2>1 DEF AddConn, Typed
<1>6. CASE DialFail(p)
  BY <1>6 DEF DialFail, Typed
<1>7. CASE NoNewConn(p)
  BY <1>7 DEF NoNewConn, Typed
<1>8. CASE AnyConn(p)
  BY <1>8 DEF AnyConn, Typed
<1>9. CASE NoConn(p)
  <2>1. server' \in [Objs -> SUBSET Keys] /\ alive' \in SUBSET Objs /\ pc' \in [Procs -> Places]
    BY <1>9 DEF NoConn, Home, Typed
  <2>2. QED
    BY <1>9, <2>1 DEF NoConn, Typed
<1>10. CASE Update(p)
  <2>1. id[obj[p]] \in Nat
    BY <1>10 DEF Update, InHand, Typed
  <2>2. QED
    BY <1>10, <2>1 DEF Update, Typed
<1>11. CASE Write(p)
  <2>1. server' \in [Objs -> SUBSET Keys]
    BY <1>11 DEF Write, Typed
  <2>2. QED
    BY <1>11, <2>1 DEF Write, Typed
<1>12. CASE WriteReturn(p)
  BY <1>12 DEF WriteReturn, Typed, Home
<1>13. QED
  BY <1>1, <1>2, <1>3, <1>4, <1>5, <1>6, <1>7, <1>8, <1>9, <1>10, <1>11, <1>12 DEF Subscribe

\* The application, the readers and the watchdog.
LEMMA TypedStep == Typed /\ InHand /\ [Next]_vars => Typed'
<1> SUFFICES ASSUME Typed, InHand, [Next]_vars PROVE Typed'
  OBVIOUS
<1> USE WhoIsWho DEF Goto, Begin, Clear, shared, pick, flow, Places, Entered, AtConn
<1>1. ASSUME NEW p \in Procs, Subscribe(p) PROVE Typed'
  BY <1>1, SubscribeTyped
<1>2. ASSUME NEW p \in Callers, Watch(p) PROVE Typed'
  BY <1>2 DEF Watch, Typed
<1>3. ASSUME NEW p \in Callers, NEW k \in Keys, UnWatch(p, k) PROVE Typed'
  BY <1>3 DEF UnWatch, Typed
<1>4. ASSUME NEW o \in Objs, Reconnect(o) PROVE Typed'
  BY <1>4 DEF Reconnect, Typed, KeysOf
<1>5. ASSUME NEW o \in Objs, Lose(o) \/ ReconnectFail(o) PROVE Typed'
  BY <1>5 DEF Lose, ReconnectFail, Typed
<1>6. ASSUME NEW o \in Objs, RemoveConn(o) PROVE Typed'
  BY <1>6 DEF RemoveConn, Typed, Under
<1>7. ASSUME NEW o \in Objs, ReaderStops(o) \/ Silence(o) PROVE Typed'
  BY <1>7 DEF ReaderStops, Silence, Typed
<1>8. CASE DogLook
  <2>1. ASSUME NEW s \in stats' PROVE s.id \in Nat /\ s.keys \in SUBSET Keys
    <3>1. PICK k \in Keys : /\ s.id = SubscribeKeys[k]
                           /\ s.keys = {j \in KeysOf(SubscribeKeys[k]) : ~Served(j)}
      BY <1>8, <2>1 DEF DogLook
    <3>2. QED
      BY <3>1 DEF KeysOf, Typed
  <2>2. QED
    BY <1>8, <2>1 DEF DogLook, Typed
<1>9. CASE DogNext
  <2>1. PICK s \in stats :
          /\ stats' = stats \ {s}
          /\ \/ /\ call' = [call EXCEPT ![Dog] = "resub"]
                /\ connID' = [connID EXCEPT ![Dog] = s.id]
                /\ Goto(Dog, "next")
                /\ UNCHANGED <<left, batch>>
             \/ Begin(Dog, s.id, s.keys)
    BY <1>9 DEF DogNext
  <2>2. s.id \in Nat /\ s.keys \in SUBSET Keys
    BY DEF Typed
  <2>3. QED
    BY <1>9, <2>1, <2>2 DEF DogNext, Typed
<1>10. CASE DogReConnect \/ DogClose \/ DogDialOk \/ DogDialFail \/ DogMove
  <2>1. obj[Dog] \in Objs /\ cbId[obj[Dog]] \in Nat
    BY <1>10 DEF DogReConnect, DogClose, DogDialOk, DogDialFail, DogMove, InHand, Typed, AtConn
  <2>2. CASE DogReConnect
    <3>1. pc' \in [Procs -> Places]
      BY <2>2 DEF DogReConnect, Typed
    <3>2. UNCHANGED <<shared, pick, flow, stats>>
      BY <2>2 DEF DogReConnect
    <3>3. QED
      BY <3>1, <3>2 DEF Typed
  <2>3. CASE DogClose
    BY <2>1, <2>3 DEF DogClose, Typed
  <2>4. CASE DogDialOk
    <3>1. alive' \in SUBSET Objs /\ quiet' \in SUBSET Objs
      BY <2>1, <2>4 DEF DogDialOk, Typed
    <3>2. QED
      BY <2>1, <2>4, <3>1 DEF DogDialOk, Typed, KeysOf
  <2>5. CASE DogDialFail
    BY <2>5 DEF DogDialFail, Typed
  <2>6. CASE DogMove
    BY <2>6 DEF DogMove, Typed, KeysOf
  <2>7. QED
    BY <1>10, <2>2, <2>3, <2>4, <2>5, <2>6
<1>11. CASE UNCHANGED vars
  BY <1>11 DEF vars, Typed
<1>12. QED
  BY <1>1, <1>2, <1>3, <1>4, <1>5, <1>6, <1>7, <1>8, <1>9, <1>10, <1>11 DEF Next

-------------------------------------------------------------------------------
\* Objects and ids

\* A step that makes no object and enters none in conns: who sets out to subscribe
\* takes an object of conns, or one he found there before.
Plain ==
  /\ UNCHANGED <<id, cbId, NextConnId>> /\ conns' \subseteq conns
  /\ \A p \in Procs :
       /\ \A l \in {"unmade", "made"} : pc'[p] = l <=> pc[p] = l
       /\ pc'[p] = "dial" => pc[p] = "dial" /\ newId'[p] = newId[p]
       /\ pc'[p] = "add" => pc[p] = "add" /\ obj'[p] = obj[p]
       /\ dups'[p] \subseteq dups[p] \cup conns
       /\ pc'[p] \in AtConn =>
            \/ obj'[p] \in conns \cup dups[p]
            \/ pc[p] \in AtConn /\ obj'[p] = obj[p]

LEMMA SubscribePlain ==
  ASSUME Typed, NEW p \in Procs, Subscribe(p)
  PROVE  Plain \/ NewConn(p) \/ DialOk(p) \/ AddConn(p)
<1> USE WhoIsWho DEF Goto, Clear, shared, pick, flow, Typed, AtConn
<1>1. CASE Find(p)
  <2>1. CASE Under(connID[p]) # {}
    <3>1. PICK o \in conns : obj' = [obj EXCEPT ![p] = o] /\ dups' = [dups EXCEPT ![p] = {}]
                            /\ pc' = [pc EXCEPT ![p] = "update"]
      BY <1>1, <2>1 DEF Find, Under
    <3>2. QED
      BY <1>1, <3>1 DEF Find, Plain
  <2>2. CASE Under(connID[p]) = {}
    BY <1>1, <2>2 DEF Find, Plain
  <2>3. QED
    BY <2>1, <2>2
<1>2. CASE Pick(p)
  <2>1. PICK o \in dups[p] :
           /\ dups' = [dups EXCEPT ![p] = @ \ {o}]
           /\ \/ obj' = [obj EXCEPT ![p] = o] /\ pc' = [pc EXCEPT ![p] = "update"]
              \/ UNCHANGED <<obj, pc>>
    BY <1>2 DEF Pick
  <2>2. QED
    BY <1>2, <2>1 DEF Pick, Plain
<1>3. CASE DialFail(p) \/ NoNewConn(p)
  BY <1>3 DEF DialFail, NoNewConn, Plain
<1>4. CASE AnyConn(p)
  BY <1>4 DEF AnyConn, Plain
<1>5. CASE NoConn(p)
  BY <1>5 DEF NoConn, Home, Plain
<1>6. CASE Update(p)
  BY <1>6 DEF Update, Plain
<1>7. CASE Write(p)
  BY <1>7 DEF Write, Plain
<1>8. CASE WriteReturn(p)
  BY <1>8 DEF WriteReturn, Home, Plain
<1>9. QED
  BY <1>1, <1>2, <1>3, <1>4, <1>5, <1>6, <1>7, <1>8 DEF Subscribe

LEMMA PlainStep ==
  ASSUME Typed, InHand, [Next]_vars
  PROVE  Plain \/ \E p \in Procs : NewConn(p) \/ DialOk(p) \/ AddConn(p)
<1> USE WhoIsWho DEF Goto, Begin, Clear, shared, pick, flow, Typed, AtConn
<1>1. ASSUME NEW p \in Procs, Subscribe(p) PROVE Plain \/ NewConn(p) \/ DialOk(p) \/ AddConn(p)
  BY <1>1, SubscribePlain
<1>2. ASSUME NEW p \in Callers, Watch(p) PROVE Plain
  BY <1>2 DEF Watch, Plain
<1>3. ASSUME NEW p \in Callers, NEW k \in Keys, UnWatch(p, k) PROVE Plain
  BY <1>3 DEF UnWatch, Plain
<1>4. ASSUME NEW o \in Objs, Lose(o) \/ Reconnect(o) \/ ReconnectFail(o) PROVE Plain
  BY <1>4 DEF Lose, Reading, Reconnect, ReconnectFail, Plain
<1>5. ASSUME NEW o \in Objs, ReaderStops(o) \/ RemoveConn(o) \/ Silence(o) PROVE Plain
  BY <1>5 DEF ReaderStops, RemoveConn, Silence, Plain
<1>6. CASE DogLook \/ UNCHANGED vars
  BY <1>6 DEF DogLook, vars, Plain
<1>7. CASE DogNext
  BY <1>7 DEF DogNext, Plain
<1>8. CASE DogReConnect \/ DogClose
  BY <1>8 DEF DogReConnect, DogClose, AtConn, Plain
<1>9. CASE DogDialOk \/ DogDialFail \/ DogMove
  BY <1>9 DEF DogDialOk, DogDialFail, DogMove, Plain
<1>10. QED
  BY <1>1, <1>2, <1>3, <1>4, <1>5, <1>6, <1>7, <1>8, <1>9 DEF Next

\* A connection that was entered stays entered, with the ids it has.
Lasts == \A x \in Entered : x \in Entered' /\ id'[x] = id[x] /\ cbId'[x] = cbId[x]

LEMMA IdsStep ==
  ASSUME Typed, InHand, IdsGiven, [Next]_vars
  PROVE  IdsGiven' /\ Lasts
<1> USE WhoIsWho DEF Typed, shared, pick, flow, Goto, AtConn
<1>1. CASE Plain
  BY <1>1 DEF Plain, IdsGiven, Lasts, Entered
<1>2. ASSUME NEW p \in Procs, NewConn(p) PROVE IdsGiven' /\ Lasts
  BY <1>2 DEF NewConn, IdsGiven, Lasts, Entered, NoId
<1>3. ASSUME NEW p \in Procs, DialOk(p) PROVE IdsGiven' /\ Lasts
  <2>1. PICK o \in Objs : /\ pc[o] = "unmade" /\ pc[p] = "dial"
                          /\ id' = [id EXCEPT ![o] = newId[p]]
                          /\ cbId' = [cbId EXCEPT ![o] = newId[p]]
                          /\ pc' = [pc EXCEPT ![p] = "add", ![o] = "made"]
    BY <1>3 DEF DialOk
  <2>2. NextConnId' = NextConnId + 1 /\ newId' = newId
    BY <1>3 DEF DialOk
  <2>3. newId[p] # NoId /\ newId[p] < NextConnId' /\ newId[p] \in Nat
    BY <2>1, <2>2 DEF IdsGiven
  <2>4. IdsGiven'
    BY <2>1, <2>2, <2>3 DEF IdsGiven, NoId
  <2>5. QED
    BY <2>1, <2>4 DEF Lasts, Entered
<1>4. ASSUME NEW p \in Procs, AddConn(p) PROVE IdsGiven' /\ Lasts
  <2>1. /\ pc[p] = "add" /\ obj[p] \in Objs /\ pc[obj[p]] = "made"
        /\ pc' = [pc EXCEPT ![p] = "update", ![obj[p]] = "read"] /\ UNCHANGED <<cbId, newId>>
        /\ \/ UNCHANGED <<id, NextConnId>>
           \/ id' = [id EXCEPT ![obj[p]] = NextConnId] /\ NextConnId' = NextConnId + 1
    BY <1>4 DEF AddConn, InHand
  <2>2. \A x \in Procs : pc'[x] = (IF x = p THEN "update" ELSE IF x = obj[p] THEN "read" ELSE pc[x])
    BY <2>1
  <2>3. \A x \in Objs \ {obj[p]} : id'[x] = id[x]
    BY <2>1
  <2>4. Lasts
    BY <2>1, <2>2, <2>3 DEF Lasts, Entered
  <2>5. id[obj[p]] # NoId /\ id'[obj[p]] # NoId /\ id'[obj[p]] < NextConnId' /\ NextConnId <= NextConnId'
    BY <2>1 DEF IdsGiven, NoId
  <2>6. IdsGiven'
    BY <2>1, <2>2, <2>3, <2>5 DEF IdsGiven, NoId
  <2>7. QED
    BY <2>4, <2>6
<1>5. QED
  BY <1>1, <1>2, <1>3, <1>4, PlainStep

LEMMA HandStep ==
  ASSUME Typed, InHand, IdsGiven, [Next]_vars
  PROVE  InHand'
<1>1. Lasts
  BY IdsStep
<1> USE WhoIsWho DEF Typed, shared, pick, flow, Goto, AtConn
<1>2. CASE Plain
  BY <1>1, <1>2 DEF Plain, InHand, Lasts, Entered
<1>3. ASSUME NEW p \in Procs, NewConn(p) PROVE InHand'
  BY <1>1, <1>3 DEF NewConn, InHand, Entered
<1>4. ASSUME NEW p \in Procs, DialOk(p) PROVE InHand'
  <2>1. PICK o \in Objs : /\ pc[o] = "unmade" /\ pc[p] = "dial"
                          /\ obj' = [obj EXCEPT ![p] = o]
                          /\ pc' = [pc EXCEPT ![p] = "add", ![o] = "made"]
    BY <1>4 DEF DialOk
  <2>2. UNCHANGED <<conns, dups>> /\ Entered' = Entered
    BY <1>4, <2>1 DEF DialOk, Entered
  <2>3. QED
    BY <2>1, <2>2 DEF InHand, Entered
<1>5. ASSUME NEW p \in Procs, AddConn(p) PROVE InHand'
  <2>1. /\ pc[p] = "add" /\ obj[p] \in Objs /\ pc[obj[p]] = "made" /\ UNCHANGED <<dups, obj>>
        /\ pc' = [pc EXCEPT ![p] = "update", ![obj[p]] = "read"] /\ conns' = conns \cup {obj[p]}
    BY <1>5 DEF AddConn, InHand
  <2>2. Entered' = Entered \cup {obj[p]}
    BY <2>1 DEF Entered
  <2>3. conns' \subseteq Entered' /\ \A q \in Procs : dups'[q] \subseteq Entered'
    BY <2>1, <2>2 DEF InHand
  <2>4. ASSUME NEW q \in Procs, pc'[q] \in AtConn PROVE obj'[q] \in Entered'
    BY <2>1, <2>2, <2>4 DEF InHand
  <2>5. ASSUME NEW q \in Procs, pc'[q] = "add" PROVE pc[q] = "add" /\ q # p /\ obj[q] # obj[p]
    BY <2>1, <2>5 DEF InHand
  <2>6. ASSUME NEW q \in Procs, pc'[q] = "add" PROVE obj'[q] \in Objs /\ pc'[obj'[q]] = "made"
    BY <2>1, <2>5, <2>6 DEF InHand
  <2>7. \A q, s \in Procs : pc'[q] = "add" /\ pc'[s] = "add" /\ q # s => obj'[q] # obj'[s]
    BY <2>1, <2>5 DEF InHand
  <2>8. QED
    BY <2>3, <2>4, <2>6, <2>7 DEF InHand
<1>6. QED
  BY <1>2, <1>3, <1>4, <1>5, PlainStep

\* addConn gives the object another id when its own is taken.
LEMMA ByIdStep ==
  ASSUME Typed, InHand, IdsGiven, ById, [Next]_vars
  PROVE  ById'
<1> USE WhoIsWho DEF Typed, shared, pick, flow
<1>1. CASE Plain
  BY <1>1 DEF Plain, ById
<1>2. ASSUME NEW p \in Procs, NewConn(p) PROVE ById'
  BY <1>2 DEF NewConn, ById
<1>3. ASSUME NEW p \in Procs, DialOk(p) PROVE ById'
  BY <1>3 DEF DialOk, ById, InHand, Entered
<1>4. ASSUME NEW p \in Procs, AddConn(p) PROVE ById'
  <2>1. obj[p] \in Objs /\ conns' = conns \cup {obj[p]}
    BY <1>4 DEF AddConn, InHand
  <2>2. CASE Under(id[obj[p]]) = {}
    BY <1>4, <2>1, <2>2 DEF AddConn, ById, Under
  <2>3. CASE Under(id[obj[p]]) # {}
    BY <1>4, <2>1, <2>3 DEF AddConn, ById, IdsGiven
  <2>4. QED
    BY <2>2, <2>3
<1>5. QED
  BY <1>1, <1>2, <1>3, <1>4, PlainStep

-------------------------------------------------------------------------------
\* The number of keys

\* Giving the keys b to the connection i (or to none) keeps connSubs right: each
\* key that moves is counted once more there and once less where it was.
LEMMA CountsRight ==
  ASSUME Typed, Counted, NEW b \in SUBSET Keys, NEW i \in Nat,
         SubscribeKeys' = [k \in Keys |-> IF k \in b THEN i ELSE SubscribeKeys[k]],
         connSubs' = Counts(b, i)
  PROVE  Counted'
<1> DEFINE moved == {k \in b : SubscribeKeys[k] # i}
           Leaving(j) == {k \in moved : SubscribeKeys[k] = j}
           n(j) == IF j = i THEN Get(connSubs, j) + Cardinality(moved)
                            ELSE Get(connSubs, j) - Cardinality(Leaving(j))
           ids == DOMAIN connSubs \cup (IF i # NoId /\ moved # {} THEN {i} ELSE {})
<1>1. connSubs' = [j \in {h \in ids : n(h) > 0} |-> n(j)]
  BY DEF Counts
<1>2. SubscribeKeys \in [Keys -> Nat] /\ IsFiniteSet(Keys)
  BY Assumption DEF Typed
<1>3. ASSUME NEW j \in Nat \ {NoId} PROVE Get(connSubs, j) = Cardinality(KeysOf(j))
  <2>1. CASE j \in DOMAIN connSubs
    BY <2>1 DEF Get, Counted
  <2>2. CASE j \notin DOMAIN connSubs
    <3>1. KeysOf(j) = {}
      BY <1>3, <2>2 DEF Counted, KeysOf
    <3>2. QED
      BY <2>2, <3>1, FS_EmptySet DEF Get
  <2>3. QED
    BY <2>1, <2>2
<1>4. ASSUME NEW j \in Nat \ {NoId} PROVE n(j) = Cardinality(KeysOf(j)') /\ IsFiniteSet(KeysOf(j)')
  <2>1. /\ IsFiniteSet(KeysOf(j)) /\ IsFiniteSet(KeysOf(j)') /\ IsFiniteSet(moved)
        /\ Cardinality(KeysOf(j)) \in Nat /\ Cardinality(moved) \in Nat
    <3>1. KeysOf(j) \in SUBSET Keys /\ KeysOf(j)' \in SUBSET Keys /\ moved \in SUBSET Keys
      BY DEF KeysOf
    <3>2. QED
      BY <1>2, <3>1, FS_Subset, FS_CardinalityType
  <2>2. CASE j = i
    <3>1. KeysOf(j)' = KeysOf(j) \cup moved /\ KeysOf(j) \cap moved = {}
      BY <1>2, <2>2 DEF KeysOf
    <3>2. Cardinality(KeysOf(j) \cup moved)
            = Cardinality(KeysOf(j)) + Cardinality(moved) - Cardinality(KeysOf(j) \cap moved)
      BY <2>1, FS_Union
    <3>3. n(j) = Get(connSubs, j) + Cardinality(moved)
      BY <2>2
    <3>4. Cardinality(KeysOf(j) \cap moved) = 0
      BY <3>1, FS_EmptySet
    <3>5. Get(connSubs, j) = Cardinality(KeysOf(j))
      BY <1>3
    <3> HIDE DEF n, moved
    <3>6. QED
      BY <2>1, <3>1, <3>2, <3>3, <3>4, <3>5
  <2>3. CASE j # i
    <3>1. KeysOf(j)' = KeysOf(j) \ Leaving(j) /\ KeysOf(j) \cap Leaving(j) = Leaving(j)
      BY <1>2, <2>3 DEF KeysOf
    <3>2. Cardinality(KeysOf(j) \ Leaving(j))
            = Cardinality(KeysOf(j)) - Cardinality(KeysOf(j) \cap Leaving(j))
      BY <2>1, FS_Difference
    <3>3. QED
      BY <1>3, <2>1, <2>3, <3>1, <3>2
  <2>4. QED
    BY <2>2, <2>3
<1>5. ids \subseteq Nat \ {NoId}
  BY <1>2 DEF Counted
<1>6. ASSUME NEW h \in ids PROVE n(h) > 0 <=> \E k \in Keys : SubscribeKeys'[k] = h
  <2>1. n(h) = Cardinality(KeysOf(h)') /\ IsFiniteSet(KeysOf(h)')
    BY <1>4, <1>5
  <2>2. n(h) \in Nat /\ (n(h) = 0 <=> KeysOf(h)' = {})
    BY <2>1, FS_EmptySet, FS_CardinalityType
  <2>3. KeysOf(h)' # {} <=> \E k \in Keys : SubscribeKeys'[k] = h
    BY DEF KeysOf
  <2>4. QED
    BY <2>2, <2>3
<1>7. ASSUME NEW k \in Keys, SubscribeKeys'[k] # NoId PROVE SubscribeKeys'[k] \in ids
  BY <1>7, <1>2 DEF Counted
<1>8. DOMAIN connSubs' = {h \in ids : n(h) > 0}
  BY <1>1
<1>9. DOMAIN connSubs' = {SubscribeKeys'[k] : k \in Keys} \ {NoId}
  <2> HIDE DEF ids, n
  <2>1. ASSUME NEW h \in DOMAIN connSubs' PROVE h # NoId /\ \E k \in Keys : h = SubscribeKeys'[k]
    BY <1>5, <1>6, <1>8
  <2>2. ASSUME NEW k \in Keys, SubscribeKeys'[k] # NoId PROVE SubscribeKeys'[k] \in DOMAIN connSubs'
    BY <2>2, <1>6, <1>7, <1>8
  <2>3. QED
    BY <2>1, <2>2
<1>10. ASSUME NEW j \in DOMAIN connSubs' PROVE connSubs'[j] = Cardinality(KeysOf(j)')
  BY <1>1, <1>4, <1>5, <1>8
<1>11. QED
  BY <1>9, <1>10 DEF Counted

\* Only UpdateSubs gives keys to connections.
LEMMA KeysGiven ==
  ASSUME [Next]_vars
  PROVE  \/ UNCHANGED <<SubscribeKeys, connSubs>>
         \/ \E p \in Procs : Update(p)
         \/ \E p \in Callers, k \in Keys : UnWatch(p, k)
<1> USE DEF shared, pick, flow
<1>1. ASSUME NEW p \in Procs, Subscribe(p) PROVE Update(p) \/ UNCHANGED <<SubscribeKeys, connSubs>>
  BY <1>1 DEF Subscribe, Find, Pick, NewConn, DialOk, AddConn, DialFail, NoNewConn, AnyConn, NoConn,
              Write, WriteReturn
<1>2. ASSUME NEW o \in Objs, \/ Lose(o) \/ Reconnect(o) \/ ReconnectFail(o)
                             \/ ReaderStops(o) \/ RemoveConn(o) \/ Silence(o)
      PROVE  UNCHANGED <<SubscribeKeys, connSubs>>
  BY <1>2 DEF Lose, Reconnect, ReconnectFail, ReaderStops, RemoveConn, Silence
<1>3. ASSUME NEW p \in Callers, Watch(p) PROVE UNCHANGED <<SubscribeKeys, connSubs>>
  BY <1>3 DEF Watch
<1>4. CASE DogLook \/ DogNext \/ DogReConnect \/ DogClose \/ DogDialOk \/ DogDialFail \/ DogMove
           \/ UNCHANGED vars
  BY <1>4 DEF DogLook, DogNext, DogReConnect, DogClose, DogDialOk, DogDialFail, DogMove, vars
<1>5. QED
  BY <1>1, <1>2, <1>3, <1>4 DEF Next

LEMMA CountedStep ==
  ASSUME Typed, InHand, IdsGiven, Counted, OfEntered, [Next]_vars
  PROVE  Counted' /\ OfEntered'
<1>1. Lasts
  BY IdsStep
<1>2. CASE UNCHANGED <<SubscribeKeys, connSubs>>
  <2>1. Counted'
    BY <1>2 DEF Counted, KeysOf
  <2>2. OfEntered'
    BY <1>1, <1>2 DEF OfEntered, Lasts
  <2>3. QED
    BY <2>1, <2>2
<1>3. ASSUME NEW p \in Procs, Update(p) PROVE Counted' /\ OfEntered'
  <2>1. obj[p] \in Entered /\ id[obj[p]] \in Nat /\ batch[p] \in SUBSET Keys
    BY <1>3 DEF Update, InHand, AtConn, Typed, Entered
  <2>2. SubscribeKeys' = [k \in Keys |-> IF k \in batch[p] THEN id[obj[p]] ELSE SubscribeKeys[k]]
        /\ connSubs' = Counts(batch[p], id[obj[p]])
    BY <1>3 DEF Update
  <2>3. Counted'
    BY <2>1, <2>2, CountsRight
  <2>4. OfEntered'
    BY <1>1, <2>1, <2>2 DEF OfEntered, Lasts
  <2>5. QED
    BY <2>3, <2>4
<1>4. ASSUME NEW p \in Callers, NEW k \in Keys, UnWatch(p, k) PROVE Counted' /\ OfEntered'
  <2>1. SubscribeKeys' = [j \in Keys |-> IF j \in {k} THEN NoId ELSE SubscribeKeys[j]]
        /\ connSubs' = Counts({k}, NoId)
    BY <1>4 DEF UnWatch, Typed
  <2>2. Counted'
    BY <2>1, CountsRight, WhoIsWho
  <2>3. OfEntered'
    BY <1>1, <2>1 DEF OfEntered, Lasts
  <2>4. QED
    BY <2>2, <2>3
<1>5. QED
  BY <1>2, <1>3, <1>4, KeysGiven

-------------------------------------------------------------------------------
\* Resumption

\* Only the goroutines Q go to another place or get another job.
OnlyMove(Q) ==
  \A q \in Procs \ Q :
    /\ pc'[q] = pc[q] /\ call'[q] = call[q] /\ connID'[q] = connID[q]
    /\ left'[q] = left[q] /\ batch'[q] = batch[q] /\ obj'[q] = obj[q]

\* Who was about to write a key still is, unless the goroutine moved.
LEMMA PaidKept ==
  ASSUME NEW Q, OnlyMove(Q), NEW o \in Objs, NEW k \in Keys, Paid(o, k), id'[o] = id[o],
         server[o] \subseteq server'[o],
         \A p \in Q : Writing(p, o, k) => Paid(o, k)'
  PROVE  Paid(o, k)'
<1>1. ASSUME NEW p \in Procs \ Q, Writing(p, o, k) PROVE Writing(p, o, k)'
  BY <1>1 DEF Writing, OnlyMove
<1>2. QED
  BY <1>1 DEF Paid

\* The id of a connection of conns is not changed, and does not become its own again
\* once another connection was made under it.
LEMMA OwesKept ==
  ASSUME Typed, InHand, IdsGiven, Lasts, [Next]_vars, NEW o \in conns, OwnId(o)'
  PROVE  OwnId(o)
<1> USE WhoIsWho DEF Typed, shared, pick, flow
<1>1. o \in Entered /\ id'[o] = id[o] /\ cbId'[o] = cbId[o] /\ id[o] # NoId
  BY DEF InHand, Lasts, IdsGiven, Entered
<1>2. ASSUME NEW x \in Objs \ {o} PROVE id[o] \notin {id[x], cbId[x]}
  <2>1. CASE x \in Entered
    BY <1>1, <2>1 DEF OwnId, Lasts
  <2>2. CASE pc[x] = "unmade"
    BY <1>1, <2>2 DEF IdsGiven
  <2>3. CASE pc[x] = "made"
    <3>1. id[x] = cbId[x]
      BY <2>3 DEF IdsGiven
    <3>2. cbId'[x] = cbId[x]
      <4>1. CASE Plain
        BY <4>1 DEF Plain
      <4>2. ASSUME NEW p \in Procs, NewConn(p) \/ AddConn(p) PROVE cbId'[x] = cbId[x]
        BY <4>2 DEF NewConn, AddConn
      <4>3. ASSUME NEW p \in Procs, DialOk(p) PROVE cbId'[x] = cbId[x]
        BY <2>3, <4>3 DEF DialOk
      <4>4. QED
        BY <4>1, <4>2, <4>3, PlainStep
    <3>3. QED
      BY <1>1, <3>1, <3>2 DEF OwnId
  <2>4. QED
    BY <2>1, <2>2, <2>3 DEF Entered
<1>3. QED
  BY <1>1, <1>2 DEF OwnId

\* What the argument about a step rests on.
Context ==
  /\ Typed /\ IdsGiven /\ InHand /\ ById /\ OfEntered /\ Settled
  /\ [Next]_vars /\ Lasts /\ IdsGiven' /\ InHand'

\* What an open connection of conns owes after a step that does not give k to it, it
\* owed before.
LEMMA OwedBefore ==
  ASSUME Context, NEW o \in Objs, NEW k \in Keys, Owes(o, k)',
         o \in conns, Hears(o), SubscribeKeys'[k] = SubscribeKeys[k]
  PROVE  Paid(o, k) /\ id'[o] = id[o]
<1>1. o \in Entered /\ OwnId(o)
  BY OwesKept DEF Context, Owes, InHand
<1>2. id'[o] = id[o]
  BY <1>1 DEF Context, Lasts
<1>3. Owes(o, k)
  BY <1>1, <1>2 DEF Owes
<1>4. QED
  BY <1>2, <1>3 DEF Context, Settled

\* A step that makes no connection heard, gives no key away and takes none off the
\* connections that stay heard: what is left to see is what the movers were writing.
LEMMA QuietPaid ==
  ASSUME Context, NEW Q, OnlyMove(Q), NEW o \in Objs, NEW k \in Keys, Owes(o, k)',
         o \in conns, Hears(o), SubscribeKeys'[k] = SubscribeKeys[k],
         server[o] \subseteq server'[o],
         \A p \in Q : Writing(p, o, k) => Paid(o, k)'
  PROVE  Paid(o, k)'
BY OwedBefore, PaidKept

\* A connection has an id when it is in conns.
LEMMA OwesAnId ==
  ASSUME Context, NEW o \in Objs, NEW k \in Keys, Owes(o, k)'
  PROVE  SubscribeKeys'[k] # NoId /\ o \in Entered'
BY DEF Context, Owes, InHand, IdsGiven, Entered

LEMMA SubscribePaid ==
  ASSUME Context, NEW p \in Procs, Subscribe(p), NEW o \in Objs, NEW k \in Keys, Owes(o, k)'
  PROVE  Paid(o, k)'
<1> USE WhoIsWho DEF Goto, Clear, shared, pick, flow
<1>t. Typed
  BY DEF Context
<1>o. o \in conns' /\ SubscribeKeys'[k] = id'[o] /\ OwnId(o)'
  BY DEF Owes
<1>h. o \in alive' \ (quiet' \cup ended') /\ pc'[o] # "lost"
  BY DEF Owes, Hears
<1>1. CASE Find(p)
  <2>1. PICK b \in SUBSET left[p] :
           batch' = [batch EXCEPT ![p] = b] /\ left' = [left EXCEPT ![p] = @ \ b]
    BY <1>1 DEF Find
  <2>2. OnlyMove({p})
    BY <1>1, <1>t, <2>1 DEF Find, OnlyMove, Typed
  <2>3. o \in conns /\ Hears(o) /\ UNCHANGED <<SubscribeKeys, server>>
    BY <1>1, <1>o, <1>h, <2>2 DEF Find, Hears, OnlyMove
  <2>4. ASSUME Writing(p, o, k) PROVE Paid(o, k)'
    <3>1. call[p] = "sub" /\ connID[p] = id[o] /\ k \in left[p]
      BY <1>1, <2>4 DEF Writing, Find
    <3>2. Under(connID[p]) = {o}
      BY <2>3, <3>1 DEF Under, Context, ById
    <3>3. obj' = [obj EXCEPT ![p] = o] /\ pc' = [pc EXCEPT ![p] = "update"]
      BY <1>1, <3>2 DEF Find
    <3>4. k \in left'[p] \cup batch'[p]
      BY <1>t, <2>1, <3>1 DEF Typed
    <3>5. Writing(p, o, k)'
      BY <1>1, <1>t, <3>1, <3>3, <3>4 DEF Find, Writing, Typed
    <3>6. QED
      BY <3>5 DEF Paid
  <2>5. QED
    BY <2>2, <2>3, <2>4, QuietPaid
<1>2. CASE Pick(p) \/ NewConn(p) \/ DialFail(p) \/ NoNewConn(p) \/ AnyConn(p)
  <2>1. OnlyMove({p}) /\ ~Writing(p, o, k)
    BY <1>2, <1>t DEF Pick, NewConn, DialFail, NoNewConn, AnyConn, OnlyMove, Writing, Typed
  <2>2. UNCHANGED <<conns, SubscribeKeys, server>> /\ Hears(o)
    BY <1>2, <1>h, <2>1 DEF Pick, NewConn, DialFail, NoNewConn, AnyConn, Hears, OnlyMove
  <2>3. QED
    BY <1>o, <2>1, <2>2, QuietPaid
<1>3. CASE DialOk(p)
  <2>1. PICK x \in Objs : /\ pc[x] = "unmade" /\ pc[p] = "dial" /\ alive' = alive \cup {x}
                          /\ obj' = [obj EXCEPT ![p] = x]
                          /\ pc' = [pc EXCEPT ![p] = "add", ![x] = "made"]
    BY <1>3 DEF DialOk
  <2>2. OnlyMove({p, x}) /\ ~Writing(p, o, k) /\ ~Writing(x, o, k)
    BY <1>3, <1>t, <2>1 DEF DialOk, OnlyMove, Writing, Typed
  <2>3. UNCHANGED <<conns, quiet, ended, SubscribeKeys, server>>
    BY <1>3 DEF DialOk
  <2>4. o # x
    BY <1>o, <2>1, <2>3 DEF Context, InHand, Entered
  <2>5. Hears(o)
    BY <1>h, <2>1, <2>2, <2>3, <2>4 DEF Hears, OnlyMove
  <2>6. QED
    BY <1>o, <2>2, <2>3, <2>5, QuietPaid
<1>4. CASE AddConn(p)
  <2>1. /\ pc[p] = "add" /\ obj[p] \in Objs /\ pc[obj[p]] = "made"
        /\ pc' = [pc EXCEPT ![p] = "update", ![obj[p]] = "read"] /\ conns' = conns \cup {obj[p]}
        /\ UNCHANGED <<alive, quiet, ended, SubscribeKeys, server, obj, flow>>
    BY <1>4 DEF AddConn, Context, InHand
  <2>2. OnlyMove({p, obj[p]}) /\ ~Writing(p, o, k) /\ ~Writing(obj[p], o, k)
    BY <1>t, <2>1 DEF OnlyMove, Writing, Typed
  <2>3. o # obj[p]   \* no key has the id of a connection before it is entered
    <3>1. PICK x \in Entered : id[x] = SubscribeKeys[k]
      BY <2>1, OwesAnId DEF Context, OfEntered
    <3>2. x \in Objs /\ id'[x] = id'[o]
      BY <1>o, <2>1, <3>1 DEF Context, Lasts, Entered
    <3>3. x = o
      BY <1>o, <3>2 DEF OwnId
    <3>4. QED
      BY <2>1, <3>3 DEF Entered
  <2>4. o \in conns /\ Hears(o)
    BY <1>o, <1>h, <2>1, <2>2, <2>3 DEF Hears, OnlyMove
  <2>5. QED
    BY <2>1, <2>2, <2>4, QuietPaid
<1>5. CASE NoConn(p)
  <2>1. OnlyMove({p}) /\ ~Writing(p, o, k)
    BY <1>5, <1>t DEF NoConn, OnlyMove, Writing, Typed
  <2>2. UNCHANGED <<conns, quiet, ended, SubscribeKeys>> /\ alive' = alive \ {p}
        /\ server' = [x \in Objs |-> IF x = p THEN {} ELSE server[x]]
    BY <1>5 DEF NoConn
  <2>3. Hears(o)
    BY <1>5, <1>h, <2>1, <2>2 DEF NoConn, Hears, OnlyMove
  <2>4. QED
    BY <1>o, <1>h, <2>1, <2>2, <2>3, QuietPaid
<1>6. CASE Update(p)
  <2>1. /\ pc[p] = "update" /\ call[p] = "sub" /\ pc' = [pc EXCEPT ![p] = "write"]
        /\ SubscribeKeys' = [j \in Keys |-> IF j \in batch[p] THEN id[obj[p]] ELSE SubscribeKeys[j]]
        /\ UNCHANGED <<conns, id, cbId, alive, quiet, ended, server, flow, obj>>
    BY <1>6 DEF Update
  <2>2. OnlyMove({p})
    BY <2>1, <1>t DEF OnlyMove, Typed
  <2>3. CASE k \in batch[p]
    <3>1. obj[p] = o
      BY <1>o, <2>1, <2>3 DEF Context, InHand, AtConn, Entered, OwnId
    <3>2. Writing(p, o, k)'
      BY <1>t, <2>1, <2>3, <3>1 DEF Writing, Typed
    <3>3. QED
      BY <3>2 DEF Paid
  <2>4. CASE k \notin batch[p]
    <3>1. Writing(p, o, k) => Writing(p, o, k)'
      BY <1>t, <2>1, <2>4 DEF Writing, Typed
    <3>2. Writing(p, o, k)' => Paid(o, k)'
      BY DEF Paid
    <3>3. Hears(o)
      BY <1>h, <2>1, <2>2 DEF Hears, OnlyMove
    <3>4. SubscribeKeys'[k] = SubscribeKeys[k]
      BY <2>1, <2>4
    <3>5. QED
      BY <1>o, <2>1, <2>2, <3>1, <3>2, <3>3, <3>4, QuietPaid
  <2>5. QED
    BY <2>3, <2>4
<1>7. CASE Write(p)
  <2>1. /\ pc[p] = "write" /\ pc' = [pc EXCEPT ![p] = "next"]
        /\ server' = [server EXCEPT ![obj[p]] = IF Hears(obj[p]) THEN @ \cup batch[p] ELSE @]
        /\ ended \subseteq ended'
        /\ UNCHANGED <<conns, id, alive, quiet, SubscribeKeys, call, connID, left>>
    BY <1>7 DEF Write
  <2>2. OnlyMove({p})
    BY <1>7, <1>t DEF Write, OnlyMove, Typed
  <2>3. server[o] \subseteq server'[o] /\ Hears(o)
    <3>1. server[o] \subseteq server'[o]
      BY <1>t, <2>1 DEF Typed
    <3>2. QED
      BY <1>h, <2>1, <2>2, <3>1 DEF Hears, OnlyMove
  <2>4. ASSUME Writing(p, o, k) PROVE Paid(o, k)'
    <3>1. CASE k \in batch[p]
      BY <1>t, <2>1, <2>3, <2>4, <3>1 DEF Writing, Paid, Typed
    <3>2. CASE k \notin batch[p]
      <4>1. Writing(p, o, k)'
        BY <1>t, <2>1, <2>4, <3>2 DEF Writing, Typed
      <4>2. QED
        BY <4>1 DEF Paid
    <3>3. QED
      BY <3>1, <3>2
  <2>5. QED
    BY <1>o, <2>1, <2>2, <2>3, <2>4, QuietPaid
<1>8. CASE WriteReturn(p)
  <2>1. OnlyMove({p}) /\ ~Writing(p, o, k)
    BY <1>8, <1>t DEF WriteReturn, OnlyMove, Writing, Typed
  <2>2. UNCHANGED <<conns, SubscribeKeys, server>> /\ Hears(o)
    BY <1>8, <1>h, <2>1 DEF WriteReturn, Hears, OnlyMove
  <2>3. QED
    BY <1>o, <2>1, <2>2, QuietPaid
<1>9. QED
  BY <1>1, <1>2, <1>3, <1>4, <1>5, <1>6, <1>7, <1>8 DEF Subscribe

LEMMA SettledStep == Context => Settled'
<1> SUFFICES ASSUME Context, NEW o \in Objs, NEW k \in Keys, Owes(o, k)' PROVE Paid(o, k)'
  BY DEF Settled
<1> USE WhoIsWho DEF Goto, Begin, Clear, shared, pick, flow
<1>t. Typed
  BY DEF Context
<1>o. o \in conns' /\ SubscribeKeys'[k] = id'[o] /\ OwnId(o)'
  BY DEF Owes
<1>h. o \in alive' \ (quiet' \cup ended') /\ pc'[o] # "lost"
  BY DEF Owes, Hears
<1>1. ASSUME NEW p \in Procs, Subscribe(p) PROVE Paid(o, k)'
  BY <1>1, SubscribePaid
<1>2. ASSUME NEW p \in Callers, Watch(p) PROVE Paid(o, k)'
  <2>1. OnlyMove({p}) /\ ~Writing(p, o, k)
    BY <1>2, <1>t DEF Watch, OnlyMove, Writing, Typed
  <2>2. UNCHANGED <<conns, SubscribeKeys, server>> /\ Hears(o)
    BY <1>2, <1>h, <2>1 DEF Watch, Hears, OnlyMove
  <2>3. QED
    BY <1>o, <2>1, <2>2, QuietPaid
<1>3. ASSUME NEW p \in Callers, NEW j \in Keys, UnWatch(p, j) PROVE Paid(o, k)'
  <2>1. OnlyMove({}) /\ UNCHANGED <<conns, server>> /\ Hears(o)
    BY <1>3, <1>h DEF UnWatch, OnlyMove, Hears
  <2>2. SubscribeKeys'[k] = SubscribeKeys[k]
    BY <1>3, <1>t, OwesAnId DEF UnWatch, Typed
  <2>3. QED
    BY <1>o, <2>1, <2>2, QuietPaid
<1>4. ASSUME NEW x \in Objs, Reconnect(x) PROVE Paid(o, k)'
  <2>1. /\ pc[x] = "lost" /\ server' = [server EXCEPT ![x] = {}] /\ quiet' = quiet \ {x}
        /\ pc' = [pc EXCEPT ![x] = "next"] /\ call' = [call EXCEPT ![x] = "sub"]
        /\ connID' = [connID EXCEPT ![x] = cbId[x]] /\ left' = [left EXCEPT ![x] = KeysOf(cbId[x])]
        /\ batch' = [batch EXCEPT ![x] = {}] /\ alive' = alive \cup {x}
        /\ UNCHANGED <<conns, id, cbId, ended, SubscribeKeys, obj>>
    BY <1>4 DEF Reconnect
  <2>2. CASE x = o
    <3>1. cbId[o] = id[o] /\ k \in KeysOf(cbId[o])
      BY <1>o, <2>1 DEF OwnId, KeysOf
    <3>2. Writing(o, o, k)'
      BY <1>t, <2>1, <2>2, <3>1 DEF Writing, Typed
    <3>3. QED
      BY <3>2 DEF Paid
  <2>3. CASE x # o
    <3>1. OnlyMove({x}) /\ ~Writing(x, o, k)
      BY <1>t, <2>1 DEF OnlyMove, Writing, Typed
    <3>2. server'[o] = server[o]
      BY <1>t, <2>1, <2>3 DEF Typed
    <3>3. Hears(o)
      BY <1>h, <2>1, <2>3, <3>1 DEF Hears, OnlyMove
    <3>4. QED
      BY <1>o, <2>1, <3>1, <3>2, <3>3, QuietPaid
  <2>4. QED
    BY <2>2, <2>3
<1>5. ASSUME NEW x \in Objs, Lose(x) \/ ReconnectFail(x) \/ ReaderStops(x) \/ RemoveConn(x) \/ Silence(x)
      PROVE  Paid(o, k)'
  <2>1. OnlyMove({}) \/ (OnlyMove({x}) /\ ~Writing(x, o, k))
    BY <1>5, <1>t DEF Lose, Reading, ReconnectFail, ReaderStops, RemoveConn, Silence, OnlyMove,
                      Writing, Typed
  <2>2. o \in conns /\ o # x /\ server'[o] = server[o]
    BY <1>5, <1>o, <1>h, <1>t DEF Lose, ReconnectFail, ReaderStops, RemoveConn, Silence, Typed
  <2>3. Hears(o) /\ UNCHANGED SubscribeKeys
    BY <1>5, <1>h, <2>1, <2>2 DEF Lose, ReconnectFail, ReaderStops, RemoveConn, Silence, OnlyMove, Hears
  <2>4. QED
    BY <2>1, <2>2, <2>3, QuietPaid
<1>6. CASE DogLook \/ UNCHANGED vars
  <2>1. OnlyMove({}) /\ UNCHANGED <<conns, SubscribeKeys, server>> /\ Hears(o)
    BY <1>6, <1>h DEF DogLook, vars, OnlyMove, Hears
  <2>2. QED
    BY <1>o, <2>1, QuietPaid
<1>7. CASE DogNext \/ DogReConnect \/ DogDialFail \/ DogMove
  <2>1. OnlyMove({Dog}) /\ ~Writing(Dog, o, k)
    BY <1>7, <1>t DEF DogNext, DogReConnect, DogDialFail, DogMove, OnlyMove, Writing, Typed
  <2>2. UNCHANGED <<conns, SubscribeKeys, server>> /\ Hears(o)
    BY <1>7, <1>h, <2>1 DEF DogNext, DogReConnect, DogDialFail, DogMove, OnlyMove, Hears
  <2>3. QED
    BY <1>o, <2>1, <2>2, QuietPaid
<1>8. CASE DogClose
  <2> DEFINE x == obj[Dog]
  <2>1. /\ pc[Dog] = "close" /\ pc' = [pc EXCEPT ![Dog] = "redial"] /\ alive' = alive \ {x}
        /\ server' = [server EXCEPT ![x] = {}] /\ quiet' = quiet \ {x}
        /\ UNCHANGED <<conns, ended, SubscribeKeys, call, connID, left, batch, obj>>
    BY <1>8 DEF DogClose
  <2>2. OnlyMove({Dog}) /\ ~Writing(Dog, o, k)
    BY <1>t, <2>1 DEF OnlyMove, Writing, Typed
  <2>3. o # x /\ server'[o] = server[o]
    BY <1>h, <1>t, <2>1 DEF Typed
  <2>4. Hears(o)
    BY <1>h, <2>1, <2>2, <2>3 DEF Hears, OnlyMove
  <2>5. QED
    BY <1>o, <2>1, <2>2, <2>3, <2>4, QuietPaid
<1>9. CASE DogDialOk
  <2> DEFINE x == obj[Dog]
  <2>1. /\ pc[Dog] = "redial" /\ server' = [server EXCEPT ![x] = {}]
        /\ alive' \subseteq alive \cup {x} /\ quiet \subseteq quiet' \cup {x}
        /\ pc' = [pc EXCEPT ![Dog] = "next"] /\ call' = [call EXCEPT ![Dog] = "sub"]
        /\ connID' = [connID EXCEPT ![Dog] = cbId[x]]
        /\ left' = [left EXCEPT ![Dog] = KeysOf(cbId[x])]
        /\ UNCHANGED <<conns, id, cbId, ended, SubscribeKeys>>
    BY <1>9 DEF DogDialOk
  <2>2. CASE x = o
    <3>1. cbId[o] = id[o] /\ k \in KeysOf(cbId[o])
      BY <1>o, <2>1 DEF OwnId, KeysOf
    <3>2. Writing(Dog, o, k)'
      BY <1>t, <2>1, <2>2, <3>1 DEF Writing, Typed
    <3>3. QED
      BY <3>2 DEF Paid
  <2>3. CASE x # o
    <3>1. OnlyMove({Dog}) /\ ~Writing(Dog, o, k)
      BY <1>9, <1>t DEF DogDialOk, OnlyMove, Writing, Typed
    <3>2. server'[o] = server[o]
      BY <1>t, <2>1, <2>3 DEF Typed
    <3>3. Hears(o)
      BY <1>h, <2>1, <2>3, <3>1 DEF Hears, OnlyMove
    <3>4. QED
      BY <1>o, <2>1, <3>1, <3>2, <3>3, QuietPaid
  <2>4. QED
    BY <2>2, <2>3
<1>10. QED
  BY <1>1, <1>2, <1>3, <1>4, <1>5, <1>6, <1>7, <1>8, <1>9 DEF Context, Next

-------------------------------------------------------------------------------
LEMMA InvInit == Init => IInv
<1> SUFFICES ASSUME Init PROVE IInv
  OBVIOUS
<1> USE WhoIsWho DEF Init
<1>1. PICK o \in Objs :
        /\ conns = {o} /\ id = [x \in Objs |-> IF x = o THEN 1 ELSE NoId]
        /\ pc = [p \in Procs |-> IF p = o THEN "read" ELSE IF p \in Objs THEN "unmade" ELSE "idle"]
        /\ alive = {o}
  OBVIOUS
<1>2. /\ cbId = id /\ NextConnId = 2 /\ stats = {} /\ quiet = {}
      /\ SubscribeKeys = [k \in Keys |-> NoId] /\ connSubs = [i \in {} |-> 0] /\ ended = {}
  OBVIOUS
<1>3. Typed
  BY <1>1, <1>2 DEF Typed, Places, NoId
<1>4. IdsGiven /\ ById
  BY <1>1, <1>2 DEF IdsGiven, ById, NoId
<1>5. InHand
  BY <1>1 DEF InHand, AtConn, Entered
<1>6. Counted /\ OfEntered
  BY <1>2 DEF Counted, OfEntered
<1>7. Settled
  BY <1>1, <1>2 DEF Settled, Owes, NoId
<1>8. QED
  BY <1>3, <1>4, <1>5, <1>6, <1>7 DEF IInv

LEMMA Inductive == Spec => []IInv
<1>1. IInv /\ [Next]_vars => IInv'
  <2> SUFFICES ASSUME IInv, [Next]_vars PROVE IInv'
    OBVIOUS
  <2>1. Typed' /\ IdsGiven' /\ InHand' /\ Lasts /\ ById'
    BY TypedStep, IdsStep, HandStep, ByIdStep DEF IInv
  <2>2. Counted' /\ OfEntered'
    BY CountedStep DEF IInv
  <2>3. Settled'
    BY <2>1, SettledStep DEF IInv, Context
  <2>4. QED
    BY <2>1, <2>2, <2>3 DEF IInv
<1>2. QED
  BY <1>1, InvInit, PTL DEF Spec

\* connSubs counts for every connection the keys that SubscribeKeys gives it, no
\* entry of it is left at 0, and no two entries of conns have the same id, whatever
\* callers, readers and the watchdog move at the same time.
THEOREM CountsAreRight == Spec => []SubsCounted
<1>1. IInv => SubsCounted
  BY DEF IInv, SubsCounted, Counted, ById, IdsGiven, Typed
<1>2. QED
  BY <1>1, Inductive, PTL

\* When everybody is done, an open connection that is not silent and whose writer goes
\* on carries every key that SubscribeKeys gives it, unless another connection was made
\* under its id.
THEOREM KeysAreLive == Spec => []LiveSubscribed
<1>1. IInv => LiveSubscribed
  <2> SUFFICES ASSUME IInv, AtRest, NEW k \in Keys,
                      NEW o \in (alive \cap conns) \ (quiet \cup ended),
                      SubscribeKeys[k] = id[o], OwnId(o)
               PROVE  k \in server[o]
    BY DEF LiveSubscribed
  <2>1. Paid(o, k)
    BY WhoIsWho DEF IInv, Settled, Owes, Hears, AtRest, Typed
  <2>2. \A p \in Procs : ~Writing(p, o, k)
    BY DEF AtRest, Writing
  <2>3. QED
    BY <2>1, <2>2 DEF Paid
<1>2. QED
  BY <1>1, Inductive, PTL
================================================================================
