-------------------------------- MODULE WsSubs --------------------------------
(***************************************************************************)
(* The subscriptions of one WsClient (websocket.go) as binance uses them:  *)
(* which connection carries which key, how many keys each connection has,  *)
(* and how keys come back after a connection was lost.                     *)
(*                                                                         *)
(* The goroutines are the callers of Watch* and UnWatch*, the reader of    *)
(* every connection (its OnReConn callback) and the watchdog               *)
(* CheckWsTimeout.  All of them run WriteWSMsg: UpdateSubs for a batch of  *)
(* keys, then Write.  UpdateSubs takes connLock and subsLock one after the *)
(* other and reads connSubs without a lock, so it is several steps here.   *)
(*                                                                         *)
(* Of what WsConn has of a single connection, ws.lock is here, and the     *)
(* connection that is nil or lost while its reader, its writer and the     *)
(* watchdog go on.  Not here: send and control (a message written to a     *)
(* live connection reaches the exchange), and a writer that meets a lost   *)
(* connection and ends (LossResumes of WsConn).  NextConnId += 1, which    *)
(* the code does without a lock, is one step.                              *)
(***************************************************************************)
EXTENDS Naturals, FiniteSets

CONSTANTS
  Callers,     \* goroutines of the application
  Dog,         \* the goroutine of CheckWsTimeout
  Objs,        \* AsyncConn objects; the reader of a connection has its name
  Keys,        \* subscription keys
  BatchNum,    \* keys per message (100)
  connMinSubs, \* a connection with fewer keys takes more
  maxClientConn,
  MaxFaults,   \* bound: lost connections and silent connections
  MaxCalls,    \* bound: Watch* calls
  None         \* nil, and the missing entry of a map

ASSUME Assumption ==
  /\ IsFiniteSet(Keys)
  /\ BatchNum \in Nat \ {0} /\ connMinSubs \in Nat \ {0} /\ maxClientConn \in Nat \ {0}
  /\ MaxFaults \in Nat /\ MaxCalls \in Nat
  /\ Callers \cap Objs = {} /\ Dog \notin Callers \cup Objs
  /\ None \notin Callers \cup Objs \cup Keys \cup {Dog}

Procs == Callers \cup Objs \cup {Dog}
Ids   == Nat \ {0}   \* NextConnId starts at 1
NoId  == 0           \* connID 0 of WriteWSMsg: any connection

VARIABLES
  conns,         \* WsClient.conns: the objects in it; each is there under its id
  id, cbId,      \* the id of an object, and the one its OnReConn callback uses
  alive,         \* objects whose connection is not nil
  quiet,         \* those that are half open: the exchange no longer hears or sends
  ended,         \* those whose write goroutine has left its loop; it takes them from conns
  server,        \* object -> keys that the exchange sends on its connection
  SubscribeKeys, \* key -> id of its connection, NoId when it has none
  connSubs,      \* id -> number of keys; a missing entry is 0
  NextConnId,
  pc,
  call,          \* "sub" (WriteWSMsg) or "resub" (ReSubsAll)
  connID,        \* the argument of WriteWSMsg and ReSubsAll
  left, batch,   \* keys WriteWSMsg still has to do, and those of this message
  dups, num,     \* connDups (its objects) and connNum
  obj, newId,    \* the connection chosen or made, and the id of newConn
  stats,         \* what GetConnSubStats returned and the watchdog has not done
  calls, faults

shared == <<conns, id, cbId, alive, quiet, ended, server, SubscribeKeys, connSubs,
            NextConnId>>
pick   == <<dups, num, obj, newId>>
flow   == <<call, connID, left, batch>>
vars   == <<shared, pick, flow, pc, stats, calls, faults>>

Get(f, i) == IF i \in DOMAIN f THEN f[i] ELSE 0

\* conns[i]; an id leads to at most one object (ConnsById).
Under(i) == {o \in conns : id[o] = i}
KeysOf(i) == {k \in Keys : SubscribeKeys[k] = i}

Init ==
  \E o \in Objs :   \* newWsClient has made one connection; all objects are alike
    /\ o = CHOOSE x \in Objs : TRUE
    /\ conns = {o}
    /\ id = [x \in Objs |-> IF x = o THEN 1 ELSE NoId]
    /\ cbId = id
    /\ alive = {o} /\ quiet = {}
    /\ ended = {}
    /\ server = [x \in Objs |-> {}]
    /\ SubscribeKeys = [k \in Keys |-> NoId]
    /\ connSubs = [i \in {} |-> 0]
    /\ NextConnId = 2
    /\ pc = [p \in Procs |-> IF p = o THEN "read" ELSE IF p \in Objs THEN "unmade" ELSE "idle"]
    /\ call = [p \in Procs |-> "sub"]
    /\ connID = [p \in Procs |-> NoId]
    /\ left = [p \in Procs |-> {}] /\ batch = [p \in Procs |-> {}]
    /\ dups = [p \in Procs |-> {}] /\ num = [p \in Procs |-> 0]
    /\ obj = [p \in Procs |-> None] /\ newId = [p \in Procs |-> NoId]
    /\ stats = {}
    /\ calls = 0 /\ faults = 0

Goto(p, l) == pc' = [pc EXCEPT ![p] = l]

\* WriteWSMsg(client, i, TRUE, keys)
Begin(p, i, keys) ==
  /\ call' = [call EXCEPT ![p] = "sub"]
  /\ connID' = [connID EXCEPT ![p] = i]
  /\ left' = [left EXCEPT ![p] = keys]
  /\ batch' = [batch EXCEPT ![p] = {}]
  /\ Goto(p, "next")

\* What p goes back to when WriteWSMsg returns.
Home(p) == IF p \in Objs THEN "read" ELSE "idle"
Clear(p) ==
  /\ dups' = [dups EXCEPT ![p] = {}]
  /\ num' = [num EXCEPT ![p] = 0]
  /\ obj' = [obj EXCEPT ![p] = None]
  /\ newId' = [newId EXCEPT ![p] = NoId]

\* ws.lock of a connection.  Its reader holds it during OnReConn, and holds it for
\* reading while it waits for a message; while the writer or the watchdog waits for
\* it in Close no other reader gets in: IsOK waits too, and for ever if it is called
\* by the very goroutine that holds the lock.
Locked(o)  == pc[o] \notin {"unmade", "made", "read", "lost", "gone"}
Closing(o) == o \in ended \cap conns \/ (pc[Dog] = "close" /\ obj[Dog] = o)
Reading(o) == pc[o] = "read" /\ o \in alive

\* A Close that waits gets the lock: the reader is not in ReadMessage, or a message
\* comes (of a key that the exchange sends, it must come).
LetsGo(o)       == ~Locked(o) /\ (Reading(o) => o \notin quiet)
SurelyLetsGo(o) == LetsGo(o) /\ (Reading(o) => server[o] # {})

-------------------------------------------------------------------------------
\* WriteWSMsg and UpdateSubs(connID, TRUE, batch)

\* The next batch; LockConns, connMap[connID], and when it is nil maps.Clone.
Find(p) ==
  /\ pc[p] = "next"
  /\ left[p] # {} \/ call[p] = "resub"
  /\ \E b \in SUBSET left[p] :
       /\ Cardinality(b) <= BatchNum
       /\ Cardinality(b) < BatchNum => b = left[p]
       /\ batch' = [batch EXCEPT ![p] = b]
       /\ left' = [left EXCEPT ![p] = @ \ b]
  /\ num' = [num EXCEPT ![p] = Cardinality(conns)]
  /\ \/ \E o \in Under(connID[p]) :
          /\ obj' = [obj EXCEPT ![p] = o]
          /\ dups' = [dups EXCEPT ![p] = {}]
          /\ Goto(p, "update")
     \/ /\ Under(connID[p]) = {}
        /\ obj' = [obj EXCEPT ![p] = None]
        /\ dups' = [dups EXCEPT ![p] = conns]
        /\ Goto(p, "pick")
  /\ UNCHANGED <<shared, call, connID, newId, stats, calls, faults>>

\* One round of the loop over connDups: connSubs is read without a lock, IsOK
\* takes the lock of the connection.
Pick(p) ==
  /\ pc[p] = "pick"
  /\ \E o \in dups[p] :
       /\ dups' = [dups EXCEPT ![p] = @ \ {o}]
       /\ Get(connSubs, id[o]) < connMinSubs => ~Locked(o) /\ (o \in alive => ~Closing(o))
       /\ IF Get(connSubs, id[o]) < connMinSubs /\ o \in alive
            THEN obj' = [obj EXCEPT ![p] = o] /\ Goto(p, "update")
            ELSE UNCHANGED <<obj, pc>>
  /\ UNCHANGED <<shared, flow, num, newId, stats, calls, faults>>

\* newConn reads NextConnId for the id and for the callback, then dials.
NewConn(p) ==
  /\ pc[p] = "pick" /\ dups[p] = {}
  /\ num[p] < maxClientConn
  /\ newId' = [newId EXCEPT ![p] = NextConnId]
  /\ Goto(p, "dial")
  /\ UNCHANGED <<shared, flow, dups, num, obj, stats, calls, faults>>

\* The objects that are not made yet are alike.
NextObj == CHOOSE o \in Objs : pc[o] = "unmade"

DialOk(p) ==
  /\ pc[p] = "dial"
  /\ \E o \in Objs :
       /\ pc[o] = "unmade" /\ o = NextObj
       /\ id' = [id EXCEPT ![o] = newId[p]]
       /\ cbId' = [cbId EXCEPT ![o] = newId[p]]
       /\ alive' = alive \cup {o}
       /\ obj' = [obj EXCEPT ![p] = o]
       /\ pc' = [pc EXCEPT ![p] = "add", ![o] = "made"]
  /\ NextConnId' = NextConnId + 1
  /\ UNCHANGED <<conns, quiet, ended, server, SubscribeKeys, connSubs, flow, dups, num, newId,
                 stats, calls, faults>>

\* addConn: when the id is taken the object gets another one, its callback not.
AddConn(p) ==
  /\ pc[p] = "add"
  /\ conns' = conns \cup {obj[p]}
  /\ \/ /\ Under(id[obj[p]]) = {}
        /\ UNCHANGED <<id, NextConnId>>
     \/ /\ Under(id[obj[p]]) # {}
        /\ id' = [id EXCEPT ![obj[p]] = NextConnId]
        /\ NextConnId' = NextConnId + 1
  /\ pc' = [pc EXCEPT ![p] = "update", ![obj[p]] = "read"]
  /\ UNCHANGED <<cbId, alive, quiet, ended, server, SubscribeKeys, connSubs, flow, pick, stats,
                 calls, faults>>

DialFail(p) ==
  /\ pc[p] = "dial"
  /\ Goto(p, "any")
  /\ UNCHANGED <<shared, flow, pick, stats, calls, faults>>

NoNewConn(p) ==
  /\ pc[p] = "pick" /\ dups[p] = {}
  /\ num[p] >= maxClientConn
  /\ Goto(p, "any")
  /\ UNCHANGED <<shared, flow, pick, stats, calls, faults>>

\* A random connection of conns as it is now; rand.Intn(0) panics.
AnyConn(p) ==
  /\ pc[p] = "any" /\ num[p] > 0
  /\ \/ \E o \in conns : obj' = [obj EXCEPT ![p] = o] /\ Goto(p, "update")
     \/ conns = {} /\ Goto(p, "panic") /\ UNCHANGED obj
  /\ UNCHANGED <<shared, flow, dups, num, newId, stats, calls, faults>>

\* "get ws conn fail": a reader that fails in OnReConn gives up its connection.
NoConn(p) ==
  /\ pc[p] = "any" /\ num[p] = 0
  /\ left' = [left EXCEPT ![p] = {}]
  /\ batch' = [batch EXCEPT ![p] = {}]
  /\ alive' = alive \ {p}
  /\ server' = [o \in Objs |-> IF o = p THEN {} ELSE server[o]]
  /\ Goto(p, Home(p))
  /\ Clear(p)
  /\ UNCHANGED <<conns, id, cbId, quiet, ended, SubscribeKeys, connSubs, NextConnId, call, connID,
                 stats, calls, faults>>

\* Fault: a key that moves is not taken off the connection it had.
CountsNoDecrement(b, i) ==
  LET moved == {k \in b : SubscribeKeys[k] # i}
      n(j) == Get(connSubs, j) + IF j = i THEN Cardinality(moved) ELSE 0
  IN  [j \in {h \in DOMAIN connSubs \cup {i} : h # NoId /\ n(h) > 0} |-> n(j)]

\* connSubs after the keys b were given to connection i (or, with NoId, to none):
\* decrementConnSub for the connection a key had, one more for i.
Counts(b, i) ==
  LET moved == {k \in b : SubscribeKeys[k] # i}
      From(j) == Cardinality({k \in moved : SubscribeKeys[k] = j})
      n(j) == IF j = i THEN Get(connSubs, j) + Cardinality(moved)
                       ELSE Get(connSubs, j) - From(j)
      ids == DOMAIN connSubs \cup (IF i # NoId /\ moved # {} THEN {i} ELSE {})
  IN  [j \in {h \in ids : n(h) > 0} |-> n(j)]

\* The section under subsLock.
Update(p) ==
  /\ pc[p] = "update" /\ call[p] = "sub"
  /\ connSubs' = Counts(batch[p], id[obj[p]])
  /\ SubscribeKeys' = [k \in Keys |-> IF k \in batch[p] THEN id[obj[p]] ELSE SubscribeKeys[k]]
  /\ Goto(p, "write")
  /\ UNCHANGED <<conns, id, cbId, alive, quiet, ended, server, NextConnId, flow, pick, stats,
                 calls, faults>>

\* client.Write; the writer of the connection sends what it takes from send.  It ends
\* when the connection is nil; what goes to a connection that is silent, lost or nil,
\* or has no writer any more, does not reach the exchange.
Hears(o) == o \in alive \ (quiet \cup ended) /\ pc[o] # "lost"
Write(p) ==
  /\ pc[p] = "write"
  /\ server' = [server EXCEPT ![obj[p]] = IF Hears(obj[p]) THEN @ \cup batch[p] ELSE @]
  /\ ended' = ended \cup ({obj[p]} \ alive)
  /\ batch' = [batch EXCEPT ![p] = {}]
  /\ Goto(p, "next")
  /\ Clear(p)
  /\ UNCHANGED <<conns, id, cbId, alive, quiet, SubscribeKeys, connSubs, NextConnId, call,
                 connID, left, stats, calls, faults>>

WriteReturn(p) ==
  /\ pc[p] = "next" /\ left[p] = {} /\ call[p] = "sub"
  /\ Goto(p, Home(p))
  /\ connID' = [connID EXCEPT ![p] = NoId]
  /\ UNCHANGED <<shared, call, left, batch, pick, stats, calls, faults>>

-------------------------------------------------------------------------------
\* The application

Watch(p) ==
  /\ pc[p] = "idle" /\ calls < MaxCalls
  /\ conns # {}   \* otherwise GetClient makes a new client
  /\ calls' = calls + 1
  /\ \E keys \in SUBSET Keys \ {{}} : Begin(p, NoId, keys)
  /\ UNCHANGED <<shared, pick, stats, faults>>

\* UpdateSubs(connID, FALSE, {k}) gives no connection: WriteWSMsg returns an
\* error before it writes the UNSUBSCRIBE message.
UnWatch(p, k) ==
  /\ pc[p] = "idle" /\ SubscribeKeys[k] # NoId /\ conns # {}
  /\ connSubs' = Counts({k}, NoId)
  /\ SubscribeKeys' = [SubscribeKeys EXCEPT ![k] = NoId]
  /\ UNCHANGED <<conns, id, cbId, alive, quiet, ended, server, NextConnId, pick, flow, pc,
                 stats, calls, faults>>

-------------------------------------------------------------------------------
\* The reader of a connection

\* The connection is lost.
Lose(o) ==
  /\ Reading(o) /\ faults < MaxFaults
  /\ faults' = faults + 1
  /\ server' = [server EXCEPT ![o] = {}]
  /\ quiet' = quiet \ {o}
  /\ Goto(o, "lost")
  /\ UNCHANGED <<conns, id, cbId, alive, ended, SubscribeKeys, connSubs, NextConnId, pick,
                 flow, stats, calls>>

\* Fault: OnReConn asks for the keys of no connection.
ReconnectForgets(o) ==
  /\ pc[o] = "lost"
  /\ alive' = alive \cup {o}
  /\ server' = [server EXCEPT ![o] = {}]
  /\ quiet' = quiet \ {o}
  /\ Begin(o, cbId[o], KeysOf(NoId) \cap KeysOf(cbId[o]))
  /\ UNCHANGED <<conns, id, cbId, ended, SubscribeKeys, connSubs, NextConnId, pick,
                 stats, calls, faults>>

\* The reader has the lock and dials again, whatever ws.conn is by now:
\* OnReConn(client, cbId).
Reconnect(o) ==
  /\ pc[o] = "lost"
  /\ alive' = alive \cup {o}
  /\ server' = [server EXCEPT ![o] = {}]
  /\ quiet' = quiet \ {o}
  /\ Begin(o, cbId[o], KeysOf(cbId[o]))
  /\ UNCHANGED <<conns, id, cbId, ended, SubscribeKeys, connSubs, NextConnId, pick,
                 stats, calls, faults>>

\* It cannot be dialled again: ws.conn = nil.
ReconnectFail(o) ==
  /\ pc[o] = "lost"
  /\ server' = [server EXCEPT ![o] = {}]
  /\ alive' = alive \ {o}
  /\ Goto(o, "read")
  /\ UNCHANGED <<conns, id, cbId, quiet, ended, SubscribeKeys, connSubs, NextConnId, pick,
                 flow, stats, calls, faults>>

\* The reader meets a connection that is nil, and again in IsOK: it stops, and tells
\* the writer.
ReaderStops(o) ==
  /\ pc[o] = "read" /\ o \notin alive
  /\ Goto(o, "gone")
  /\ ended' = ended \cup {o}
  /\ UNCHANGED <<conns, id, cbId, alive, quiet, server, SubscribeKeys, connSubs, NextConnId,
                 pick, flow, stats, calls, faults>>

-------------------------------------------------------------------------------
\* The writer's deferred function: Close, if somebody dialled meanwhile, and out of
\* conns; SubscribeKeys and connSubs keep the id.

RemoveConn(o) ==
  /\ o \in ended \cap conns
  /\ o \in alive => LetsGo(o)
  /\ alive' = alive \ {o}
  /\ server' = [server EXCEPT ![o] = {}]
  /\ quiet' = quiet \ {o}
  /\ conns' = conns \ Under(id[o])
  /\ UNCHANGED <<id, cbId, ended, SubscribeKeys, connSubs, NextConnId, pick, flow, pc,
                 stats, calls, faults>>

-------------------------------------------------------------------------------
\* The exchange stops sending on a connection that stays open.
Silence(o) ==
  /\ Reading(o) /\ o \notin quiet /\ faults < MaxFaults
  /\ faults' = faults + 1
  /\ quiet' = quiet \cup {o}
  /\ server' = [server EXCEPT ![o] = {}]
  /\ UNCHANGED <<conns, id, cbId, alive, ended, SubscribeKeys, connSubs, NextConnId, pick,
                 flow, pc, stats, calls>>

-------------------------------------------------------------------------------
\* CheckWsTimeout

Served(k) == \E o \in alive : k \in server[o]

\* failRate >= 0.5 && allNum >= 5 || failRate >= 0.8 && allNum >= 2
MostTimedOut(n, all) ==
  \/ 2 * n >= all /\ all >= 5
  \/ 10 * n >= 8 * all /\ all >= 2

\* GetConnSubStats: a key times out when no message for it comes.
DogLook ==
  /\ pc[Dog] = "idle" /\ stats = {}
  /\ stats' = {[id |-> SubscribeKeys[k],
                keys |-> {j \in KeysOf(SubscribeKeys[k]) : ~Served(j)},
                all |-> Cardinality(KeysOf(SubscribeKeys[k]))] :
                 k \in {j \in Keys : SubscribeKeys[j] # NoId /\ ~Served(j)}}
  /\ stats' # {}
  /\ UNCHANGED <<shared, pick, flow, pc, calls, faults>>

\* For each connection: subscribe the timed out keys again, or ReSubsAll, which
\* starts with UpdateSubs(connID, TRUE, nil).
DogNext ==
  /\ pc[Dog] = "idle"
  /\ \E s \in stats :
       /\ stats' = stats \ {s}
       /\ IF MostTimedOut(Cardinality(s.keys), s.all)
            THEN /\ call' = [call EXCEPT ![Dog] = "resub"]
                 /\ connID' = [connID EXCEPT ![Dog] = s.id]
                 /\ Goto(Dog, "next")
                 /\ UNCHANGED <<left, batch>>
            ELSE Begin(Dog, s.id, s.keys)
  /\ UNCHANGED <<shared, pick, calls, faults>>

\* The connection is still there: ReConnect.  Its Close waits for the lock, unless
\* the connection is nil ...
DogReConnect ==
  /\ pc[Dog] = "update" /\ call[Dog] = "resub"
  /\ id[obj[Dog]] = connID[Dog]
  /\ Goto(Dog, IF obj[Dog] \in alive THEN "close" ELSE "redial")
  /\ UNCHANGED <<shared, pick, flow, stats, calls, faults>>

DogClose ==
  /\ pc[Dog] = "close" /\ LetsGo(obj[Dog])
  /\ alive' = alive \ {obj[Dog]}
  /\ server' = [server EXCEPT ![obj[Dog]] = {}]
  /\ quiet' = quiet \ {obj[Dog]}
  /\ Goto(Dog, "redial")
  /\ UNCHANGED <<conns, id, cbId, ended, SubscribeKeys, connSubs, NextConnId, pick, flow,
                 stats, calls, faults>>

\* ... and the dial is made without it; then OnReConn.  A reader that has dialled
\* meanwhile reads on there until a message comes: till then nobody hears this one.
DogDialOk ==
  /\ pc[Dog] = "redial"
  /\ alive' = IF pc[obj[Dog]] = "gone" THEN alive ELSE alive \cup {obj[Dog]}
  /\ server' = [server EXCEPT ![obj[Dog]] = {}]
  /\ \/ quiet' = quiet \ {obj[Dog]}
     \/ Reading(obj[Dog]) /\ quiet' = quiet \cup {obj[Dog]}
  /\ Begin(Dog, cbId[obj[Dog]], KeysOf(cbId[obj[Dog]]))
  /\ Clear(Dog)
  /\ UNCHANGED <<conns, id, cbId, ended, SubscribeKeys, connSubs, NextConnId, stats,
                 calls, faults>>

DogDialFail ==
  /\ pc[Dog] = "redial"
  /\ Goto(Dog, "idle")
  /\ Clear(Dog)
  /\ UNCHANGED <<shared, flow, stats, calls, faults>>

\* Fault: it moves the keys of the connection that was found.
DogMoveOthers ==
  /\ pc[Dog] = "update" /\ call[Dog] = "resub"
  /\ id[obj[Dog]] # connID[Dog]
  /\ Begin(Dog, NoId, KeysOf(id[obj[Dog]]))
  /\ Clear(Dog)
  /\ UNCHANGED <<shared, stats, calls, faults>>

\* UpdateSubs gave another one: its keys go to any connection.
DogMove ==
  /\ pc[Dog] = "update" /\ call[Dog] = "resub"
  /\ id[obj[Dog]] # connID[Dog]
  /\ Begin(Dog, NoId, KeysOf(connID[Dog]))
  /\ Clear(Dog)
  /\ UNCHANGED <<shared, stats, calls, faults>>

-------------------------------------------------------------------------------
Subscribe(p) ==
  \/ Find(p) \/ Pick(p) \/ NewConn(p) \/ DialOk(p) \/ AddConn(p) \/ DialFail(p)
  \/ NoNewConn(p) \/ AnyConn(p) \/ NoConn(p) \/ Update(p) \/ Write(p) \/ WriteReturn(p)

Next ==
  \/ \E p \in Procs : Subscribe(p)
  \/ \E p \in Callers : Watch(p) \/ \E k \in Keys : UnWatch(p, k)
  \/ \E o \in Objs : \/ Lose(o) \/ Reconnect(o) \/ ReconnectFail(o) \/ ReaderStops(o)
                     \/ RemoveConn(o) \/ Silence(o)
  \/ DogLook \/ DogNext \/ DogReConnect \/ DogClose \/ DogDialOk \/ DogDialFail \/ DogMove

Spec == Init /\ [][Next]_vars

\* The Go scheduler runs every runnable reader and writer, and the watchdog, whose
\* timer fires again and again; a waiter of ws.lock is not overtaken forever; a dial
\* that the watchdog repeats succeeds at last.  Who waits in Close for the reader
\* gets the lock if the exchange sends keys on the connection; otherwise nothing
\* obliges it to send a message.  Nothing is assumed of the callers.
ReaderStep(o) == Subscribe(o) \/ Reconnect(o) \/ ReconnectFail(o) \/ ReaderStops(o)
WriterStep(o) == RemoveConn(o) /\ SurelyLetsGo(o)
DogStep ==
  \/ Subscribe(Dog) \/ DogLook \/ DogNext \/ DogReConnect \/ DogDialOk \/ DogDialFail
  \/ DogClose /\ SurelyLetsGo(obj[Dog])
  \/ DogMove
Fairness ==
  /\ \A o \in Objs : SF_vars(ReaderStep(o) \/ WriterStep(o))
  /\ WF_vars(DogStep)
  /\ SF_vars(DialOk(Dog))

FairSpec == Spec /\ Fairness
-------------------------------------------------------------------------------
\* Properties

\* connSubs, by which UpdateSubs fills the connections, counts for every
\* connection the keys SubscribeKeys gives it, through all the moves of keys
\* between connections by callers, readers and the watchdog; no entry is left at 0.
\* And an id stands for one connection: addConn overwrites no entry of conns,
\* though goroutines that dial at the same time read the same NextConnId.
SubsCounted ==
  /\ DOMAIN connSubs = {SubscribeKeys[k] : k \in Keys} \ {NoId}
  /\ \A i \in DOMAIN connSubs : connSubs[i] = Cardinality(KeysOf(i))
  /\ \A o, x \in conns : id[o] = id[x] => o = x
  /\ \A o \in conns : id[o] < NextConnId

\* No other connection was ever made under an id of o, so that the OnReConn of o
\* resubscribes the keys of o: no two goroutines were in newConn together.
OwnId(o) == id[o] = cbId[o] /\ \A x \in Objs \ {o} : id[o] \notin {id[x], cbId[x]}

AtRest == \A p \in Procs : pc[p] \in {"unmade", "idle", "read", "gone"}

\* Resumption of subscriptions over all connections of a client: when everybody is
\* done, an open connection that is not silent, and whose writer goes on, carries
\* every key that SubscribeKeys gives it, however often connections were lost,
\* closed and dialled again, and keys moved.
LiveSubscribed ==
  AtRest => \A k \in Keys, o \in (alive \cap conns) \ (quiet \cup ended) :
    SubscribeKeys[k] = id[o] /\ OwnId(o) => k \in server[o]

\* Somebody waits in Close for the reader of o, who waits for a message that nothing
\* obliges the exchange to send.
Waits(o) == Closing(o) /\ Reading(o) /\ ~SurelyLetsGo(o)

\* A key of a half open connection on which too few keys time out: the watchdog
\* writes to that connection again and again instead of reconnecting it.  So it is
\* with the only key of a connection, and with a key whose companions still
\* arrive on a connection they had before.  And with such a key of a connection that
\* was dialled while its writer ended: the writer waits to close it.
Tolerated(k) ==
  \E o \in {x \in conns : x \in quiet \/ Waits(x)} :
    /\ SubscribeKeys[k] = id[o]
    /\ LET all == KeysOf(id[o])
       IN  ~MostTimedOut(Cardinality({j \in all : ~Served(j)}), Cardinality(all))

\* The watchdog, which alone serves all connections, is stuck with one of them: in
\* Close, or at its lock.
DogHangs == pc[Dog] \in {"pick", "close"} /\ \E o \in Objs : Waits(o)

\* A key that no connection carries any more, because its connection is gone, nil or
\* silent, is found by the watchdog and subscribed again, or the caller drops it;
\* unless a goroutine panicked in AnyConn, which ends the program, or the instance
\* has no more objects for a new connection.  And unless the watchdog itself hangs:
\* "If a timeout occurs, automatically reconnect" (binance/biz.go:1306) does not hold
\* of a connection that falls silent with two keys or more and never fails, for
\* Close (websocket.go:73) waits for the lock its reader has in ReadMessage (145).
NoPanic == \A p \in Procs : pc[p] # "panic"
MoreObjs == (\E p \in Procs : pc[p] = "dial") => \E o \in Objs : pc[o] = "unmade"
Healed ==
  \/ <>[]DogHangs
  \/ []((\A o \in conns : OwnId(o)) /\ NoPanic /\ MoreObjs) =>
       \A k \in Keys :
         SubscribeKeys[k] # NoId ~> (SubscribeKeys[k] = NoId \/ Served(k) \/ Tolerated(k))
===============================================================================
