---------------------------- MODULE ApiRequestProofs ----------------------------
(***************************************************************************)
(* Proofs about ApiRequest, for every set of calls, of keys and of hosts   *)
(* and every value of the limits: slots, bans and answers.                 *)
(***************************************************************************)
EXTENDS ApiRequest, TLAPS, FiniteSetTheorems

\* Where a call can be.
Holding == {"wait", "ban", "pace", "sign", "http", "create", "store"}
Routed  == {"try", "flow", "slot"} \cup Holding
Places  == {"start", "done", "url", "host"} \cup Routed

\* A call, and a cache file.
Calls == [pc : Places, asked : Keys \cup {None}, key : FileKeys, try : Nat, left : Nat,
          sem : Hosts \cup {None}, at : Hosts \cup {None}, res : Keys \cup {None, "error"}]
Files == [whole : BOOLEAN, of : Keys \cup {None}, left : Nat]

\* The types of the variables.
Types ==
  /\ Url \in Hosts \cup {None} /\ RawHost \in Hosts \cup {None}
  /\ slots \in [Hosts -> Int] /\ ban \in [Hosts -> Nat]
  /\ since \in 0..RateLimit
  /\ file \in [FileKeys -> Files]
  /\ q \in [Requests -> Calls]
  /\ spared \subseteq Requests

\* A file holds the answer to its key, and a call writes under the key of what it
\* was asked, or under none.
FilesTrue == \A k \in Keys : file[k].whole => file[k].of = k
KeysTrue  ==
  \A r \in Requests : q[r].key \in {None, q[r].asked} /\ (q[r].pc = "start" => q[r].key = None)

\* Once a call has found its host, the Entry names it, and whoever is past
\* GetHostFlowChan has a channel.
HostFound ==
  /\ RawHost \in Hosts => Url \in Hosts
  /\ \A r \in Requests :
    /\ q[r].pc = "host" => Url \in Hosts
    /\ q[r].pc \in Routed => RawHost \in Hosts
    /\ q[r].pc \in Holding \cup {"slot"} => q[r].sem \in Hosts

\* The calls that hold a slot of a host, as many as its channel has values, which
\* are no more than it has places.
Holders(h)  == {r \in Requests : HoldsSlot(r) /\ q[r].sem = h}
SlotsCounted ==
  \A h \in Hosts : slots[h] = Cardinality(Holders(h)) /\ slots[h] <= HostHttpConcurr

\* Without onHost there is one host.
OneHost ==
  \A r \in Requests :
    /\ Url \in {None, DefHost} /\ RawHost \in {None, DefHost}
    /\ q[r].sem \in {None, DefHost} /\ q[r].at \in {None, DefHost}
    /\ q[r].pc = "http" => q[r].at = DefHost

\* A call that got its slot after the host was banned sleeps as long as the ban
\* lasts, or is not yet as far as looking.
BanKept ==
  \A r \in Requests \ spared :
    /\ q[r].pc = "ban" => q[r].left >= ban[DefHost]
    /\ q[r].pc \in {"pace", "sign", "http"} => ban[DefHost] = 0

-------------------------------------------------------------------------------
\* The types of the variables at the start.
LEMMA TypesInit == Init => Types
BY RequestAssumption DEF Init, Types, Calls, Files, FileKeys, NoFile, Idle, Places

\* The names of the places.
LEMMA InPlaces ==
  /\ "start" \in Places /\ "done" \in Places /\ "url" \in Places /\ "host" \in Places
  /\ "try" \in Places /\ "flow" \in Places /\ "slot" \in Places /\ "wait" \in Places
  /\ "ban" \in Places /\ "pace" \in Places /\ "sign" \in Places /\ "http" \in Places
  /\ "create" \in Places /\ "store" \in Places
BY DEF Places, Routed, Holding

\* A call that ends, and one that begins.
LEMMA IdleTyped == Idle \in Calls
BY InPlaces DEF Idle, Calls, FileKeys

LEMMA FinishTyped ==
  ASSUME NEW c \in Calls, NEW x \in Keys \cup {None, "error"}
  PROVE  [Idle EXCEPT !.pc = "done", !.asked = c.asked, !.res = x] \in Calls
BY IdleTyped, InPlaces DEF Calls

\* A wait that ends is no wait, and one that runs gets shorter.
LEMMA LessTyped == ASSUME NEW n \in Nat PROVE Less(n) \in Nat /\ (n > 0 => Less(n) < n)
BY DEF Less

\* A channel is filled, or emptied.
LEMMA SlotsTyped ==
  ASSUME NEW s \in [Hosts -> Int], NEW h
  PROVE  [s EXCEPT ![h] = @ + 1] \in [Hosts -> Int] /\ [s EXCEPT ![h] = @ - 1] \in [Hosts -> Int]
<1>1. h \in Hosts => s[h] + 1 \in Int /\ s[h] - 1 \in Int
  OBVIOUS
<1>2. QED
  BY <1>1

\* Every step keeps the types of the variables.
LEMMA TypesStep == Types /\ HostFound /\ [Next]_vars => Types'
<1> SUFFICES ASSUME Types, HostFound, [Next]_vars PROVE Types'
  OBVIOUS
<1> USE RequestAssumption DEF Types, entryVars
<1>1. CASE UNCHANGED vars
  BY <1>1 DEF vars
<1>2. CASE SetNetDisable
  BY <1>2 DEF SetNetDisable
<1>3. CASE Tick
  <2>1. q' \in [Requests -> Calls]
    <3>1. \A r \in Requests : [q[r] EXCEPT !.left = Less(@)] \in Calls
      BY LessTyped DEF Calls
    <3>2. QED
      BY <1>3, <3>1 DEF Tick
  <2>2. file' \in [FileKeys -> Files] /\ ban' \in [Hosts -> Nat]
    <3>1. \A k \in FileKeys : [file[k] EXCEPT !.left = Less(@)] \in Files
      BY LessTyped DEF Files
    <3>2. \A h \in Hosts : Less(ban[h]) \in Nat
      BY LessTyped
    <3>3. QED
      BY <1>3, <3>1, <3>2 DEF Tick
  <2>3. since' \in 0..RateLimit
    BY <1>3 DEF Tick
  <2>4. QED
    BY <1>3, <2>1, <2>2, <2>3 DEF Tick
<1>4. ASSUME NEW r \in Requests, Call(r) PROVE Types'
  <2>1. PICK k \in Keys : \/ q' = [q EXCEPT ![r] = [Idle EXCEPT !.pc = "done", !.asked = k, !.res = file[CacheKey(k)].of]]
                         \/ q' = [q EXCEPT ![r] = [Idle EXCEPT !.pc = "url", !.asked = k, !.key = CacheKey(k)]]
                         \/ q' = [q EXCEPT ![r] = [q[r] EXCEPT !.pc = "url", !.asked = k]]
    BY <1>4 DEF Call
  <2>2. [Idle EXCEPT !.pc = "done", !.asked = k, !.res = file[CacheKey(k)].of] \in Calls
    BY IdleTyped, InPlaces DEF CacheKey, Calls, Files, FileKeys
  <2>3. [Idle EXCEPT !.pc = "url", !.asked = k, !.key = CacheKey(k)] \in Calls
    BY IdleTyped, InPlaces DEF CacheKey, Calls, FileKeys
  <2>4. [q[r] EXCEPT !.pc = "url", !.asked = k] \in Calls
    BY InPlaces DEF Calls
  <2>5. QED
    BY <1>4, <2>1, <2>2, <2>3, <2>4 DEF Call
<1>5. ASSUME NEW r \in Requests, RequestStep(r) PROVE Types'
  <2> USE <1>5
  <2> q[r] \in Calls
    OBVIOUS
  <2> /\ q[r].try \in Nat /\ q[r].asked \in Keys \cup {None}
      /\ "error" \in Keys \cup {None, "error"}
      /\ q[r].asked \in Keys \cup {None, "error"}
    BY DEF Calls
  <2>1. CASE SetUrl(r)
    <3>1. [q[r] EXCEPT !.pc = "host"] \in Calls
      BY <2>1, InPlaces, FinishTyped DEF Calls
    <3>2. [q[r] EXCEPT !.pc = "try"] \in Calls
      BY <2>1, InPlaces, FinishTyped DEF Calls
    <3>3. QED
      BY <2>1, <3>1, <3>2 DEF SetUrl, Goto
  <2>2. CASE SetRawHost(r)
    <3>1. [q[r] EXCEPT !.pc = "try"] \in Calls
      BY <2>2, InPlaces, FinishTyped DEF Calls
    <3>2. QED
      BY <2>2, <3>1 DEF SetRawHost, Goto
  <2>3. CASE Try(r)
    <3>1. [q[r] EXCEPT !.pc = "flow", !.try = @ + 1] \in Calls
      <4>1. q[r].try + 1 \in Nat
        OBVIOUS
      <4>2. QED
        BY <4>1, InPlaces DEF Calls
    <3>2. [Idle EXCEPT !.pc = "done", !.asked = q[r].asked, !.res = "error"] \in Calls
      BY <2>3, InPlaces, FinishTyped DEF Calls
    <3>3. q' \in [Requests -> Calls]
      BY <2>3, <3>1, <3>2 DEF Try, Finish
    <3>4. QED
      BY <2>3, <3>3 DEF Try
  <2>4. CASE GetFlow(r)
    <3>1. [q[r] EXCEPT !.pc = "slot", !.sem = RawHost] \in Calls
      BY <2>4, InPlaces, FinishTyped DEF Calls
    <3>2. QED
      BY <2>4, <3>1 DEF GetFlow
  <2>5. CASE TakeSlot(r)
    <3>1. [q[r] EXCEPT !.pc = "wait"] \in Calls
      BY <2>5, InPlaces, FinishTyped DEF Calls
    <3>2. slots' \in [Hosts -> Int] /\ q' \in [Requests -> Calls]
      BY <2>5, <3>1, SlotsTyped DEF TakeSlot, Goto
    <3>3. QED
      BY <2>5, <3>2 DEF TakeSlot
  <2>6. CASE LookBan(r)
    <3>1. [q[r] EXCEPT !.pc = "ban", !.left = ban[RawHost]] \in Calls
      <4>1. RawHost \in Hosts
        BY <2>6 DEF LookBan, HostFound, Routed, Holding
      <4>2. QED
        BY <4>1, InPlaces DEF Calls
    <3>2. QED
      BY <2>6, <3>1 DEF LookBan
  <2>7. CASE LockRate(r)
    <3>1. [q[r] EXCEPT !.pc = "pace", !.left = RateLimit - since] \in Calls
      <4>1. RateLimit - since \in Nat
        OBVIOUS
      <4>2. QED
        BY <4>1, InPlaces DEF Calls
    <3>2. QED
      BY <2>7, <3>1 DEF LockRate
  <2>8. CASE Pace(r)
    <3>1. [q[r] EXCEPT !.pc = "sign"] \in Calls
      BY <2>8, InPlaces, FinishTyped DEF Calls
    <3>2. QED
      BY <2>8, <3>1 DEF Pace, Goto
  <2>9. CASE Sign(r)
    <3>1. [q[r] EXCEPT !.pc = "http", !.at = Url] \in Calls
      BY <2>9, InPlaces, FinishTyped DEF Calls
    <3>2. QED
      BY <2>9, <3>1 DEF Sign
  <2>10. CASE Answer(r)
    <3>1. [q[r] EXCEPT !.pc = "create", !.at = None, !.try = 0] \in Calls
      BY <2>10, InPlaces, FinishTyped DEF Calls
    <3>2. QED
      BY <2>10, <3>1 DEF Answer
  <2>11. CASE Fail(r)
    <3>1. [Idle EXCEPT !.pc = "done", !.asked = q[r].asked, !.res = "error"] \in Calls
      BY <2>11, InPlaces, FinishTyped DEF Calls
    <3>2. slots' \in [Hosts -> Int] /\ q' \in [Requests -> Calls]
      BY <2>11, <3>1, SlotsTyped DEF Fail, Leave, Finish
    <3>3. QED
      BY <2>11, <3>2 DEF Fail, Leave
  <2>12. CASE NetFail(r)
    <3>1. [q[r] EXCEPT !.pc = "try", !.left = RetrySecs, !.sem = None, !.at = None] \in Calls
      BY <2>12, InPlaces, FinishTyped DEF Calls
    <3>2. [Idle EXCEPT !.pc = "done", !.asked = q[r].asked, !.res = "error"] \in Calls
      BY <2>12, InPlaces, FinishTyped DEF Calls
    <3>3. slots' \in [Hosts -> Int] /\ q' \in [Requests -> Calls]
      BY <2>12, <3>1, <3>2, SlotsTyped DEF NetFail, Leave, Again, Finish
    <3>4. QED
      BY <2>12, <3>3 DEF NetFail, Leave
  <2>13. CASE Banned(r)
    <3>1. \A w \in Waits : [q[r] EXCEPT !.pc = "try", !.left = w, !.sem = None, !.at = None] \in Calls
      BY <2>13, InPlaces, FinishTyped DEF Calls
    <3>2. [Idle EXCEPT !.pc = "done", !.asked = q[r].asked, !.res = "error"] \in Calls
      BY <2>13, InPlaces, FinishTyped DEF Calls
    <3>3. PICK w \in Waits : ban' = [ban EXCEPT ![RawHost] = w] /\ Again(r, w)
      BY <2>13 DEF Banned
    <3>4. q' \in [Requests -> Calls]
      BY <3>1, <3>2, <3>3 DEF Again, Finish
    <3>5. slots' \in [Hosts -> Int] /\ ban' \in [Hosts -> Nat]
      BY <2>13, <3>3, SlotsTyped DEF Banned
    <3>6. QED
      BY <2>13, <3>4, <3>5 DEF Banned
  <2>14. CASE CreateFile(r)
    <3>1. [q[r] EXCEPT !.pc = "store"] \in Calls
      BY <2>14, InPlaces, FinishTyped DEF Calls
    <3>2. QED
      BY <2>14, <3>1 DEF CreateFile, Goto, NoFile, Files
  <2>15. CASE StoreFile(r)
    <3>1. [Idle EXCEPT !.pc = "done", !.asked = q[r].asked, !.res = q[r].asked] \in Calls
      BY <2>15, InPlaces, FinishTyped DEF Calls
    <3>2. slots' \in [Hosts -> Int] /\ q' \in [Requests -> Calls]
      BY <2>15, <3>1, SlotsTyped DEF StoreFile, Leave, Finish
    <3>3. [whole |-> TRUE, of |-> q[r].asked, left |-> CacheSecs] \in Files
      BY DEF Files
    <3>4. QED
      BY <2>15, <3>2, <3>3 DEF StoreFile, Leave
  <2>16. QED
    BY <2>1, <2>2, <2>3, <2>4, <2>5, <2>6, <2>7, <2>8, <2>9, <2>10, <2>11, <2>12,
       <2>13, <2>14, <2>15 DEF RequestStep
<1>6. QED
  BY <1>1, <1>2, <1>3, <1>4, <1>5 DEF Next

\* A call alone moves.
Alone(r) == \A p \in Requests \ {r} : q'[p] = q[p]

\* A request that ends keeps nothing but what it was asked, and its result.
LEMMA FinishEffect ==
  ASSUME Types, NEW r \in Requests, NEW x \in Keys \cup {None, "error"}, Finish(r, x)
  PROVE  /\ Alone(r)
         /\ q'[r].pc = "done" /\ q'[r].res = x /\ q'[r].asked = q[r].asked
         /\ q'[r].key = None /\ q'[r].sem = None /\ q'[r].at = None
BY DEF Types, Calls, Finish, Idle, Alone

\* A try that is over ends the request or leads to a sleep.
LEMMA AgainEffect ==
  ASSUME Types, NEW r \in Requests, NEW n \in Nat, Again(r, n)
  PROVE  /\ Alone(r)
         /\ q'[r].pc \in {"try", "done"} /\ q'[r].asked = q[r].asked
         /\ q'[r].pc = "done" => q'[r].res = "error"
         /\ q'[r].key \in {None, q[r].key} /\ q'[r].sem = None /\ q'[r].at = None
<1>1. CASE Finish(r, "error")
  BY <1>1, FinishEffect
<1>2. CASE q' = [q EXCEPT ![r].pc = "try", ![r].left = n, ![r].sem = None, ![r].at = None]
  BY <1>2 DEF Types, Calls, Alone
<1>3. QED
  BY <1>1, <1>2 DEF Again

\* A call that begins is answered from the file of its key, or looks for a host.
LEMMA CallEffect ==
  ASSUME Types, NEW r \in Requests, Call(r)
  PROVE  \E k \in Keys :
           /\ Alone(r)
           /\ q'[r].asked = k /\ q[r].pc = "start"
           /\ \/ /\ q'[r].pc = "done" /\ file[k].whole /\ q'[r].res = file[k].of
                 /\ q'[r].key = None /\ q'[r].sem = None /\ q'[r].at = None
              \/ /\ q'[r].pc = "url" /\ q'[r].key = k
                 /\ q'[r].sem = None /\ q'[r].at = None
              \/ /\ q'[r].pc = "url" /\ q'[r].key = q[r].key
                 /\ q'[r].sem = q[r].sem /\ q'[r].at = q[r].at
<1> USE DEF Types, Calls, CacheKey, Idle, Alone
<1>1. PICK k \in Keys :
        \/ file[k].whole
           /\ q' = [q EXCEPT ![r] = [Idle EXCEPT !.pc = "done", !.asked = k, !.res = file[k].of]]
        \/ q' = [q EXCEPT ![r] = [Idle EXCEPT !.pc = "url", !.asked = k, !.key = k]]
        \/ q' = [q EXCEPT ![r].pc = "url", ![r].asked = k]
  BY DEF Call
<1>2. q[r].pc = "start"
  BY DEF Call
<1>4. CASE file[k].whole
           /\ q' = [q EXCEPT ![r] = [Idle EXCEPT !.pc = "done", !.asked = k, !.res = file[k].of]]
  BY <1>2, <1>4
<1>5. CASE q' = [q EXCEPT ![r] = [Idle EXCEPT !.pc = "url", !.asked = k, !.key = k]]
  BY <1>2, <1>5
<1>6. CASE q' = [q EXCEPT ![r].pc = "url", ![r].asked = k]
  BY <1>2, <1>6
<1>7. QED
  BY <1>1, <1>4, <1>5, <1>6

\* Time changes nothing of a call but its wait.
LEMMA TickEffect ==
  ASSUME Types, Tick
  PROVE  \A p \in Requests :
           /\ q'[p].pc = q[p].pc /\ q'[p].asked = q[p].asked /\ q'[p].key = q[p].key
           /\ q'[p].sem = q[p].sem /\ q'[p].at = q[p].at /\ q'[p].res = q[p].res
           /\ q'[p].left = Less(q[p].left)
<1>1. SUFFICES ASSUME NEW p \in Requests
               PROVE  /\ q'[p].pc = q[p].pc /\ q'[p].asked = q[p].asked /\ q'[p].key = q[p].key
                      /\ q'[p].sem = q[p].sem /\ q'[p].at = q[p].at /\ q'[p].res = q[p].res
                      /\ q'[p].left = Less(q[p].left)
  OBVIOUS
<1>2. q'[p] = [q[p] EXCEPT !.left = Less(@)]
  BY DEF Tick
<1>3. q[p] \in Calls
  BY DEF Types
<1>4. QED
  BY <1>2, <1>3 DEF Calls

\* Every step of a call that needs a host finds it.
LEMMA HostFoundStep == Types /\ HostFound /\ [Next]_vars => HostFound'
<1> SUFFICES ASSUME Types /\ HostFound, [Next]_vars PROVE HostFound'
  OBVIOUS
<1> USE RequestAssumption DEF Types, Calls, HostFound, Routed, Holding, entryVars
<1>1. CASE UNCHANGED vars
  BY <1>1 DEF vars
<1>2. CASE SetNetDisable
  BY <1>2 DEF SetNetDisable
<1>3. CASE Tick
  BY <1>3, TickEffect DEF Tick
<1>4. ASSUME NEW r \in Requests, Call(r) PROVE HostFound'
  <2>1. UNCHANGED <<Url, RawHost>>
    BY <1>4 DEF Call
  <2>2. Alone(r) /\ q'[r].pc \in {"done", "url"}
    BY <1>4, CallEffect
  <2>3. QED
    BY <2>1, <2>2 DEF Alone
<1>5. ASSUME NEW r \in Requests, RequestStep(r) PROVE HostFound'
  <2>1. CASE SetUrl(r)
    <3>1. CASE RawHost = None \/ OnHost
      BY <2>1, <3>1 DEF SetUrl, Goto
    <3>2. CASE ~(RawHost = None \/ OnHost)
      BY <2>1, <3>2 DEF SetUrl, Goto
    <3>3. QED
      BY <3>1, <3>2
  <2>2. CASE SetRawHost(r)
    BY <2>2 DEF SetRawHost, Goto
  <2>3. CASE Try(r)
    <3>1. CASE Finish(r, "error")
      BY <2>3, <3>1, FinishEffect DEF Try, Alone
    <3>2. CASE q' = [q EXCEPT ![r].pc = "flow", ![r].try = @ + 1]
      BY <2>3, <3>2 DEF Try
    <3>3. QED
      BY <2>3, <3>1, <3>2 DEF Try
  <2>4. CASE GetFlow(r)
    BY <2>4 DEF GetFlow
  <2>5. CASE TakeSlot(r)
    BY <2>5 DEF TakeSlot, Goto
  <2>6. CASE LookBan(r)
    BY <2>6 DEF LookBan
  <2>7. CASE LockRate(r)
    BY <2>7 DEF LockRate
  <2>8. CASE Pace(r)
    BY <2>8 DEF Pace, Goto
  <2>9. CASE Sign(r)
    BY <2>9 DEF Sign
  <2>10. CASE Answer(r)
    BY <2>10 DEF Answer
  <2>11. CASE Fail(r)
    BY <2>11 DEF Fail, Leave, Finish, Idle
  <2>12. CASE NetFail(r)
    BY <2>12, AgainEffect DEF NetFail, Alone
  <2>13. CASE Banned(r)
    BY <2>13, AgainEffect DEF Banned, Alone
  <2>14. CASE CreateFile(r)
    BY <2>14 DEF CreateFile, Goto, NoFile
  <2>15. CASE StoreFile(r)
    BY <2>15 DEF StoreFile, Leave, Finish, Idle
  <2>16. QED
    BY <1>5, <2>1, <2>2, <2>3, <2>4, <2>5, <2>6, <2>7, <2>8, <2>9, <2>10, <2>11, <2>12,
       <2>13, <2>14, <2>15 DEF RequestStep
<1>6. QED
  BY <1>1, <1>2, <1>3, <1>4, <1>5 DEF Next
\* Who holds a slot, by place.
LEMMA HoldsByPlace == \A p \in Requests : HoldsSlot(p) <=> q[p].pc \in Holding
BY DEF HoldsSlot, Holding

\* A step in which nobody gets or gives back a slot.
LEMMA HoldersKept ==
  ASSUME Types, SlotsCounted, slots' = slots,
         \A p \in Requests : /\ q'[p].pc \in Holding <=> q[p].pc \in Holding
                             /\ q[p].pc \in Holding => q'[p].sem = q[p].sem
  PROVE  SlotsCounted'
<1>1. \A h \in Hosts : Holders(h)' = Holders(h)
  BY DEF Holders, HoldsSlot, Holding
<1>2. QED
  BY <1>1 DEF SlotsCounted

\* A call takes a slot of a channel that has one.
LEMMA HolderAdded ==
  ASSUME Types, SlotsCounted, NEW r \in Requests, Alone(r), NEW c \in Hosts, q[r].sem = c,
         q[r].pc \notin Holding, q'[r].pc \in Holding, q'[r].sem = c,
         slots[c] < HostHttpConcurr,
         slots' = [slots EXCEPT ![c] = @ + 1]
  PROVE  SlotsCounted'
<1>1. Holders(c)' = Holders(c) \cup {r} /\ r \notin Holders(c)
  BY DEF Holders, HoldsSlot, Holding, Alone
<1>2. \A h \in Hosts \ {c} : Holders(h)' = Holders(h)
  BY DEF Holders, HoldsSlot, Holding, Alone
<1>3. \A h \in Hosts : IsFiniteSet(Holders(h))
  BY RequestAssumption, FS_Subset DEF Holders
<1>4. Cardinality(Holders(c)') = Cardinality(Holders(c)) + 1
  BY <1>1, <1>3, FS_AddElement
<1>5. slots'[c] = slots[c] + 1 /\ \A h \in Hosts \ {c} : slots'[h] = slots[h]
  BY DEF Types
<1>6. slots'[c] = Cardinality(Holders(c)') /\ slots'[c] <= HostHttpConcurr
  BY <1>4, <1>5, RequestAssumption DEF SlotsCounted, Types
<1>7. QED
  BY <1>2, <1>5, <1>6 DEF SlotsCounted

\* A call gives its slot back.
LEMMA HolderLeft ==
  ASSUME Types, SlotsCounted, NEW r \in Requests, Alone(r), NEW c \in Hosts, q[r].sem = c,
         q[r].pc \in Holding, q'[r].pc \notin Holding,
         slots' = [slots EXCEPT ![c] = @ - 1]
  PROVE  SlotsCounted'
<1>1. Holders(c)' = Holders(c) \ {r} /\ r \in Holders(c)
  BY DEF Holders, HoldsSlot, Holding, Alone
<1>2. \A h \in Hosts \ {c} : Holders(h)' = Holders(h)
  BY DEF Holders, HoldsSlot, Holding, Alone
<1>3. \A h \in Hosts : IsFiniteSet(Holders(h))
  BY RequestAssumption, FS_Subset DEF Holders
<1>4. Cardinality(Holders(c)') = Cardinality(Holders(c)) - 1
  BY <1>1, <1>3, FS_RemoveElement
<1>5. slots'[c] = slots[c] - 1 /\ \A h \in Hosts \ {c} : slots'[h] = slots[h]
  BY DEF Types
<1>6. slots'[c] = Cardinality(Holders(c)') /\ slots'[c] <= HostHttpConcurr
  BY <1>4, <1>5, RequestAssumption DEF SlotsCounted, Types
<1>7. QED
  BY <1>2, <1>5, <1>6 DEF SlotsCounted

\* No step loses a slot, or gives one back twice.
LEMMA SlotsStep == Types /\ HostFound /\ SlotsCounted /\ [Next]_vars => SlotsCounted'
<1> SUFFICES ASSUME Types /\ HostFound /\ SlotsCounted, [Next]_vars PROVE SlotsCounted'
  OBVIOUS
<1> USE RequestAssumption DEF Types, Calls, Holding, entryVars
<1>1. CASE UNCHANGED vars
  BY <1>1, HoldersKept DEF vars
<1>2. CASE SetNetDisable
  BY <1>2, HoldersKept DEF SetNetDisable
<1>3. CASE Tick
  BY <1>3, TickEffect, HoldersKept DEF Tick
<1>4. ASSUME NEW r \in Requests, Call(r) PROVE SlotsCounted'
  <2>1. q[r].pc = "start" /\ Alone(r) /\ q'[r].pc \in {"done", "url"} /\ slots' = slots
    BY <1>4, CallEffect DEF Call
  <2>2. QED
    BY <2>1, HoldersKept DEF Alone
<1>5. ASSUME NEW r \in Requests, RequestStep(r) PROVE SlotsCounted'
  <2>1. CASE SetUrl(r)
    <3>1. Alone(r) /\ q'[r].pc \in {"host", "try"} /\ slots' = slots
      BY <2>1 DEF SetUrl, Goto, Alone
    <3>2. QED
      BY <2>1, <3>1, HoldersKept DEF SetUrl, Alone
  <2>2. CASE SetRawHost(r)
    BY <2>2, HoldersKept DEF SetRawHost, Goto
  <2>3. CASE Try(r)
    <3>1. CASE Finish(r, "error")
      BY <2>3, <3>1, FinishEffect, HoldersKept DEF Try, Alone
    <3>2. CASE q' = [q EXCEPT ![r].pc = "flow", ![r].try = @ + 1]
      BY <2>3, <3>2, HoldersKept DEF Try
    <3>3. QED
      BY <2>3, <3>1, <3>2 DEF Try
  <2>4. CASE GetFlow(r)
    BY <2>4, HoldersKept DEF GetFlow
  <2>5. CASE TakeSlot(r)
    <3>1. Alone(r) /\ q'[r].pc = "wait" /\ q'[r].sem = q[r].sem
      BY <2>5 DEF TakeSlot, Goto, Alone
    <3>2. QED
      BY <2>5, <3>1, HolderAdded DEF TakeSlot, HostFound
  <2>6. CASE LookBan(r)
    BY <2>6, HoldersKept DEF LookBan
  <2>7. CASE LockRate(r)
    BY <2>7, HoldersKept DEF LockRate
  <2>8. CASE Pace(r)
    BY <2>8, HoldersKept DEF Pace, Goto
  <2>9. CASE Sign(r)
    BY <2>9, HoldersKept DEF Sign
  <2>10. CASE Answer(r)
    BY <2>10, HoldersKept DEF Answer
  <2>11. CASE Fail(r)
    <3>1. Alone(r) /\ q'[r].pc \in {"try", "done"}
      BY <2>11, FinishEffect DEF Fail
    <3>2. q[r].pc \in Holding /\ q[r].sem \in Hosts
      BY <2>11 DEF Fail, HostFound
    <3>3. slots' = [slots EXCEPT ![q[r].sem] = @ - 1]
      BY <2>11 DEF Fail, Leave
    <3>4. QED
      BY <3>1, <3>2, <3>3, HolderLeft
  <2>12. CASE NetFail(r)
    <3>1. Alone(r) /\ q'[r].pc \in {"try", "done"}
      BY <2>12, AgainEffect DEF NetFail
    <3>2. q[r].pc \in Holding /\ q[r].sem \in Hosts
      BY <2>12 DEF NetFail, HostFound
    <3>3. slots' = [slots EXCEPT ![q[r].sem] = @ - 1]
      BY <2>12 DEF NetFail, Leave
    <3>4. QED
      BY <3>1, <3>2, <3>3, HolderLeft
  <2>13. CASE Banned(r)
    <3>1. Alone(r) /\ q'[r].pc \in {"try", "done"}
      BY <2>13, AgainEffect DEF Banned
    <3>2. q[r].pc \in Holding /\ q[r].sem \in Hosts
      BY <2>13 DEF Banned, HostFound
    <3>3. slots' = [slots EXCEPT ![q[r].sem] = @ - 1]
      BY <2>13 DEF Banned
    <3>4. QED
      BY <3>1, <3>2, <3>3, HolderLeft
  <2>14. CASE CreateFile(r)
    BY <2>14, HoldersKept DEF CreateFile, Goto, NoFile
  <2>15. CASE StoreFile(r)
    <3>1. Alone(r) /\ q'[r].pc \in {"try", "done"}
      BY <2>15, FinishEffect DEF StoreFile
    <3>2. q[r].pc \in Holding /\ q[r].sem \in Hosts
      BY <2>15 DEF StoreFile, HostFound
    <3>3. slots' = [slots EXCEPT ![q[r].sem] = @ - 1]
      BY <2>15 DEF StoreFile, Leave
    <3>4. QED
      BY <3>1, <3>2, <3>3, HolderLeft
  <2>16. QED
    BY <1>5, <2>1, <2>2, <2>3, <2>4, <2>5, <2>6, <2>7, <2>8, <2>9, <2>10, <2>11, <2>12,
       <2>13, <2>14, <2>15 DEF RequestStep
<1>6. QED
  BY <1>1, <1>2, <1>3, <1>4, <1>5 DEF Next
\* Files and answers go with what was asked.
Own == FilesTrue /\ KeysTrue /\ OwnAnswer

\* A step that writes no file, and in which one call at most moves, and ends with
\* its own answer or an error.
LEMMA OwnKept ==
  ASSUME Types, Own, NEW r \in Requests, Alone(r), file' = file,
         q'[r].asked = q[r].asked, q'[r].key \in {None, q[r].key},
         q'[r].pc # "start",
         q'[r].pc = "done" => q'[r].res \in {"error", q'[r].asked}
  PROVE  Own'
BY DEF Own, FilesTrue, KeysTrue, OwnAnswer, Alone

\* No step gives a call, or a file, the answer to another question.
LEMMA OwnStep == Types /\ Own /\ [Next]_vars => Own'
<1> SUFFICES ASSUME Types /\ Own, [Next]_vars PROVE Own'
  OBVIOUS
<1> USE RequestAssumption DEF Types, Calls, entryVars
<1>1. CASE UNCHANGED vars
  BY <1>1 DEF vars, Own, FilesTrue, KeysTrue, OwnAnswer
<1>2. CASE SetNetDisable
  BY <1>2 DEF SetNetDisable, Own, FilesTrue, KeysTrue, OwnAnswer
<1>3. CASE Tick
  <2>1. \A k \in FileKeys : file'[k].whole = file[k].whole /\ file'[k].of = file[k].of
    BY <1>3 DEF Tick, Files
  <2>2. QED
    BY <1>3, <2>1, TickEffect DEF Own, FilesTrue, KeysTrue, OwnAnswer, FileKeys
<1>4. ASSUME NEW r \in Requests, Call(r) PROVE Own'
  <2>1. file' = file
    BY <1>4 DEF Call
  <2>2. PICK k \in Keys :
          /\ Alone(r) /\ q'[r].asked = k /\ q[r].pc = "start"
          /\ \/ q'[r].pc = "done" /\ file[k].whole /\ q'[r].res = file[k].of /\ q'[r].key = None
             \/ q'[r].pc = "url" /\ q'[r].key \in {k, q[r].key}
    BY <1>4, CallEffect
  <2>3. QED
    BY <2>1, <2>2 DEF Own, FilesTrue, KeysTrue, OwnAnswer, Alone
<1>5. ASSUME NEW r \in Requests, RequestStep(r) PROVE Own'
  <2>1. CASE SetUrl(r)
    <3>1. PICK p \in {"host", "try"} : q' = [q EXCEPT ![r].pc = p]
      BY <2>1 DEF SetUrl, Goto
    <3>2. QED
      BY <2>1, <3>1, OwnKept DEF SetUrl, Alone
  <2>2. CASE SetRawHost(r)
    BY <2>2, OwnKept DEF SetRawHost, Goto, Alone
  <2>3. CASE Try(r)
    <3>1. CASE Finish(r, "error")
      BY <2>3, <3>1, FinishEffect, OwnKept DEF Try
    <3>2. CASE q' = [q EXCEPT ![r].pc = "flow", ![r].try = @ + 1]
      BY <2>3, <3>2, OwnKept DEF Try, Alone
    <3>3. QED
      BY <2>3, <3>1, <3>2 DEF Try
  <2>4. CASE GetFlow(r)
    BY ZenonT(30), <2>4, OwnKept DEF GetFlow, Alone
  <2>5. CASE TakeSlot(r)
    BY <2>5, OwnKept DEF TakeSlot, Goto, Alone
  <2>6. CASE LookBan(r)
    BY ZenonT(30), <2>6, OwnKept DEF LookBan, Alone
  <2>7. CASE LockRate(r)
    BY <2>7, OwnKept DEF LockRate, Alone
  <2>8. CASE Pace(r)
    BY <2>8, OwnKept DEF Pace, Goto, Alone
  <2>9. CASE Sign(r)
    BY ZenonT(30), <2>9, OwnKept DEF Sign, Alone
  <2>10. CASE Answer(r)
    BY <2>10, OwnKept DEF Answer, Alone
  <2>11. CASE Fail(r)
    BY <2>11, FinishEffect, OwnKept DEF Fail
  <2>12. CASE NetFail(r)
    <3>1. PICK w \in Nat : Again(r, w)
      BY <2>12 DEF NetFail
    <3>2. file' = file
      BY <2>12 DEF NetFail
    <3>3. QED
      BY <3>1, <3>2, AgainEffect, OwnKept
  <2>13. CASE Banned(r)
    <3>1. PICK w \in Nat : Again(r, w)
      BY <2>13 DEF Banned
    <3>2. file' = file
      BY <2>13 DEF Banned
    <3>3. QED
      BY <3>1, <3>2, AgainEffect, OwnKept
  <2>14. CASE CreateFile(r)
    <3>1. \A k \in Keys : file'[k].whole => file'[k] = file[k]
      BY <2>14 DEF CreateFile, NoFile, FileKeys
    <3>2. q' = [q EXCEPT ![r].pc = "store"]
      BY <2>14 DEF CreateFile, Goto
    <3>3. QED
      BY <3>1, <3>2 DEF Own, FilesTrue, KeysTrue, OwnAnswer
  <2>15. CASE StoreFile(r)
    <3>1. file' = [file EXCEPT ![q[r].key] =
                     [whole |-> TRUE, of |-> q[r].asked, left |-> CacheSecs]]
      BY <2>15 DEF StoreFile
    <3>2. \A k \in Keys : file'[k] = file[k] \/ (k = q[r].asked /\ file'[k].of = k)
      BY <3>1 DEF Own, KeysTrue, FileKeys
    <3>3. Alone(r) /\ q'[r].pc = "done" /\ q'[r].res = q'[r].asked /\ q'[r].key = None
      BY <2>15, FinishEffect DEF StoreFile
    <3>4. QED
      BY ZenonT(30), <3>2, <3>3 DEF Own, FilesTrue, KeysTrue, OwnAnswer, Alone
  <2>16. QED
    BY <1>5, <2>1, <2>2, <2>3, <2>4, <2>5, <2>6, <2>7, <2>8, <2>9, <2>10, <2>11, <2>12,
       <2>13, <2>14, <2>15 DEF RequestStep
<1>6. QED
  BY <1>1, <1>2, <1>3, <1>4, <1>5 DEF Next
-------------------------------------------------------------------------------
\* One host, and its bans.
Bans == OneHost /\ BanKept

\* A step of a call that bans nobody.
LEMMA BansKept ==
  ASSUME Types, Bans, NEW r \in Requests, Alone(r), ban' = ban,
         spared' \in {spared, spared \ {r}}, UNCHANGED <<Url, RawHost>>,
         q'[r].sem \in {None, DefHost}, q'[r].at \in {None, DefHost},
         q'[r].pc = "http" => q'[r].at = DefHost,
         r \notin spared' =>
           /\ q'[r].pc = "ban" => q'[r].left >= ban[DefHost]
           /\ q'[r].pc \in {"pace", "sign", "http"} => ban[DefHost] = 0
  PROVE  Bans'
BY DEF Bans, OneHost, BanKept, Alone

\* Where there is one host, no step sends a call to it during a ban.
LEMMA BansStep == Types /\ HostFound /\ ~OnHost /\ Bans /\ [Next]_vars => Bans'
<1> SUFFICES ASSUME Types /\ HostFound /\ ~OnHost /\ Bans, [Next]_vars PROVE Bans'
  OBVIOUS
<1> USE RequestAssumption DEF Types, Calls, entryVars
<1>1. CASE UNCHANGED vars
  BY <1>1 DEF vars, Bans, OneHost, BanKept
<1>2. CASE SetNetDisable
  BY <1>2 DEF SetNetDisable, Bans, OneHost, BanKept
<1>3. CASE Tick
  <2>1. ban'[DefHost] = Less(ban[DefHost])
    BY <1>3 DEF Tick
  <2>2. \A r \in Requests : q[r].left >= ban[DefHost] => Less(q[r].left) >= Less(ban[DefHost])
    BY DEF Less
  <2>3. ban[DefHost] = 0 => Less(ban[DefHost]) = 0
    BY DEF Less
  <2>4. spared' = spared /\ UNCHANGED <<Url, RawHost>>
    BY <1>3 DEF Tick
  <2>5. QED
    BY <1>3, <2>1, <2>2, <2>3, <2>4, TickEffect DEF Bans, OneHost, BanKept
<1>4. ASSUME NEW r \in Requests, Call(r) PROVE Bans'
  <2>1. ban' = ban /\ spared' = spared /\ UNCHANGED <<Url, RawHost>>
    BY <1>4 DEF Call
  <2>2. /\ Alone(r) /\ q'[r].pc \in {"done", "url"}
        /\ q'[r].sem \in {None, q[r].sem} /\ q'[r].at \in {None, q[r].at}
    BY <1>4, CallEffect
  <2>3. QED
    BY <2>1, <2>2, BansKept DEF Bans, OneHost
<1>5. ASSUME NEW r \in Requests, RequestStep(r) PROVE Bans'
  <2>1. CASE SetUrl(r)
    <3>1. PICK p \in {"host", "try"} : q' = [q EXCEPT ![r].pc = p]
      BY <2>1 DEF SetUrl, Goto
    <3>2. Url' \in {None, DefHost}
      BY <2>1 DEF SetUrl, Bans, OneHost
    <3>3. UNCHANGED <<RawHost, ban, spared>>
      BY <2>1 DEF SetUrl
    <3>4. QED
      BY <3>1, <3>2, <3>3 DEF Bans, OneHost, BanKept
  <2>2. CASE SetRawHost(r)
    BY <2>2 DEF SetRawHost, Goto, Bans, OneHost, BanKept
  <2>3. CASE Try(r)
    <3>1. CASE Finish(r, "error")
      BY <2>3, <3>1, FinishEffect, BansKept DEF Try
    <3>2. CASE q' = [q EXCEPT ![r].pc = "flow", ![r].try = @ + 1]
      BY <2>3, <3>2, BansKept DEF Try, Alone, Bans, OneHost
    <3>3. QED
      BY <2>3, <3>1, <3>2 DEF Try
  <2>4. CASE GetFlow(r)
    <3>1. RawHost = DefHost
      BY <2>4 DEF GetFlow, HostFound, Routed, Bans, OneHost
    <3>2. QED
      BY <2>4, <3>1, BansKept DEF GetFlow, Alone, Bans, OneHost
  <2>5. CASE TakeSlot(r)
    BY <2>5, BansKept DEF TakeSlot, Goto, Alone, Bans, OneHost, BanKept
  <2>6. CASE LookBan(r)
    <3>1. RawHost = DefHost
      BY <2>6 DEF LookBan, HostFound, Routed, Holding, Bans, OneHost
    <3>2. QED
      BY <2>6, <3>1, BansKept DEF LookBan, Alone, Bans, OneHost
  <2>7. CASE LockRate(r)
    <3>1. r \notin spared => ban[DefHost] = 0
      BY <2>7 DEF LockRate, Bans, BanKept
    <3>2. QED
      BY <2>7, <3>1, BansKept DEF LockRate, Alone, Bans, OneHost
  <2>8. CASE Pace(r)
    BY <2>8, BansKept DEF Pace, Goto, Alone, Bans, OneHost, BanKept
  <2>9. CASE Sign(r)
    <3>1. Url = DefHost
      BY <2>9 DEF Sign, HostFound, Routed, Holding, Bans, OneHost
    <3>2. QED
      BY <2>9, <3>1, BansKept DEF Sign, Alone, Bans, OneHost, BanKept
  <2>10. CASE Answer(r)
    BY <2>10, BansKept DEF Answer, Alone, Bans, OneHost, BanKept
  <2>11. CASE Fail(r)
    <3>1. ban' = ban /\ spared' = spared \ {r} /\ UNCHANGED <<Url, RawHost>>
      BY <2>11 DEF Fail, Leave
    <3>2. QED
      BY <2>11, <3>1, FinishEffect, BansKept DEF Fail
  <2>12. CASE NetFail(r)
    <3>1. ban' = ban /\ spared' = spared \ {r} /\ UNCHANGED <<Url, RawHost>>
      BY <2>12 DEF NetFail, Leave
    <3>2. QED
      BY <2>12, <3>1, AgainEffect, BansKept DEF NetFail
  <2>13. CASE Banned(r)
    <3>1. PICK w \in Nat : Again(r, w)
      BY <2>13 DEF Banned
    <3>2. /\ Alone(r) /\ q'[r].pc \in {"try", "done"}
          /\ q'[r].sem = None /\ q'[r].at = None
      BY <3>1, AgainEffect
    <3>3. \A p \in Requests \ {r} :
            p \notin spared' => q[p].pc \notin {"ban", "pace", "sign", "http"}
      BY <2>13 DEF Banned, HoldsSlot
    <3>4. UNCHANGED <<Url, RawHost>>
      BY <2>13 DEF Banned
    <3>5. QED
      BY <3>2, <3>3, <3>4 DEF Alone, Bans, OneHost, BanKept
  <2>14. CASE CreateFile(r)
    BY <2>14, BansKept DEF CreateFile, Goto, NoFile, Alone, Bans, OneHost, BanKept
  <2>15. CASE StoreFile(r)
    <3>1. ban' = ban /\ spared' = spared \ {r} /\ UNCHANGED <<Url, RawHost>>
      BY <2>15 DEF StoreFile, Leave
    <3>2. QED
      BY <2>15, <3>1, FinishEffect, BansKept DEF StoreFile
  <2>16. QED
    BY <1>5, <2>1, <2>2, <2>3, <2>4, <2>5, <2>6, <2>7, <2>8, <2>9, <2>10, <2>11, <2>12,
       <2>13, <2>14, <2>15 DEF RequestStep
<1>6. QED
  BY <1>1, <1>2, <1>3, <1>4, <1>5 DEF Next
-------------------------------------------------------------------------------
IInv == Types /\ HostFound /\ SlotsCounted /\ Own

\* The invariant holds at the start.
LEMMA InvInit == Init => IInv
<1> SUFFICES ASSUME Init PROVE IInv
  OBVIOUS
<1>1. Types
  BY TypesInit
<1>2. HostFound /\ Own
  BY RequestAssumption
     DEF Init, Idle, NoFile, FileKeys, HostFound, Routed, Holding, Own, FilesTrue, KeysTrue, OwnAnswer
<1>3. \A h \in Hosts : Holders(h) = {} /\ slots[h] = 0
  BY DEF Init, Idle, Holders, HoldsSlot
<1>4. SlotsCounted
  BY <1>3, FS_EmptySet, RequestAssumption DEF SlotsCounted
<1>5. QED
  BY <1>1, <1>2, <1>4 DEF IInv

\* Whatever the host callback, the failures and the bans do, types, slots, files
\* and answers stay as they should.
THEOREM Inductive == Spec => []IInv
<1>1. IInv /\ [Next]_vars => IInv'
  BY TypesStep, HostFoundStep, SlotsStep, OwnStep DEF IInv
<1>2. QED
  BY InvInit, <1>1, PTL DEF Spec

\* Every call is answered with what it asked for, or with an error, whatever
\* requests and cache files of others it meets.
THEOREM AnswersOwn == Spec => []OwnAnswer
<1>1. IInv => OwnAnswer
  BY DEF IInv, Own
<1>2. QED
  BY <1>1, Inductive, PTL

\* Where there is one host, a Retry-After is waited for by whoever had no slot yet.
THEOREM BansRespected == ASSUME ~OnHost PROVE Spec => []BanRespected
<1>1. Init => Bans
  BY RequestAssumption DEF Init, Idle, Bans, OneHost, BanKept
<1>2. IInv /\ Bans /\ [Next]_vars => Bans'
  BY BansStep DEF IInv
<1>3. Bans => BanRespected
  BY DEF Bans, OneHost, BanKept, BanRespected
<1>4. QED
  BY <1>1, <1>2, <1>3, Inductive, PTL DEF Spec

\* No slot is lost and none is given twice; and where there is one host, it never
\* has more requests on their way than its channel has places.
THEOREM SlotsBalanced == ASSUME ~OnHost PROVE Spec => []SlotsGivenBack
<1>1. Init => Bans
  BY RequestAssumption DEF Init, Idle, Bans, OneHost, BanKept
<1>2. IInv /\ Bans /\ [Next]_vars => Bans'
  BY BansStep DEF IInv
<1>3. IInv /\ Bans => SlotsGivenBack
  <2> SUFFICES ASSUME IInv, Bans PROVE SlotsGivenBack
    OBVIOUS
  <2> DEFINE Sent(h) == {r \in Requests : q[r].pc = "http" /\ q[r].at = h}
  <2>1. \A h \in Hosts : slots[h] = Cardinality(Holders(h))
    BY DEF IInv, SlotsCounted
  <2>2. ASSUME NEW h \in Hosts PROVE Cardinality(Sent(h)) <= HostHttpConcurr
    <3>1. Sent(h) \subseteq Holders(h)
      BY RequestAssumption DEF IInv, HostFound, Holding, Bans, OneHost, Holders, HoldsSlot
    <3>2. IsFiniteSet(Holders(h))
      BY RequestAssumption, FS_Subset DEF Holders
    <3>3. Cardinality(Sent(h)) <= Cardinality(Holders(h)) /\ Cardinality(Holders(h)) \in Nat
          /\ Cardinality(Sent(h)) \in Nat
      BY <3>1, <3>2, FS_Subset, FS_CardinalityType
    <3>4. Cardinality(Holders(h)) <= HostHttpConcurr
      BY <2>1 DEF IInv, SlotsCounted
    <3>5. QED
      BY <3>3, <3>4, RequestAssumption
  <2>3. QED
    BY <2>1, <2>2 DEF SlotsGivenBack, Holders
<1>4. QED
  BY <1>1, <1>2, <1>3, Inductive, PTL DEF Spec
===============================================================================
