------------------------------- MODULE ApiRequest -------------------------------
(***************************************************************************)
(* Requests to one endpoint: RequestApiRetryAdv and RequestApi of biz.go,  *)
(* the slots and the Retry-After waits of the hosts in common.go, and the  *)
(* answers cached in files by utils/file.go.                               *)
(*                                                                         *)
(* Concurrent calls share the endpoint's Entry (Url, RawHost), the maps    *)
(* hostFlowChans and HostRetryWaits, the rate limiter and the cache files. *)
(* Every read or write of these is a step of its own, except what a lock   *)
(* covers.  Time is kept as what is left of each wait; Tick is one unit.   *)
(* The random time added to a wait only lengthens it, as a goroutine that  *)
(* runs on late does: it is left out.                                      *)
(***************************************************************************)
EXTENDS Integers, FiniteSets

CONSTANTS
  Requests,         \* calls of RequestApiRetryAdv
  Hosts,
  DefHost,          \* the host GetHost returns when onHost is not set
  OnHost,           \* onHost is set: GetHost may return another host each time
  Keys,             \* what GetCacheKey tells apart
  HostHttpConcurr,
  RetryNum,
  RateLimit,        \* time between two requests, at the endpoint's cost
  CacheSecs,
  Waits,            \* values of Retry-After
  RetrySecs,        \* sleep after a failed request
  None

ASSUME RequestAssumption ==
  /\ IsFiniteSet(Requests)
  /\ DefHost \in Hosts /\ None \notin Hosts /\ OnHost \in BOOLEAN
  /\ None \notin Keys
  /\ HostHttpConcurr \in Nat \ {0} /\ RetryNum \in Nat /\ RateLimit \in Nat
  /\ CacheSecs \in Nat \ {0} /\ RetrySecs \in Nat
  /\ Waits # {} /\ Waits \subseteq Nat

VARIABLES
  NetDisable,
  Url, RawHost,     \* of the Entry; Url stands for its host
  slots,            \* hostFlowChans: number of values in the channel of each host,
                    \* none in one that is not made yet
  ban,              \* HostRetryWaits: what is left of the wait, 0 for no entry
  rateM,            \* the request that holds rateM
  since,            \* time since lastRequestMS, up to RateLimit
  file,             \* the cache file of each key
  q,                \* the requests
  spared            \* ghost: requests that had a slot when the host's wait was set

entryVars == <<Url, RawHost>>
vars == <<NetDisable, entryVars, slots, ban, rateM, since, file, q, spared>>

\* A RequestApiRetry with ParamNoCache keeps cacheKey "".
FileKeys == Keys \cup {None}
NoFile == [whole |-> FALSE, of |-> None, left |-> 0]

Idle == [pc |-> "start", asked |-> None, key |-> None, try |-> 0, left |-> 0,
         sem |-> None, at |-> None, res |-> None]

Init ==
  /\ NetDisable \in BOOLEAN
  /\ Url = None /\ RawHost = None
  /\ slots = [h \in Hosts |-> 0] /\ ban = [h \in Hosts |-> 0] /\ rateM = None /\ since = RateLimit
  /\ file = [k \in FileKeys |-> NoFile]
  /\ q = [r \in Requests |-> Idle] /\ spared = {}

-----------------------------------------------------------------------------
(* RequestApiRetryAdv: the cache, the host, the tries *)

Goto(r, pc) == q' = [q EXCEPT ![r].pc = pc]
Finish(r, res) ==
  q' = [q EXCEPT ![r] = [Idle EXCEPT !.pc = "done", !.asked = q[r].asked, !.res = res]]

\* Fault: the key leaves the parameters out.
EndpointKey(k) == CHOOSE x \in Keys : TRUE
\* GetCacheKey: endpoint and parameters, but neither host nor account.
CacheKey(k) == k

\* A call, with or without ParamNoCache; ReadCacheFile: an expired answer is good
\* enough while the net is disabled.
Call(r) ==
  /\ q[r].pc = "start"
  /\ \E k \in Keys :
       LET f == file[CacheKey(k)]
           hit == f.whole /\ (f.left > 0 \/ NetDisable)
       IN \/ q' = [q EXCEPT ![r] = IF hit
                     THEN [Idle EXCEPT !.pc = "done", !.asked = k, !.res = f.of]
                     ELSE [Idle EXCEPT !.pc = "url", !.asked = k, !.key = CacheKey(k)]]
          \/ q' = [q EXCEPT ![r].pc = "url", ![r].asked = k]
  /\ UNCHANGED <<NetDisable, entryVars, slots, ban, rateM, since, file, spared>>

\* GetHost, and api.Url takes the result ...
SetUrl(r) ==
  /\ q[r].pc = "url"
  /\ IF RawHost = None \/ OnHost
     THEN /\ \E h \in IF OnHost THEN Hosts ELSE {DefHost} : Url' = h
          /\ Goto(r, "host")
     ELSE Goto(r, "try") /\ UNCHANGED Url
  /\ UNCHANGED <<NetDisable, RawHost, slots, ban, rateM, since, file, spared>>

\* ... then api.RawHost.
SetRawHost(r) ==
  /\ q[r].pc = "host"
  /\ RawHost' = Url
  /\ Goto(r, "try")
  /\ UNCHANGED <<NetDisable, Url, slots, ban, rateM, since, file, spared>>

\* The sleep before a retry ends, and the net may be disabled.
Try(r) ==
  /\ q[r].pc = "try" /\ q[r].left = 0
  /\ IF NetDisable THEN Finish(r, "error")
     ELSE q' = [q EXCEPT ![r].pc = "flow", ![r].try = @ + 1]
  /\ UNCHANGED <<NetDisable, entryVars, slots, ban, rateM, since, file, spared>>

-----------------------------------------------------------------------------
(* RequestApi *)

\* GetHostFlowChan: the channel of the host, made under hostFlowLock if need be.
GetFlow(r) ==
  /\ q[r].pc = "flow"
  /\ q' = [q EXCEPT ![r].pc = "slot", ![r].sem = RawHost]
  /\ UNCHANGED <<NetDisable, entryVars, slots, ban, rateM, since, file, spared>>

\* sem <- struct{}{}
TakeSlot(r) ==
  /\ q[r].pc = "slot" /\ slots[q[r].sem] < HostHttpConcurr
  /\ slots' = [slots EXCEPT ![q[r].sem] = @ + 1]
  /\ Goto(r, "wait")
  /\ UNCHANGED <<NetDisable, entryVars, ban, rateM, since, file, spared>>

\* Fault: only the first try looks.
LookBanOnce(r) ==
  /\ q[r].pc = "wait"
  /\ q' = [q EXCEPT ![r].pc = "ban", ![r].left = IF q[r].try = 1 THEN ban[RawHost] ELSE 0]
  /\ UNCHANGED <<NetDisable, entryVars, slots, ban, rateM, since, file, spared>>

\* GetHostRetryWait.
LookBan(r) ==
  /\ q[r].pc = "wait"
  /\ q' = [q EXCEPT ![r].pc = "ban", ![r].left = ban[RawHost]]
  /\ UNCHANGED <<NetDisable, entryVars, slots, ban, rateM, since, file, spared>>

\* The sleep is over; the rate limiter, under rateM: what is left of its interval ...
LockRate(r) ==
  /\ q[r].pc = "ban" /\ q[r].left = 0 /\ rateM = None
  /\ rateM' = r
  /\ q' = [q EXCEPT ![r].pc = "pace", ![r].left = RateLimit - since]
  /\ UNCHANGED <<NetDisable, entryVars, slots, ban, since, file, spared>>

\* ... is slept, and lastRequestMS set.
Pace(r) ==
  /\ q[r].pc = "pace" /\ q[r].left = 0
  /\ since' = 0 /\ rateM' = None
  /\ Goto(r, "sign")
  /\ UNCHANGED <<NetDisable, entryVars, slots, ban, file, spared>>

\* Sign reads api.Url, and the request goes out.
Sign(r) ==
  /\ q[r].pc = "sign"
  /\ q' = [q EXCEPT ![r].pc = "http", ![r].at = Url]
  /\ UNCHANGED <<NetDisable, entryVars, slots, ban, rateM, since, file, spared>>

\* RequestApi returns: its slot is given back.
Leave(r) ==
  /\ slots' = [slots EXCEPT ![q[r].sem] = @ - 1]
  /\ spared' = spared \ {r}

\* An answer, which is cached.
Answer(r) ==
  /\ q[r].pc = "http"
  /\ q' = [q EXCEPT ![r].pc = "create", ![r].at = None, ![r].try = 0]
  /\ UNCHANGED <<NetDisable, entryVars, slots, ban, rateM, since, file, spared>>

\* Fault: an early return keeps the slot.
FailKeeps(r) ==
  /\ q[r].pc \in {"sign", "http"}
  /\ Finish(r, "error")
  /\ UNCHANGED <<NetDisable, entryVars, slots, ban, rateM, since, file, spared>>

\* Sign fails, or the answer is an error nobody retries.
Fail(r) ==
  /\ q[r].pc \in {"sign", "http"}
  /\ Leave(r) /\ Finish(r, "error")
  /\ UNCHANGED <<NetDisable, entryVars, ban, rateM, since, file>>

\* The try is over with an error that is retried after a sleep.
Again(r, sleep) ==
  IF q[r].try <= RetryNum
  THEN q' = [q EXCEPT ![r].pc = "try", ![r].left = sleep,
                      ![r].sem = None, ![r].at = None]
  ELSE Finish(r, "error")

\* No connection, or 503.
NetFail(r) ==
  /\ q[r].pc = "http"
  /\ Leave(r) /\ Again(r, RetrySecs)
  /\ UNCHANGED <<NetDisable, entryVars, ban, rateM, since, file>>

HoldsSlot(p) == q[p].pc \in {"wait", "ban", "pace", "sign", "http", "create", "store"}

\* 429 or 418: SetHostRetryWait, and the sleep of the retry is Retry-After and more.
Banned(r) ==
  /\ q[r].pc = "http"
  /\ \E w \in Waits : ban' = [ban EXCEPT ![RawHost] = w] /\ Again(r, w)
  /\ slots' = [slots EXCEPT ![q[r].sem] = @ - 1]
  /\ spared' = {p \in Requests \ {r} : HoldsSlot(p)}
  /\ UNCHANGED <<NetDisable, entryVars, rateM, since, file>>

\* WriteCacheFile: os.Create truncates the file, the content is written later.
CreateFile(r) ==
  /\ q[r].pc = "create"
  /\ file' = [file EXCEPT ![q[r].key] = NoFile]
  /\ Goto(r, "store")
  /\ UNCHANGED <<NetDisable, entryVars, slots, ban, rateM, since, spared>>

StoreFile(r) ==
  /\ q[r].pc = "store"
  /\ file' = [file EXCEPT ![q[r].key] = [whole |-> TRUE, of |-> q[r].asked, left |-> CacheSecs]]
  /\ Leave(r) /\ Finish(r, q[r].asked)
  /\ UNCHANGED <<NetDisable, entryVars, ban, rateM, since>>

-----------------------------------------------------------------------------
(* The application and the clock *)

\* From now on the net is disabled.
SetNetDisable ==
  /\ ~NetDisable /\ NetDisable' = TRUE
  /\ UNCHANGED <<entryVars, slots, ban, rateM, since, file, q, spared>>

Less(n) == IF n > 0 THEN n - 1 ELSE 0

Tick ==
  /\ ban' = [h \in Hosts |-> Less(ban[h])]
  /\ q' = [r \in Requests |-> [q[r] EXCEPT !.left = Less(@)]]
  /\ file' = [k \in FileKeys |-> [file[k] EXCEPT !.left = Less(@)]]
  /\ since' = IF since < RateLimit THEN since + 1 ELSE since
  /\ UNCHANGED <<NetDisable, entryVars, slots, rateM, spared>>

-----------------------------------------------------------------------------

RequestStep(r) ==
  \/ SetUrl(r) \/ SetRawHost(r) \/ Try(r)
  \/ GetFlow(r) \/ TakeSlot(r) \/ LookBan(r) \/ LockRate(r) \/ Pace(r)
  \/ Sign(r) \/ Answer(r) \/ Fail(r) \/ NetFail(r) \/ Banned(r)
  \/ CreateFile(r) \/ StoreFile(r)

Next ==
  \/ SetNetDisable \/ Tick
  \/ \E r \in Requests : Call(r) \/ RequestStep(r)

Spec == Init /\ [][Next]_vars

-----------------------------------------------------------------------------

\* While a Retry-After is running, nothing is on its way to the host but what had
\* a slot already when it was set: not a request queued for a slot, not a retry.
BanRespected ==
  \A r \in Requests : q[r].pc = "http" /\ ban[q[r].at] > 0 => r \in spared

\* An answer, from the exchange or from a file that other calls are writing, is the
\* answer to what the caller asked.
OwnAnswer ==
  \A r \in Requests : q[r].pc = "done" /\ q[r].res # "error" => q[r].res = q[r].asked

\* A channel holds one value for each call between taking and giving back a slot:
\* whatever fails, bans or retries there are, no slot is lost and none given twice.
\* So, as biz.go:1184 says ("Same host, default concurrent 3 times at the same time"),
\* no host has more requests on their way than its channel has places.
SlotsGivenBack ==
  /\ \A h \in Hosts : slots[h] = Cardinality({r \in Requests : HoldsSlot(r) /\ q[r].sem = h})
  /\ \A h \in Hosts :
       Cardinality({r \in Requests : q[r].pc = "http" /\ q[r].at = h}) <= HostHttpConcurr
=============================================================================
