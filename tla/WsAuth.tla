--------------------------------- MODULE WsAuth ---------------------------------
(***************************************************************************)
(* Login on a private WebSocket of okx (okx/ws_biz.go) and of bybit        *)
(* (bybit/ws_client.go).                                                   *)
(*                                                                         *)
(* Watch calls run wsLogin: one of them registers a channel in WsAuthDone, *)
(* sends the request and waits, the others wait on its channel.  The read  *)
(* goroutine handles the answer, and after a reconnection it stores the    *)
(* keys of the connection in WsPendingRecons and logs in again without     *)
(* waiting; the answer restores the keys.  WsAuthLock protects the three   *)
(* maps: a section under it is one step.                                   *)
(*                                                                         *)
(* The client has one connection here, and its out queue survives a        *)
(* reconnection, but for a message that was just being written (WsConn).   *)
(***************************************************************************)
EXTENDS Naturals, Sequences, FiniteSets, Functions

CONSTANTS
  Callers,     \* goroutines that call Watch* of a private stream
  Chans,       \* identities of the channels wsLogin makes
  Keys,        \* private topics
  MaxCalls,    \* bound on the Watch calls
  MaxLost,     \* bound on the lost connections
  MaxRefused,  \* bound on the logins the exchange refuses
  None

ASSUME Assumption ==
  /\ MaxCalls \in Nat /\ MaxLost \in Nat /\ MaxRefused \in Nat
  /\ None \notin Chans /\ \A S \in SUBSET Keys : S # None

VARIABLES
  bybit,       \* the exchange: bybit or okx
  authed,      \* WsAuthed[client.Key]
  done,        \* WsAuthDone[client.Key]
  pending,     \* the keys of WsPendingRecons[client.Key]
  made,        \* channels made
  box,         \* content of each channel
  pc, ch, res, \* of the callers: position, channel, last answer
  cleaners,    \* goroutines that will delete WsAuthDone[client.Key] (500 ms)
  restoring,   \* key sets restorePendingSubscriptions is about to write
  reader,      \* "read", "recon" (connection lost), "relogin"
  subKeys,     \* SubscribeKeys
  up, loggedIn, subs,        \* the connection, as the exchange has it
  out, in,     \* requests under way to the exchange, answers under way back
  calls, lost, refusals,     \* counters behind the bounds
  refused,     \* ghost: the exchange refused something on this connection
  stale,       \* ghost: WsAuthed was set, or kept, for a connection that is gone
  cut          \* ghost: channels somebody else's delete took out of WsAuthDone

authVars == <<authed, done, pending>>
boxVars  == <<made, box>>
callVars == <<pc, ch, res>>
connVars == <<up, loggedIn, subs>>
ghosts   == <<refused, stale, cut>>
bounds   == <<calls, lost, refusals>>
vars == <<bybit, authVars, boxVars, callVars, cleaners, restoring, reader, subKeys,
          connVars, out, in, bounds, ghosts>>

LoginReq  == [op |-> "login", keys |-> {}]
SubReq(S) == [op |-> "subscribe", keys |-> S]

Init ==
  /\ bybit \in BOOLEAN
  /\ authed = FALSE /\ done = None /\ pending = None
  /\ made = {} /\ box = [x \in Chans |-> << >>]
  /\ pc = [c \in Callers |-> "idle"]
  /\ ch = [c \in Callers |-> None]
  /\ res = [c \in Callers |-> "none"]
  /\ cleaners = 0 /\ restoring = {} /\ reader = "read" /\ subKeys = {}
  /\ up = TRUE /\ loggedIn = FALSE /\ subs = {}
  /\ out = << >> /\ in = << >>
  /\ calls = 0 /\ lost = 0 /\ refusals = 0
  /\ refused = FALSE /\ stale = FALSE /\ cut = {}

Go(c, p) == pc' = [pc EXCEPT ![c] = p]

-------------------------------------------------------------------------------
\* wsLogin, and the subscription of the Watch call around it

\* wsLogin's first section: logged in already, or one to wait for, or the first.
Ask(c) ==
  /\ pc[c] = "idle" /\ calls < MaxCalls
  /\ calls' = calls + 1
  /\ res' = [res EXCEPT ![c] = "none"]
  /\ \/ /\ authed
        /\ Go(c, "sub")
        /\ UNCHANGED <<done, made, ch>>
     \/ /\ ~authed /\ done # None
        /\ Go(c, "wait") /\ ch' = [ch EXCEPT ![c] = done]
        /\ UNCHANGED <<done, made>>
     \/ /\ ~authed /\ done = None
        /\ \E x \in Chans \ made :
             made' = made \cup {x} /\ done' = x /\ ch' = [ch EXCEPT ![c] = x]
        /\ Go(c, "send")
  /\ UNCHANGED <<bybit, authed, pending, box, cleaners, restoring, reader, subKeys,
                 connVars, out, in, lost, refusals, ghosts>>

Send(c) ==
  /\ pc[c] = "send" /\ Go(c, "await")
  /\ out' = Append(out, LoginReq)
  /\ UNCHANGED <<bybit, authVars, boxVars, ch, res, cleaners, restoring, reader, subKeys,
                 connVars, in, bounds, ghosts>>

\* What delete(WsAuthDone, client.Key) takes away from others.
Delete(own) ==
  /\ done' = None
  /\ cut' = cut \cup ({done} \ {own, None})

\* No connection, or it takes no message.
SendFail(c) ==
  /\ pc[c] = "send" /\ Go(c, "idle")
  /\ res' = [res EXCEPT ![c] = "error"]
  /\ Delete(ch[c])
  /\ UNCHANGED <<bybit, authed, pending, boxVars, ch, cleaners, restoring, reader, subKeys,
                 connVars, out, in, bounds, refused, stale>>

\* The caller that sent the request gets the answer.  okx deletes the channel
\* half a second later, bybit leaves that to the handler.
Receive(c) ==
  /\ pc[c] = "await" /\ box[ch[c]] # << >>
  /\ box' = [box EXCEPT ![ch[c]] = Tail(@)]
  /\ res' = [res EXCEPT ![c] = Head(box[ch[c]])]
  /\ Go(c, IF res'[c] = "ok" THEN "mark" ELSE "idle")
  /\ cleaners' = IF bybit \/ res'[c] = "ok" THEN cleaners ELSE cleaners + 1
  /\ UNCHANGED <<bybit, authVars, made, ch, restoring, reader, subKeys,
                 connVars, out, in, bounds, ghosts>>

Mark(c) ==
  /\ pc[c] = "mark" /\ Go(c, "sub")
  /\ authed' = TRUE
  /\ stale' = (stale \/ ~authed)
  /\ cleaners' = IF bybit THEN cleaners ELSE cleaners + 1
  /\ UNCHANGED <<bybit, done, pending, boxVars, ch, res, restoring, reader, subKeys,
                 connVars, out, in, bounds, refused, cut>>

Timeout(c) ==
  /\ pc[c] = "await" /\ Go(c, "forget")
  /\ UNCHANGED <<bybit, authVars, boxVars, ch, res, cleaners, restoring, reader, subKeys,
                 connVars, out, in, bounds, ghosts>>

Forget(c) ==
  /\ pc[c] = "forget" /\ Go(c, "idle")
  /\ res' = [res EXCEPT ![c] = "timeout"]
  /\ Delete(ch[c])
  /\ UNCHANGED <<bybit, authed, pending, boxVars, ch, cleaners, restoring, reader, subKeys,
                 connVars, out, in, bounds, refused, stale>>

Clean ==
  /\ cleaners > 0 /\ cleaners' = cleaners - 1
  /\ Delete(None)
  /\ UNCHANGED <<bybit, authed, pending, boxVars, callVars, restoring, reader, subKeys,
                 connVars, out, in, bounds, refused, stale>>

\* A caller that waits for the login of another takes the answer ...
WaitReceive(c) ==
  /\ pc[c] = "wait" /\ box[ch[c]] # << >>
  /\ box' = [box EXCEPT ![ch[c]] = Tail(@)]
  /\ res' = [res EXCEPT ![c] = Head(box[ch[c]])]
  /\ Go(c, "putback")
  /\ UNCHANGED <<bybit, authVars, made, ch, cleaners, restoring, reader, subKeys,
                 connVars, out, in, bounds, ghosts>>

\* Fault: the answer is not put back.
PutBackNot(c) ==
  /\ pc[c] = "putback"
  /\ Go(c, IF res[c] = "ok" THEN "sub" ELSE "idle")
  /\ UNCHANGED <<bybit, authVars, boxVars, ch, res, cleaners, restoring, reader, subKeys,
                 connVars, out, in, bounds, ghosts>>

\* ... and puts it back for the next.
PutBack(c) ==
  /\ pc[c] = "putback"
  /\ box' = [box EXCEPT ![ch[c]] = Append(@, res[c])]
  /\ Go(c, IF res[c] = "ok" THEN "sub" ELSE "idle")
  /\ UNCHANGED <<bybit, authVars, made, ch, res, cleaners, restoring, reader, subKeys,
                 connVars, out, in, bounds, ghosts>>

WaitTimeout(c) ==
  /\ pc[c] = "wait" /\ Go(c, "idle")
  /\ res' = [res EXCEPT ![c] = "timeout"]
  /\ UNCHANGED <<bybit, authVars, boxVars, ch, cleaners, restoring, reader, subKeys,
                 connVars, out, in, bounds, ghosts>>

Subscribe(c) ==
  /\ pc[c] = "sub" /\ Go(c, "idle")
  /\ \E k \in Keys :
       subKeys' = subKeys \cup {k} /\ out' = Append(out, SubReq({k}))
  /\ UNCHANGED <<bybit, authVars, boxVars, ch, res, cleaners, restoring, reader,
                 connVars, in, bounds, ghosts>>

-------------------------------------------------------------------------------
\* The read goroutine

\* Fault: the channel stays in WsAuthDone.
NotifyKeeps(r) ==
  /\ box' = IF done = None THEN box ELSE [box EXCEPT ![done] = Append(@, r)]
  /\ UNCHANGED done
Notify(r) ==
  /\ box' = IF done = None THEN box ELSE [box EXCEPT ![done] = Append(@, r)]
  /\ done' = None

Handling(answers) == reader = "read" /\ in # << >> /\ Head(in) \in answers /\ in' = Tail(in)

\* The answer to a login, whoever sent it.
HandleLogin ==
  /\ Handling({"ok", "fail"})
  /\ authed' = (authed \/ Head(in) = "ok")
  /\ pending' = None
  /\ Notify(Head(in))
  /\ restoring' = IF Head(in) = "ok" /\ pending \notin {None, {}}
                  THEN restoring \cup {pending} ELSE restoring
  /\ UNCHANGED <<bybit, made, callVars, cleaners, reader, subKeys, connVars, out,
                 bounds, ghosts>>

\* The answer to a subscription without login: okx takes it for that of a login.
HandleError ==
  /\ Handling({"denied"})
  /\ IF bybit THEN UNCHANGED <<box, done>> ELSE Notify("fail")
  /\ UNCHANGED <<bybit, authed, pending, made, callVars, cleaners, restoring, reader,
                 subKeys, connVars, out, bounds, ghosts>>

\* Fault: the new connection counts as logged in.
ResetLate == pending' = subKeys /\ UNCHANGED authed
\* Fault: the keys are not kept for the answer.
ResetOnly == authed' = FALSE /\ UNCHANGED pending
\* The section of OnReConn.
Reset == authed' = FALSE /\ pending' = subKeys

\* ReadMsg dials again and calls OnReConn.  bybit's does nothing without keys.
ReConn ==
  /\ reader = "recon" /\ up' = TRUE
  /\ \/ /\ bybit /\ subKeys = {}
        /\ reader' = "read" /\ stale' = (stale \/ authed)
        /\ UNCHANGED <<authed, pending>>
     \/ /\ ~bybit \/ subKeys # {}
        /\ Reset
        /\ reader' = "relogin" /\ stale' = FALSE
  /\ UNCHANGED <<bybit, done, boxVars, callVars, cleaners, restoring, subKeys, loggedIn,
                 subs, out, in, bounds, refused, cut>>

ReLogin ==
  /\ reader = "relogin" /\ reader' = "read"
  /\ out' = Append(out, LoginReq)
  /\ UNCHANGED <<bybit, authVars, boxVars, callVars, cleaners, restoring, subKeys,
                 connVars, in, bounds, ghosts>>

Restore ==
  /\ \E S \in restoring :
       /\ restoring' = restoring \ {S}
       /\ subKeys' = subKeys \cup S
       /\ out' = Append(out, SubReq(S))
  /\ UNCHANGED <<bybit, authVars, boxVars, callVars, cleaners, reader,
                 connVars, in, bounds, ghosts>>

-------------------------------------------------------------------------------
\* The exchange and the network

Serve(ok) ==
  /\ up /\ out # << >> /\ out' = Tail(out)
  /\ \/ /\ Head(out).op = "login" /\ (ok \/ refusals < MaxRefused)
        /\ loggedIn' = (loggedIn \/ ok)
        /\ in' = Append(in, IF ok THEN "ok" ELSE "fail")
        /\ refusals' = IF ok THEN refusals ELSE refusals + 1
        /\ refused' = (refused \/ ~ok)
        /\ UNCHANGED subs
     \/ /\ Head(out).op = "subscribe" /\ ok = loggedIn
        /\ subs' = IF ok THEN subs \cup Head(out).keys ELSE subs
        /\ in' = IF ok THEN in ELSE Append(in, "denied")
        /\ refused' = (refused \/ ~ok)
        /\ UNCHANGED <<loggedIn, refusals>>
  /\ UNCHANGED <<bybit, authVars, boxVars, callVars, cleaners, restoring, reader, subKeys,
                 up, calls, lost, stale, cut>>

\* The connection breaks, perhaps under the message that is being written.
Lose ==
  /\ up /\ reader = "read" /\ lost < MaxLost
  /\ lost' = lost + 1
  /\ up' = FALSE /\ loggedIn' = FALSE /\ subs' = {} /\ in' = << >>
  /\ out' \in {out} \cup (IF out = << >> THEN {} ELSE {Tail(out)})
  /\ refused' = (out' # out)
  /\ reader' = "recon"
  /\ UNCHANGED <<bybit, authVars, boxVars, callVars, cleaners, restoring, subKeys,
                 calls, refusals, stale, cut>>

-------------------------------------------------------------------------------

CallerStep(c) ==
  \/ Ask(c) \/ Send(c) \/ SendFail(c) \/ Receive(c) \/ Mark(c) \/ Timeout(c) \/ Forget(c)
  \/ WaitReceive(c) \/ PutBack(c) \/ WaitTimeout(c) \/ Subscribe(c)

ReaderStep == HandleLogin \/ HandleError \/ ReConn \/ ReLogin

Next ==
  \/ \E c \in Callers : CallerStep(c)
  \/ ReaderStep \/ Clean \/ Restore \/ Lose
  \/ \E ok \in BOOLEAN : Serve(ok)

Spec == Init /\ [][Next]_vars
-------------------------------------------------------------------------------
\* Properties

Answers  == {"ok", "fail"}
Events   == Answers \cup {"denied"}
Requests == [op : {"login", "subscribe"}, keys : SUBSET Keys]

\* Every variable has its type.
TypeOK ==
  /\ bybit \in BOOLEAN /\ authed \in BOOLEAN /\ up \in BOOLEAN /\ loggedIn \in BOOLEAN
  /\ refused \in BOOLEAN /\ stale \in BOOLEAN
  /\ done \in made \cup {None} /\ made \subseteq Chans /\ cut \subseteq made
  /\ pending \in (SUBSET Keys) \cup {None}
  /\ box \in [Chans -> Seq(Answers)]
  /\ pc \in [Callers -> {"idle", "send", "await", "mark", "forget", "wait", "putback", "sub"}]
  /\ ch \in [Callers -> Chans \cup {None}]
  /\ res \in [Callers -> Answers \cup {"none", "error", "timeout"}]
  /\ cleaners \in Nat /\ restoring \subseteq SUBSET Keys
  /\ reader \in {"read", "recon", "relogin"}
  /\ subKeys \subseteq Keys /\ subs \subseteq Keys
  /\ out \in Seq(Requests) /\ in \in Seq(Events)

\* A login channel never holds more than one answer, however many callers wait,
\* time out and put answers back and however many answers come: the handler, which
\* sends with WsAuthLock held, cannot block on its ten places.
Holds(c, x) == pc[c] = "putback" /\ ch[c] = x
OneAnswer ==
  \A x \in Chans :
    /\ Len(box[x]) <= 1
    /\ \A c \in Callers : Holds(c, x) =>
         box[x] = << >> /\ \A d \in Callers : Holds(d, x) => d = c

\* Why: a channel in WsAuthDone has had no answer, and the handler that sends the
\* first one takes it out; a channel that is not made yet is nobody's.
Unanswered(x) == box[x] = << >> /\ \A c \in Callers : ~Holds(c, x)
Fresh ==
  /\ done # None => Unanswered(done)
  /\ \A x \in Chans \ made : box[x] = << >>
  /\ \A c \in Callers :
       /\ ch[c] \in made \cup {None}
       /\ pc[c] \in {"send", "await", "wait", "putback"} => ch[c] # None
       /\ pc[c] = "putback" => res[c] \in Answers

\* WsAuthed says of the connection in use that the exchange has accepted a login
\* on it, so that a Watch call that skips the login may subscribe; unless a caller
\* marked it from an answer older than the connection, or bybit reconnected with no key.
AuthedIsLoggedIn == authed /\ ~stale => loggedIn \/ reader = "recon"

\* However often the connection is lost and whichever login is answered first, all
\* keys come back on the connection in use: when nothing is under way any more, the
\* exchange has every key of SubscribeKeys, unless it refused a request on this
\* connection or a request was lost with the last one.
AtRest ==
  /\ up /\ reader = "read" /\ in = << >> /\ out = << >> /\ restoring = {}
  /\ \A c \in Callers : pc[c] = "idle"
KeysRestored == AtRest /\ ~refused => subKeys \subseteq subs

\* The caller that sent the login can still be answered while it waits: the handler
\* finds its channel, or the answer is in the channel or with a caller that is
\* going to put it back; unless another caller's delete took the channel away.
OwnerAnswerable ==
  \A c \in Callers : pc[c] = "await" /\ ch[c] \notin cut =>
    \/ done = ch[c]
    \/ box[ch[c]] # << >>
    \/ \E w \in Callers : pc[w] = "putback" /\ ch[w] = ch[c]

-------------------------------------------------------------------------------
\* Why they hold: what is still under way, and with whom

\* A yes is on its way only over the connection that is logged in.
YesIsTrue == "ok" \in Range(in) => loggedIn

\* A login that will be answered, or has been and the handler has not seen it.
LoginUnderWay == reader = "relogin" \/ LoginReq \in Range(out) \/ "ok" \in Range(in)

\* The exchange has the key, or a request for it waits, or is about to be written,
\* or comes with the answer to the login.
Covered(k) ==
  \/ k \in subs
  \/ \E S \in SUBSET Keys : SubReq(S) \in Range(out) /\ k \in S
  \/ \E S \in restoring : k \in S
  \/ pending # None /\ k \in pending /\ LoginUnderWay
KeysCovered ==
  /\ Range(in) \ {"ok"} # {} => refused
  /\ Range(out) \subseteq {LoginReq} \cup {SubReq(S) : S \in SUBSET Keys}
  /\ refused \/ reader = "recon" \/ \A k \in subKeys : Covered(k)

\* A channel has one owner, the caller that made it, until it gives the login up.
Owner(c) == pc[c] \in {"send", "await", "forget"}
Answerable(x) ==
  \/ done = x
  \/ box[x] # << >>
  \/ \E w \in Callers : Holds(w, x)
Owned ==
  \A c \in Callers : Owner(c) =>
    /\ ch[c] \in made
    /\ \A d \in Callers : Owner(d) /\ ch[d] = ch[c] => d = c
    /\ ch[c] \in cut \/ pc[c] = "forget" \/ Answerable(ch[c])

UnderWay == YesIsTrue /\ AuthedIsLoggedIn /\ KeysCovered /\ Owned

\* What every step keeps.
IInv == TypeOK /\ OneAnswer /\ Fresh /\ UnderWay
=================================================================================
