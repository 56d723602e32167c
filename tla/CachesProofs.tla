------------------------------ MODULE CachesProofs ------------------------------
(***************************************************************************)
(* Proofs about Leverage and Holdings, as Caches puts them together, and   *)
(* about MarketLoader: for every set of accounts, symbols, currencies,     *)
(* objects, callers and goroutines and every value of the bounds, what the *)
(* library keeps of an account is what the exchange has, once everything   *)
(* under way has arrived; what it answers of tiers is of the tier a value  *)
(* is in; and an object has the currency of the same fetch for every code  *)
(* its markets were fetched with.                                          *)
(***************************************************************************)
EXTENDS Caches, TLAPS, SequenceTheorems, FiniteSetTheorems, WellFoundedInduction

-------------------------------------------------------------------------------
(* The calls of Leverage.                                                  *)

\* A call goes to its next step.
LEMMA StepTyped ==
  ASSUME NEW r, TypedCall(r), r.s \in Syms, NEW st, st \in {"read", "fetch"},
         st = "fetch" => r.op = "get",
         NEW q, q = [r EXCEPT !.st = st]
  PROVE  TypedCall(q) /\ q.st = st /\ q.op = r.op /\ q.a = r.a /\ q.s = r.s
<1>1. r \in LevRecords(r.max, r.from)
  BY DEF TypedCall
<1>2. q \in LevRecords(r.max, r.from) /\ q.st = st /\ q.s = r.s /\ q.x = r.x /\ q.max = r.max
      /\ q.from = r.from /\ q.op = r.op /\ q.a = r.a
  BY <1>1 DEF LevRecords
<1>3. QED
  BY <1>1, <1>2 DEF TypedCall

\* A call that is answered has no answer to store.
LEMMA AnswerTyped ==
  ASSUME NEW r, TypedCall(r), NEW q,
         q = [r EXCEPT !.st = "answered", !.a = DefName, !.l = 0, !.n = 0]
  PROVE  TypedCall(q) /\ q.st = "answered"
<1>1. r \in LevRecords(r.max, r.from)
  BY DEF TypedCall
<1>2. q \in LevRecords(r.max, r.from) /\ q.st = "answered" /\ q.max = r.max /\ q.from = r.from
  BY <1>1, LeverageAssumption DEF LevRecords
<1>3. QED
  BY <1>2 DEF TypedCall

-------------------------------------------------------------------------------
(* What is kept: the cache never has more than what was said of a pair.    *)

Latest(p) ==
  /\ newest[p] <= nth[p] /\ lev[p] \in had[p] \cup {0}
  /\ newest[p] = nth[p] => lev[p] \in {0, xlev[p]} \/ p \in crossed
Coming(p) ==
  \/ newest[p] = nth[p]
  \/ \E i \in DOMAIN feed[p[1]] : feed[p[1]][i].s = p[2] /\ feed[p[1]][i].n = nth[p]

LevInv == LevTypeOK /\ SaidTrue /\ SoundCalls /\ NewestComes /\ ShownIsHeld

\* NewestComes, one pair at a time.
LEMMA ByPair ==
  /\ NewestComes <=> \A p \in Pairs : p[1] \notin borrowed => Latest(p) /\ Coming(p)
  /\ NewestComes' <=> \A p \in Pairs : p[1] \notin borrowed' => Latest(p)' /\ Coming(p)'
BY DEF NewestComes, Latest, Coming

\* An account and a symbol make a pair.
LEMMA PairOf ==
  ASSUME NEW a \in Names, NEW s \in Syms
  PROVE  <<a, s>> \in Pairs /\ <<a, s>>[1] = a /\ <<a, s>>[2] = s
BY DEF Pairs

\* What was said stays true when the exchange changes a leverage.
LEMMA SaysKept ==
  ASSUME LevTypeOK, NEW a \in Names, NEW s \in Syms, NEW l \in Levs, Changed(a, s, l),
         NEW k, k = nth[<<a, s>>] + 1
  PROVE  /\ \A p \in Pairs, m, n \in Nat : Says(p, m, n) => Says(p, m, n)'
         /\ Says(<<a, s>>, l, k)' /\ nth'[<<a, s>>] = k /\ k \in Nat
         /\ xlev'[<<a, s>>] = l
         /\ \A p \in Pairs : p # <<a, s>> => nth'[p] = nth[p] /\ xlev'[p] = xlev[p] /\ had'[p] = had[p]
         /\ \A p \in Pairs : had[p] \subseteq had'[p]
         /\ xlev' \in [Pairs -> Nat] /\ nth' \in [Pairs -> Nat] /\ had' \in [Pairs -> SUBSET Nat]
<1>1. PICK q : q = <<a, s>>
  OBVIOUS
<1>2. q \in Pairs /\ l \in Nat
  BY <1>1, PairOf, LeverageAssumption
<1>3. /\ xlev \in [Pairs -> Nat] /\ nth \in [Pairs -> Nat] /\ had \in [Pairs -> SUBSET Nat]
  BY DEF LevTypeOK
<1>4. /\ xlev' = [xlev EXCEPT ![q] = l] /\ nth' = [nth EXCEPT ![q] = @ + 1]
      /\ had' = [had EXCEPT ![q] = @ \cup {l}]
  BY <1>1 DEF Changed
<1>5. xlev'[q] = l /\ nth'[q] = nth[q] + 1 /\ had'[q] = had[q] \cup {l}
  BY <1>2, <1>3, <1>4
<1>6. \A p \in Pairs : p # q => nth'[p] = nth[p] /\ xlev'[p] = xlev[p] /\ had'[p] = had[p]
  BY <1>3, <1>4
<1>7. \A p \in Pairs, m, n \in Nat : Says(p, m, n) => Says(p, m, n)'
  <2> SUFFICES ASSUME NEW p \in Pairs, NEW m \in Nat, NEW n \in Nat, Says(p, m, n)
               PROVE  Says(p, m, n)'
    OBVIOUS
  <2>1. m \in had[p] \cup {0} /\ n <= nth[p] /\ (n = nth[p] => m = xlev[p]) /\ nth[p] \in Nat
    BY <1>3 DEF Says
  <2>2. CASE p = q
    BY <1>5, <2>1, <2>2 DEF Says
  <2>3. CASE p # q
    BY <1>6, <2>1, <2>3 DEF Says
  <2>4. QED
    BY <2>2, <2>3
<1>8. Says(q, l, k)' /\ nth'[q] = k /\ k \in Nat
  BY <1>1, <1>2, <1>3, <1>5 DEF Says
<1>9. /\ xlev' \in [Pairs -> Nat] /\ nth' \in [Pairs -> Nat] /\ had' \in [Pairs -> SUBSET Nat]
  BY <1>2, <1>3, <1>4
<1>10. \A p \in Pairs : had[p] \subseteq had'[p]
  BY <1>5, <1>6
<1>11. QED
  BY <1>1, <1>5, <1>6, <1>7, <1>8, <1>9, <1>10

\* The records of the calls are sound after a step of one of them.
LEMMA CallsSound ==
  ASSUME LevTypeOK, SoundCalls, NEW c \in LevCallers, NEW r, TypedCall(r), TrueCall(r)',
         NamedCall(r)', lcall' = [lcall EXCEPT ![c] = r],
         \A p \in Pairs, m, n \in Nat : Says(p, m, n) => Says(p, m, n)',
         borrowed \subseteq borrowed', lexg' = lexg
  PROVE  SoundCalls' /\ lcall' = [d \in LevCallers |-> lcall'[d]]
<1>1. lcall = [d \in LevCallers |-> lcall[d]]
  BY DEF LevTypeOK
<1>2. lcall'[c] = r /\ \A d \in LevCallers : d # c => lcall'[d] = lcall[d]
  BY <1>1
<1>3. lcall' = [d \in LevCallers |-> lcall'[d]]
  BY <1>1
<1>4. ASSUME NEW d \in LevCallers
      PROVE  TypedCall(lcall'[d]) /\ TrueCall(lcall[d])' /\ NamedCall(lcall[d])'
  <2>1. CASE d = c
    <3>1. TrueCall(lcall[d])'
      BY <1>2, <2>1 DEF TrueCall
    <3>2. NamedCall(lcall[d])'
      BY <1>2, <2>1 DEF NamedCall
    <3>3. QED
      BY <1>2, <2>1, <3>1, <3>2
  <2>2. CASE d # c
    <3>1. PICK q : q = lcall[d]
      OBVIOUS
    <3>2. TypedCall(q) /\ TrueCall(q) /\ NamedCall(q) /\ lcall'[d] = q
      BY <1>2, <2>2, <3>1 DEF SoundCalls
    <3>3. TrueCall(q)'
      <4>1. q.l \in Nat /\ q.n \in Nat /\ q.a \in Names
            /\ (q.st \in {"set", "store"} => q.s \in Syms)
        BY <3>2 DEF TypedCall, LevRecords
      <4>2. q.st \in {"set", "store"} => <<q.a, q.s>> \in Pairs
        BY <4>1, PairOf
      <4>3. QED
        BY <3>2, <4>1, <4>2 DEF TrueCall
    <3>4. NamedCall(q)'
      BY <3>2 DEF NamedCall
    <3>5. QED
      BY <3>2, <3>3, <3>4 DEF TrueCall, NamedCall
  <2>3. QED
    BY <2>1, <2>2
<1>5. QED
  BY <1>3, <1>4 DEF SoundCalls, TypedCall

-------------------------------------------------------------------------------
(* The kinds of step.                                                      *)

\* What a store makes of the cache.
LEMMA StoreFacts ==
  ASSUME LevTypeOK, NEW a \in Names, NEW s \in Syms, NEW l \in Nat, NEW n \in Nat,
         StoreLev(a, s, l, n), UNCHANGED <<xlev, nth, had>>,
         NEW q, q = <<a, s>>
  PROVE  /\ lev' \in [Pairs -> Nat] /\ newest' \in [Pairs -> Nat] /\ crossed' \subseteq Pairs
         /\ q \in Pairs /\ lev'[q] = l /\ newest'[q] \in {n, newest[q]} /\ newest'[q] >= n
         /\ newest'[q] >= newest[q]
         /\ \A p \in Pairs : p # q => lev'[p] = lev[p] /\ newest'[p] = newest[p]
         /\ \A p \in Pairs : p # q /\ Latest(p) => Latest(p)'
         /\ Says(q, l, n) /\ Latest(q) => Latest(q)'
<1>1. lev \in [Pairs -> Nat] /\ newest \in [Pairs -> Nat] /\ crossed \subseteq Pairs
      /\ q \in Pairs /\ nth \in [Pairs -> Nat] /\ newest[q] \in Nat /\ nth[q] \in Nat
  BY PairOf DEF LevTypeOK
<1>2. /\ lev' = [lev EXCEPT ![q] = l]
      /\ newest' = [newest EXCEPT ![q] = IF n < newest[q] THEN newest[q] ELSE n]
      /\ crossed' = IF n < newest[q] THEN crossed \cup {q} ELSE crossed \ {q}
  BY DEF StoreLev
<1>3. lev'[q] = l /\ newest'[q] = IF n < newest[q] THEN newest[q] ELSE n
  BY <1>1, <1>2
<1>4. \A p \in Pairs : p # q => lev'[p] = lev[p] /\ newest'[p] = newest[p]
                                 /\ (p \in crossed' <=> p \in crossed)
  BY <1>1, <1>2
<1>5. lev' \in [Pairs -> Nat] /\ newest' \in [Pairs -> Nat] /\ crossed' \subseteq Pairs
  BY <1>1, <1>2
<1>6. xlev' = xlev /\ nth' = nth /\ had' = had
  OBVIOUS
<1>7. \A p \in Pairs : p # q /\ Latest(p) => Latest(p)'
  BY <1>4, <1>6 DEF Latest
<1>8. ASSUME Says(q, l, n), Latest(q) PROVE Latest(q)'
  <2>1. CASE n < newest[q]
    <3>1. q \in crossed'
      BY <1>2, <2>1
    <3>2. QED
      BY <1>1, <1>3, <1>6, <1>8, <2>1, <3>1 DEF Latest, Says
  <2>2. CASE ~(n < newest[q])
    BY <1>1, <1>3, <1>6, <1>8, <2>2 DEF Latest, Says
  <2>3. QED
    BY <2>1, <2>2
<1>9. QED
  BY <1>1, <1>3, <1>4, <1>5, <1>7, <1>8

\* A step that leaves the exchange and the cache alone.
LEMMA QuietStep ==
  ASSUME LevInv, UNCHANGED <<lexg, xlev, nth, feed, lev, had, newest, crossed, shown, hidden>>,
         borrowed \subseteq borrowed', borrowed' \subseteq Names,
         SoundCalls', lcall' = [d \in LevCallers |-> lcall'[d]]
  PROVE  LevInv'
<1>1. LevTypeOK'
  BY DEF LevInv, LevTypeOK
<1>2. SaidTrue'
  BY DEF LevInv, SaidTrue, Says
<1>3. NewestComes'
  <2>1. \A p \in Pairs : p[1] \notin borrowed' => p[1] \notin borrowed
    OBVIOUS
  <2>2. QED
    BY <2>1 DEF LevInv, NewestComes
<1>4. ShownIsHeld'
  BY DEF LevInv, ShownIsHeld
<1>5. QED
  BY <1>1, <1>2, <1>3, <1>4 DEF LevInv

\* The exchange changes a leverage.
LEMMA ChangedStep ==
  ASSUME LevInv, NEW a \in Names, NEW s \in Syms, NEW l \in Levs, Changed(a, s, l),
         UNCHANGED <<lexg, lev, newest, crossed, borrowed, shown, hidden>>,
         SoundCalls', lcall' = [d \in LevCallers |-> lcall'[d]]
  PROVE  LevInv'
<1>1. PICK q : q = <<a, s>>
  OBVIOUS
<1>2. PICK k : k = nth[<<a, s>>] + 1
  OBVIOUS
<1>3. q \in Pairs /\ q[1] = a /\ q[2] = s /\ l \in Nat
  BY <1>1, PairOf, LeverageAssumption
<1>4. LevTypeOK /\ SaidTrue /\ NewestComes /\ ShownIsHeld
  BY DEF LevInv
<1>5. /\ \A p \in Pairs, m, n \in Nat : Says(p, m, n) => Says(p, m, n)'
      /\ Says(q, l, k)' /\ nth'[q] = k /\ k \in Nat /\ xlev'[q] = l
      /\ \A p \in Pairs : p # q => nth'[p] = nth[p] /\ xlev'[p] = xlev[p] /\ had'[p] = had[p]
      /\ \A p \in Pairs : had[p] \subseteq had'[p]
      /\ xlev' \in [Pairs -> Nat] /\ nth' \in [Pairs -> Nat] /\ had' \in [Pairs -> SUBSET Nat]
  BY <1>1, <1>2, <1>4, SaysKept
<1>6. PICK m : m = [s |-> s, l |-> l, n |-> k]
  OBVIOUS
<1>7. m \in LevMessages /\ m.s = s /\ m.l = l /\ m.n = k
  BY <1>3, <1>5, <1>6 DEF LevMessages
<1>8. feed \in [Names -> Seq(LevMessages)] /\ feed' = [feed EXCEPT ![a] = Append(@, m)]
  BY <1>2, <1>4, <1>6 DEF LevTypeOK, Changed
<1>9. PICK f : f = feed[a]
  OBVIOUS
<1>10. f \in Seq(LevMessages) /\ feed'[a] = Append(f, m) /\ \A b \in Names : b # a => feed'[b] = feed[b]
  BY <1>8, <1>9
<1>11. /\ \A i \in DOMAIN f : Append(f, m)[i] = f[i] /\ i \in DOMAIN Append(f, m) /\ f[i] \in LevMessages
       /\ \A i \in DOMAIN Append(f, m) : i \in DOMAIN f \/ Append(f, m)[i] = m
       /\ Len(f) + 1 \in DOMAIN Append(f, m) /\ Append(f, m)[Len(f) + 1] = m
       /\ Append(f, m) \in Seq(LevMessages)
  BY <1>7, <1>10
<1>12. LevTypeOK'
  <2>1. feed' \in [Names -> Seq(LevMessages)]
    BY <1>8, <1>9, <1>10, <1>11
  <2>2. QED
    BY <1>4, <1>5, <2>1 DEF LevTypeOK
<1>13. SaidTrue'
  <2>1. \A p \in Pairs : xlev'[p] \in had'[p] \cup {0}
    <3>1. xlev'[q] \in had'[q] \cup {0}
      BY <1>5 DEF Says
    <3>2. QED
      BY <1>4, <1>5, <3>1 DEF SaidTrue
  <2>2. ASSUME NEW b \in Names, NEW i \in DOMAIN feed'[b]
        PROVE  Says(<<b, feed[b][i].s>>, feed[b][i].l, feed[b][i].n)'
    <3>1. CASE b = a /\ feed'[b][i] = m
      BY <1>1, <1>5, <1>7, <3>1 DEF Says
    <3>2. CASE ~(b = a /\ feed'[b][i] = m)
      <4>1. i \in DOMAIN feed[b] /\ feed'[b][i] = feed[b][i] /\ feed[b][i] \in LevMessages
        <5>1. CASE b = a
          BY <1>9, <1>10, <1>11, <2>2, <3>2, <5>1
        <5>2. CASE b # a
          BY <1>8, <1>10, <2>2, <5>2
        <5>3. QED
          BY <5>1, <5>2
      <4>2. PICK e : e = feed[b][i]
        OBVIOUS
      <4>3. e.s \in Syms /\ e.l \in Nat /\ e.n \in Nat /\ <<b, e.s>> \in Pairs
        BY <4>1, <4>2, PairOf DEF LevMessages
      <4>4. Says(<<b, e.s>>, e.l, e.n)
        BY <1>4, <4>1, <4>2 DEF SaidTrue
      <4>5. Says(<<b, e.s>>, e.l, e.n)'
        BY <1>5, <4>3, <4>4
      <4>6. QED
        BY <4>1, <4>2, <4>5 DEF Says
    <3>3. QED
      BY <3>1, <3>2
  <2>3. QED
    BY <2>1, <2>2 DEF SaidTrue
<1>14. NewestComes'
  <2> SUFFICES ASSUME NEW p \in Pairs, p[1] \notin borrowed'
               PROVE  Latest(p)' /\ Coming(p)'
    BY ByPair
  <2>1. Latest(p) /\ Coming(p) /\ p[1] \in Names
    BY <1>4, ByPair DEF Pairs
  <2>2. CASE p = q
    <3>1. Coming(p)'
      <4>1. PICK i : i = Len(f) + 1
        OBVIOUS
      <4>2. i \in DOMAIN feed'[q[1]] /\ feed'[q[1]][i].s = q[2] /\ feed'[q[1]][i].n = nth'[q]
        BY <1>3, <1>5, <1>7, <1>10, <1>11, <4>1
      <4>3. QED
        BY <2>2, <4>2 DEF Coming
    <3>2. Latest(p)'
      <4>1. nth[q] \in Nat /\ newest[q] \in Nat /\ k = nth[q] + 1
        BY <1>1, <1>2, <1>3, <1>4 DEF LevTypeOK
      <4>2. newest'[q] = newest[q] /\ newest[q] <= nth[q] /\ newest'[q] # nth'[q] /\ newest'[q] <= nth'[q]
        BY <1>5, <2>1, <2>2, <4>1 DEF Latest
      <4>3. lev'[q] \in had'[q] \cup {0}
        BY <1>3, <1>5, <2>1, <2>2 DEF Latest
      <4>4. QED
        BY <2>2, <4>2, <4>3 DEF Latest
    <3>3. QED
      BY <3>1, <3>2
  <2>3. CASE p # q
    <3>1. Latest(p)'
      BY <1>5, <2>1, <2>3 DEF Latest
    <3>2. Coming(p)'
      <4>1. CASE newest[p] = nth[p]
        BY <1>5, <2>3, <4>1 DEF Coming
      <4>2. ASSUME NEW i \in DOMAIN feed[p[1]], feed[p[1]][i].s = p[2], feed[p[1]][i].n = nth[p]
            PROVE  Coming(p)'
        <5>1. i \in DOMAIN feed'[p[1]] /\ feed'[p[1]][i] = feed[p[1]][i]
          <6>1. CASE p[1] = a
            BY <1>9, <1>10, <1>11, <4>2, <6>1
          <6>2. CASE p[1] # a
            BY <1>10, <2>1, <4>2, <6>2
          <6>3. QED
            BY <6>1, <6>2
        <5>2. QED
          BY <1>5, <2>3, <4>2, <5>1 DEF Coming
      <4>3. QED
        BY <2>1, <4>1, <4>2 DEF Coming
    <3>3. QED
      BY <3>1, <3>2
  <2>4. QED
    BY <2>2, <2>3
<1>15. ShownIsHeld'
  BY <1>4 DEF ShownIsHeld
<1>16. QED
  BY <1>12, <1>13, <1>14, <1>15 DEF LevInv

\* A call stores an answer.
LEMMA StoreStep ==
  ASSUME LevInv, NEW a \in Names, NEW s \in Syms, NEW l \in Nat, NEW n \in Nat,
         StoreLev(a, s, l, n), a \notin borrowed => Says(<<a, s>>, l, n),
         hidden' = hidden \cup {<<a, s>>},
         UNCHANGED <<lexg, xlev, nth, feed, had, borrowed, shown>>,
         SoundCalls', lcall' = [d \in LevCallers |-> lcall'[d]]
  PROVE  LevInv'
<1>1. PICK q : q = <<a, s>>
  OBVIOUS
<1>2. LevTypeOK /\ SaidTrue /\ NewestComes /\ ShownIsHeld
  BY DEF LevInv
<1>3. q \in Pairs /\ q[1] = a
  BY <1>1, PairOf
<1>4. /\ lev' \in [Pairs -> Nat] /\ newest' \in [Pairs -> Nat] /\ crossed' \subseteq Pairs
      /\ q \in Pairs /\ lev'[q] = l /\ newest'[q] \in {n, newest[q]} /\ newest'[q] >= n
      /\ newest'[q] >= newest[q]
      /\ \A p \in Pairs : p # q => lev'[p] = lev[p] /\ newest'[p] = newest[p]
      /\ \A p \in Pairs : p # q /\ Latest(p) => Latest(p)'
      /\ Says(q, l, n) /\ Latest(q) => Latest(q)'
  BY <1>1, <1>2, StoreFacts
<1>5. LevTypeOK'
  BY <1>1, <1>2, <1>3, <1>4 DEF LevTypeOK
<1>6. SaidTrue'
  BY <1>2 DEF SaidTrue, Says
<1>7. NewestComes'
  <2> SUFFICES ASSUME NEW p \in Pairs, p[1] \notin borrowed' PROVE Latest(p)' /\ Coming(p)'
    BY ByPair
  <2>1. Latest(p) /\ Coming(p) /\ borrowed' = borrowed /\ feed' = feed /\ nth' = nth
    BY <1>2, ByPair
  <2>2. CASE p = q
    <3>1. Says(q, l, n)
      BY <1>1, <1>3, <2>1, <2>2
    <3>2. Latest(p)'
      BY <1>4, <2>1, <2>2, <3>1
    <3>3. newest[q] \in Nat /\ nth[q] \in Nat /\ newest'[q] \in Nat
      BY <1>2, <1>3, <1>4 DEF LevTypeOK
    <3>4. newest[q] = nth[q] => newest'[q] = nth'[q]
      BY <1>4, <2>1, <3>1, <3>3 DEF Says
    <3>5. Coming(p)'
      BY <2>1, <2>2, <3>4 DEF Coming
    <3>6. QED
      BY <3>2, <3>5
  <2>3. CASE p # q
    BY <1>4, <2>1, <2>3 DEF Coming
  <2>4. QED
    BY <2>2, <2>3
<1>8. ShownIsHeld'
  <2> SUFFICES ASSUME NEW p \in Pairs \ hidden' PROVE shown'[p] = lev'[p]
    BY DEF ShownIsHeld
  <2>1. p \in Pairs \ hidden /\ p # q
    BY <1>1
  <2>2. QED
    BY <1>2, <1>4, <2>1 DEF ShownIsHeld
<1>9. QED
  BY <1>5, <1>6, <1>7, <1>8 DEF LevInv

\* A message is stored, and shown unless the cache had it already.
LEMMA MessageStep ==
  ASSUME LevInv, NEW a \in Names, feed[a] # <<>>, NEW m, m = Head(feed[a]),
         Receive(a), StoreLev(a, m.s, m.l, m.n),
         UNCHANGED <<lexg, xlev, nth, had, borrowed, lcall>>,
         NEW q, q = <<a, m.s>>,
         \/ shown' = [shown EXCEPT ![q] = m.l] /\ hidden' \in {hidden, hidden \ {q}}
         \/ lev[q] = m.l /\ UNCHANGED <<shown, hidden>>
  PROVE  LevInv'
<1>1. LevTypeOK /\ SaidTrue /\ NewestComes /\ ShownIsHeld /\ SoundCalls
  BY DEF LevInv
<1>2. PICK f : f = feed[a]
  OBVIOUS
<1>3. f \in Seq(LevMessages) /\ f # <<>> /\ m = Head(f) /\ feed \in [Names -> Seq(LevMessages)]
      /\ feed' = [feed EXCEPT ![a] = Tail(f)]
  BY <1>1, <1>2 DEF LevTypeOK, Receive
<1>4. /\ m \in LevMessages /\ 1 \in DOMAIN f /\ m = f[1] /\ Tail(f) \in Seq(LevMessages)
      /\ \A i \in DOMAIN Tail(f) : i + 1 \in DOMAIN f /\ Tail(f)[i] = f[i + 1]
      /\ \A i \in DOMAIN f : i # 1 => i - 1 \in DOMAIN Tail(f) /\ Tail(f)[i - 1] = f[i]
  <2>1. Len(f) \in Nat /\ Len(f) > 0 /\ DOMAIN f = 1..Len(f) /\ m = f[1] /\ f[1] \in LevMessages
    BY <1>3
  <2>2. /\ Tail(f) \in Seq(LevMessages) /\ Len(Tail(f)) = Len(f) - 1
        /\ DOMAIN Tail(f) = 1..Len(f) - 1 /\ \A i \in 1..Len(f) - 1 : Tail(f)[i] = f[i + 1]
    BY <1>3, HeadTailProperties
  <2>3. ASSUME NEW i \in DOMAIN f, i # 1
        PROVE  i - 1 \in DOMAIN Tail(f) /\ Tail(f)[i - 1] = f[i]
    <3>1. i - 1 \in 1..Len(f) - 1 /\ (i - 1) + 1 = i
      BY <2>1, <2>3
    <3>2. QED
      BY <2>2, <3>1
  <2>4. QED
    BY <2>1, <2>2, <2>3
<1>5. m.s \in Syms /\ m.l \in Nat /\ m.n \in Nat
  BY <1>4 DEF LevMessages
<1>6. q \in Pairs /\ q[1] = a /\ q[2] = m.s
  BY <1>5, PairOf
<1>7. Says(q, m.l, m.n)
  BY <1>1, <1>2, <1>4 DEF SaidTrue
<1>8. /\ lev' \in [Pairs -> Nat] /\ newest' \in [Pairs -> Nat] /\ crossed' \subseteq Pairs
      /\ lev'[q] = m.l /\ newest'[q] \in {m.n, newest[q]} /\ newest'[q] >= m.n
      /\ newest'[q] >= newest[q]
      /\ \A p \in Pairs : p # q => lev'[p] = lev[p] /\ newest'[p] = newest[p]
      /\ \A p \in Pairs : p # q /\ Latest(p) => Latest(p)'
      /\ Says(q, m.l, m.n) /\ Latest(q) => Latest(q)'
  <2>1. ASSUME NEW s \in Syms, NEW l \in Nat, NEW n \in Nat, s = m.s, l = m.l, n = m.n
        PROVE  /\ lev' \in [Pairs -> Nat] /\ newest' \in [Pairs -> Nat] /\ crossed' \subseteq Pairs
               /\ q \in Pairs /\ lev'[q] = l /\ newest'[q] \in {n, newest[q]} /\ newest'[q] >= n
               /\ newest'[q] >= newest[q]
               /\ \A p \in Pairs : p # q => lev'[p] = lev[p] /\ newest'[p] = newest[p]
               /\ \A p \in Pairs : p # q /\ Latest(p) => Latest(p)'
               /\ Says(q, l, n) /\ Latest(q) => Latest(q)'
    BY SMTT(40), <1>1, <2>1, StoreFacts
  <2>2. QED
    BY <1>5, <2>1
<1>9. feed'[a] = Tail(f) /\ \A b \in Names : b # a => feed'[b] = feed[b]
  BY <1>3
<1>10. LevTypeOK'
  <2>1. feed' \in [Names -> Seq(LevMessages)]
    BY <1>3, <1>4
  <2>2. shown' \in [Pairs -> Nat] /\ hidden' \subseteq Pairs
    BY <1>1, <1>5 DEF LevTypeOK
  <2>3. QED
    BY <1>1, <1>8, <2>1, <2>2 DEF LevTypeOK
<1>11. SaidTrue'
  <2>1. ASSUME NEW b \in Names, NEW i \in DOMAIN feed'[b]
        PROVE  Says(<<b, feed[b][i].s>>, feed[b][i].l, feed[b][i].n)'
    <3>1. PICK j \in DOMAIN feed[b] : feed'[b][i] = feed[b][j]
      <4>1. CASE b = a
        <5>1. i \in DOMAIN Tail(f) /\ feed'[b] = Tail(f) /\ feed[b] = f
          BY <1>2, <1>9, <2>1, <4>1
        <5>2. QED
          BY <1>4, <5>1
      <4>2. CASE b # a
        BY <1>9, <2>1, <4>2
      <4>3. QED
        BY <4>1, <4>2
    <3>2. PICK e : e = feed[b][j]
      OBVIOUS
    <3>3. Says(<<b, e.s>>, e.l, e.n)
      BY <1>1, <3>2 DEF SaidTrue
    <3>4. QED
      BY <3>1, <3>2, <3>3 DEF Says
  <2>2. \A p \in Pairs : xlev'[p] \in had'[p] \cup {0}
    BY <1>1 DEF SaidTrue
  <2>3. QED
    BY <2>1, <2>2 DEF SaidTrue
<1>12. NewestComes'
  <2> SUFFICES ASSUME NEW p \in Pairs, p[1] \notin borrowed' PROVE Latest(p)' /\ Coming(p)'
    BY ByPair
  <2>1. Latest(p) /\ Coming(p) /\ borrowed' = borrowed /\ nth' = nth /\ p[1] \in Names
    BY <1>1, ByPair DEF Pairs
  <2>2. Latest(p)'
    BY <1>7, <1>8, <2>1
  <2>3. nth[p] \in Nat /\ newest[p] \in Nat /\ newest'[p] \in Nat
    BY <1>1, <1>8 DEF LevTypeOK
  <2>4. newest[p] = nth[p] => newest'[p] = nth'[p]
    <3>1. CASE p = q
      <4>1. m.n <= nth[p] /\ newest'[p] \in {m.n, newest[p]} /\ newest'[p] >= newest[p]
        BY <1>7, <1>8, <3>1 DEF Says
      <4>2. QED
        BY ONLY <1>5, <2>1, <2>3, <4>1
    <3>2. CASE p # q
      BY <1>8, <2>1, <3>2
    <3>3. QED
      BY <3>1, <3>2
  <2>5. ASSUME NEW i \in DOMAIN feed[p[1]], feed[p[1]][i].s = p[2], feed[p[1]][i].n = nth[p]
        PROVE  Coming(p)'
    <3>1. CASE p[1] # a
      <4>1. feed'[p[1]] = feed[p[1]]
        BY <1>9, <2>1, <3>1
      <4>2. QED
        BY <2>1, <2>5, <4>1 DEF Coming
    <3>2. CASE p[1] = a /\ i # 1
      <4>1. PICK j : j = i - 1
        OBVIOUS
      <4>2. j \in DOMAIN feed'[p[1]] /\ feed'[p[1]][j] = feed[p[1]][i]
        <5>1. i \in DOMAIN f /\ feed[p[1]][i] = f[i] /\ feed'[p[1]] = Tail(f)
          BY <1>2, <1>9, <2>5, <3>2
        <5>2. i - 1 \in DOMAIN Tail(f) /\ Tail(f)[i - 1] = f[i]
          BY <1>4, <3>2, <5>1
        <5>3. QED
          BY ONLY <4>1, <5>1, <5>2
      <4>3. QED
        BY <2>1, <2>5, <4>2 DEF Coming
    <3>3. CASE p[1] = a /\ i = 1
      <4>1. p[2] = m.s /\ m.n = nth[p]
        BY <1>2, <1>4, <2>5, <3>3
      <4>2. p = q
        BY <3>3, <4>1 DEF Pairs
      <4>3. newest'[p] = nth'[p]
        <5>1. newest'[p] >= nth[p] /\ newest'[p] <= nth'[p] /\ nth'[p] = nth[p]
          BY <1>8, <2>1, <2>2, <4>1, <4>2 DEF Latest
        <5>2. QED
          BY ONLY <2>3, <5>1
      <4>4. QED
        BY <4>3 DEF Coming
    <3>4. QED
      BY <3>1, <3>2, <3>3
  <2>6. Coming(p)'
    BY <2>1, <2>4, <2>5 DEF Coming
  <2>7. QED
    BY <2>2, <2>6
<1>13. ShownIsHeld'
  <2> SUFFICES ASSUME NEW p \in Pairs, p \notin hidden' PROVE shown'[p] = lev'[p]
    BY DEF ShownIsHeld
  <2>1. shown \in [Pairs -> Nat]
    BY <1>1 DEF LevTypeOK
  <2>2. CASE p # q
    <3>1. p \in Pairs \ hidden /\ shown'[p] = shown[p] /\ lev'[p] = lev[p]
      BY <1>8, <2>1, <2>2
    <3>2. QED
      BY <1>1, <3>1 DEF ShownIsHeld
  <2>3. CASE p = q /\ shown' = [shown EXCEPT ![q] = m.l]
    BY <1>6, <1>8, <2>1, <2>3
  <2>4. CASE p = q /\ lev[q] = m.l /\ UNCHANGED <<shown, hidden>>
    BY <1>1, <1>8, <2>4 DEF ShownIsHeld
  <2>5. QED
    BY <2>2, <2>3, <2>4
<1>14. SoundCalls'
  BY <1>1 DEF SoundCalls, TypedCall, TrueCall, NamedCall, Says
<1>15. QED
  BY <1>10, <1>11, <1>12, <1>13, <1>14 DEF LevInv

\* A call goes on and nothing else changes that the cache hangs on.
LEMMA QuietCall ==
  ASSUME LevInv, NEW c \in LevCallers, NEW r, TypedCall(r), TrueCall(r)', NamedCall(r)',
         lcall' = [lcall EXCEPT ![c] = r], borrowed \subseteq borrowed', borrowed' \subseteq Names,
         UNCHANGED <<lexg, xlev, nth, feed, lev, had, newest, crossed, shown, hidden>>
  PROVE  LevInv'
<1>1. LevTypeOK /\ SoundCalls
  BY DEF LevInv
<1>2. \A p \in Pairs, m, n \in Nat : Says(p, m, n) => Says(p, m, n)'
  BY DEF Says
<1>3. lexg' = lexg
  OBVIOUS
<1>4. SoundCalls' /\ lcall' = [d \in LevCallers |-> lcall'[d]]
  BY <1>1, <1>2, <1>3, CallsSound
<1>5. QED
  BY <1>4, QuietStep

\* A call that is not about to store has nothing to be true of.
LEMMA NothingToStore ==
  ASSUME NEW r, r.st \notin {"set", "store"}
  PROVE  TrueCall(r)'
BY DEF TrueCall

\* A call that ends or has been answered.
LEMMA Ended ==
  ASSUME NEW r, r.st \in {"idle", "answered"}
  PROVE  TrueCall(r)' /\ NamedCall(r)'
BY DEF TrueCall, NamedCall

\* The record of no call.
LEMMA NoCallTyped == TypedCall(NoCall) /\ NoCall.st = "idle"
<1>1. NoCall = [op |-> "none", a |-> DefName, s |-> "", x |-> 0, st |-> "idle", l |-> 0, n |-> 0, max |-> 0,
            from |-> ""]
  BY DEF NoCall, NewCall
<1>2. 0 \in Nat /\ DefName \in Names
  BY LeverageAssumption
<1>3. NoCall \in LevRecords(0, "") /\ NoCall.max = 0 /\ NoCall.from = "" /\ NoCall.st = "idle"
  BY ONLY <1>1, <1>2 DEF LevRecords
<1>4. QED
  BY <1>2, <1>3 DEF TypedCall

\* Steps that begin a call.
LEMMA BeginStep ==
  ASSUME LevInv, NEW c \in LevCallers
  PROVE  /\ \A a \in Names, s \in Syms, l \in Levs : CallSet(c, a, s, l) => LevInv'
         /\ \A a \in Names, s \in Syms, x \in Notionals : CallGet(c, a, s, x) => LevInv'
         /\ \A s \in Syms, x \in Notionals : CallMargin(c, s, x) => LevInv'
<1>1. borrowed \subseteq Names
  BY DEF LevInv, LevTypeOK
<1>2. ASSUME NEW a \in Names, NEW s \in Syms, NEW l \in Levs, CallSet(c, a, s, l)
      PROVE  LevInv'
  <2>1. PICK r : r = NewCall("set", a, s, l, "sent")
    OBVIOUS
  <2>2. TypedCall(r) /\ r.op = "set" /\ r.st = "sent"
    <3>1. r = [op |-> "set", a |-> a, s |-> s, x |-> l, st |-> "sent", l |-> 0, n |-> 0, max |-> 0,
                from |-> ""]
      BY <2>1 DEF NewCall
    <3>2. l \in Nat /\ l \in Levs /\ a \in Names /\ s \in Syms
      BY LeverageAssumption
    <3>3. r \in LevRecords(0, "") /\ r.max = 0 /\ r.from = "" /\ r.op = "set" /\ r.st = "sent"
          /\ r.s = s /\ r.x = l
      BY ONLY <3>1, <3>2 DEF LevRecords
    <3>4. QED
      BY <3>2, <3>3 DEF TypedCall
  <2>3. TrueCall(r)' /\ NamedCall(r)'
    BY <2>2 DEF TrueCall, NamedCall
  <2>4. /\ lcall' = [lcall EXCEPT ![c] = r]
        /\ UNCHANGED <<lexg, xlev, nth, feed, lev, had, newest, crossed, borrowed, shown, hidden>>
    BY <1>2, <2>1 DEF CallSet, SetCall
  <2>5. QED
    BY <1>1, <2>2, <2>3, <2>4, QuietCall
<1>3. ASSUME NEW a \in Names, NEW s \in Syms, NEW x \in Notionals, CallGet(c, a, s, x)
      PROVE  LevInv'
  <2>1. PICK st \in {"load", "read"} : st = IF Missing("get", s) THEN "load" ELSE "read"
    OBVIOUS
  <2>2. PICK r : r = NewCall("get", a, s, x, st)
    OBVIOUS
  <2>3. x \in Nat
    BY LeverageAssumption
  <2>4. TypedCall(r) /\ r.op = "get" /\ r.st = st /\ r.a = a
    <3>1. r = [op |-> "get", a |-> a, s |-> s, x |-> x, st |-> st, l |-> 0, n |-> 0, max |-> 0,
                from |-> ""]
      BY <2>2 DEF NewCall
    <3>2. x \in Nat /\ a \in Names /\ s \in Syms /\ st \in {"load", "read"}
      BY LeverageAssumption
    <3>3. r \in LevRecords(0, "") /\ r.max = 0 /\ r.from = "" /\ r.op = "get" /\ r.st = st
          /\ r.s = s /\ r.a = a
      BY ONLY <3>1, <3>2 DEF LevRecords
    <3>4. QED
      BY <3>2, <3>3 DEF TypedCall
  <2>5. /\ lcall' = [lcall EXCEPT ![c] = r]
        /\ borrowed' = IF lexg = "okx" /\ a # DefName THEN borrowed \cup {a} ELSE borrowed
        /\ UNCHANGED <<lexg, xlev, nth, feed, lev, had, newest, crossed, shown, hidden>>
    BY <1>3, <2>1, <2>2 DEF CallGet, SetCall
  <2>6. TrueCall(r)' /\ NamedCall(r)'
    BY <2>4, <2>5 DEF TrueCall, NamedCall
  <2>7. borrowed \subseteq borrowed' /\ borrowed' \subseteq Names
    BY <1>1, <2>5
  <2>8. QED
    BY <2>4, <2>5, <2>6, <2>7, QuietCall
<1>4. ASSUME NEW s \in Syms, NEW x \in Notionals, CallMargin(c, s, x)
      PROVE  LevInv'
  <2>1. PICK st \in {"load", "read"} : st = IF Missing("margin", s) THEN "load" ELSE "read"
    OBVIOUS
  <2>2. PICK r : r = NewCall("margin", DefName, s, x, st)
    OBVIOUS
  <2>3. x \in Nat /\ DefName \in Names
    BY LeverageAssumption
  <2>4. TypedCall(r) /\ r.op = "margin" /\ r.st = st
    <3>1. r = [op |-> "margin", a |-> DefName, s |-> s, x |-> x, st |-> st, l |-> 0, n |-> 0, max |-> 0,
                from |-> ""]
      BY <2>2 DEF NewCall
    <3>2. x \in Nat /\ DefName \in Names /\ s \in Syms /\ st \in {"load", "read"}
      BY LeverageAssumption
    <3>3. r \in LevRecords(0, "") /\ r.max = 0 /\ r.from = "" /\ r.op = "margin" /\ r.st = st
          /\ r.s = s
      BY ONLY <3>1, <3>2 DEF LevRecords
    <3>4. QED
      BY <3>2, <3>3 DEF TypedCall
  <2>5. TrueCall(r)' /\ NamedCall(r)'
    BY <2>4 DEF TrueCall, NamedCall
  <2>6. /\ lcall' = [lcall EXCEPT ![c] = r]
        /\ UNCHANGED <<lexg, xlev, nth, feed, lev, had, newest, crossed, borrowed, shown, hidden>>
    BY <1>4, <2>1, <2>2 DEF CallMargin, SetCall
  <2>7. QED
    BY <1>1, <2>4, <2>5, <2>6, QuietCall
<1>5. QED
  BY <1>2, <1>3, <1>4

\* The steps of a call that look into the caches, at the tiers or at the exchange.
LEMMA LookStep ==
  ASSUME LevInv, NEW c \in LevCallers,
         LoadTiers(c) \/ ReadMargin(c) \/ ReadCaches(c) \/ FetchLev(c) \/ Return(c)
  PROVE  LevInv'
<1>1. borrowed \subseteq Names /\ SaidTrue /\ LevTypeOK
  BY DEF LevInv, LevTypeOK
<1>2. PICK r : r = lcall[c]
  OBVIOUS
<1>3. TypedCall(r) /\ TrueCall(r) /\ NamedCall(r)
  BY <1>2 DEF LevInv, SoundCalls
<1>4. UNCHANGED <<lexg, xlev, nth, feed, lev, had, newest, crossed, borrowed, shown, hidden>>
  BY DEF LoadTiers, ReadMargin, ReadCaches, FetchLev, Return
<1>5. borrowed' = borrowed /\ lexg' = lexg
  BY <1>4
<1>6. ASSUME NEW q, TypedCall(q), TrueCall(q)', NamedCall(q)', lcall' = [lcall EXCEPT ![c] = q]
      PROVE  LevInv'
  BY <1>1, <1>4, <1>5, <1>6, QuietCall
<1>7. CASE LoadTiers(c)
  <2>1. r.st = "load" /\ lcall' = [lcall EXCEPT ![c] = [r EXCEPT !.st = "read"]]
    BY <1>2, <1>7 DEF LoadTiers, SetCall
  <2>2. PICK q : q = [r EXCEPT !.st = "read"]
    OBVIOUS
  <2>3. TypedCall(q) /\ q.st = "read" /\ q.op = r.op /\ q.a = r.a
    <3>1. r.s \in Syms /\ "read" \in {"read", "fetch"} /\ ("read" = "fetch" => r.op = "get")
      BY <1>3, <2>1 DEF TypedCall
    <3>2. QED
      BY <1>3, <2>2, <3>1, StepTyped, Zenon
  <2>4. TrueCall(q)' /\ NamedCall(q)'
    BY <1>3, <1>5, <2>1, <2>3 DEF TrueCall, NamedCall
  <2>5. QED
    BY <1>6, <2>1, <2>2, <2>3, <2>4
<1>8. ASSUME NEW q, TypedCall(q), Answer(c, q) PROVE LevInv'
  <2>1. PICK p : p = [q EXCEPT !.st = "answered", !.a = DefName, !.l = 0, !.n = 0]
    OBVIOUS
  <2>2. TypedCall(p) /\ p.st = "answered" /\ lcall' = [lcall EXCEPT ![c] = p]
    BY <1>8, <2>1, AnswerTyped DEF Answer, SetCall
  <2>3. TrueCall(p)' /\ NamedCall(p)'
    BY <2>2 DEF TrueCall, NamedCall
  <2>4. QED
    BY <1>6, <2>2, <2>3
<1>9. CASE ReadMargin(c)
  <2>1. PICK max, from : Answer(c, [r EXCEPT !.from = from, !.max = max])
    BY <1>2, <1>9 DEF ReadMargin
  <2>2. PICK p : p = [r EXCEPT !.from = from, !.max = max]
    OBVIOUS
  <2>3. r \in LevRecords(r.max, r.from)
    BY <1>3 DEF TypedCall
  <2>4. p \in LevRecords(max, from) /\ p.st = r.st /\ p.s = r.s /\ p.x = r.x /\ p.max = max
        /\ p.from = from /\ p.op = r.op /\ p.a = r.a
    BY ONLY <2>2, <2>3 DEF LevRecords
  <2>5. TypedCall(p)
    BY <1>3, <2>4 DEF TypedCall
  <2>6. QED
    BY <1>8, <2>1, <2>2, <2>5
<1>10. CASE ReadCaches(c)
  <2>1. PICK max, from : /\ r.st = "read" /\ r.op = "get"
                         /\ \/ SetCall(c, [[r EXCEPT !.from = from, !.max = max] EXCEPT !.st = "fetch"])
                            \/ Answer(c, [r EXCEPT !.from = from, !.max = max])
    BY <1>2, <1>10 DEF ReadCaches
  <2>2. PICK p : p = [r EXCEPT !.from = from, !.max = max]
    OBVIOUS
  <2>3. TypedCall(p) /\ p.st = "read" /\ p.op = "get" /\ p.a = r.a
    <3>1. TypedCall(p) /\ p.st = r.st /\ p.op = r.op /\ p.a = r.a
      <4>1. r \in LevRecords(r.max, r.from)
        BY <1>3 DEF TypedCall
      <4>2. p \in LevRecords(max, from) /\ p.st = r.st /\ p.s = r.s /\ p.x = r.x /\ p.max = max
            /\ p.from = from /\ p.op = r.op /\ p.a = r.a
        BY ONLY <2>2, <4>1 DEF LevRecords
      <4>3. QED
        BY <1>3, <4>2 DEF TypedCall
    <3>2. QED
      BY <2>1, <3>1
  <2>4. CASE Answer(c, p)
    BY <1>8, <2>3, <2>4
  <2>5. CASE SetCall(c, [p EXCEPT !.st = "fetch"])
    <3>1. PICK q : q = [p EXCEPT !.st = "fetch"]
      OBVIOUS
    <3>2. TypedCall(q) /\ q.st = "fetch" /\ q.op = "get" /\ q.a = r.a
      <4>1. p.s \in Syms /\ "fetch" \in {"read", "fetch"} /\ ("fetch" = "fetch" => p.op = "get")
        BY <2>3 DEF TypedCall
      <4>2. TypedCall(q) /\ q.st = "fetch" /\ q.op = p.op /\ q.a = p.a
        BY <2>3, <3>1, <4>1, StepTyped, Zenon
      <4>3. QED
        BY <2>3, <4>2
    <3>3. TrueCall(q)' /\ NamedCall(q)'
      BY <1>3, <1>5, <2>1, <3>2 DEF TrueCall, NamedCall
    <3>4. lcall' = [lcall EXCEPT ![c] = q]
      BY <2>5, <3>1 DEF SetCall
    <3>5. QED
      BY <1>6, <3>2, <3>3, <3>4
  <2>6. QED
    BY <2>1, <2>2, <2>4, <2>5
<1>11. CASE FetchLev(c)
  <2>1. PICK a : a = FetchedFor(r)
    OBVIOUS
  <2>2. /\ r.st = "fetch"
        /\ \/ SetCall(c, [r EXCEPT !.st = "store", !.l = xlev[<<a, r.s>>], !.n = nth[<<a, r.s>>]])
           \/ Answer(c, r)
    BY <1>2, <1>11, <2>1 DEF FetchLev
  <2>3. PICK l, n : l = xlev[<<a, r.s>>] /\ n = nth[<<a, r.s>>]
    OBVIOUS
  <2>4. r.a \in Names /\ r.s \in Syms /\ a \in Names
    BY <1>3, <2>1, <2>2, LeverageAssumption DEF TypedCall, LevRecords, FetchedFor
  <2>5. <<a, r.s>> \in Pairs /\ l \in Nat /\ n \in Nat
    BY <1>1, <2>3, <2>4, PairOf DEF LevTypeOK
  <2>6. CASE Answer(c, r)
    BY <1>3, <1>8, <2>6
  <2>7. CASE SetCall(c, [r EXCEPT !.st = "store", !.l = l, !.n = n])
    <3>1. PICK q : q = [r EXCEPT !.st = "store", !.l = l, !.n = n]
      OBVIOUS
    <3>2. TypedCall(q) /\ q.st = "store" /\ q.op = r.op /\ q.a = r.a /\ q.s = r.s
          /\ q.l = l /\ q.n = n
      <4>1. r \in LevRecords(r.max, r.from) /\ r.op = "get" /\ r.s \in Syms /\ l \in Nat /\ n \in Nat
        BY <1>3, <2>2, <2>5 DEF TypedCall
      <4>2. q \in LevRecords(r.max, r.from) /\ q.st = "store" /\ q.s = r.s /\ q.max = r.max
            /\ q.from = r.from /\ q.op = r.op /\ q.a = r.a /\ q.l = l /\ q.n = n
        BY ONLY <3>1, <4>1 DEF LevRecords
      <4>3. QED
        BY <4>1, <4>2 DEF TypedCall
    <3>3. l = q.l /\ n = q.n
      BY <3>2
    <3>4. lcall' = [lcall EXCEPT ![c] = q]
      BY <2>7, <3>1 DEF SetCall
    <3>5. NamedCall(q)'
      BY <1>3, <1>5, <2>2, <3>2 DEF NamedCall
    <3>6. Says(<<a, r.s>>, l, n)'
      <4>1. Says(<<a, r.s>>, l, n)
        BY <1>1, <2>3, <2>5 DEF SaidTrue, Says, LevTypeOK
      <4>2. QED
        BY <1>4, <4>1 DEF Says
    <3>7. r.a \notin borrowed => a = r.a
      BY <1>3, <2>1, <2>2 DEF NamedCall, FetchedFor, TypedCall
    <3>8. TrueCall(q)'
      BY <1>5, <3>2, <3>3, <3>6, <3>7 DEF TrueCall
    <3>9. QED
      BY <1>6, <3>2, <3>4, <3>5, <3>8
  <2>8. QED
    BY <2>2, <2>3, <2>6, <2>7
<1>12. CASE Return(c)
  <2>1. lcall' = [lcall EXCEPT ![c] = NoCall]
    BY <1>12 DEF Return, SetCall
  <2>2. QED
    <3>1. TrueCall(NoCall)' /\ NamedCall(NoCall)'
      BY NoCallTyped DEF TrueCall, NamedCall
    <3>2. QED
      BY <1>6, <2>1, <3>1, NoCallTyped
<1>13. QED
  BY <1>7, <1>9, <1>10, <1>11, <1>12

\* The steps of a call that store what it was answered.
LEMMA KeepStep ==
  ASSUME LevInv, NEW c \in LevCallers, StoreSet(c) \/ StoreGet(c)
  PROVE  LevInv'
<1>1. LevTypeOK /\ SoundCalls /\ borrowed \subseteq Names
  BY DEF LevInv, LevTypeOK
<1>2. PICK r : r = lcall[c]
  OBVIOUS
<1>3. TypedCall(r) /\ TrueCall(r) /\ r.st \in {"set", "store"}
  BY <1>1, <1>2 DEF SoundCalls, StoreSet, StoreGet
<1>4. UNCHANGED <<lexg, xlev, nth, feed, had, borrowed, shown>>
  BY DEF StoreSet, StoreGet
<1>5. PICK q : TypedCall(q) /\ q.st \in {"idle", "answered"} /\ lcall' = [lcall EXCEPT ![c] = q]
  <2>1. CASE StoreSet(c)
    BY <2>1, NoCallTyped DEF StoreSet, SetCall
  <2>2. CASE StoreGet(c)
    <3>1. PICK p : p = [r EXCEPT !.st = "answered", !.a = DefName, !.l = 0, !.n = 0]
      OBVIOUS
    <3>2. lcall' = [lcall EXCEPT ![c] = p]
      BY <1>2, <2>2, <3>1 DEF StoreGet, Answer, SetCall
    <3>3. TypedCall(p) /\ p.st = "answered"
      BY <1>3, <3>1, AnswerTyped
    <3>4. QED
      BY <3>2, <3>3
  <2>3. QED
    BY <2>1, <2>2
<1>6. TrueCall(q)' /\ NamedCall(q)'
  BY <1>5 DEF TrueCall, NamedCall
<1>7. CASE StoreSet(c) /\ lexg = "binance"
  <2>1. UNCHANGED <<lev, newest, crossed, hidden>>
    BY <1>7 DEF StoreSet
  <2>2. QED
    BY <1>1, <1>4, <1>5, <1>6, <2>1, QuietCall
<1>8. CASE ~(StoreSet(c) /\ lexg = "binance")
  <2>1. StoreLev(r.a, r.s, r.l, r.n) /\ hidden' = hidden \cup {<<r.a, r.s>>}
    BY <1>2, <1>8 DEF StoreSet, StoreGet
  <2>2. r.a \in Names /\ r.s \in Syms /\ r.l \in Nat /\ r.n \in Nat
    BY <1>3 DEF TypedCall, LevRecords
  <2>3. r.a \notin borrowed => Says(<<r.a, r.s>>, r.l, r.n)
    BY <1>3 DEF TrueCall
  <2>4. \A p \in Pairs, m, n \in Nat : Says(p, m, n) => Says(p, m, n)'
    BY <1>4 DEF Says
  <2>5. lexg' = lexg /\ borrowed' = borrowed
    BY <1>4
  <2>6. SoundCalls' /\ lcall' = [d \in LevCallers |-> lcall'[d]]
    BY <1>1, <1>5, <1>6, <2>4, <2>5, CallsSound
  <2>7. QED
    BY <1>4, <2>1, <2>2, <2>3, <2>6, StoreStep
<1>9. QED
  BY <1>7, <1>8

\* The exchange executes a SetLeverage.
LEMMA ExecuteStep ==
  ASSUME LevInv, NEW c \in LevCallers, Execute(c)
  PROVE  LevInv'
<1>1. LevTypeOK /\ SaidTrue /\ SoundCalls /\ borrowed \subseteq Names
  BY DEF LevInv, LevTypeOK
<1>2. PICK r : r = lcall[c]
  OBVIOUS
<1>3. TypedCall(r) /\ r.st = "sent"
  BY <1>1, <1>2 DEF SoundCalls, Execute
<1>4. r \in LevRecords(r.max, r.from) /\ r.s \in Syms /\ r.x \in Levs /\ r.a \in Names /\ r.x \in Nat
  BY <1>3 DEF TypedCall, LevRecords
<1>5. PICK p : p = <<r.a, r.s>>
  OBVIOUS
<1>6. p \in Pairs /\ xlev[p] \in Nat /\ nth[p] \in Nat
  BY <1>1, <1>4, <1>5, PairOf DEF LevTypeOK
<1>7. UNCHANGED <<lexg, lev, newest, crossed, borrowed, shown, hidden>>
  BY DEF Execute
<1>8. borrowed' = borrowed /\ lexg' = lexg
  BY <1>7
<1>9. ASSUME NEW n \in Nat, NEW q, q = [r EXCEPT !.st = "set", !.l = r.x, !.n = n],
             Says(p, r.x, n)'
      PROVE  TypedCall(q) /\ TrueCall(q)' /\ NamedCall(q)'
  <2>1. q \in LevRecords(r.max, r.from) /\ q.st = "set" /\ q.s = r.s /\ q.max = r.max
        /\ q.from = r.from /\ q.a = r.a /\ q.l = r.x /\ q.n = n /\ q.x = r.x
    BY ONLY <1>4, <1>9 DEF LevRecords
  <2>2. QED
    BY <1>4, <1>5, <1>9, <2>1 DEF TypedCall, TrueCall, NamedCall
<1>10. TrueCall(NoCall)' /\ NamedCall(NoCall)'
  BY NoCallTyped DEF TrueCall, NamedCall
<1>11. \/ SetCall(c, NoCall) /\ UNCHANGED <<xlev, nth, had, feed>>
       \/ /\ xlev[p] = r.x /\ UNCHANGED <<xlev, nth, had, feed>>
          /\ \/ SetCall(c, NoCall)
             \/ SetCall(c, [r EXCEPT !.st = "set", !.l = r.x, !.n = nth[p]])
       \/ /\ Changed(r.a, r.s, r.x)
          /\ SetCall(c, [r EXCEPT !.st = "set", !.l = r.x, !.n = nth'[p]])
  BY <1>2, <1>5 DEF Execute
<1>12. CASE SetCall(c, NoCall) /\ UNCHANGED <<xlev, nth, had, feed>>
  BY <1>1, <1>7, <1>8, <1>10, <1>12, NoCallTyped, QuietCall DEF SetCall
<1>13. CASE /\ xlev[p] = r.x /\ UNCHANGED <<xlev, nth, had, feed>>
            /\ SetCall(c, [r EXCEPT !.st = "set", !.l = r.x, !.n = nth[p]])
  <2>1. PICK n : n = nth[p]
    OBVIOUS
  <2>2. PICK q : q = [r EXCEPT !.st = "set", !.l = r.x, !.n = n]
    OBVIOUS
  <2>3. lcall' = [lcall EXCEPT ![c] = q] /\ n \in Nat
    BY <1>6, <1>13, <2>1, <2>2 DEF SetCall
  <2>4. Says(p, r.x, n)'
    <3>1. Says(p, r.x, n)
      BY <1>1, <1>6, <1>13, <2>1 DEF SaidTrue, Says
    <3>2. QED
      BY <1>13, <3>1 DEF Says
  <2>5. TypedCall(q) /\ TrueCall(q)' /\ NamedCall(q)'
    BY <1>9, <2>2, <2>3, <2>4
  <2>6. QED
    BY <1>1, <1>7, <1>8, <1>13, <2>3, <2>5, QuietCall
<1>14. CASE /\ Changed(r.a, r.s, r.x)
            /\ SetCall(c, [r EXCEPT !.st = "set", !.l = r.x, !.n = nth'[p]])
  <2>1. PICK k : k = nth[<<r.a, r.s>>] + 1
    OBVIOUS
  <2>2. /\ \A u \in Pairs, m, n \in Nat : Says(u, m, n) => Says(u, m, n)'
        /\ Says(<<r.a, r.s>>, r.x, k)' /\ nth'[<<r.a, r.s>>] = k /\ k \in Nat
    <3>1. ASSUME NEW a \in Names, NEW s \in Syms, NEW l \in Levs, Changed(a, s, l),
                 k = nth[<<a, s>>] + 1
          PROVE  /\ \A u \in Pairs, m, n \in Nat : Says(u, m, n) => Says(u, m, n)'
                 /\ Says(<<a, s>>, l, k)' /\ nth'[<<a, s>>] = k /\ k \in Nat
      BY <1>1, <3>1, SaysKept
    <3>2. QED
      BY <1>4, <1>14, <2>1, <3>1
  <2>3. PICK q : q = [r EXCEPT !.st = "set", !.l = r.x, !.n = k]
    OBVIOUS
  <2>4. lcall' = [lcall EXCEPT ![c] = q]
    BY <1>5, <1>14, <2>2, <2>3 DEF SetCall
  <2>5. TypedCall(q) /\ TrueCall(q)' /\ NamedCall(q)'
    BY <1>5, <1>9, <2>2, <2>3
  <2>6. SoundCalls' /\ lcall' = [d \in LevCallers |-> lcall'[d]]
    BY <1>1, <1>8, <2>2, <2>4, <2>5, CallsSound
  <2>7. QED
    BY <1>4, <1>7, <1>14, <2>6, ChangedStep
<1>15. QED
  BY <1>11, <1>12, <1>13, <1>14

\* Every step keeps what is kept.
LEMMA LevStep ==
  ASSUME LevInv, LevNext
  PROVE  LevInv'
<1>1. LevTypeOK /\ SoundCalls /\ borrowed \subseteq Names
  BY DEF LevInv, LevTypeOK
<1>2. ASSUME NEW a \in Names, HandleConfig(a) \/ HandlePositions(a)
      PROVE  LevInv'
  <2>1. PICK m : m = Head(feed[a])
    OBVIOUS
  <2>2. PICK q : q = <<a, m.s>>
    OBVIOUS
  <2>3. /\ feed[a] # <<>> /\ Receive(a) /\ StoreLev(a, m.s, m.l, m.n)
        /\ UNCHANGED <<lexg, xlev, nth, had, borrowed, lcall>>
    BY <1>2, <2>1 DEF HandleConfig, HandlePositions, Receive
  <2>4. \/ shown' = [shown EXCEPT ![q] = m.l] /\ hidden' \in {hidden, hidden \ {q}}
        \/ lev[q] = m.l /\ UNCHANGED <<shown, hidden>>
    BY <1>2, <2>1, <2>2 DEF HandleConfig, HandlePositions
  <2>5. QED
    BY <2>1, <2>2, <2>3, <2>4, MessageStep
<1>3. ASSUME NEW a \in Names, NEW s \in Syms, NEW l \in Levs, ChangeElsewhere(a, s, l)
      PROVE  LevInv'
  <2>1. /\ Changed(a, s, l)
        /\ UNCHANGED <<lexg, lev, newest, crossed, borrowed, shown, hidden, lcall>>
    BY <1>3 DEF ChangeElsewhere
  <2>2. \A u \in Pairs, m, n \in Nat : Says(u, m, n) => Says(u, m, n)'
    BY <1>1, <2>1, SaysKept
  <2>3. SoundCalls'
    <3>1. ASSUME NEW c \in LevCallers
          PROVE  TypedCall(lcall[c])' /\ TrueCall(lcall[c])' /\ NamedCall(lcall[c])'
      <4>1. PICK r : r = lcall[c]
        OBVIOUS
      <4>2. TypedCall(r) /\ TrueCall(r) /\ NamedCall(r) /\ lcall'[c] = r
        BY <1>1, <2>1, <4>1 DEF SoundCalls
      <4>3. r.l \in Nat /\ r.n \in Nat /\ r.a \in Names /\ (r.st \in {"set", "store"} => r.s \in Syms)
        BY <4>2 DEF TypedCall, LevRecords
      <4>4. r.st \in {"set", "store"} => <<r.a, r.s>> \in Pairs
        BY <4>3, PairOf
      <4>5. TrueCall(r)' /\ NamedCall(r)'
        BY <2>1, <2>2, <4>2, <4>3, <4>4 DEF TrueCall, NamedCall
      <4>6. QED
        BY <4>2, <4>5 DEF TypedCall, TrueCall, NamedCall
    <3>2. QED
      BY <3>1 DEF SoundCalls
  <2>4. lcall' = [d \in LevCallers |-> lcall'[d]]
    BY <1>1, <2>1 DEF LevTypeOK
  <2>5. QED
    BY <2>1, <2>3, <2>4, ChangedStep
<1>4. CASE (\E s \in Syms, reload \in BOOLEAN : LoadBrackets(s, reload)) \/ InitBrackets
  <2>1. UNCHANGED <<lexg, xlev, nth, feed, lev, lcall, had, newest, crossed, borrowed, shown, hidden>>
    BY <1>4 DEF LoadBrackets, InitBrackets
  <2>2. SoundCalls'
    BY <1>1, <2>1 DEF SoundCalls, TypedCall, TrueCall, NamedCall, Says
  <2>3. lcall' = [d \in LevCallers |-> lcall'[d]]
    BY <1>1, <2>1 DEF LevTypeOK
  <2>4. QED
    BY <1>1, <2>1, <2>2, <2>3, QuietStep
<1>5. ASSUME NEW c \in LevCallers,
             \/ \E a \in Names, s \in Syms, l \in Levs : CallSet(c, a, s, l)
             \/ \E a \in Names, s \in Syms, x \in Notionals : CallGet(c, a, s, x)
             \/ \E s \in Syms, x \in Notionals : CallMargin(c, s, x)
             \/ Execute(c) \/ StoreSet(c) \/ LoadTiers(c) \/ ReadMargin(c) \/ ReadCaches(c)
             \/ FetchLev(c) \/ StoreGet(c) \/ Return(c)
      PROVE  LevInv'
  BY <1>5, BeginStep, ExecuteStep, KeepStep, LookStep
<1>6. QED
  BY <1>2, <1>3, <1>4, <1>5 DEF LevNext

\* It holds in the beginning, whether there is an account or none.
LEMMA LevBegins == (LevInit \/ NoLeverage) => LevInv
<1> SUFFICES ASSUME LevInit \/ NoLeverage PROVE LevInv
  OBVIOUS
<1>1. FirstLev \in Nat /\ DefName \in Names
  BY LeverageAssumption
<1>2. PICK z \in Nat : /\ xlev = [p \in Pairs |-> z] /\ (had = [p \in Pairs |-> {z}] \/ z = 0)
                       /\ had \in [Pairs -> SUBSET Nat]
  BY <1>1 DEF LevInit, NoLeverage
<1>3. /\ nth = [p \in Pairs |-> 0] /\ newest = [p \in Pairs |-> 0] /\ lev = [p \in Pairs |-> 0]
      /\ shown = [p \in Pairs |-> 0] /\ feed = [a \in Names |-> <<>>]
      /\ crossed = {} /\ borrowed = {} /\ hidden = {} /\ lcall = [c \in LevCallers |-> NoCall]
  BY DEF LevInit, NoLeverage
<1>4. feed \in [Names -> Seq(LevMessages)]
  BY <1>3
<1>5. LevTypeOK
  BY <1>2, <1>3, <1>4 DEF LevTypeOK
<1>6. SaidTrue
  BY <1>2, <1>3 DEF SaidTrue
<1>7. SoundCalls
  BY <1>3, NoCallTyped DEF SoundCalls, TrueCall, NamedCall
<1>8. NewestComes
  BY <1>3 DEF NewestComes
<1>9. ShownIsHeld
  BY <1>3 DEF ShownIsHeld
<1>10. QED
  BY <1>5, <1>6, <1>7, <1>8, <1>9 DEF LevInv

\* So of the exchange and the cache, what is kept is always so.
LEMMA LevKept == CachesSpec => []LevInv
<1>1. CachesInit => LevInv
  BY LevBegins DEF CachesInit
<1>2. ASSUME LevInv, [CachesNext]_<<vars, levVars, holdVars>>
      PROVE  LevInv'
  <2>1. CASE LevNext
    BY <1>2, <2>1, LevStep
  <2>2. CASE UNCHANGED levVars
    <3>1. UNCHANGED <<lexg, xlev, nth, feed, lev, lcall, had, newest, crossed, borrowed, shown, hidden>>
      BY <2>2 DEF levVars
    <3>2. LevTypeOK /\ SoundCalls /\ borrowed \subseteq Names
      BY <1>2 DEF LevInv, LevTypeOK
    <3>3. SoundCalls'
      BY <3>1, <3>2 DEF SoundCalls, TypedCall, TrueCall, NamedCall, Says
    <3>4. lcall' = [d \in LevCallers |-> lcall'[d]]
      BY <3>1, <3>2 DEF LevTypeOK
    <3>5. QED
      BY <1>2, <3>1, <3>2, <3>3, <3>4, QuietStep
  <2>3. QED
    BY <1>2, <2>1, <2>2 DEF CachesNext
<1>3. QED
  BY <1>1, <1>2, PTL DEF CachesSpec

-------------------------------------------------------------------------------
(* What holds of the cached leverages.                                     *)

\* Every variable of Leverage has its type.
THEOREM LeverageTypeCorrect == CachesSpec => []LevTypeOK
<1>1. LevInv => LevTypeOK
  BY DEF LevInv
<1>2. QED
  BY <1>1, LevKept, PTL

\* acc.Leverages of an account never has a leverage the account never had; and once
\* the messages have been handled and the calls have returned, it has the leverage in
\* force, unless an answer older than a message was stored after it.
THEOREM LeverageIsInForce == CachesSpec => []LeverageInForce
<1>1. LevInv => LeverageInForce
  <2> SUFFICES ASSUME LevInv, NEW p \in Pairs, p[1] \notin borrowed
               PROVE  /\ lev[p] \in had[p] \cup {0}
                      /\ (\A a \in Names : feed[a] = <<>>) => lev[p] \in {0, xlev[p]} \/ p \in crossed
    BY DEF LeverageInForce
  <2>1. Latest(p) /\ Coming(p) /\ p[1] \in Names
    BY ByPair DEF LevInv, Pairs
  <2>2. (\A a \in Names : feed[a] = <<>>) => newest[p] = nth[p]
    BY <2>1 DEF Coming
  <2>3. QED
    BY <2>1, <2>2 DEF Latest
<1>2. QED
  BY <1>1, LevKept, PTL

\* When the messages have been handled, WatchAccountConfig has shown the leverage in
\* force of every symbol whose leverage was last written from a message.
THEOREM ConfigIsShown == CachesSpec => []ConfigShown
<1>1. LevInv => ConfigShown
  <2> SUFFICES ASSUME LevInv, \A a \in Names : feed[a] = <<>>,
                      NEW p \in Pairs, p \notin hidden \cup crossed, p[1] \notin borrowed
               PROVE  shown[p] \in {0, xlev[p]}
    BY DEF ConfigShown
  <2>1. Latest(p) /\ Coming(p) /\ p[1] \in Names /\ shown[p] = lev[p]
    BY ByPair DEF LevInv, Pairs, ShownIsHeld
  <2>2. newest[p] = nth[p]
    BY <2>1 DEF Coming
  <2>3. QED
    BY <2>1, <2>2 DEF Latest
<1>2. QED
  BY <1>1, LevKept, PTL

-------------------------------------------------------------------------------
(* The messages of Holdings.                                               *)

HoldInv == HoldTypeOK /\ ToldTrue /\ HeldTrue /\ AnswerTrue /\ HandTrue

\* The keys and the messages are of the topic.
LEMMA SameTopic ==
  ASSUME topic' = topic
  PROVE  /\ HoldKeys' = HoldKeys /\ PosKeys' = PosKeys /\ OfPositions' = OfPositions
         /\ Messages' = Messages /\ Positions' = Positions
BY DEF HoldKeys, PosKeys, Sides, OfPositions, Messages, Positions, HeldSides

\* A message comes behind the others.
LEMMA AppendFacts ==
  ASSUME NEW T, msgs \in Seq(T), NEW m \in T, msgs' = Append(msgs, m)
  PROVE  /\ Len(msgs) \in Nat /\ DOMAIN msgs = 1..Len(msgs)
         /\ DOMAIN msgs' = 1..Len(msgs) + 1 /\ Len(msgs') = Len(msgs) + 1
         /\ \A i \in DOMAIN msgs : msgs'[i] = msgs[i] /\ i \in DOMAIN msgs' /\ i # Len(msgs) + 1
         /\ \A i \in DOMAIN msgs' : i \in DOMAIN msgs \/ i = Len(msgs) + 1
         /\ \A i \in DOMAIN msgs : i < Len(msgs) + 1
         /\ Len(msgs) + 1 \in DOMAIN msgs' /\ msgs'[Len(msgs) + 1] = m
         /\ msgs' \in Seq(T)
OBVIOUS

\* The first message is taken.
LEMMA TailFacts ==
  ASSUME NEW T, msgs \in Seq(T), msgs # <<>>, msgs' = Tail(msgs)
  PROVE  /\ Len(msgs) \in Nat /\ DOMAIN msgs = 1..Len(msgs) /\ Len(msgs) > 0
         /\ DOMAIN msgs' = 1..Len(msgs) - 1 /\ Len(msgs') = Len(msgs) - 1
         /\ Head(msgs) = msgs[1] /\ 1 \in DOMAIN msgs /\ msgs[1] \in T
         /\ \A i \in DOMAIN msgs' : msgs'[i] = msgs[i + 1] /\ i + 1 \in DOMAIN msgs /\ i + 1 > 1
         /\ \A i \in DOMAIN msgs : i > 1 => i - 1 \in DOMAIN msgs' /\ msgs'[i - 1] = msgs[i]
         /\ msgs' \in Seq(T)
<1>1. Len(msgs) \in Nat /\ DOMAIN msgs = 1..Len(msgs) /\ Len(msgs) > 0 /\ Head(msgs) = msgs[1]
      /\ msgs[1] \in T
  OBVIOUS
<1>2. /\ Tail(msgs) \in Seq(T) /\ Len(Tail(msgs)) = Len(msgs) - 1
      /\ DOMAIN Tail(msgs) = 1..Len(msgs) - 1
      /\ \A i \in 1..Len(msgs) - 1 : Tail(msgs)[i] = msgs[i + 1]
  BY HeadTailProperties
<1>3. ASSUME NEW i \in DOMAIN msgs, i > 1
      PROVE  i - 1 \in DOMAIN msgs' /\ msgs'[i - 1] = msgs[i]
  <2>1. i - 1 \in 1..Len(msgs) - 1 /\ (i - 1) + 1 = i
    BY <1>1, <1>3
  <2>2. QED
    BY <1>2, <2>1
<1>4. ASSUME NEW i \in DOMAIN msgs'
      PROVE  msgs'[i] = msgs[i + 1] /\ i + 1 \in DOMAIN msgs /\ i + 1 > 1
  BY <1>1, <1>2
<1>5. QED
  BY <1>1, <1>2, <1>3, <1>4

\* What comes after the first n when one more message has come.
LEMMA AppendOrder ==
  ASSUME NEW T, msgs \in Seq(T), NEW m \in T, msgs' = Append(msgs, m), NEW n \in 0..Len(msgs)
  PROVE  /\ \A k : NoneAfter(n, k)' => NoneAfter(n, k) /\ k # m.of
         /\ \A i \in DOMAIN msgs' : FirstAfter(n, i)' =>
              \/ i \in DOMAIN msgs /\ FirstAfter(n, i)
              \/ i = Len(msgs) + 1 /\ NoneAfter(n, m.of)
<1> DEFINE z == Len(msgs) + 1
<1>1. /\ Len(msgs) \in Nat /\ DOMAIN msgs = 1..Len(msgs) /\ msgs'[z] = m /\ z \in DOMAIN msgs'
      /\ \A i \in DOMAIN msgs : msgs'[i] = msgs[i] /\ i \in DOMAIN msgs' /\ i < z
      /\ \A i \in DOMAIN msgs' : i \in DOMAIN msgs \/ i = z
      /\ z > n
  BY AppendFacts
<1>2. PICK y : y = z
  OBVIOUS
<1>3. ASSUME NEW k, NoneAfter(n, k)' PROVE NoneAfter(n, k) /\ k # m.of
  BY <1>1, <1>3 DEF NoneAfter
<1>4. ASSUME NEW i \in DOMAIN msgs', FirstAfter(n, i)'
      PROVE  \/ i \in DOMAIN msgs /\ FirstAfter(n, i)
             \/ i = y /\ NoneAfter(n, m.of)
  <2>1. CASE i = y
    <3>1. i \in Nat /\ msgs'[i] = m
      BY <1>1, <1>2, <2>1
    <3>2. NoneAfter(n, m.of)
      BY <1>1, <1>2, <1>4, <2>1, <3>1 DEF NoneAfter, FirstAfter
    <3>3. QED
      BY <2>1, <3>2
  <2>2. CASE i # y
    <3>1. i \in DOMAIN msgs /\ msgs'[i] = msgs[i]
      BY <1>1, <1>2, <2>2
    <3>2. FirstAfter(n, i)
      BY <1>1, <1>4, <3>1 DEF FirstAfter
    <3>3. QED
      BY <3>1, <3>2
  <2>3. QED
    BY <2>1, <2>2
<1>5. QED
  BY <1>2, <1>3, <1>4

\* The last message of a position or a currency when one more has come.
LEMMA AppendLast ==
  ASSUME NEW T, msgs \in Seq(T), NEW m \in T, msgs' = Append(msgs, m), NEW z, z = Len(msgs) + 1
  PROVE  /\ \A i \in DOMAIN msgs' : LastOfIts(i)' =>
              i = z \/ (i \in DOMAIN msgs /\ LastOfIts(i) /\ msgs[i].of # m.of)
         /\ \A i \in DOMAIN msgs : FirstAfter(i, z)' /\ msgs[i].of = m.of => LastOfIts(i)
         /\ \A i, j \in DOMAIN msgs : FirstAfter(i, j)' => FirstAfter(i, j)
<1>1. /\ Len(msgs) \in Nat /\ DOMAIN msgs = 1..Len(msgs) /\ msgs'[z] = m /\ z \in DOMAIN msgs'
      /\ \A i \in DOMAIN msgs : msgs'[i] = msgs[i] /\ i \in DOMAIN msgs' /\ i < z
      /\ \A i \in DOMAIN msgs' : i \in DOMAIN msgs \/ i = z
  BY AppendFacts
<1>2. ASSUME NEW i \in DOMAIN msgs', LastOfIts(i)', i # z
      PROVE  i \in DOMAIN msgs /\ LastOfIts(i) /\ msgs[i].of # m.of
  <2>1. i \in DOMAIN msgs /\ msgs'[i] = msgs[i] /\ i < z
    BY <1>1, <1>2
  <2>2. QED
    BY <1>1, <1>2, <2>1 DEF LastOfIts
<1>3. ASSUME NEW i \in DOMAIN msgs, FirstAfter(i, z)', msgs[i].of = m.of
      PROVE  LastOfIts(i)
  BY <1>1, <1>3 DEF LastOfIts, FirstAfter
<1>4. ASSUME NEW i \in DOMAIN msgs, NEW j \in DOMAIN msgs, FirstAfter(i, j)'
      PROVE  FirstAfter(i, j)
  BY <1>1, <1>4 DEF FirstAfter
<1>5. QED
  BY <1>2, <1>3, <1>4

\* What comes after the first n when the first of all is gone.
LEMMA TailOrder ==
  ASSUME NEW T, msgs \in Seq(T), msgs # <<>>, msgs' = Tail(msgs), NEW n \in Nat,
         NEW m, m = Head(msgs)
  PROVE  /\ \A k : NoneAfter(n, k)' => NoneAfter(n + 1, k) /\ (n = 0 /\ k # m.of => NoneAfter(0, k))
         /\ \A i \in DOMAIN msgs' : FirstAfter(n, i)' =>
              /\ FirstAfter(n + 1, i + 1)
              /\ n = 0 /\ msgs'[i].of # m.of => FirstAfter(0, i + 1)
         /\ \A i \in DOMAIN msgs' : LastOfIts(i)' => LastOfIts(i + 1)
<1>1. /\ Len(msgs) \in Nat /\ DOMAIN msgs = 1..Len(msgs) /\ m = msgs[1]
      /\ DOMAIN msgs' = 1..Len(msgs) - 1
      /\ \A i \in DOMAIN msgs' : msgs'[i] = msgs[i + 1] /\ i + 1 \in DOMAIN msgs /\ i + 1 > 1
      /\ \A i \in DOMAIN msgs : i > 1 => i - 1 \in DOMAIN msgs' /\ msgs'[i - 1] = msgs[i]
  BY TailFacts
<1>2. ASSUME NEW k, NoneAfter(n, k)'
      PROVE  NoneAfter(n + 1, k) /\ (n = 0 /\ k # m.of => NoneAfter(0, k))
  <2>1. ASSUME NEW i \in DOMAIN msgs, i > n + 1 PROVE msgs[i].of # k
    <3>1. i > 1 /\ i - 1 > n /\ i - 1 \in DOMAIN msgs' /\ msgs'[i - 1] = msgs[i]
      BY <1>1, <2>1
    <3>2. PICK h \in DOMAIN msgs' : h = i - 1
      BY <3>1
    <3>3. msgs'[h].of # k
      BY <1>2, <3>1, <3>2 DEF NoneAfter
    <3>4. QED
      BY <3>1, <3>2, <3>3
  <2>2. ASSUME n = 0, k # m.of, NEW i \in DOMAIN msgs PROVE msgs[i].of # k
    BY <1>1, <2>1, <2>2
  <2>3. QED
    BY <2>1, <2>2 DEF NoneAfter
<1>3. ASSUME NEW i \in DOMAIN msgs', FirstAfter(n, i)'
      PROVE  /\ FirstAfter(n + 1, i + 1)
             /\ n = 0 /\ msgs'[i].of # m.of => FirstAfter(0, i + 1)
  <2>1. i \in Nat /\ i > n /\ msgs'[i] = msgs[i + 1]
    BY <1>1, <1>3 DEF FirstAfter
  <2>2. ASSUME NEW j \in DOMAIN msgs, n + 1 < j, j < i + 1 PROVE msgs[j].of # msgs[i + 1].of
    <3>1. j > 1 /\ j - 1 > n /\ j - 1 < i /\ j - 1 \in DOMAIN msgs' /\ msgs'[j - 1] = msgs[j]
      BY <1>1, <2>1, <2>2
    <3>2. PICK h \in DOMAIN msgs' : h = j - 1
      BY <3>1
    <3>3. msgs'[h].of # msgs'[i].of
      BY <1>3, <3>1, <3>2 DEF FirstAfter
    <3>4. QED
      BY <2>1, <3>1, <3>2, <3>3
  <2>3. ASSUME n = 0, msgs'[i].of # m.of, NEW j \in DOMAIN msgs, j < i + 1
        PROVE  msgs[j].of # msgs[i + 1].of
    BY <1>1, <2>1, <2>2, <2>3
  <2>4. QED
    BY <2>1, <2>2, <2>3 DEF FirstAfter
<1>4. ASSUME NEW i \in DOMAIN msgs', LastOfIts(i)'
      PROVE  LastOfIts(i + 1)
  <2>1. ASSUME NEW j \in DOMAIN msgs, j > i + 1 PROVE msgs[j].of # msgs[i + 1].of
    <3>1. j > 1 /\ j - 1 > i /\ j - 1 \in DOMAIN msgs' /\ msgs'[j - 1] = msgs[j]
      BY <1>1, <2>1
    <3>2. PICK h \in DOMAIN msgs' : h = j - 1
      BY <3>1
    <3>3. msgs'[h].of # msgs'[i].of
      BY <1>4, <3>1, <3>2 DEF LastOfIts
    <3>4. QED
      BY <1>1, <3>1, <3>2, <3>3
  <2>2. QED
    BY <2>1 DEF LastOfIts
<1>5. QED
  BY <1>2, <1>3, <1>4

-------------------------------------------------------------------------------
(* The exchange changes something and tells it.                            *)

\* Nothing else changes at the exchange.
Elsewhere(m) ==
  \A k \in HoldKeys : k # m.of =>
    IF OfPositions THEN xpos'[k] = xpos[k] ELSE xbal'[k] = xbal[k]

\* What is right of a position or a currency stays so while others change.
LEMMA RightKept ==
  ASSUME NEW m, Elsewhere(m), UNCHANGED <<hexg, topic, pos, bal, snap, last>>,
         NEW k \in HoldKeys, k # m.of
  PROVE  (Right(k) => Right(k)') /\ (SnapRight(k) => SnapRight(k)') /\ (Minded(k)' => Minded(k))
<1>1. IF OfPositions THEN xpos'[k] = xpos[k] ELSE xbal'[k] = xbal[k]
  BY DEF Elsewhere
<1>2. OfPositions' = OfPositions
  BY DEF OfPositions
<1>3. Minded(k)' => Minded(k)
  BY DEF Minded
<1>4. CASE OfPositions
  <2>1. xpos'[k] = xpos[k]
    BY <1>1, <1>4
  <2>2. \A P : PosRight(P, k) => PosRight(P, k)'
    BY <2>1 DEF PosRight
  <2>3. QED
    BY <1>2, <1>3, <1>4, <2>2 DEF Right, SnapRight
<1>5. CASE ~OfPositions
  <2>1. xbal'[k] = xbal[k]
    BY <1>1, <1>5
  <2>2. \A B : BalRight(B, k) => BalRight(B, k)'
    BY <2>1 DEF BalRight
  <2>3. QED
    BY <1>2, <1>3, <1>5, <2>2 DEF Right, SnapRight
<1>6. QED
  BY <1>4, <1>5

\* A change that is told keeps the invariant.
LEMMA TellStep ==
  ASSUME HoldInv, NEW m \in Messages, SoundMessage(m), msgs' = Append(msgs, m),
         UNCHANGED <<hexg, topic, pos, bal, snap, hand, last, fresh>>,
         xpos' \in [PosKeys -> Int], xbal' \in [Coins -> Amounts], Elsewhere(m), Tells(m)',
         m.delta => m.was = xbal[m.of].free
  PROVE  HoldInv'
<1>1. /\ HoldKeys' = HoldKeys /\ PosKeys' = PosKeys /\ OfPositions' = OfPositions /\ Messages' = Messages
      /\ Positions' = Positions
  BY SameTopic
<1>2. HoldTypeOK /\ ToldTrue /\ HeldTrue /\ AnswerTrue /\ HandTrue /\ msgs \in Seq(Messages)
  BY DEF HoldInv, HoldTypeOK
<1>3. m.of \in HoldKeys /\ m.delta \in BOOLEAN
  BY DEF Messages
<1>4. PICK z : z = Len(msgs) + 1
  OBVIOUS
<1>5. /\ Len(msgs) \in Nat /\ DOMAIN msgs = 1..Len(msgs) /\ msgs'[z] = m /\ z \in DOMAIN msgs'
      /\ \A i \in DOMAIN msgs : msgs'[i] = msgs[i] /\ i \in DOMAIN msgs' /\ i < z /\ msgs[i] \in Messages
      /\ \A i \in DOMAIN msgs' : i \in DOMAIN msgs \/ i = z
      /\ msgs' \in Seq(Messages) /\ Len(msgs') = Len(msgs) + 1 /\ msgs' # <<>>
  BY <1>2, <1>4, AppendFacts
<1>6. \A i \in DOMAIN msgs : SoundMessage(msgs[i]) /\ msgs[i].of \in HoldKeys /\ msgs[i].delta \in BOOLEAN
  BY <1>2, <1>5 DEF HoldTypeOK, Messages
<1>7. HoldTypeOK'
  <2>1. \A i \in DOMAIN msgs' : SoundMessage(msgs[i])'
    <3>1. \A i \in DOMAIN msgs' : SoundMessage(msgs'[i])
      BY <1>5, <1>6
    <3>2. QED
      BY <1>1, <3>1 DEF SoundMessage
  <2>2. snap.old <= Len(msgs) /\ snap.old \in Nat
    BY <1>2 DEF HoldTypeOK
  <2>3. snap'.old <= Len(msgs')
    BY <1>5, <2>2
  <2>4. QED
    BY <1>1, <1>2, <1>5, <2>1, <2>3 DEF HoldTypeOK
<1>8. m.delta => ~OfPositions /\ topic = "spot" /\ hexg = "binance"
  BY <1>2 DEF SoundMessage, OfPositions, HoldTypeOK
<1>9. \A i \in DOMAIN msgs : msgs[i].delta => ~OfPositions
  BY <1>6 DEF SoundMessage, OfPositions
<1>10. ToldTrue'
  <2>1. /\ \A i \in DOMAIN msgs' : LastOfIts(i)' =>
              i = z \/ (i \in DOMAIN msgs /\ LastOfIts(i) /\ msgs[i].of # m.of)
        /\ \A i \in DOMAIN msgs : FirstAfter(i, z)' /\ msgs[i].of = m.of => LastOfIts(i)
        /\ \A i, j \in DOMAIN msgs : FirstAfter(i, j)' => FirstAfter(i, j)
    BY <1>2, <1>4, AppendLast
  <2>2. ASSUME NEW i \in DOMAIN msgs', LastOfIts(i)' PROVE Tells(msgs[i])'
    <3>1. CASE i = z
      BY <1>5, <3>1 DEF Tells, Leaves
    <3>2. CASE i # z
      <4>1. i \in DOMAIN msgs /\ LastOfIts(i) /\ msgs[i].of # m.of /\ msgs'[i] = msgs[i]
        BY <1>5, <2>1, <2>2, <3>2
      <4>2. PICK e : e = msgs[i]
        OBVIOUS
      <4>3. Tells(e) /\ e.of \in HoldKeys /\ e.of # m.of /\ e.delta \in BOOLEAN
        BY <1>2, <1>6, <4>1, <4>2 DEF ToldTrue
      <4>4. IF OfPositions THEN xpos'[e.of] = xpos[e.of] ELSE xbal'[e.of] = xbal[e.of]
        BY <4>3 DEF Elsewhere
      <4>5. Tells(e)'
        BY <1>1, <4>3, <4>4 DEF Tells, Leaves
      <4>6. msgs'[i] = e
        BY <4>1, <4>2
      <4>7. QED
        BY <4>5, <4>6 DEF Tells, Leaves
    <3>3. QED
      BY <3>1, <3>2
  <2>3. ASSUME NEW i \in DOMAIN msgs', NEW j \in DOMAIN msgs', i < j, msgs'[j].of = msgs'[i].of,
               FirstAfter(i, j)', msgs'[j].delta
        PROVE  msgs'[j].was = Leaves(msgs'[i])
    <3>1. i \in DOMAIN msgs /\ msgs'[i] = msgs[i]
      BY <1>4, <1>5, <2>3
    <3>2. CASE j = z
      <4>1. LastOfIts(i) /\ m.delta /\ msgs[i].of = m.of /\ msgs'[j] = m
        BY <1>5, <2>1, <2>3, <3>1, <3>2
      <4>2. Tells(msgs[i]) /\ ~OfPositions
        BY <1>2, <1>8, <3>1, <4>1 DEF ToldTrue
      <4>3. Leaves(msgs[i]) = xbal[m.of].free
        <5>1. CASE msgs[i].delta
          BY <4>1, <4>2, <5>1 DEF Tells
        <5>2. CASE ~msgs[i].delta
          BY <4>1, <4>2, <5>2 DEF Tells, Leaves
        <5>3. QED
          BY <5>1, <5>2
      <4>4. QED
        BY <3>1, <4>1, <4>3
    <3>3. CASE j # z
      <4>1. j \in DOMAIN msgs /\ msgs'[j] = msgs[j] /\ FirstAfter(i, j)
        BY <1>5, <2>1, <2>3, <3>1, <3>3
      <4>2. QED
        BY <1>2, <2>3, <3>1, <4>1 DEF ToldTrue
    <3>4. QED
      BY <3>2, <3>3
  <2>4. QED
    BY <2>2, <2>3 DEF ToldTrue, Leaves
<1>11. ASSUME NEW n \in 0..Len(msgs)
       PROVE  /\ \A k : NoneAfter(n, k)' => NoneAfter(n, k) /\ k # m.of
              /\ \A i \in DOMAIN msgs' : FirstAfter(n, i)' =>
                   \/ i \in DOMAIN msgs /\ FirstAfter(n, i)
                   \/ i = z /\ NoneAfter(n, m.of)
  BY <1>2, <1>4, AppendOrder
<1>12. ASSUME NEW n \in 0..Len(msgs), NEW B, AddsUp(B, n),
              m.delta /\ NoneAfter(n, m.of) => BalRight(B, m.of)
       PROVE  \A i \in DOMAIN msgs' : FirstAfter(n, i)' /\ msgs'[i].delta /\ msgs'[i].of \in DOMAIN B =>
                B[msgs'[i].of].free = msgs'[i].was
  <2> SUFFICES ASSUME NEW i \in DOMAIN msgs', FirstAfter(n, i)', msgs'[i].delta,
                      msgs'[i].of \in DOMAIN B
               PROVE  B[msgs'[i].of].free = msgs'[i].was
    OBVIOUS
  <2>1. CASE i \in DOMAIN msgs /\ FirstAfter(n, i)
    BY <1>5, <1>12, <2>1 DEF AddsUp
  <2>2. CASE i = z /\ NoneAfter(n, m.of)
    BY <1>5, <1>8, <1>12, <2>2 DEF BalRight
  <2>3. QED
    BY <1>11, <2>1, <2>2
<1>13. HeldTrue'
  <2> SUFFICES ASSUME fresh # "raced" PROVE /\ \A k \in HoldKeys' : Minded(k)' /\ NoneAfter(0, k)' => Right(k)'
                                            /\ AddsUp(bal, 0)'
    BY DEF HeldTrue
  <2>1. ASSUME NEW k \in HoldKeys, Minded(k)', NoneAfter(0, k)' PROVE Right(k)'
    <3>1. NoneAfter(0, k) /\ k # m.of
      BY <1>5, <1>11, <2>1
    <3>2. QED
      BY <1>2, <2>1, <3>1, RightKept DEF HeldTrue
  <2>2. m.delta /\ NoneAfter(0, m.of) => BalRight(bal, m.of)
    BY <1>2, <1>3, <1>8 DEF HeldTrue, Minded, Right
  <2>3. AddsUp(bal, 0) /\ 0 \in 0..Len(msgs)
    BY <1>2, <1>5 DEF HeldTrue
  <2>4. AddsUp(bal, 0)'
    BY ZenonT(60), <1>12, <2>2, <2>3 DEF AddsUp
  <2>5. QED
    BY <1>1, <2>1, <2>4
<1>14. AnswerTrue'
  <2> SUFFICES ASSUME snap.st # "idle", ~snap.lost
               PROVE  /\ \A k \in HoldKeys' : NoneAfter(snap.old, k)' => SnapRight(k)'
                      /\ AddsUp(snap.bal, snap.old)'
    BY DEF AnswerTrue
  <2>1. PICK n : n = snap.old
    OBVIOUS
  <2>2. n \in 0..Len(msgs) /\ n = snap'.old
    <3>1. snap.old <= Len(msgs) /\ snap.old \in Nat
      BY <1>2 DEF HoldTypeOK
    <3>2. QED
      BY <1>5, <2>1, <3>1
  <2>3. ASSUME NEW k \in HoldKeys, NoneAfter(n, k)' PROVE SnapRight(k)'
    <3>1. NoneAfter(n, k) /\ k # m.of
      BY <1>11, <2>2, <2>3
    <3>2. QED
      BY <1>2, <2>1, <3>1, RightKept DEF AnswerTrue
  <2>4. m.delta /\ NoneAfter(n, m.of) => BalRight(snap.bal, m.of)
    BY <1>2, <1>3, <1>8, <2>1 DEF AnswerTrue, SnapRight
  <2>5. AddsUp(snap.bal, n)
    BY <1>2, <2>1 DEF AnswerTrue
  <2>6. AddsUp(snap.bal, n)'
    BY ZenonT(60), <1>12, <2>2, <2>4, <2>5 DEF AddsUp
  <2>7. QED
    BY <1>1, <2>2, <2>3, <2>6 DEF NoneAfter, AddsUp, FirstAfter
<1>15. HandTrue'
  BY <1>2 DEF HandTrue
<1>16. QED
  BY <1>7, <1>10, <1>13, <1>14, <1>15 DEF HoldInv

\* A balance sheet of nothing.
LEMMA EmptyPart == <<>> \in Parts /\ DOMAIN <<>> = {}
<1>1. <<>> \in [{} -> Amounts] /\ DOMAIN <<>> = {}
  OBVIOUS
<1>2. {} \in SUBSET Coins
  OBVIOUS
<1>3. QED
  BY <1>1, <1>2 DEF Parts

\* Positions and balances change at the exchange.
LEMMA ChangeStep ==
  ASSUME HoldInv,
         \/ \E k \in PosKeys, n \in -MaxSize..MaxSize : ChangePosition(k, n)
         \/ \E c \in Coins, f \in 0..MaxSize, u \in 0..1, S \in SUBSET Coins :
              ChangeBalance(c, [free |-> f, used |-> u], S)
         \/ \E c \in Coins, d \in -MaxSize..MaxSize : Transfer(c, d)
  PROVE  HoldInv'
<1>1. /\ xpos \in [PosKeys -> Int] /\ xbal \in [Coins -> Amounts]
      /\ (topic = "spot" => hexg = "binance")
  BY DEF HoldInv, HoldTypeOK
<1>2. MaxSize \in Nat
  BY HoldingsAssumption
<1>3. ASSUME NEW k \in PosKeys, NEW n \in -MaxSize..MaxSize, ChangePosition(k, n) PROVE HoldInv'
  <2>1. /\ OfPositions /\ xpos' = [xpos EXCEPT ![k] = n] /\ xbal' = xbal
        /\ Tell([of |-> k, n |-> n, to |-> <<>>, delta |-> FALSE, was |-> 0])
    BY <1>3 DEF ChangePosition
  <2>2. PICK m : m = [of |-> k, n |-> n, to |-> <<>>, delta |-> FALSE, was |-> 0]
    OBVIOUS
  <2>3. m.of = k /\ m.n = n /\ m.delta = FALSE
    BY ONLY <2>2
  <2>4. n \in Int /\ k \in HoldKeys /\ <<>> \in Parts
    BY <1>2, <2>1, EmptyPart DEF HoldKeys
  <2>5. m \in Messages
    BY ONLY <2>2, <2>4 DEF Messages
  <2>6. msgs' = Append(msgs, m) /\ UNCHANGED <<hexg, topic, pos, bal, snap, hand, last, fresh>>
    BY <2>1, <2>2 DEF Tell
  <2>7. xpos' \in [PosKeys -> Int] /\ xpos'[k] = n
    BY <1>1, <2>1, <2>4
  <2>8. Elsewhere(m)
    BY <1>1, <2>1, <2>3 DEF Elsewhere, HoldKeys
  <2>9. SoundMessage(m)
    BY <2>1, <2>3 DEF SoundMessage
  <2>10. Tells(m)'
    BY <2>1, <2>3, <2>6, <2>7 DEF Tells, OfPositions
  <2>11. QED
    BY <1>1, <2>1, <2>3, <2>5, <2>6, <2>7, <2>8, <2>9, <2>10, TellStep
<1>4. ASSUME NEW c \in Coins, NEW f \in 0..MaxSize, NEW u \in 0..1, NEW S \in SUBSET Coins,
             ChangeBalance(c, [free |-> f, used |-> u], S)
      PROVE  HoldInv'
  <2>1. PICK b : b = [free |-> f, used |-> u]
    OBVIOUS
  <2>2. b \in Amounts
    <3>1. f \in Int /\ u \in Int
      BY <1>2
    <3>2. QED
      BY ONLY <2>1, <3>1 DEF Amounts
  <2>3. PICK y : y = [d \in S \cup {c} |-> xbal'[d]]
    OBVIOUS
  <2>4. /\ ~OfPositions /\ xbal' = [xbal EXCEPT ![c] = b] /\ xpos' = xpos
        /\ Tell([of |-> c, n |-> 0, to |-> y, delta |-> FALSE, was |-> 0])
    BY <1>4, <2>1, <2>3 DEF ChangeBalance
  <2>5. PICK m : m = [of |-> c, n |-> 0, to |-> y, delta |-> FALSE, was |-> 0]
    OBVIOUS
  <2>6. m.of = c /\ m.to = y /\ m.delta = FALSE
    BY ONLY <2>5
  <2>7. xbal' \in [Coins -> Amounts] /\ xbal'[c] = b
    BY <1>1, <2>2, <2>4
  <2>8. y \in Parts /\ c \in DOMAIN y /\ y[c] = xbal'[c]
    <3>1. y \in [S \cup {c} -> Amounts] /\ S \cup {c} \in SUBSET Coins
      BY <2>3, <2>7
    <3>2. QED
      BY <2>3, <3>1 DEF Parts
  <2>9. c \in HoldKeys
    BY <2>4 DEF HoldKeys
  <2>10. m \in Messages
    BY ONLY <2>5, <2>8, <2>9 DEF Messages
  <2>11. msgs' = Append(msgs, m) /\ UNCHANGED <<hexg, topic, pos, bal, snap, hand, last, fresh>>
    BY <2>4, <2>5 DEF Tell
  <2>12. Elsewhere(m)
    BY <1>1, <2>4, <2>6 DEF Elsewhere, HoldKeys
  <2>13. SoundMessage(m)
    BY <2>6, <2>8 DEF SoundMessage
  <2>14. Tells(m)'
    BY <2>4, <2>6, <2>8, <2>11 DEF Tells, OfPositions
  <2>15. QED
    BY <1>1, <2>4, <2>6, <2>7, <2>10, <2>11, <2>12, <2>13, <2>14, TellStep
<1>5. ASSUME NEW c \in Coins, NEW d \in -MaxSize..MaxSize, Transfer(c, d)
      PROVE  HoldInv'
  <2>1. PICK w : w = xbal[c].free
    OBVIOUS
  <2>2. PICK b : b = [xbal[c] EXCEPT !.free = w + d]
    OBVIOUS
  <2>3. /\ topic = "spot" /\ xbal' = [xbal EXCEPT ![c] = b] /\ xpos' = xpos
        /\ Tell([of |-> c, n |-> d, to |-> <<>>, delta |-> TRUE, was |-> w])
    BY <1>5, <2>1, <2>2 DEF Transfer
  <2>4. w \in Int /\ d \in Int /\ xbal[c] \in Amounts
    BY <1>1, <1>2, <2>1 DEF Amounts
  <2>5. b \in Amounts /\ b.free = w + d
    BY ONLY <2>2, <2>4 DEF Amounts
  <2>6. PICK m : m = [of |-> c, n |-> d, to |-> <<>>, delta |-> TRUE, was |-> w]
    OBVIOUS
  <2>7. m.of = c /\ m.n = d /\ m.delta = TRUE /\ m.was = w
    BY ONLY <2>6
  <2>8. ~OfPositions /\ c \in HoldKeys
    BY <2>3 DEF HoldKeys, OfPositions
  <2>9. m \in Messages
    <3>1. <<>> \in Parts
      BY EmptyPart
    <3>2. QED
      BY ONLY <2>4, <2>6, <2>8, <3>1 DEF Messages
  <2>10. msgs' = Append(msgs, m) /\ UNCHANGED <<hexg, topic, pos, bal, snap, hand, last, fresh>>
    BY <2>3, <2>6 DEF Tell
  <2>11. xbal' \in [Coins -> Amounts] /\ xbal'[c] = b
    BY <1>1, <2>3, <2>5
  <2>12. Elsewhere(m)
    BY <1>1, <2>3, <2>7, <2>8 DEF Elsewhere, HoldKeys
  <2>13. SoundMessage(m)
    BY <2>3, <2>7 DEF SoundMessage
  <2>14. Tells(m)'
    BY <2>3, <2>5, <2>7, <2>8, <2>10, <2>11 DEF Tells, Leaves, OfPositions
  <2>15. QED
    BY <1>1, <2>1, <2>3, <2>7, <2>9, <2>10, <2>11, <2>12, <2>13, <2>14, TellStep
<1>6. QED
  BY <1>3, <1>4, <1>5

-------------------------------------------------------------------------------
(* A handler takes the first message.                                      *)

\* What the answer has stays right when a message has passed.
LEMMA PassedStep ==
  ASSUME HoldInv, msgs # <<>>, msgs' = Tail(msgs), snap' = Passed, UNCHANGED <<hexg, topic, xpos, xbal>>
  PROVE  /\ AnswerTrue' /\ snap'.old <= Len(msgs')
         /\ snap' \in [st : {"idle", "asked", "answered"}, todo : SUBSET Insts, pos : SUBSET Positions,
                       bal : Parts, old : Nat, lost : BOOLEAN]
         /\ snap'.st = snap.st /\ snap'.todo = snap.todo /\ snap'.pos = snap.pos /\ snap'.bal = snap.bal
         /\ snap.old = 0 => snap'.old = 0
<1>1. HoldTypeOK /\ AnswerTrue /\ msgs \in Seq(Messages)
  BY DEF HoldInv, HoldTypeOK
<1>2. HoldKeys' = HoldKeys /\ OfPositions' = OfPositions
  BY SameTopic
<1>3. snap \in [st : {"idle", "asked", "answered"}, todo : SUBSET Insts, pos : SUBSET Positions,
                bal : Parts, old : Nat, lost : BOOLEAN] /\ snap.old <= Len(msgs)
      /\ (snap.st = "asked" => /\ snap.todo = Insts => snap.pos = {} /\ snap.old = 0
                               /\ ~OfPositions => DOMAIN snap.bal = {} /\ snap.todo = Insts)
  BY <1>1 DEF HoldTypeOK
<1>4. /\ Len(msgs) \in Nat /\ DOMAIN msgs = 1..Len(msgs) /\ Len(msgs) > 0
      /\ DOMAIN msgs' = 1..Len(msgs) - 1 /\ Len(msgs') = Len(msgs) - 1
      /\ \A i \in DOMAIN msgs' : msgs'[i] = msgs[i + 1] /\ i + 1 \in DOMAIN msgs
      /\ \A i \in DOMAIN msgs : SoundMessage(msgs[i])
  BY <1>1, TailFacts DEF HoldTypeOK
<1>5. \A k : SnapRight(k) /\ snap'.todo = snap.todo /\ snap'.pos = snap.pos /\ snap'.bal = snap.bal
        => SnapRight(k)'
  BY <1>2 DEF SnapRight, PosRight, BalRight
<1>6. CASE snap.old > 0
  <2>1. PICK n \in Nat : n = snap.old - 1
    BY <1>3, <1>6
  <2>2. snap' = [snap EXCEPT !.old = n]
    BY <1>6, <2>1 DEF Passed
  <2>3. /\ snap'.old = n /\ snap'.st = snap.st /\ snap'.todo = snap.todo /\ snap'.pos = snap.pos
        /\ snap'.bal = snap.bal /\ snap'.lost = snap.lost
        /\ snap' \in [st : {"idle", "asked", "answered"}, todo : SUBSET Insts, pos : SUBSET Positions,
                      bal : Parts, old : Nat, lost : BOOLEAN]
    BY <1>3, <2>1, <2>2
  <2>4. n + 1 = snap.old
    BY <1>3, <2>1
  <2>5. AnswerTrue'
    <3> SUFFICES ASSUME snap.st # "idle", ~snap.lost
                 PROVE  /\ \A k \in HoldKeys : NoneAfter(n, k)' => SnapRight(k)'
                        /\ AddsUp(snap.bal, n)'
      BY <1>2, <2>3 DEF AnswerTrue, NoneAfter, AddsUp, FirstAfter
    <3>1. /\ \A k : NoneAfter(n, k)' => NoneAfter(n + 1, k)
          /\ \A i \in DOMAIN msgs' : FirstAfter(n, i)' => FirstAfter(n + 1, i + 1)
      BY <1>1, TailOrder
    <3>2. ASSUME NEW k \in HoldKeys, NoneAfter(n, k)' PROVE SnapRight(k)'
      BY <1>1, <1>5, <2>3, <2>4, <3>1, <3>2 DEF AnswerTrue
    <3>3. AddsUp(snap.bal, snap.old)
      BY <1>1 DEF AnswerTrue
    <3>4. AddsUp(snap.bal, n)'
      BY <1>4, <2>3, <2>4, <3>1, <3>3 DEF AddsUp
    <3>5. QED
      BY <3>2, <3>4
  <2>6. QED
    BY <1>3, <1>4, <2>1, <2>3, <2>5
<1>7. CASE ~(snap.old > 0)
  <2>1. snap.old = 0
    BY <1>3, <1>7
  <2>2. PICK l \in BOOLEAN : l = (snap.st = "answered" \/ (snap.st = "asked" /\ snap.todo # Insts))
    OBVIOUS
  <2>3. snap' = [snap EXCEPT !.lost = l]
    BY <1>7, <2>2 DEF Passed
  <2>4. /\ snap'.old = 0 /\ snap'.st = snap.st /\ snap'.todo = snap.todo /\ snap'.pos = snap.pos
        /\ snap'.bal = snap.bal /\ snap'.lost = l
        /\ snap' \in [st : {"idle", "asked", "answered"}, todo : SUBSET Insts, pos : SUBSET Positions,
                      bal : Parts, old : Nat, lost : BOOLEAN]
    BY <1>3, <2>1, <2>3
  <2>5. AnswerTrue'
    <3> SUFFICES ASSUME snap'.st # "idle", ~snap'.lost
                 PROVE  (\A k \in HoldKeys : SnapRight(k)') /\ AddsUp(snap.bal, snap.old)'
      BY <1>2 DEF AnswerTrue
    <3>1. snap.st = "asked" /\ snap.todo = Insts
      BY <1>3, <2>2, <2>4
    <3>2. CASE OfPositions
      <4>1. \A k \in HoldKeys : k[1] \in Insts
        BY <3>2 DEF HoldKeys, PosKeys
      <4>2. \A i \in DOMAIN msgs' : ~msgs'[i].delta
        BY <1>4, <3>2 DEF SoundMessage, OfPositions
      <4>3. QED
        BY <1>2, <2>4, <3>1, <3>2, <4>1, <4>2 DEF SnapRight, AddsUp
    <3>3. CASE ~OfPositions
      BY <1>2, <1>3, <2>4, <3>1, <3>3 DEF SnapRight, AddsUp, BalRight
    <3>4. QED
      BY <3>2, <3>3
  <2>6. QED
    BY <1>4, <2>4, <2>5
<1>8. QED
  BY <1>6, <1>7

\* A handler takes the message m; what it makes of it is right if the message is.
LEMMA HandleStep ==
  ASSUME HoldInv, msgs # <<>>, NEW m, m = Head(msgs), msgs' = Tail(msgs), snap' = Passed,
         last' = <<m.of>>, UNCHANGED <<hexg, topic, xpos, xbal>>,
         pos' \subseteq Positions, bal' \in Parts, ~hand'.busy,
         hand' \in [busy : BOOLEAN, base : SUBSET Positions, stored : BOOLEAN],
         fresh' # "raced" =>
           /\ fresh # "raced"
           /\ \A k \in HoldKeys : k # m.of /\ Minded(k)' /\ Right(k) => Right(k)'
           /\ Tells(m) => Right(m.of)'
           /\ topic = "spot" =>
                /\ m.of \in DOMAIN bal' => bal'[m.of].free = Leaves(m)
                /\ \A c \in DOMAIN bal' : c # m.of => c \in DOMAIN bal /\ bal'[c] = bal[c]
  PROVE  HoldInv'
<1>1. HoldTypeOK /\ ToldTrue /\ HeldTrue /\ msgs \in Seq(Messages)
  BY DEF HoldInv, HoldTypeOK
<1>2. /\ HoldKeys' = HoldKeys /\ PosKeys' = PosKeys /\ OfPositions' = OfPositions /\ Messages' = Messages
      /\ Positions' = Positions
  BY SameTopic
<1>3. /\ Len(msgs) \in Nat /\ DOMAIN msgs = 1..Len(msgs) /\ Len(msgs) > 0
      /\ DOMAIN msgs' = 1..Len(msgs) - 1 /\ Len(msgs') = Len(msgs) - 1
      /\ m = msgs[1] /\ 1 \in DOMAIN msgs
      /\ \A i \in DOMAIN msgs' : msgs'[i] = msgs[i + 1] /\ i + 1 \in DOMAIN msgs /\ i + 1 > 1 /\ i \in Nat
      /\ msgs' \in Seq(Messages)
  BY <1>1, TailFacts
<1>4. \A i \in DOMAIN msgs : SoundMessage(msgs[i])
  BY <1>1 DEF HoldTypeOK
<1>5. /\ AnswerTrue' /\ snap'.old <= Len(msgs')
      /\ snap' \in [st : {"idle", "asked", "answered"}, todo : SUBSET Insts, pos : SUBSET Positions,
                    bal : Parts, old : Nat, lost : BOOLEAN]
      /\ snap'.st = snap.st /\ snap'.todo = snap.todo /\ snap'.pos = snap.pos /\ snap'.bal = snap.bal
      /\ snap.old = 0 => snap'.old = 0
  BY PassedStep
<1>6. HoldTypeOK'
  <2>1. \A i \in DOMAIN msgs' : SoundMessage(msgs[i])'
    BY <1>2, <1>3, <1>4 DEF SoundMessage
  <2>2. /\ hexg \in {"", "binance", "okx", "bybit"}
        /\ topic \in {"", "spot", "margin", "hedge", "oneWay"} /\ (topic = "spot" => hexg = "binance")
        /\ xpos \in [PosKeys -> Int] /\ xbal \in [Coins -> Amounts]
    BY <1>1 DEF HoldTypeOK
  <2>3. snap'.st = "asked" =>
          /\ snap'.todo = Insts => snap'.pos = {} /\ snap'.old = 0
          /\ snap'.todo # Insts => hexg' = "bybit" /\ OfPositions'
          /\ ~OfPositions' => DOMAIN snap'.bal = {}
    BY <1>1, <1>2, <1>5 DEF HoldTypeOK
  <2>5. snap'.st = "answered" /\ OfPositions' => snap'.todo = {}
    BY <1>1, <1>2, <1>5 DEF HoldTypeOK
  <2>6. Range(last') \subseteq HoldKeys
    <3>1. m.of \in HoldKeys
      <4>1. m \in Messages
        BY <1>1
      <4>2. QED
        BY ONLY <4>1 DEF Messages
    <3>2. Range(last') = {m.of}
      <4>1. last' = <<m.of>>
        OBVIOUS
      <4>2. QED
        BY ONLY <4>1 DEF Range
    <3>3. QED
      BY <3>1, <3>2
  <2>4. QED
    BY <1>2, <1>3, <1>5, <2>1, <2>2, <2>3, <2>5, <2>6 DEF HoldTypeOK
<1>7. ToldTrue'
  <2>1. ASSUME NEW i \in DOMAIN msgs', LastOfIts(i)' PROVE Tells(msgs[i])'
    <3>1. LastOfIts(i + 1)
      <4>1. 0 \in Nat
        OBVIOUS
      <4>2. QED
        BY <1>1, <2>1, <4>1, TailOrder
    <3>2. Tells(msgs[i + 1]) /\ msgs'[i] = msgs[i + 1]
      BY <1>1, <1>3, <3>1 DEF ToldTrue
    <3>3. QED
      BY <1>2, <3>2 DEF Tells, Leaves
  <2>2. ASSUME NEW i \in DOMAIN msgs', NEW j \in DOMAIN msgs', i < j, msgs'[j].of = msgs'[i].of,
               FirstAfter(i, j)', msgs'[j].delta
        PROVE  msgs'[j].was = Leaves(msgs'[i])
    <3>1. FirstAfter(i + 1, j + 1)
      BY <1>1, <1>3, <2>2, TailOrder
    <3>2. /\ msgs'[i] = msgs[i + 1] /\ msgs'[j] = msgs[j + 1] /\ i + 1 < j + 1
          /\ i + 1 \in DOMAIN msgs /\ j + 1 \in DOMAIN msgs
      BY <1>3, <2>2
    <3>3. QED
      BY <1>1, <2>2, <3>1, <3>2 DEF ToldTrue
  <2>3. QED
    BY <2>1, <2>2 DEF ToldTrue, Leaves
<1>8. HeldTrue'
  <2> SUFFICES ASSUME fresh' # "raced"
               PROVE  /\ \A k \in HoldKeys : Minded(k)' /\ NoneAfter(0, k)' => Right(k)'
                      /\ AddsUp(bal, 0)'
    BY <1>2 DEF HeldTrue
  <2>1. /\ \A k \in HoldKeys : Minded(k) /\ NoneAfter(0, k) => Right(k)
        /\ AddsUp(bal, 0)
    BY <1>1 DEF HeldTrue
  <2>2. /\ \A k : NoneAfter(0, k)' => NoneAfter(0 + 1, k) /\ (0 = 0 /\ k # m.of => NoneAfter(0, k))
        /\ \A i \in DOMAIN msgs' : FirstAfter(0, i)' =>
             FirstAfter(0 + 1, i + 1) /\ (0 = 0 /\ msgs'[i].of # m.of => FirstAfter(0, i + 1))
    BY <1>1, TailOrder
  <2>3. ASSUME NEW k \in HoldKeys, Minded(k)', NoneAfter(0, k)' PROVE Right(k)'
    <3>1. CASE k = m.of
      <4>1. LastOfIts(1)
        <5>1. NoneAfter(0 + 1, k)
          BY <2>2, <2>3
        <5>2. QED
          BY <1>3, <3>1, <5>1 DEF NoneAfter, LastOfIts
      <4>2. Tells(m)
        BY <1>1, <1>3, <4>1 DEF ToldTrue
      <4>3. QED
        BY <3>1, <4>2
    <3>2. CASE k # m.of
      <4>1. NoneAfter(0, k)
        BY <2>2, <2>3, <3>2
      <4>2. Minded(k)
        <5>1. Range(last') = {m.of}
          BY DEF Range
        <5>2. QED
          BY <2>3, <3>2, <5>1 DEF Minded
      <4>3. QED
        BY <2>1, <2>3, <3>2, <4>1, <4>2
    <3>3. QED
      BY <3>1, <3>2
  <2>4. ASSUME NEW i \in DOMAIN msgs', FirstAfter(0, i)', msgs'[i].delta, msgs'[i].of \in DOMAIN bal'
        PROVE  bal'[msgs'[i].of].free = msgs'[i].was
    <3>1. /\ msgs'[i] = msgs[i + 1] /\ i + 1 \in DOMAIN msgs /\ i + 1 > 1
          /\ FirstAfter(1, i + 1)
      BY <1>3, <2>2, <2>4
    <3>2. topic = "spot"
      BY <1>4, <2>4, <3>1 DEF SoundMessage
    <3>3. CASE msgs'[i].of = m.of
      <4>1. msgs[i + 1].was = Leaves(m)
        <5>1. PICK j \in DOMAIN msgs : j = i + 1
          BY <3>1
        <5>2. 1 < j /\ FirstAfter(1, j) /\ msgs[j].of = msgs[1].of /\ msgs[j].delta
          BY <1>3, <2>4, <3>1, <3>3, <5>1
        <5>3. QED
          BY <1>1, <1>3, <5>1, <5>2 DEF ToldTrue
      <4>2. QED
        BY <2>4, <3>1, <3>2, <3>3, <4>1
    <3>4. CASE msgs'[i].of # m.of
      <4>1. FirstAfter(0, i + 1)
        BY <2>2, <2>4, <3>4
      <4>2. msgs'[i].of \in DOMAIN bal /\ bal'[msgs'[i].of] = bal[msgs'[i].of]
        BY <2>4, <3>2, <3>4
      <4>3. QED
        BY <2>1, <2>4, <3>1, <4>1, <4>2 DEF AddsUp
    <3>5. QED
      BY <3>3, <3>4
  <2>5. QED
    BY <2>3, <2>4 DEF AddsUp
<1>9. HandTrue'
  BY DEF HandTrue
<1>10. QED
  BY <1>5, <1>6, <1>7, <1>8, <1>9 DEF HoldInv

\* The message a handler takes.
LEMMA HeadMessage ==
  ASSUME HoldInv, msgs # <<>>, NEW m, m = Head(msgs)
  PROVE  /\ m \in Messages /\ SoundMessage(m)
         /\ OfPositions => m.of \in PosKeys /\ m.of[1] \in Insts /\ m.of[2] \in HeldSides
         /\ ~OfPositions => m.of \in Coins /\ m.to \in Parts
         /\ m.n \in Int /\ m.delta \in BOOLEAN /\ FirstAfter(0, 1) /\ msgs[1] = m /\ 1 \in DOMAIN msgs
<1>1. msgs \in Seq(Messages) /\ \A i \in DOMAIN msgs : SoundMessage(msgs[i])
  BY DEF HoldInv, HoldTypeOK
<1>2. m = msgs[1] /\ 1 \in DOMAIN msgs /\ m \in Messages /\ DOMAIN msgs = 1..Len(msgs) /\ Len(msgs) \in Nat
  BY <1>1
<1>3. FirstAfter(0, 1)
  BY <1>2 DEF FirstAfter
<1>4. m.of \in HoldKeys /\ m.n \in Int /\ m.delta \in BOOLEAN /\ m.to \in Parts
  BY <1>2 DEF Messages
<1>5. OfPositions => m.of \in PosKeys /\ m.of[1] \in Insts /\ m.of[2] \in HeldSides
  BY <1>4 DEF HoldKeys, PosKeys, Sides, HeldSides
<1>6. QED
  BY <1>1, <1>2, <1>3, <1>4, <1>5 DEF HoldKeys

\* handleAccountUpdate writes the positions.
LEMMA WritePositions ==
  ASSUME HoldInv, msgs # <<>>, WriteHeld, OfPositions
  PROVE  HoldInv'
<1>1. PICK m : m = Head(msgs)
  OBVIOUS
<1>2. /\ hand.busy /\ hand' = NoHand /\ msgs' = Tail(msgs) /\ snap' = Passed /\ last' = <<m.of>>
      /\ UNCHANGED <<hexg, topic, xpos, xbal, bal>>
      /\ pos' = Merged(hand.base, m) /\ fresh' = (IF hand.stored THEN "raced" ELSE fresh)
  BY <1>1 DEF WriteHeld
<1>3. HoldTypeOK /\ HandTrue
  BY DEF HoldInv
<1>4. /\ m.of \in PosKeys /\ m.of[1] \in Insts /\ m.of[2] \in HeldSides /\ m.n \in Int
  BY <1>1, HeadMessage
<1>5. /\ hexg = "binance" /\ hand.base \subseteq Positions /\ bal \in Parts /\ pos \subseteq Positions
      /\ hand.stored \in BOOLEAN
  BY <1>2, <1>3 DEF HoldTypeOK
<1>6. PICK e : e = [i |-> m.of[1], side |-> m.of[2], amt |-> m.n]
  OBVIOUS
<1>7. e.i = m.of[1] /\ e.side = m.of[2] /\ e.amt = m.n
  BY ONLY <1>6
<1>8. /\ \A p \in hand.base : ~(p.i = m.of[1] /\ p.side = m.of[2]) /\ p.amt # 0 => p \in pos'
      /\ \A p \in pos' : (p \in hand.base /\ ~(p.i = m.of[1] /\ p.side = m.of[2])) \/ (p = e /\ m.n # 0)
      /\ m.n # 0 => e \in pos'
  <2>1. pos' = {p \in hand.base : ~(p.i = m.of[1] /\ p.side = m.of[2]) /\ p.amt # 0}
                 \cup {p \in {e} : p.amt # 0}
    BY <1>2, <1>6, Zenon DEF Merged
  <2>2. QED
    BY ONLY <1>7, <2>1
<1>9. m.n # 0 => e \in Positions
  <2>1. ASSUME m.n # 0 PROVE m.n \in Int \ {0}
    BY <1>4, <2>1
  <2>2. QED
    BY ONLY <1>4, <1>6, <2>1 DEF Positions
<1>10. pos' \subseteq Positions
  BY <1>5, <1>8, <1>9
<1>11. /\ ~hand'.busy /\ hand' \in [busy : BOOLEAN, base : SUBSET Positions, stored : BOOLEAN]
  BY <1>2 DEF NoHand
<1>12. ASSUME fresh' # "raced"
       PROVE  fresh # "raced" /\ hand.base = pos
  BY <1>2, <1>3, <1>12 DEF HandTrue
<1>13. OfPositions' = OfPositions /\ xpos' = xpos /\ hexg' = hexg /\ topic' = topic
  BY <1>2 DEF OfPositions
<1>14. ASSUME fresh' # "raced", NEW k \in HoldKeys, k # m.of, Minded(k)', Right(k)
       PROVE  Right(k)'
  <2>1. Range(last') = {m.of}
    BY <1>2 DEF Range
  <2>2. topic = "hedge"
    BY <1>13, <1>14, <2>1 DEF Minded, OfPositions
  <2>3. k \in PosKeys /\ ~(k[1] = m.of[1] /\ k[2] = m.of[2])
    BY <1>4, <1>14 DEF HoldKeys, PosKeys
  <2>4. PosRight(pos, k) /\ hand.base = pos
    BY <1>12, <1>14 DEF Right
  <2>5. \A p \in pos' : p.i = k[1] /\ p.side = k[2] => p \in pos
    BY <1>7, <1>8, <2>3, <2>4
  <2>6. \A p \in pos : p.i = k[1] /\ p.side = k[2] => p \in pos'
    <3>1. \A p \in pos : p.amt # 0
      BY <1>5 DEF Positions
    <3>2. QED
      BY <1>8, <2>3, <2>4, <3>1
  <2>7. PosRight(pos, k)'
    BY <1>5, <1>13, <2>2, <2>4, <2>5, <2>6 DEF PosRight
  <2>8. QED
    BY <1>13, <2>7 DEF Right
<1>15. ASSUME Tells(m) PROVE Right(m.of)'
  <2>1. m.n = xpos[m.of]
    BY <1>15 DEF Tells
  <2>2. xpos[m.of] # 0 => e \in pos'
    BY <1>8, <2>1
  <2>3. \A p \in pos' : p.i = m.of[1] /\ p.side = m.of[2] => p = e
    BY <1>7, <1>8
  <2>4. PosRight(pos', m.of)
    BY <1>7, <2>1, <2>2, <2>3 DEF PosRight
  <2>5. QED
    BY <1>1, <1>13, <2>4 DEF Right, PosRight
<1>16. topic # "spot"
  BY DEF OfPositions
<1>17. bal' \in Parts
  BY <1>2, <1>5
<1>18. QED
  BY <1>1, <1>2, <1>10, <1>11, <1>12, <1>14, <1>15, <1>16, <1>17, HandleStep

\* The size of a position has no sign.
LEMMA AbsFacts ==
  ASSUME NEW n \in Int
  PROVE  Abs(n) \in Int /\ Abs(n) >= 0 /\ Abs(Abs(n)) = Abs(n) /\ (n # 0 => Abs(n) # 0)
<1>1. PICK a : a = Abs(n)
  OBVIOUS
<1>2. a \in Int /\ a >= 0 /\ (n # 0 => a # 0)
  BY <1>1 DEF Abs
<1>3. Abs(a) = a
  BY <1>2 DEF Abs
<1>4. QED
  BY <1>1, <1>2, <1>3

\* A balance sheet with an entry.
LEMMA WithFacts ==
  ASSUME NEW f \in Parts, NEW c \in Coins, NEW b \in Amounts
  PROVE  /\ With(f, c, b) \in Parts /\ DOMAIN With(f, c, b) = DOMAIN f \cup {c}
         /\ With(f, c, b)[c] = b
         /\ \A d \in DOMAIN f : d # c => With(f, c, b)[d] = f[d]
<1>1. PICK D \in SUBSET Coins : f \in [D -> Amounts]
  BY DEF Parts
<1>2. PICK g : g = With(f, c, b)
  OBVIOUS
<1>3. g = [d \in DOMAIN f \cup {c} |-> IF d = c THEN b ELSE f[d]]
  BY <1>2 DEF With
<1>4. g \in [D \cup {c} -> Amounts] /\ D \cup {c} \in SUBSET Coins
  BY <1>1, <1>3
<1>5. g \in Parts
  BY <1>4 DEF Parts
<1>6. DOMAIN g = DOMAIN f \cup {c} /\ g[c] = b /\ \A d \in DOMAIN f : d # c => g[d] = f[d]
  BY <1>3
<1>7. QED
  BY <1>2, <1>5, <1>6

\* An entry of a balance sheet.
LEMMA PartEntry ==
  ASSUME NEW f \in Parts, NEW c \in DOMAIN f
  PROVE  f[c] \in Amounts /\ c \in Coins /\ f[c].free \in Int /\ f[c].used \in Int
<1>1. PICK D \in SUBSET Coins : f \in [D -> Amounts]
  BY DEF Parts
<1>2. f[c] \in Amounts /\ c \in Coins
  BY <1>1
<1>3. QED
  BY <1>2 DEF Amounts

\* handleBalance and handleAccountUpdate write a balance.
LEMMA WriteBalances ==
  ASSUME HoldInv, msgs # <<>>, WriteHeld, ~OfPositions
  PROVE  HoldInv'
<1>1. PICK m : m = Head(msgs)
  OBVIOUS
<1>2. /\ hand.busy /\ hand' = NoHand /\ msgs' = Tail(msgs) /\ snap' = Passed /\ last' = <<m.of>>
      /\ UNCHANGED <<hexg, topic, xpos, xbal, pos>>
      /\ bal' = (IF hand.stored THEN bal ELSE Updated(bal, m))
      /\ fresh' = (IF hand.stored THEN "raced" ELSE fresh)
  BY <1>1 DEF WriteHeld
<1>3. HoldTypeOK /\ HeldTrue
  BY DEF HoldInv
<1>4. PICK c : c = m.of
  OBVIOUS
<1>5. /\ c \in Coins /\ m.to \in Parts /\ m.n \in Int /\ m.delta \in BOOLEAN /\ FirstAfter(0, 1)
      /\ msgs[1] = m /\ 1 \in DOMAIN msgs /\ m \in Messages
      /\ (m.delta => topic = "spot") /\ (~m.delta => c \in DOMAIN m.to)
  BY <1>1, <1>4, HeadMessage DEF SoundMessage
<1>6. /\ hexg = "binance" /\ bal \in Parts /\ pos \subseteq Positions /\ hand.stored \in BOOLEAN
  BY <1>2, <1>3 DEF HoldTypeOK
<1>7. /\ ~hand'.busy /\ hand' \in [busy : BOOLEAN, base : SUBSET Positions, stored : BOOLEAN]
  BY <1>2 DEF NoHand
<1>8. OfPositions' = OfPositions /\ xbal' = xbal /\ hexg' = hexg /\ topic' = topic
  BY <1>2 DEF OfPositions
<1>8a. bal \in Parts /\ c \in Coins
  BY <1>5, <1>6
<1>9. CASE hand.stored
  <2>1. fresh' = "raced" /\ bal' \in Parts
    BY <1>2, <1>6, <1>9
  <2>2. QED
    BY <1>1, <1>2, <1>6, <1>7, <2>1, HandleStep
<1>10. CASE ~hand.stored
  <2>1. bal' = Updated(bal, m) /\ fresh' = fresh
    BY <1>2, <1>10
  <2>2. /\ bal' \in Parts
        /\ \A d \in DOMAIN bal' : d # c => d \in DOMAIN bal /\ bal'[d] = bal[d]
        /\ c \in DOMAIN bal' =>
             IF topic = "spot"
             THEN \/ m.delta /\ c \in DOMAIN bal /\ bal'[c].free = bal[c].free + m.n
                  \/ ~m.delta /\ bal'[c].free = m.to[c].free
             ELSE bal'[c].free = m.to[c].free + m.to[c].used /\ ~m.delta
    <3>1. CASE topic = "spot" /\ m.delta /\ c \in DOMAIN bal
      <4>1. PICK x : x = bal[c]
        OBVIOUS
      <4>2. x \in Amounts /\ x.free \in Int
        BY <1>6, <3>1, <4>1, PartEntry
      <4>3. PICK y \in Int : y = x.free + m.n
        BY <1>5, <4>2
      <4>4. PICK b : b = [x EXCEPT !.free = y]
        OBVIOUS
      <4>5. b \in Amounts /\ b.free = y
        BY ONLY <4>2, <4>3, <4>4 DEF Amounts
      <4>6. bal' = With(bal, c, b)
        BY <1>4, <2>1, <3>1, <4>1, <4>3, <4>4 DEF Updated
      <4>7. /\ bal' \in Parts /\ DOMAIN bal' = DOMAIN bal \cup {c} /\ bal'[c] = b
            /\ \A d \in DOMAIN bal : d # c => bal'[d] = bal[d]
        BY ONLY ZenonT(60), <1>8a, <4>5, <4>6, WithFacts
      <4>8. bal'[c].free = bal[c].free + m.n
        BY ONLY <4>1, <4>3, <4>5, <4>7
      <4>9. QED
        BY ONLY <3>1, <4>7, <4>8
    <3>2. CASE topic = "spot" /\ m.delta /\ c \notin DOMAIN bal
      <4>1. bal' = bal
        BY <1>4, <2>1, <3>2 DEF Updated
      <4>2. QED
        BY <1>6, <3>2, <4>1
    <3>3. CASE topic = "spot" /\ ~m.delta
      <4>1. PICK b : b = m.to[c]
        OBVIOUS
      <4>2. b \in Amounts
        BY <1>5, <3>3, <4>1, PartEntry
      <4>3. bal' = With(bal, c, b)
        BY <1>4, <2>1, <3>3, <4>1 DEF Updated
      <4>4. /\ bal' \in Parts /\ DOMAIN bal' = DOMAIN bal \cup {c} /\ bal'[c] = b
            /\ \A d \in DOMAIN bal : d # c => bal'[d] = bal[d]
        BY ONLY ZenonT(60), <1>8a, <4>2, <4>3, WithFacts
      <4>5. QED
        BY ONLY <3>3, <4>1, <4>4
    <3>4. CASE topic # "spot"
      <4>1. ~m.delta /\ m.to[c].free \in Int /\ m.to[c].used \in Int
        BY <1>5, <3>4, PartEntry
      <4>2. PICK x \in Int : x = m.to[c].free + m.to[c].used
        BY <4>1
      <4>3. PICK u \in Int : u = IF c \in DOMAIN bal THEN bal[c].used ELSE 0
        <5>1. c \in DOMAIN bal => bal[c].used \in Int
          BY <1>6, PartEntry
        <5>2. QED
          BY <5>1
      <4>4. PICK b : b = [free |-> x, used |-> u]
        OBVIOUS
      <4>5. b \in Amounts /\ b.free = x
        BY ONLY <4>2, <4>3, <4>4 DEF Amounts
      <4>6. bal' = With(bal, c, b)
        BY <1>4, <2>1, <3>4, <4>2, <4>3, <4>4 DEF Updated
      <4>7. /\ bal' \in Parts /\ DOMAIN bal' = DOMAIN bal \cup {c} /\ bal'[c] = b
            /\ \A d \in DOMAIN bal : d # c => bal'[d] = bal[d]
        BY ONLY ZenonT(60), <1>8a, <4>5, <4>6, WithFacts
      <4>8. bal'[c].free = m.to[c].free + m.to[c].used
        BY ONLY <4>2, <4>5, <4>7
      <4>9. QED
        BY ONLY <3>4, <4>1, <4>7, <4>8
    <3>5. QED
      BY <1>5, <3>1, <3>2, <3>3, <3>4
  <2>3. ASSUME fresh # "raced", NEW k \in HoldKeys, k # c, Minded(k)', Right(k)
        PROVE  Right(k)'
    <3>1. Range(last') = {c}
      BY <1>2, <1>4 DEF Range
    <3>2. topic = "spot"
      BY <1>8, <2>3, <3>1 DEF Minded, OfPositions
    <3>3. QED
      BY <1>8, <2>2, <2>3, <3>2 DEF Right, BalRight
  <2>4. ASSUME fresh # "raced", topic = "spot", c \in DOMAIN bal'
        PROVE  bal'[c].free = Leaves(m)
    <3>1. CASE m.delta
      <4>1. c \in DOMAIN bal /\ bal'[c].free = bal[c].free + m.n
        BY <2>2, <2>4, <3>1
      <4>2. bal[c].free = m.was
        BY <1>3, <1>4, <1>5, <2>4, <3>1, <4>1 DEF HeldTrue, AddsUp
      <4>3. QED
        BY <3>1, <4>1, <4>2 DEF Leaves
    <3>2. CASE ~m.delta
      BY <1>4, <2>2, <2>4, <3>2 DEF Leaves
    <3>3. QED
      BY <3>1, <3>2
  <2>5. ASSUME fresh # "raced", Tells(m) PROVE Right(c)'
    <3> SUFFICES ASSUME c \in DOMAIN bal'
                 PROVE  IF topic = "spot" THEN bal'[c].free = xbal[c].free
                        ELSE bal'[c].free \in {xbal[c].free, xbal[c].free + xbal[c].used}
      BY <1>8 DEF Right, BalRight
    <3>1. CASE topic = "spot"
      <4>1. bal'[c].free = Leaves(m)
        BY <2>4, <2>5, <3>1
      <4>2. Leaves(m) = xbal[c].free
        BY <1>4, <1>5, <2>5 DEF Tells, Leaves
      <4>3. QED
        BY <3>1, <4>1, <4>2
    <3>2. CASE topic # "spot"
      <4>1. ~m.delta /\ m.to[c] = xbal[c] /\ bal'[c].free = m.to[c].free + m.to[c].used
        BY <1>4, <1>5, <2>2, <2>5, <3>2 DEF Tells
      <4>2. QED
        BY <3>2, <4>1
    <3>3. QED
      BY <3>1, <3>2
  <2>6. QED
    BY <1>1, <1>2, <1>4, <1>6, <1>7, <2>1, <2>2, <2>3, <2>4, <2>5, HandleStep
<1>11. QED
  BY <1>9, <1>10

\* Where messages replace what is held, one that tells the truth leaves it.
LEMMA ReplaceStep ==
  ASSUME HoldInv, hexg # "", HandleWallet \/ HandleOpenPositions
  PROVE  HoldInv'
<1>1. PICK m : m = Head(msgs)
  OBVIOUS
<1>2. /\ hexg # "binance" /\ msgs # <<>> /\ msgs' = Tail(msgs) /\ snap' = Passed /\ last' = <<m.of>>
      /\ UNCHANGED <<hexg, topic, xpos, xbal, hand>>
      /\ fresh' = (IF fresh = "none" THEN "ok" ELSE fresh)
  BY <1>1 DEF HandleWallet, HandleOpenPositions, Handled
<1>3. HoldTypeOK
  BY DEF HoldInv
<1>4. /\ hexg \in {"okx", "bybit"} /\ topic # "spot" /\ bal \in Parts /\ pos \subseteq Positions
      /\ ~hand'.busy /\ hand' \in [busy : BOOLEAN, base : SUBSET Positions, stored : BOOLEAN]
  BY <1>2, <1>3 DEF HoldTypeOK
<1>5. PICK c : c = m.of
  OBVIOUS
<1>6. /\ OfPositions => c \in PosKeys /\ c[1] \in Insts /\ c[2] \in HeldSides
      /\ ~OfPositions => c \in Coins /\ m.to \in Parts /\ c \in DOMAIN m.to
      /\ m.n \in Int /\ ~m.delta
  BY <1>1, <1>2, <1>4, <1>5, HeadMessage DEF SoundMessage
<1>7. OfPositions' = OfPositions /\ xbal' = xbal /\ xpos' = xpos /\ hexg' = hexg /\ topic' = topic
  BY <1>2 DEF OfPositions
<1>8. \A k : k # c => ~Minded(k)'
  <2>1. Range(last') = {c}
    <3>1. Range(last') = {m.of}
      <4>1. last' = <<m.of>>
        BY <1>2
      <4>2. QED
        BY ONLY <4>1 DEF Range
    <3>2. QED
      BY <1>5, <3>1
  <2>2. QED
    BY <1>2, <1>7, <2>1 DEF Minded
<1>9. CASE HandleWallet
  <2>1. ~OfPositions /\ pos' = pos /\ bal' = Told(m)
    BY <1>1, <1>9 DEF HandleWallet
  <2>2. bal' = [d \in DOMAIN m.to |-> [m.to[d] EXCEPT !.free = FreeShown(m.to[d])]]
    BY <2>1 DEF Told
  <2>3. ASSUME NEW d \in DOMAIN m.to
        PROVE  /\ [m.to[d] EXCEPT !.free = FreeShown(m.to[d])] \in Amounts
               /\ [m.to[d] EXCEPT !.free = FreeShown(m.to[d])].free
                    \in {m.to[d].free, m.to[d].free + m.to[d].used}
    <3>1. PICK x : x = m.to[d]
      OBVIOUS
    <3>2. x \in Amounts /\ x.free \in Int /\ x.used \in Int
      BY <1>6, <2>1, <3>1, PartEntry
    <3>3. PICK y \in Int : y = FreeShown(x) /\ y \in {x.free, x.free + x.used}
      <4>1. CASE hexg = "okx" /\ x.free = 0
        BY <3>2, <4>1 DEF FreeShown
      <4>2. CASE ~(hexg = "okx" /\ x.free = 0)
        <5>1. FreeShown(x) = x.free
          BY <4>2 DEF FreeShown
        <5>2. QED
          BY <3>2, <5>1
      <4>3. QED
        BY <4>1, <4>2
    <3>4. PICK b : b = [x EXCEPT !.free = y]
      OBVIOUS
    <3>5. b \in Amounts /\ b.free = y
      BY ONLY <3>2, <3>3, <3>4 DEF Amounts
    <3>6. QED
      BY <3>1, <3>3, <3>4, <3>5
  <2>4. PICK D \in SUBSET Coins : m.to \in [D -> Amounts]
    BY <1>6, <2>1 DEF Parts
  <2>5. bal' \in [D -> Amounts]
    BY <2>2, <2>3, <2>4
  <2>6. bal' \in Parts
    BY <2>4, <2>5 DEF Parts
  <2>7. ASSUME Tells(m) PROVE Right(c)'
    <3>1. m.to[c] = xbal[c]
      BY <1>5, <1>6, <2>1, <2>7 DEF Tells
    <3>2. bal'[c].free \in {m.to[c].free, m.to[c].free + m.to[c].used}
      BY <1>6, <2>1, <2>2, <2>3
    <3>3. QED
      BY <1>4, <1>7, <2>1, <3>1, <3>2 DEF Right, BalRight
  <2>8. QED
    BY <1>1, <1>2, <1>4, <1>5, <1>8, <2>1, <2>6, <2>7, HandleStep
<1>10. CASE HandleOpenPositions
  <2>1. OfPositions /\ bal' = bal /\ pos' = (IF m.n = 0 THEN pos ELSE {StdPos(c, m.n)})
    BY <1>1, <1>5, <1>10 DEF HandleOpenPositions, Told
  <2>2. PICK e : e = StdPos(c, m.n)
    OBVIOUS
  <2>3. PICK s \in HeldSides : e = [i |-> c[1], amt |-> Abs(m.n), side |-> s]
    <3>1. SideOfSign(m.n) \in HeldSides
      BY DEF SideOfSign, HeldSides
    <3>2. BinanceSide(c, m.n) \in HeldSides /\ OkxSide(c, m.n) \in HeldSides /\ BybitSide(m.n) \in HeldSides
      BY <1>6, <2>1, <3>1 DEF BinanceSide, OkxSide, BybitSide
    <3>3. CASE hexg = "okx"
      BY <2>2, <3>2, <3>3 DEF StdPos
    <3>4. CASE hexg = "bybit"
      BY <2>2, <3>2, <3>4 DEF StdPos
    <3>5. QED
      BY <1>4, <3>3, <3>4
  <2>4. e.i = c[1] /\ e.amt = Abs(m.n)
    BY ONLY <2>3
  <2>5. ASSUME m.n # 0 PROVE e \in Positions /\ Abs(e.amt) = Abs(m.n)
    <3>1. Abs(m.n) \in Int \ {0} /\ Abs(Abs(m.n)) = Abs(m.n)
      BY <1>6, <2>5, AbsFacts
    <3>2. c[1] \in Insts
      BY <1>6, <2>1
    <3>3. e \in Positions
      BY ONLY <2>3, <3>1, <3>2 DEF Positions
    <3>4. QED
      BY <2>4, <3>1, <3>3
  <2>6. pos' \subseteq Positions
    BY <1>4, <2>1, <2>2, <2>5
  <2>7. ASSUME Tells(m) PROVE Right(c)'
    <3>1. m.n = xpos[c]
      BY <1>5, <2>1, <2>7 DEF Tells
    <3>2. xpos[c] # 0 => e \in pos' /\ e.i = c[1] /\ Abs(e.amt) = Abs(xpos[c])
      BY <2>1, <2>2, <2>4, <2>5, <3>1
    <3>3. QED
      BY <1>2, <1>7, <2>1, <3>2 DEF Right, PosRight
  <2>8. bal' \in Parts
    BY <1>4, <2>1
  <2>9. QED
    BY <1>1, <1>2, <1>4, <1>5, <1>8, <2>6, <2>7, <2>8, HandleStep
<1>11. QED
  BY <1>9, <1>10

-------------------------------------------------------------------------------
(* A request, its answers and the store.                                   *)

\* The messages have a number.
LEMMA HowMany == ASSUME HoldInv PROVE Len(msgs) \in Nat /\ DOMAIN msgs = 1..Len(msgs)
<1>1. msgs \in Seq(Messages)
  BY DEF HoldInv, HoldTypeOK
<1>2. QED
  BY ONLY <1>1

\* What is told and what is held stay as they are.
LEMMA HeldKept ==
  ASSUME ToldTrue, HeldTrue, UNCHANGED <<hexg, topic, xpos, xbal, msgs, pos, bal, last, fresh>>
  PROVE  ToldTrue' /\ HeldTrue'
<1>1. HoldKeys' = HoldKeys /\ OfPositions' = OfPositions
  BY SameTopic
<1>2. \A i : LastOfIts(i)' = LastOfIts(i)
  BY DEF LastOfIts
<1>3. \A n, i : FirstAfter(n, i)' = FirstAfter(n, i)
  BY DEF FirstAfter
<1>4. \A n, k : NoneAfter(n, k)' = NoneAfter(n, k)
  BY DEF NoneAfter
<1>5. ToldTrue'
  BY <1>1, <1>2, <1>3 DEF ToldTrue, Tells, Leaves
<1>6. \A k : (Minded(k)' => Minded(k)) /\ (Right(k) => Right(k)')
  BY <1>1 DEF Minded, Right, PosRight, BalRight
<1>7. HeldTrue'
  BY <1>1, <1>3, <1>4, <1>6 DEF HeldTrue, AddsUp
<1>8. QED
  BY <1>5, <1>7

\* A step of the request alone.
LEMMA SnapStep ==
  ASSUME HoldInv,
         UNCHANGED <<hexg, topic, xpos, xbal, msgs, pos, bal, hand, last, fresh>>,
         snap' \in [st : {"idle", "asked", "answered"}, todo : SUBSET Insts, pos : SUBSET Positions,
                    bal : Parts, old : Nat, lost : BOOLEAN],
         snap'.old <= Len(msgs),
         snap'.st = "asked" =>
           /\ snap'.todo = Insts => snap'.pos = {} /\ snap'.old = 0
           /\ snap'.todo # Insts => hexg = "bybit" /\ OfPositions
           /\ ~OfPositions => DOMAIN snap'.bal = {},
         snap'.st = "answered" /\ OfPositions => snap'.todo = {},
         snap'.st # "idle" /\ ~snap'.lost =>
           /\ \A k \in HoldKeys : NoneAfter(snap'.old, k) =>
                IF OfPositions THEN k[1] \in snap'.todo \/ PosRight(snap'.pos, k)
                ELSE BalRight(snap'.bal, k)
           /\ AddsUp(snap'.bal, snap'.old)
  PROVE  HoldInv'
<1>1. /\ HoldKeys' = HoldKeys /\ PosKeys' = PosKeys /\ OfPositions' = OfPositions /\ Messages' = Messages
      /\ Positions' = Positions
  BY SameTopic
<1>2. HoldTypeOK /\ ToldTrue /\ HeldTrue /\ HandTrue
  BY DEF HoldInv
<1>3. ToldTrue' /\ HeldTrue'
  BY <1>2, HeldKept
<1>4. HoldTypeOK'
  <2>1. \A i \in DOMAIN msgs' : SoundMessage(msgs[i])'
    BY <1>1, <1>2 DEF HoldTypeOK, SoundMessage
  <2>2. QED
    BY <1>1, <1>2, <2>1 DEF HoldTypeOK
<1>5. HandTrue'
  BY <1>2 DEF HandTrue
<1>6. AnswerTrue'
  <2>1. \A P, k : PosRight(P, k) => PosRight(P, k)'
    BY DEF PosRight
  <2>2. \A B, k : BalRight(B, k) => BalRight(B, k)'
    BY DEF BalRight
  <2>3. \A n, k : NoneAfter(n, k)' => NoneAfter(n, k)
    BY DEF NoneAfter
  <2>4. \A n, i : FirstAfter(n, i)' => FirstAfter(n, i)
    BY DEF FirstAfter
  <2> SUFFICES ASSUME snap'.st # "idle", ~snap'.lost
               PROVE  /\ \A k \in HoldKeys : NoneAfter(snap.old, k)' => SnapRight(k)'
                      /\ AddsUp(snap.bal, snap.old)'
    BY <1>1 DEF AnswerTrue
  <2>5. PICK n, B, P : n = snap'.old /\ B = snap'.bal /\ P = snap'.pos
    OBVIOUS
  <2>6. ASSUME NEW k \in HoldKeys, NoneAfter(snap.old, k)' PROVE SnapRight(k)'
    <3>1. NoneAfter(n, k)
      BY <2>5, <2>6 DEF NoneAfter
    <3>2. IF OfPositions THEN k[1] \in snap'.todo \/ PosRight(P, k) ELSE BalRight(B, k)
      BY <2>5, <3>1
    <3>3. IF OfPositions THEN k[1] \in snap'.todo \/ PosRight(P, k)' ELSE BalRight(B, k)'
      BY <2>1, <2>2, <3>2
    <3>4. QED
      BY <1>1, <2>5, <3>3 DEF SnapRight, PosRight, BalRight
  <2>7. AddsUp(B, n)
    BY <2>5
  <2>8. AddsUp(snap.bal, snap.old)'
    BY <2>5, <2>7 DEF AddsUp, FirstAfter
  <2>9. QED
    BY <2>6, <2>8
<1>7. QED
  BY <1>3, <1>4, <1>5, <1>6 DEF HoldInv

\* A request that was never sent, or whose answer is an error.
LEMMA NoSnapFacts ==
  /\ NoSnap \in [st : {"idle", "asked", "answered"}, todo : SUBSET Insts, pos : SUBSET Positions,
                 bal : Parts, old : Nat, lost : BOOLEAN]
  /\ NoSnap.st = "idle" /\ NoSnap.old = 0
<1>1. {} \in SUBSET Insts /\ {} \in SUBSET Positions /\ <<>> \in Parts /\ 0 \in Nat
  BY EmptyPart
<1>2. PICK s : s = NoSnap
  OBVIOUS
<1>3. s = [st |-> "idle", todo |-> {}, pos |-> {}, bal |-> <<>>, old |-> 0, lost |-> FALSE]
  BY <1>2 DEF NoSnap
<1>4. /\ s \in [st : {"idle", "asked", "answered"}, todo : SUBSET Insts, pos : SUBSET Positions,
                bal : Parts, old : Nat, lost : BOOLEAN]
      /\ s.st = "idle" /\ s.old = 0
  BY ONLY <1>1, <1>3
<1>5. QED
  BY <1>2, <1>4

\* A request is given up.
LEMMA GiveUpStep ==
  ASSUME HoldInv, snap' = NoSnap,
         UNCHANGED <<hexg, topic, xpos, xbal, msgs, pos, bal, hand, last, fresh>>
  PROVE  HoldInv'
<1>1. Len(msgs) \in Nat
  BY HowMany
<1>2. /\ snap' \in [st : {"idle", "asked", "answered"}, todo : SUBSET Insts, pos : SUBSET Positions,
                    bal : Parts, old : Nat, lost : BOOLEAN]
      /\ snap'.st = "idle" /\ snap'.old <= Len(msgs)
  BY <1>1, NoSnapFacts
<1>3. QED
  BY <1>2, SnapStep

\* A request is sent.
LEMMA AskStep ==
  ASSUME HoldInv, Ask
  PROVE  HoldInv'
<1>1. /\ snap' = [NoSnap EXCEPT !.st = "asked", !.todo = Insts]
      /\ UNCHANGED <<hexg, topic, xpos, xbal, msgs, pos, bal, hand, last, fresh>>
  BY DEF Ask
<1>2. snap' = [st |-> "asked", todo |-> Insts, pos |-> {}, bal |-> <<>>, old |-> 0, lost |-> FALSE]
  BY <1>1 DEF NoSnap
<1>3. /\ snap'.st = "asked" /\ snap'.todo = Insts /\ snap'.pos = {} /\ snap'.bal = <<>> /\ snap'.old = 0
  BY ONLY <1>2
<1>4. {} \in SUBSET Positions /\ Insts \in SUBSET Insts /\ <<>> \in Parts /\ DOMAIN <<>> = {}
  BY EmptyPart
<1>5. snap' \in [st : {"idle", "asked", "answered"}, todo : SUBSET Insts, pos : SUBSET Positions,
                 bal : Parts, old : Nat, lost : BOOLEAN]
  BY ONLY <1>2, <1>4
<1>6. Len(msgs) \in Nat
  BY HowMany
<1>7. AddsUp(snap'.bal, snap'.old)
  <2>1. DOMAIN snap'.bal = {}
    BY <1>3, <1>4
  <2>2. QED
    BY <2>1 DEF AddsUp
<1>8. \A k \in HoldKeys : IF OfPositions THEN k[1] \in snap'.todo \/ PosRight(snap'.pos, k)
                          ELSE BalRight(snap'.bal, k)
  <2>1. ASSUME OfPositions, NEW k \in HoldKeys PROVE k[1] \in snap'.todo
    BY <1>3, <2>1 DEF HoldKeys, PosKeys
  <2>2. ASSUME ~OfPositions, NEW k \in HoldKeys PROVE BalRight(snap'.bal, k)
    BY <1>3, <1>4 DEF BalRight
  <2>3. QED
    BY <2>1, <2>2
<1>9. snap'.old <= Len(msgs)
  BY <1>3, <1>6
<1>10. snap'.st = "asked" =>
         /\ snap'.todo = Insts => snap'.pos = {} /\ snap'.old = 0
         /\ snap'.todo # Insts => hexg = "bybit" /\ OfPositions
         /\ ~OfPositions => DOMAIN snap'.bal = {}
  BY <1>3, <1>4
<1>11. ~(snap'.st = "answered")
  BY <1>3
<1>12. QED
  BY <1>1, <1>5, <1>7, <1>8, <1>9, <1>10, <1>11, SnapStep

\* The answer to a request for balances comes.
LEMMA AnswerBalanceStep ==
  ASSUME HoldInv, AnswerBalance
  PROVE  HoldInv'
<1>1. /\ snap.st = "asked" /\ ~OfPositions
      /\ UNCHANGED <<hexg, topic, xpos, xbal, msgs, pos, bal, hand, last, fresh>>
  BY DEF AnswerBalance
<1>2. CASE snap' = NoSnap
  BY <1>1, <1>2, GiveUpStep
<1>3. CASE snap' = [snap EXCEPT !.st = "answered", !.bal = Balances, !.old = Len(msgs)]
  <2>1. /\ xbal \in [Coins -> Amounts]
        /\ snap \in [st : {"idle", "asked", "answered"}, todo : SUBSET Insts, pos : SUBSET Positions,
                     bal : Parts, old : Nat, lost : BOOLEAN]
    BY DEF HoldInv, HoldTypeOK
  <2>2. PICK B : B = Balances
    OBVIOUS
  <2>3. \A c \in DOMAIN B : c \in Coins /\ B[c] = xbal[c]
    BY <2>1, <2>2 DEF Balances, AllBalances, FilledBalances
  <2>4. B \in Parts
    <3>1. PICK D \in SUBSET Coins : B = [c \in D |-> xbal[c]]
      <4>1. CASE hexg = "okx"
        <5>1. B = [c \in Coins |-> xbal[c]]
          BY <2>1, <2>2, <4>1 DEF Balances, AllBalances
        <5>2. QED
          BY <5>1
      <4>2. CASE hexg # "okx"
        BY <2>2, <4>2 DEF Balances, FilledBalances
      <4>3. QED
        BY <4>1, <4>2
    <3>2. B \in [D -> Amounts]
      BY <2>1, <3>1
    <3>3. QED
      BY <3>2 DEF Parts
  <2>5. PICK n \in Nat : n = Len(msgs) /\ DOMAIN msgs = 1..n
    BY HowMany
  <2>6. snap' = [snap EXCEPT !.st = "answered", !.bal = B, !.old = n]
    BY <1>3, <2>2, <2>5
  <2>7. /\ snap' \in [st : {"idle", "asked", "answered"}, todo : SUBSET Insts, pos : SUBSET Positions,
                      bal : Parts, old : Nat, lost : BOOLEAN]
        /\ snap'.st = "answered" /\ snap'.bal = B /\ snap'.old = n
    BY ONLY <2>1, <2>4, <2>5, <2>6
  <2>8. \A k \in HoldKeys : BalRight(B, k)
    BY <2>3 DEF BalRight
  <2>9. AddsUp(B, n)
    BY <2>5 DEF AddsUp, FirstAfter
  <2>10. snap'.old <= Len(msgs)
    BY <2>5, <2>7
  <2>11. \A k \in HoldKeys : NoneAfter(snap'.old, k) =>
           IF OfPositions THEN k[1] \in snap'.todo \/ PosRight(snap'.pos, k)
           ELSE BalRight(snap'.bal, k)
    BY <1>1, <2>7, <2>8
  <2>12. AddsUp(snap'.bal, snap'.old)
    BY <2>7, <2>9
  <2>13. snap'.st # "asked" /\ ~(snap'.st = "answered" /\ OfPositions)
    BY <1>1, <2>7
  <2>14. QED
    BY <1>1, <2>7, <2>10, <2>11, <2>12, <2>13, SnapStep
<1>4. QED
  BY <1>2, <1>3 DEF AnswerBalance

\* What is made of a position.
LEMMA StdPosFacts ==
  ASSUME hexg \in {"binance", "okx", "bybit"}, OfPositions, NEW k \in PosKeys, NEW n \in Int
  PROVE  /\ StdPos(k, n).i = k[1] /\ StdPos(k, n).amt = Abs(n)
         /\ n # 0 => StdPos(k, n) \in Positions
         /\ hexg = "binance" /\ topic = "hedge" => StdPos(k, n).side = k[2]
<1>1. k[1] \in Insts /\ k[2] \in HeldSides /\ (topic = "hedge" => k[2] # "both")
  BY DEF PosKeys, Sides, HeldSides
<1>2. SideOfSign(n) \in HeldSides
  BY DEF SideOfSign, HeldSides
<1>3. PICK e : e = StdPos(k, n)
  OBVIOUS
<1>4. PICK s \in HeldSides : /\ e = [i |-> k[1], amt |-> Abs(n), side |-> s]
                             /\ hexg = "binance" /\ topic = "hedge" => s = k[2]
  <2>1. BinanceSide(k, n) \in HeldSides /\ OkxSide(k, n) \in HeldSides /\ BybitSide(n) \in HeldSides
    BY <1>1, <1>2 DEF BinanceSide, OkxSide, BybitSide
  <2>2. topic = "hedge" => BinanceSide(k, n) = k[2]
    BY <1>1 DEF BinanceSide
  <2>3. CASE hexg = "okx"
    BY <1>3, <2>1, <2>3 DEF StdPos
  <2>4. CASE hexg = "bybit"
    BY <1>3, <2>1, <2>4 DEF StdPos
  <2>5. CASE hexg = "binance"
    BY <1>3, <2>1, <2>2, <2>5 DEF StdPos
  <2>6. QED
    BY <2>3, <2>4, <2>5
<1>5. e.i = k[1] /\ e.amt = Abs(n) /\ e.side = s
  BY ONLY <1>4
<1>6. ASSUME n # 0 PROVE e \in Positions
  <2>1. Abs(n) \in Int \ {0}
    BY <1>6, AbsFacts
  <2>2. QED
    BY ONLY <1>1, <1>4, <2>1 DEF Positions
<1>7. QED
  BY <1>3, <1>4, <1>5, <1>6

\* Two pairs with the same parts.
LEMMA SamePair ==
  ASSUME NEW S, NEW T, NEW x \in S \X T, NEW y \in S \X T, x[1] = y[1], x[2] = y[2]
  PROVE  x = y
OBVIOUS

\* The open positions of contracts are right.
LEMMA OpenFacts ==
  ASSUME HoldTypeOK, OfPositions, hexg # "", NEW S \in SUBSET Insts
  PROVE  /\ Open(S) \subseteq Positions
         /\ \A k \in PosKeys : k[1] \in S => PosRight(Open(S), k)
<1>1. hexg \in {"binance", "okx", "bybit"} /\ xpos \in [PosKeys -> Int]
  BY DEF HoldTypeOK
<1>2. \A k \in S \X Sides : k \in PosKeys /\ xpos[k] \in Int /\ k[1] \in S
  BY <1>1 DEF PosKeys
<1>3. \A p \in Open(S) : \E k \in S \X Sides : xpos[k] # 0 /\ p = StdPos(k, xpos[k])
  BY DEF Open
<1>4. \A k \in S \X Sides : xpos[k] # 0 => StdPos(k, xpos[k]) \in Open(S)
  BY DEF Open
<1>5. Open(S) \subseteq Positions
  BY <1>1, <1>2, <1>3, StdPosFacts
<1>6. ASSUME NEW k \in PosKeys, k[1] \in S PROVE PosRight(Open(S), k)
  <2>1. k \in S \X Sides /\ xpos[k] \in Int
    BY <1>1, <1>6 DEF PosKeys
  <2>2. PICK n \in Int : n = xpos[k]
    BY <2>1
  <2>3. PICK e : e = StdPos(k, n)
    OBVIOUS
  <2>4. e.i = k[1] /\ e.amt = Abs(n) /\ (hexg = "binance" /\ topic = "hedge" => e.side = k[2])
    BY <1>1, <2>3, StdPosFacts
  <2>5. n # 0 => e \in Open(S)
    BY <1>4, <2>1, <2>2, <2>3
  <2>6. Abs(Abs(n)) = Abs(n)
    BY AbsFacts
  <2>7. CASE hexg = "binance" /\ topic = "hedge"
    <3>1. ASSUME NEW p \in Open(S), p.i = k[1], p.side = k[2] PROVE p = e
      <4>1. PICK q \in S \X Sides : xpos[q] # 0 /\ p = StdPos(q, xpos[q])
        BY <1>3
      <4>2. p.i = q[1] /\ p.side = q[2]
        BY <1>1, <1>2, <2>7, <4>1, StdPosFacts
      <4>3. q = k
        <5>1. q[1] = k[1] /\ q[2] = k[2]
          BY <3>1, <4>2
        <5>2. QED
          BY <2>1, <5>1, SamePair
      <4>4. QED
        BY <2>2, <2>3, <4>1, <4>3
    <3>2. QED
      BY <2>2, <2>4, <2>5, <2>6, <2>7, <3>1 DEF PosRight
  <2>8. CASE ~(hexg = "binance" /\ topic = "hedge")
    BY <2>2, <2>4, <2>5, <2>6, <2>8 DEF PosRight
  <2>9. QED
    BY <2>7, <2>8
<1>7. QED
  BY <1>5, <1>6

\* The answer to a request for positions comes, or one of them.
LEMMA AnswerPositionsStep ==
  ASSUME HoldInv, hexg # "", NEW S \in SUBSET Insts, AnswerPositions(S)
  PROVE  HoldInv'
<1>1. /\ snap.st = "asked" /\ OfPositions /\ S \subseteq snap.todo /\ S # {}
      /\ (hexg # "bybit" => S = snap.todo)
      /\ UNCHANGED <<hexg, topic, xpos, xbal, msgs, pos, bal, hand, last, fresh>>
  BY DEF AnswerPositions
<1>2. CASE snap' = NoSnap
  BY <1>1, <1>2, GiveUpStep
<1>3. CASE snap' = [snap EXCEPT !.todo = @ \ S, !.pos = @ \cup Open(S),
                                !.st = IF S = snap.todo THEN "answered" ELSE "asked",
                                !.old = IF snap.todo = Insts THEN Len(msgs) ELSE @]
  <2>1. /\ HoldTypeOK /\ AnswerTrue /\ snap.old <= Len(msgs)
        /\ \A i \in DOMAIN msgs : SoundMessage(msgs[i])
        /\ snap \in [st : {"idle", "asked", "answered"}, todo : SUBSET Insts, pos : SUBSET Positions,
                     bal : Parts, old : Nat, lost : BOOLEAN]
        /\ snap.todo = Insts => snap.pos = {}
        /\ snap.todo # Insts => hexg = "bybit"
    BY <1>1 DEF HoldInv, HoldTypeOK
  <2>2. PICK t, P, n, a :
          /\ t = snap.todo \ S /\ P = snap.pos \cup Open(S)
          /\ n = (IF snap.todo = Insts THEN Len(msgs) ELSE snap.old)
          /\ a = (IF S = snap.todo THEN "answered" ELSE "asked")
    OBVIOUS
  <2>3. snap' = [snap EXCEPT !.todo = t, !.pos = P, !.st = a, !.old = n]
    BY <1>3, <2>2
  <2>4. /\ Open(S) \subseteq Positions
        /\ \A k \in PosKeys : k[1] \in S => PosRight(Open(S), k)
    BY <1>1, <2>1, OpenFacts
  <2>5. n \in Nat /\ n <= Len(msgs)
    <3>1. Len(msgs) \in Nat /\ snap.old \in Nat /\ snap.old <= Len(msgs)
      BY <2>1, HowMany
    <3>2. n = Len(msgs) \/ n = snap.old
      BY <2>2
    <3>3. QED
      BY ONLY <3>1, <3>2
  <2>6. /\ t \in SUBSET Insts /\ P \in SUBSET Positions /\ a \in {"asked", "answered"}
        /\ a = "asked" => t # {} /\ hexg = "bybit"
        /\ a = "answered" => t = {}
        /\ t # Insts
    <3>1. snap.todo \subseteq Insts /\ snap.pos \subseteq Positions
      BY <2>1
    <3>2. t \in SUBSET Insts /\ P \in SUBSET Positions /\ t # Insts
      BY <1>1, <2>2, <2>4, <3>1
    <3>3. ASSUME a = "asked" PROVE t # {} /\ hexg = "bybit"
      <4>1. S # snap.todo
        BY <2>2, <3>3
      <4>2. QED
        BY <1>1, <2>2, <4>1
    <3>4. a \in {"asked", "answered"} /\ (a = "answered" => t = {})
      BY <2>2
    <3>5. QED
      BY <3>2, <3>3, <3>4
  <2>7. /\ snap' \in [st : {"idle", "asked", "answered"}, todo : SUBSET Insts, pos : SUBSET Positions,
                      bal : Parts, old : Nat, lost : BOOLEAN]
        /\ snap'.st = a /\ snap'.todo = t /\ snap'.pos = P /\ snap'.old = n /\ snap'.lost = snap.lost
    BY ONLY <2>1, <2>3, <2>5, <2>6
  <2>8. ASSUME ~snap.lost, NEW k \in HoldKeys, NoneAfter(n, k), k[1] \notin t
        PROVE  PosRight(P, k)
    <3>1. k \in PosKeys /\ k[1] \in Insts
      BY <1>1, <2>8 DEF HoldKeys, PosKeys
    <3>2. CASE k[1] \in S
      <4>1. PosRight(Open(S), k)
        BY <2>4, <3>1, <3>2
      <4>2. CASE snap.todo = Insts
        <5>1. P = Open(S)
          BY <2>1, <2>2, <4>2
        <5>2. QED
          BY <4>1, <5>1
      <4>3. CASE snap.todo # Insts
        <5>1. hexg = "bybit" /\ Open(S) \subseteq P
          BY <2>1, <2>2, <4>3
        <5>2. QED
          BY <4>1, <5>1 DEF PosRight
      <4>4. QED
        BY <4>2, <4>3
    <3>3. CASE k[1] \notin S
      <4>1. k[1] \notin snap.todo /\ snap.todo # Insts
        BY <2>2, <2>8, <3>1, <3>3
      <4>2. n = snap.old /\ hexg = "bybit" /\ snap.pos \subseteq P
        BY <2>1, <2>2, <4>1
      <4>3. SnapRight(k)
        BY <1>1, <2>1, <2>8, <4>2 DEF AnswerTrue
      <4>4. PosRight(snap.pos, k)
        BY <1>1, <4>1, <4>3 DEF SnapRight
      <4>5. QED
        BY <4>2, <4>4 DEF PosRight
    <3>4. QED
      BY <3>2, <3>3
  <2>9. \A B : AddsUp(B, n)
    <3>1. \A i \in DOMAIN msgs : ~msgs[i].delta
      BY <1>1, <2>1 DEF SoundMessage, OfPositions
    <3>2. QED
      BY <3>1 DEF AddsUp
  <2>10. snap'.st # "idle" /\ ~snap'.lost =>
           /\ \A k \in HoldKeys : NoneAfter(snap'.old, k) =>
                IF OfPositions THEN k[1] \in snap'.todo \/ PosRight(snap'.pos, k)
                ELSE BalRight(snap'.bal, k)
           /\ AddsUp(snap'.bal, snap'.old)
    BY <1>1, <2>7, <2>8, <2>9
  <2>11. snap'.old <= Len(msgs)
    BY <2>5, <2>7
  <2>12. snap'.st = "asked" =>
           /\ snap'.todo = Insts => snap'.pos = {} /\ snap'.old = 0
           /\ snap'.todo # Insts => hexg = "bybit" /\ OfPositions
           /\ ~OfPositions => DOMAIN snap'.bal = {}
    BY <1>1, <2>6, <2>7
  <2>13. snap'.st = "answered" /\ OfPositions => snap'.todo = {}
    BY <2>6, <2>7
  <2>14. QED
    BY <1>1, <2>7, <2>10, <2>11, <2>12, <2>13, SnapStep
<1>4. QED
  BY <1>2, <1>3 DEF AnswerPositions

\* An answer is stored.
LEMMA StoreAnswer ==
  ASSUME HoldInv, StoreSnap
  PROVE  HoldInv'
<1>1. /\ snap.st = "answered" /\ snap' = NoSnap
      /\ UNCHANGED <<hexg, topic, xpos, xbal, msgs, last>>
  BY DEF StoreSnap
<1>2. /\ HoldKeys' = HoldKeys /\ PosKeys' = PosKeys /\ OfPositions' = OfPositions /\ Messages' = Messages
      /\ Positions' = Positions
  BY <1>1, SameTopic
<1>3. CASE Kept
  <2>1. UNCHANGED <<pos, bal, hand, fresh>>
    BY <1>3 DEF StoreSnap
  <2>2. QED
    BY <1>1, <2>1, GiveUpStep
<1>4. CASE ~Kept
  <2>1. /\ OfPositions => pos' = snap.pos /\ bal' = bal
        /\ ~OfPositions => bal' = snap.bal /\ pos' = pos
        /\ hand' = [hand EXCEPT !.stored = hand.busy]
        /\ fresh' = (IF snap.lost \/ Twice THEN "raced" ELSE "ok")
    BY <1>4 DEF StoreSnap
  <2>2. /\ HoldTypeOK /\ ToldTrue /\ AnswerTrue
        /\ (\A i \in DOMAIN msgs : SoundMessage(msgs[i]))
        /\ pos \subseteq Positions /\ bal \in Parts
        /\ snap \in [st : {"idle", "asked", "answered"}, todo : SUBSET Insts, pos : SUBSET Positions,
                     bal : Parts, old : Nat, lost : BOOLEAN]
        /\ hand \in [busy : BOOLEAN, base : SUBSET Positions, stored : BOOLEAN]
        /\ (OfPositions => snap.todo = {})
    BY <1>1 DEF HoldInv, HoldTypeOK
  <2>3. /\ hand' \in [busy : BOOLEAN, base : SUBSET Positions, stored : BOOLEAN]
        /\ hand'.busy = hand.busy /\ hand'.stored = hand.busy
    BY ONLY <2>1, <2>2
  <2>4. pos' \subseteq Positions /\ bal' \in Parts
    BY <2>1, <2>2
  <2>5. PICK n \in Nat : n = Len(msgs) /\ DOMAIN msgs = 1..n
    BY HowMany
  <2>6. /\ snap' \in [st : {"idle", "asked", "answered"}, todo : SUBSET Insts, pos : SUBSET Positions,
                      bal : Parts, old : Nat, lost : BOOLEAN]
        /\ snap'.st = "idle" /\ snap'.old <= Len(msgs)
    BY <1>1, <2>5, NoSnapFacts
  <2>7. HoldTypeOK'
    <3>1. \A i \in DOMAIN msgs' : SoundMessage(msgs[i])'
      BY <1>1, <1>2, <2>2 DEF SoundMessage
    <3>2. hand'.busy => hexg' = "binance" /\ msgs' # <<>>
      BY <1>1, <2>2, <2>3 DEF HoldTypeOK
    <3>3. /\ hexg \in {"", "binance", "okx", "bybit"}
          /\ topic \in {"", "spot", "margin", "hedge", "oneWay"} /\ (topic = "spot" => hexg = "binance")
          /\ xpos \in [PosKeys -> Int] /\ xbal \in [Coins -> Amounts] /\ msgs \in Seq(Messages)
      BY <2>2 DEF HoldTypeOK
    <3>4. snap'.st # "asked" /\ snap'.st # "answered"
      BY <2>6
    <3>5. Range(last') \subseteq HoldKeys
      BY <1>1, <2>2 DEF HoldTypeOK
    <3>6. QED
      BY <1>1, <1>2, <2>3, <2>4, <2>6, <3>1, <3>2, <3>3, <3>4, <3>5 DEF HoldTypeOK
  <2>8. ToldTrue'
    BY <1>1, <1>2, <2>2 DEF ToldTrue, Tells, Leaves, LastOfIts, FirstAfter
  <2>9. HeldTrue'
    <3> SUFFICES ASSUME fresh' # "raced"
                 PROVE  (\A k \in HoldKeys : NoneAfter(0, k) => Right(k)') /\ AddsUp(bal', 0)
      BY <1>1, <1>2 DEF HeldTrue, NoneAfter, AddsUp, FirstAfter
    <3>1. ~snap.lost /\ ~Twice
      BY <2>1
    <3>2. /\ \A k \in HoldKeys : NoneAfter(snap.old, k) => SnapRight(k)
          /\ AddsUp(snap.bal, snap.old)
      BY <1>1, <2>2, <3>1 DEF AnswerTrue
    <3>3. snap.old \in Nat
      BY <2>2
    <3>4. ASSUME NEW k \in HoldKeys, NoneAfter(0, k) PROVE Right(k)'
      <4>1. NoneAfter(snap.old, k)
        BY <2>5, <3>3, <3>4 DEF NoneAfter
      <4>2. SnapRight(k)
        BY <3>2, <4>1
      <4>3. CASE OfPositions
        <5>1. PosRight(snap.pos, k) /\ pos' = snap.pos
          BY <2>1, <2>2, <4>2, <4>3 DEF SnapRight
        <5>2. QED
          BY <1>1, <1>2, <4>3, <5>1 DEF Right, PosRight
      <4>4. CASE ~OfPositions
        <5>1. BalRight(snap.bal, k) /\ bal' = snap.bal
          BY <2>1, <4>2, <4>4 DEF SnapRight
        <5>2. QED
          BY <1>1, <1>2, <4>4, <5>1 DEF Right, BalRight
      <4>5. QED
        BY <4>3, <4>4
    <3>5. AddsUp(bal', 0)
      <4> SUFFICES ASSUME NEW i \in DOMAIN msgs, FirstAfter(0, i), msgs[i].delta,
                          msgs[i].of \in DOMAIN bal'
                   PROVE  bal'[msgs[i].of].free = msgs[i].was
        BY DEF AddsUp
      <4>1. ~OfPositions /\ bal' = snap.bal
        BY <2>1, <2>2 DEF SoundMessage, OfPositions
      <4>2. i \in Nat /\ i > 0 /\ i > snap.old
        BY <2>5, <3>1, <3>3 DEF Twice
      <4>3. FirstAfter(snap.old, i)
        BY <2>5, <3>3, <4>2 DEF FirstAfter
      <4>4. QED
        BY <3>2, <4>1, <4>3 DEF AddsUp
    <3>6. QED
      BY <3>4, <3>5
  <2>10. AnswerTrue' /\ HandTrue'
    BY <2>3, <2>6 DEF AnswerTrue, HandTrue
  <2>11. QED
    BY <2>7, <2>8, <2>9, <2>10 DEF HoldInv
<1>5. QED
  BY <1>3, <1>4

\* handleBalance and handleAccountUpdate read the map.
LEMMA ReadStep ==
  ASSUME HoldInv, ReadHeld
  PROVE  HoldInv'
<1>1. /\ hexg = "binance" /\ msgs # <<>> /\ hand' = [busy |-> TRUE, base |-> pos, stored |-> FALSE]
      /\ UNCHANGED <<hexg, topic, xpos, xbal, msgs, pos, bal, snap, last, fresh>>
  BY DEF ReadHeld
<1>2. /\ HoldKeys' = HoldKeys /\ PosKeys' = PosKeys /\ OfPositions' = OfPositions /\ Messages' = Messages
      /\ Positions' = Positions
  BY <1>1, SameTopic
<1>3. HoldTypeOK /\ ToldTrue /\ HeldTrue /\ AnswerTrue /\ pos \in SUBSET Positions
  BY DEF HoldInv, HoldTypeOK
<1>4. /\ hand' \in [busy : BOOLEAN, base : SUBSET Positions, stored : BOOLEAN]
      /\ hand'.base = pos
  <2>1. hand' = [busy |-> TRUE, base |-> pos, stored |-> FALSE]
    BY <1>1
  <2>2. QED
    BY ONLY <1>3, <2>1
<1>5. HoldTypeOK'
  <2>1. \A i \in DOMAIN msgs' : SoundMessage(msgs[i])'
    BY <1>1, <1>2, <1>3 DEF HoldTypeOK, SoundMessage
  <2>2. QED
    BY <1>1, <1>2, <1>3, <1>4, <2>1 DEF HoldTypeOK
<1>6. ToldTrue' /\ HeldTrue'
  BY <1>1, <1>3, HeldKept
<1>7. AnswerTrue'
  BY <1>1, <1>2, <1>3 DEF AnswerTrue, NoneAfter, AddsUp, FirstAfter, SnapRight, PosRight, BalRight
<1>8. HandTrue'
  BY <1>1, <1>4 DEF HandTrue
<1>9. QED
  BY <1>5, <1>6, <1>7, <1>8 DEF HoldInv

\* Nothing happens to what is held.
LEMMA HoldIdle ==
  ASSUME HoldInv, UNCHANGED holdVars
  PROVE  HoldInv'
<1>1. UNCHANGED <<hexg, topic, xpos, xbal, msgs, pos, bal, snap, hand, last, fresh>>
  BY DEF holdVars
<1>2. /\ HoldKeys' = HoldKeys /\ PosKeys' = PosKeys /\ OfPositions' = OfPositions /\ Messages' = Messages
      /\ Positions' = Positions
  BY <1>1, SameTopic
<1>3. HoldTypeOK /\ ToldTrue /\ HeldTrue /\ AnswerTrue /\ HandTrue
  BY DEF HoldInv
<1>4. HoldTypeOK'
  <2>1. \A i \in DOMAIN msgs' : SoundMessage(msgs[i])'
    BY <1>1, <1>2, <1>3 DEF HoldTypeOK, SoundMessage
  <2>2. QED
    BY <1>1, <1>2, <1>3, <2>1 DEF HoldTypeOK
<1>5. ToldTrue' /\ HeldTrue'
  BY <1>1, <1>3, HeldKept
<1>6. AnswerTrue'
  BY <1>1, <1>2, <1>3 DEF AnswerTrue, NoneAfter, AddsUp, FirstAfter, SnapRight, PosRight, BalRight
<1>7. HandTrue'
  BY <1>1, <1>3 DEF HandTrue
<1>8. QED
  BY <1>4, <1>5, <1>6, <1>7 DEF HoldInv

\* Every step of the account keeps the invariant.
LEMMA HoldStep ==
  ASSUME HoldInv, hexg # "", HoldNext
  PROVE  HoldInv'
<1>1. CASE \E S \in SUBSET Insts : AnswerPositions(S)
  BY <1>1, AnswerPositionsStep
<1>2. CASE \/ \E k \in PosKeys, n \in -MaxSize..MaxSize : ChangePosition(k, n)
           \/ \E c \in Coins, f \in 0..MaxSize, u \in 0..1, S \in SUBSET Coins :
                ChangeBalance(c, [free |-> f, used |-> u], S)
           \/ \E c \in Coins, d \in -MaxSize..MaxSize : Transfer(c, d)
  BY <1>2, ChangeStep
<1>3. CASE WriteHeld
  <2>1. msgs # <<>>
    BY <1>3 DEF WriteHeld, HoldInv, HoldTypeOK
  <2>2. QED
    BY <1>3, <2>1, WritePositions, WriteBalances
<1>4. CASE Ask
  BY <1>4, AskStep
<1>5. CASE AnswerBalance
  BY <1>5, AnswerBalanceStep
<1>6. CASE StoreSnap
  BY <1>6, StoreAnswer
<1>7. CASE ReadHeld
  BY <1>7, ReadStep
<1>8. CASE HandleWallet \/ HandleOpenPositions
  BY <1>8, ReplaceStep
<1>9. QED
  BY <1>1, <1>2, <1>3, <1>4, <1>5, <1>6, <1>7, <1>8 DEF HoldNext

\* It holds at the start.
LEMMA HoldBegins == ASSUME HoldInit \/ NoHoldings PROVE HoldInv
<1>1. /\ xpos = [k \in PosKeys |-> 0] /\ xbal = [c \in Coins |-> Zero]
      /\ msgs = <<>> /\ pos = {} /\ bal = <<>> /\ snap = NoSnap /\ hand = NoHand
      /\ last = <<>> /\ fresh = "none"
  BY DEF HoldInit, NoHoldings
<1>2. /\ hexg \in {"", "binance", "okx", "bybit"}
      /\ topic \in {"", "spot", "margin", "hedge", "oneWay"} /\ (topic = "spot" => hexg = "binance")
  BY HoldingsAssumption DEF HoldInit, NoHoldings
<1>3. PICK z : z = [free |-> 0, used |-> 0]
  OBVIOUS
<1>4. z \in Amounts
  BY ONLY <1>3 DEF Amounts
<1>5. xpos \in [PosKeys -> Int] /\ xbal \in [Coins -> Amounts]
  BY <1>1, <1>3, <1>4 DEF Zero
<1>6. bal \in Parts /\ DOMAIN bal = {}
  BY <1>1, EmptyPart
<1>7. /\ hand \in [busy : BOOLEAN, base : SUBSET Positions, stored : BOOLEAN] /\ hand.busy = FALSE
  <2>1. hand = [busy |-> FALSE, base |-> {}, stored |-> FALSE]
    BY <1>1 DEF NoHand
  <2>2. QED
    BY ONLY <2>1
<1>8. /\ snap \in [st : {"idle", "asked", "answered"}, todo : SUBSET Insts, pos : SUBSET Positions,
                   bal : Parts, old : Nat, lost : BOOLEAN]
      /\ snap.st = "idle" /\ snap.old = 0
  BY <1>1, NoSnapFacts
<1>9. msgs \in Seq(Messages) /\ Len(msgs) = 0 /\ DOMAIN msgs = {}
  BY <1>1
<1>10. HoldTypeOK
  <2>1. snap.old <= Len(msgs) /\ snap.st # "asked" /\ snap.st # "answered"
    BY <1>8, <1>9
  <2>2. pos \subseteq Positions /\ (\A i \in DOMAIN msgs : SoundMessage(msgs[i]))
    BY <1>1, <1>9
  <2>3. Range(last) \subseteq HoldKeys
    <3>1. last = <<>> /\ DOMAIN <<>> = {}
      BY <1>1, EmptyPart
    <3>2. QED
      BY ONLY <3>1 DEF Range
  <2>4. QED
    BY <1>2, <1>5, <1>6, <1>7, <1>8, <1>9, <2>1, <2>2, <2>3 DEF HoldTypeOK
<1>11. ToldTrue
  BY <1>9 DEF ToldTrue
<1>12. \A k \in HoldKeys : Right(k)
  <2>1. ASSUME OfPositions, NEW k \in HoldKeys PROVE xpos[k] = 0
    BY <1>1, <2>1 DEF HoldKeys
  <2>2. QED
    BY <1>1, <1>6, <2>1 DEF Right, PosRight, BalRight
<1>13. HeldTrue /\ AnswerTrue /\ HandTrue
  BY <1>6, <1>7, <1>8, <1>9, <1>12 DEF HeldTrue, AddsUp, AnswerTrue, HandTrue
<1>14. QED
  BY <1>10, <1>11, <1>13 DEF HoldInv

\* So what is held of an account and what is told of it agree at all times.
LEMMA HoldKept == CachesSpec => []HoldInv
<1>1. CachesInit => HoldInv
  BY HoldBegins DEF CachesInit
<1>2. ASSUME HoldInv, [CachesNext]_<<vars, levVars, holdVars>>
      PROVE  HoldInv'
  <2>1. CASE hexg # "" /\ HoldNext
    BY <1>2, <2>1, HoldStep
  <2>2. CASE UNCHANGED holdVars
    BY <1>2, <2>2, HoldIdle
  <2>3. QED
    BY <1>2, <2>1, <2>2 DEF CachesNext
<1>3. QED
  BY <1>1, <1>2, PTL DEF CachesSpec

-------------------------------------------------------------------------------
(* What is held of an account.                                             *)

\* Every variable of Holdings has its type.
THEOREM HoldingsTypeCorrect == CachesSpec => []HoldTypeOK
<1>1. HoldInv => HoldTypeOK
  BY DEF HoldInv
<1>2. QED
  BY <1>1, HoldKept, PTL

\* When every message has been handled and no answer waits to be stored,
\* acc.MarPositions and acc.MarBalances are what the exchange has: all of them where
\* the handler keeps the others, what the last message told of elsewhere.  That is
\* unless a message and an answer were stored over each other.
THEOREM HoldingsAreTrue == CachesSpec => []HoldingsTrue
<1>1. HoldInv => HoldingsTrue
  <2> SUFFICES ASSUME HoldInv, Settled PROVE HoldingsTrue
    BY DEF HoldingsTrue
  <2>1. /\ HoldTypeOK /\ msgs = <<>> /\ fresh = "ok" /\ HeldTrue
        /\ hexg \in {"", "binance", "okx", "bybit"} /\ pos \subseteq Positions /\ bal \in Parts
        /\ xpos \in [PosKeys -> Int] /\ Range(last) \subseteq HoldKeys
    BY DEF Settled, HoldInv, HoldTypeOK
  <2>2. ASSUME NEW k \in HoldKeys, Minded(k) PROVE Right(k)
    <3>1. DOMAIN msgs = {}
      BY <2>1, EmptyPart
    <3>2. NoneAfter(0, k)
      BY <3>1 DEF NoneAfter
    <3>3. QED
      BY <2>1, <2>2, <3>2 DEF HeldTrue
  <2>3. CASE hexg = "binance" /\ topic = "hedge"
    <3>1. OfPositions /\ \A k \in PosKeys : PosRight(pos, k)
      BY <2>2, <2>3 DEF HoldKeys, OfPositions, Minded, Right
    <3>2. HeldSides = Sides
      BY <2>3 DEF HeldSides, Sides
    <3>3. ASSUME NEW k \in PosKeys, NEW p \in pos, p.i = k[1], p.side = k[2]
          PROVE  xpos[k] # 0 /\ [p EXCEPT !.amt = Abs(p.amt)] = StdPos(k, xpos[k])
      <4>1. Abs(p.amt) = Abs(xpos[k]) /\ p \in Positions /\ xpos[k] \in Int
        BY <2>1, <2>3, <3>1, <3>3 DEF PosRight
      <4>2. p.amt \in Int /\ p.amt # 0
        BY <4>1 DEF Positions
      <4>3. xpos[k] # 0
        BY <4>1, <4>2, AbsFacts DEF Abs
      <4>4. PICK a : a = Abs(p.amt)
        OBVIOUS
      <4>5. [p EXCEPT !.amt = a] = [i |-> p.i, amt |-> a, side |-> p.side]
        BY ONLY <4>1 DEF Positions
      <4>6. StdPos(k, xpos[k]) = [i |-> k[1], amt |-> Abs(xpos[k]), side |-> k[2]]
        <5>1. k[2] # "both"
          BY <2>3 DEF PosKeys, Sides
        <5>2. QED
          BY <2>3, <5>1 DEF StdPos, BinanceSide
      <4>7. QED
        BY <3>3, <4>1, <4>3, <4>4, <4>5, <4>6
    <3>4. \A e : e \in Open(Insts) <=> \E k \in PosKeys : xpos[k] # 0 /\ e = StdPos(k, xpos[k])
      BY DEF Open, PosKeys
    <3>5. ASSUME NEW p \in pos PROVE [p EXCEPT !.amt = Abs(p.amt)] \in Open(Insts)
      <4>1. p.i \in Insts /\ p.side \in Sides
        BY <2>1, <3>2 DEF Positions
      <4>2. PICK k \in PosKeys : k[1] = p.i /\ k[2] = p.side
        <5>1. <<p.i, p.side>> \in PosKeys
          BY <4>1 DEF PosKeys
        <5>2. QED
          BY <5>1
      <4>3. QED
        BY <3>3, <3>4, <4>2
    <3>6. ASSUME NEW e \in Open(Insts) PROVE \E p \in pos : e = [p EXCEPT !.amt = Abs(p.amt)]
      <4>1. PICK k \in PosKeys : xpos[k] # 0 /\ e = StdPos(k, xpos[k])
        BY <3>4
      <4>2. PICK p \in pos : p.i = k[1] /\ p.side = k[2]
        BY <2>3, <3>1, <4>1 DEF PosRight
      <4>3. QED
        BY <3>3, <4>1, <4>2
    <3>7. {[p EXCEPT !.amt = Abs(@)] : p \in pos} = Open(Insts)
      BY <3>5, <3>6
    <3>8. QED
      BY <2>3, <3>7 DEF HoldingsTrue
  <2>4. CASE OfPositions /\ ~(hexg = "binance" /\ topic = "hedge")
    <3>1. ASSUME NEW k \in Range(last), xpos[k] # 0
          PROVE  \E p \in pos : p.i = k[1] /\ Abs(p.amt) = Abs(xpos[k])
      <4>1. Right(k)
        BY <2>1, <2>2, <3>1 DEF Minded
      <4>2. QED
        BY <2>4, <3>1, <4>1 DEF Right, PosRight
    <3>2. \A k \in Range(last) : xpos[k] # 0 =>
            \E p \in pos : p.i = k[1] /\ Abs(p.amt) = Abs(xpos[k])
      BY <3>1
    <3>3. CASE hexg # "binance"
      BY <2>4, <3>2, <3>3 DEF HoldingsTrue, OfPositions
    <3>4. CASE topic # "hedge"
      BY <2>4, <3>2, <3>4 DEF HoldingsTrue, OfPositions
    <3>5. QED
      BY <2>4, <3>3, <3>4
  <2>5. CASE topic = "spot"
    <3>1. ~OfPositions /\ hexg = "binance" /\ HoldKeys = Coins
      BY <2>1, <2>5 DEF OfPositions, HoldKeys, HoldTypeOK
    <3>2. ASSUME NEW c \in DOMAIN bal PROVE bal[c].free = xbal[c].free
      <4>1. c \in HoldKeys
        BY <2>1, <3>1, PartEntry
      <4>2. QED
        BY <2>2, <2>5, <3>1, <3>2, <4>1 DEF Minded, Right, BalRight
    <3>3. QED
      BY <2>5, <3>1, <3>2 DEF HoldingsTrue
  <2>6. CASE ~OfPositions /\ topic # "spot"
    <3>1. ASSUME NEW c \in Range(last) \cap DOMAIN bal
          PROVE  bal[c].free \in {xbal[c].free, xbal[c].free + xbal[c].used}
      <4>1. c \in HoldKeys
        BY <2>1, <2>6, <3>1, PartEntry DEF HoldKeys
      <4>2. QED
        BY <2>2, <2>6, <3>1, <4>1 DEF Minded, Right, BalRight
    <3>2. QED
      BY <2>6, <3>1 DEF HoldingsTrue, OfPositions
  <2>7. QED
    BY <2>3, <2>4, <2>5, <2>6
<1>2. QED
  BY <1>1, HoldKept, PTL

-------------------------------------------------------------------------------
(* MarketLoader: what an object offers is of one fetch, and a LoadMarkets  *)
(* that nobody overlaps is going to be answered.                           *)

\* What names a channel or a fetch, and what names an object.
Chan == Loaders \cup {None}
Obj  == Exgs \cup {None}

\* A caller, and a goroutine of doLoadMarkets; while it works it is going to look
\* at MarketsWait.
Working == {"cache", "lock", "fetch", "store", "set", "curr", "eval"}
Places  == {"free", "send", "done"} \cup Working
Steps   == {"idle", "check", "make", "eval", "recv", "clear"}
Calls   == [pc : Steps, exg : Obj, ch : Chan]
Loads   == [pc : Places, exg : Obj, ch : Chan, mk : Chan, cur : Chan]

\* The types of the variables.
Typed ==
  /\ caller \in [Callers -> Calls] /\ loader \in [Loaders -> Loads]
  /\ wait \in [Exgs -> Chan] /\ closed \subseteq Loaders /\ alone \in [Callers -> BOOLEAN]
  /\ cacheMarkets \in Chan /\ cacheCurrs \in Chan /\ locked \in Chan
  /\ markets \in [Exgs -> Chan] /\ currencies \in [Exgs -> [Codes -> Chan]]
  /\ mixed \in [Exgs -> BOOLEAN] /\ currApi \in BOOLEAN

-------------------------------------------------------------------------------
(* The fetches.                                                            *)

\* marketsLock is held by whoever fetches or stores.
LockHeld ==
  /\ locked # None => locked \in Loaders /\ loader[locked].pc \in {"fetch", "store"}
  /\ \A l \in Loaders : loader[l].pc \in {"fetch", "store"} => locked = l

\* The currencies that go with the markets of a fetch: none without FetchCurrencies.
CurrsOf(f) == IF currApi THEN f ELSE None

\* The cache has the two halves of one fetch, but for the moment between them.
CacheWhole ==
  /\ \A l \in Loaders : loader[l].pc = "store" => cacheCurrs = CurrsOf(l)
  /\ (\A l \in Loaders : loader[l].pc # "store") => cacheCurrs = CurrsOf(cacheMarkets)

\* What a goroutine is about to set is of one fetch.
LoadWhole ==
  \A l \in Loaders : loader[l].pc \in {"set", "curr"} =>
    loader[l].mk # None /\ loader[l].cur = CurrsOf(loader[l].mk)

\* Between setMarkets and setCurrencies there is one goroutine of an object at a
\* time, whose markets it has; else the object's halves are of one fetch.
Setting(e) == {l \in Loaders : loader[l].pc = "curr" /\ loader[l].exg = e}
SetOnce ==
  \A e \in Exgs : ~mixed[e] =>
    /\ \A l, k \in Setting(e) : l = k
    /\ \A l \in Setting(e) : markets[e] = loader[l].mk
    /\ Setting(e) = {} => OfOneFetch(e)

Fetched == LockHeld /\ CacheWhole /\ LoadWhole /\ SetOnce

-------------------------------------------------------------------------------
(* The waiting.                                                            *)

\* A channel is e.MarketsWait, or in the hands of a caller or a goroutine, of the
\* object whose LoadMarkets has made it.
MadeFor(x, e) == x # None => loader[x].pc # "free" /\ loader[x].exg = e
ChannelsTied ==
  /\ \A c \in Callers : caller[c].pc # "idle" => caller[c].exg \in Exgs
  /\ \A l \in Loaders : loader[l].pc # "free" => loader[l].exg \in Exgs
  /\ \A e \in Exgs : MadeFor(wait[e], e)
  /\ \A c \in Callers : MadeFor(caller[c].ch, caller[c].exg)
  /\ \A l \in Loaders : MadeFor(loader[l].ch, loader[l].exg)

\* Whoever is going to set MarketsWait to nil.
Clearing(d, e) ==
  /\ caller[d].exg = e
  /\ \/ caller[d].pc \in {"eval", "clear"}
     \/ caller[d].pc = "recv" /\ caller[d].ch = wait[e]

\* MarketsWait is set only while somebody is going to forget it.
WaitForgotten == \A e \in Exgs : wait[e] # None => \E d \in Callers : Clearing(d, e)

\* A goroutine has the channel of e, or will find it in MarketsWait.
Serving(e) ==
  \E l \in Loaders : \/ loader[l].pc = "send" /\ loader[l].ch = wait[e]
                     \/ loader[l].exg = e /\ loader[l].pc \in Working

\* A call of x that nobody overlaps: the others of the object hang for good, it
\* finds no channel, and the one it makes is served.
LoneCall(a, x) ==
  /\ \A d \in Callers \ {a} : caller[d].exg = x => Hung(d)
  /\ caller[a].pc \in {"check", "make"} => wait[x] = None
  /\ caller[a].pc \in {"eval", "recv"} => wait[x] # None /\ Serving(x)
  /\ caller[a].pc = "recv" => caller[a].ch = wait[x]

LoneCalls ==
  \A a \in Callers, x \in Exgs :
    alone[a] /\ caller[a].pc # "idle" /\ caller[a].exg = x => LoneCall(a, x)

Waited == ChannelsTied /\ WaitForgotten /\ LoneCalls

-------------------------------------------------------------------------------
\* The names of the places.
LEMMA InPlaces ==
  /\ "idle" \in Steps /\ "check" \in Steps /\ "make" \in Steps /\ "eval" \in Steps
  /\ "recv" \in Steps /\ "clear" \in Steps
  /\ "free" \in Places /\ "send" \in Places /\ "done" \in Places /\ "cache" \in Places
  /\ "lock" \in Places /\ "fetch" \in Places /\ "store" \in Places /\ "set" \in Places
  /\ "curr" \in Places /\ "eval" \in Places
BY DEF Steps, Places, Working

\* What the variables hold, one by one.
LEMMA PartsTyped ==
  ASSUME Typed
  PROVE  /\ \A c \in Callers : /\ caller[c] \in Calls /\ caller[c].pc \in Steps
                               /\ caller[c].exg \in Obj /\ caller[c].ch \in Chan
         /\ \A l \in Loaders : /\ loader[l] \in Loads /\ loader[l].pc \in Places
                               /\ loader[l].exg \in Obj /\ loader[l].ch \in Chan
                               /\ loader[l].mk \in Chan /\ loader[l].cur \in Chan
BY DEF Typed, Calls, Loads

\* Every step keeps the types of the variables.
LEMMA TypedStep == Typed /\ ChannelsTied /\ [Next]_vars => Typed'
<1> SUFFICES ASSUME Typed /\ ChannelsTied, [Next]_vars PROVE Typed'
  OBVIOUS
<1> USE BoundAssumption DEF cacheVars, exgVars
<1>1. CASE UNCHANGED vars
  BY <1>1 DEF vars, cacheVars, exgVars, Typed
<1>2. CASE Tick
  BY <1>2 DEF Tick, Typed
<1>3. ASSUME NEW c \in Callers, NEW e \in Exgs, NEW reload \in BOOLEAN, Begin(c, e, reload)
      PROVE  Typed'
  <2>1. [pc |-> "check", exg |-> e, ch |-> None] \in Calls
    BY InPlaces DEF Calls, Chan, Obj
  <2>2. alone' \in [Callers -> BOOLEAN]
    BY <1>3 DEF Begin, Typed
  <2>3. QED
    BY <1>3, <2>1, <2>2 DEF Begin, Typed
<1>4. ASSUME NEW e \in Exgs, CloseWait(e) PROVE Typed'
  <2>1. closed' \subseteq Loaders /\ wait' \in [Exgs -> Chan]
    BY <1>4 DEF CloseWait, Typed, Chan
  <2>2. alone' \in [Callers -> BOOLEAN]
    BY <1>4 DEF CloseWait, Typed
  <2>3. QED
    BY <1>4, <2>1, <2>2 DEF CloseWait, Typed
<1>5. ASSUME NEW c \in Callers, CallerStep(c) PROVE Typed'
  <2>1. CASE CheckWait(c)
    <3>1. [caller[c] EXCEPT !.pc = "make"] \in Calls /\ [caller[c] EXCEPT !.pc = "eval"] \in Calls
      BY PartsTyped, InPlaces DEF Calls
    <3>2. QED
      BY <2>1, <3>1 DEF CheckWait, At, Go, Typed
  <2>2. CASE Make(c)
    <3>1. PICK l \in Loaders :
            /\ wait' = [wait EXCEPT ![caller[c].exg] = l]
            /\ loader' = [loader EXCEPT ![l] = [Free EXCEPT !.pc = "cache", !.exg = caller[c].exg]]
      BY <2>2 DEF Make
    <3>2. [Free EXCEPT !.pc = "cache", !.exg = caller[c].exg] \in Loads
      BY PartsTyped, InPlaces DEF Free, Loads, Chan
    <3>3. [caller[c] EXCEPT !.pc = "eval"] \in Calls
      BY PartsTyped, InPlaces DEF Calls
    <3>4. wait' \in [Exgs -> Chan] /\ loader' \in [Loaders -> Loads] /\ caller' \in [Callers -> Calls]
      BY <2>2, <3>1, <3>2, <3>3 DEF Make, Go, Typed, Chan
    <3>5. QED
      BY <2>2, <3>4 DEF Make, Typed
  <2>3. CASE EvalWait(c)
    <3>1. [caller[c] EXCEPT !.pc = "recv", !.ch = wait[caller[c].exg]] \in Calls
      BY ZenonT(60), <2>3, PartsTyped, InPlaces DEF EvalWait, At, ChannelsTied, Calls, Typed, Idle, Chan, Obj
    <3>2. QED
      BY <2>3, <3>1 DEF EvalWait, At, Typed
  <2>4. CASE ReceiveClosed(c)
    <3>1. [caller[c] EXCEPT !.pc = "clear"] \in Calls
      BY <2>4, PartsTyped, InPlaces DEF ReceiveClosed, At, ChannelsTied, Calls, Typed, Idle, Chan, Obj
    <3>2. QED
      BY <2>4, <3>1 DEF ReceiveClosed, At, Go, Typed
  <2>5. CASE Clear(c)
    <3>1. Idle \in Calls
      BY InPlaces DEF Idle, Calls, Chan, Obj
    <3>2. QED
      BY <2>5, <3>1 DEF Clear, Typed, Chan
  <2>6. ASSUME NEW l \in Loaders, Deliver(c, l) PROVE Typed'
    <3>1. [caller[c] EXCEPT !.pc = "clear"] \in Calls /\ [loader[l] EXCEPT !.pc = "done"] \in Loads
      BY PartsTyped, InPlaces DEF Calls, Loads
    <3>2. QED
      BY <2>6, <3>1 DEF Deliver, At, Go, Typed
  <2>7. QED
    BY <1>5, <2>1, <2>2, <2>3, <2>4, <2>5, <2>6 DEF CallerStep
<1>6. ASSUME NEW l \in Loaders, LoaderStep(l) PROVE Typed'
  <2>1. CASE LookInCache(l)
    <3>1. /\ [loader[l] EXCEPT !.pc = "lock"] \in Loads
          /\ [loader[l] EXCEPT !.pc = "set", !.mk = cacheMarkets, !.cur = cacheCurrs] \in Loads
      BY PartsTyped, InPlaces DEF Loads, Typed
    <3>2. QED
      BY ZenonT(60), <2>1, <3>1 DEF LookInCache, To, FromCache, Typed
  <2>2. CASE LockCache(l)
    <3>1. /\ [loader[l] EXCEPT !.pc = "fetch"] \in Loads
          /\ [loader[l] EXCEPT !.pc = "set", !.mk = cacheMarkets, !.cur = cacheCurrs] \in Loads
      BY PartsTyped, InPlaces DEF Loads, Typed
    <3>2. QED
      BY ZenonT(60), <2>2, <3>1 DEF LockCache, To, FromCache, Typed, Chan
  <2>3. CASE FetchOk(l)
    <3>1. [loader[l] EXCEPT !.pc = "store"] \in Loads
      BY <2>3, PartsTyped, InPlaces DEF FetchOk, On, ChannelsTied, Loads, Typed, Free, Chan, Obj
    <3>2. QED
      BY <2>3, <3>1 DEF FetchOk, On, To, Typed, Chan
  <2>4. CASE Store(l)
    <3>1. [loader[l] EXCEPT !.pc = "set", !.mk = l, !.cur = cacheCurrs] \in Loads
      BY ZenonT(60), <2>4, PartsTyped, InPlaces DEF Store, On, ChannelsTied, Loads, Typed, Free, Chan, Obj
    <3>2. QED
      BY <2>4, <3>1 DEF Store, On, Typed, Chan
  <2>5. CASE FetchFail(l)
    <3>1. [loader[l] EXCEPT !.pc = "eval"] \in Loads
      BY <2>5, PartsTyped, InPlaces DEF FetchFail, On, ChannelsTied, Loads, Typed, Free, Chan, Obj
    <3>2. QED
      BY <2>5, <3>1 DEF FetchFail, On, To, Typed, Chan
  <2>6. CASE SetMarkets(l)
    <3>1. [loader[l] EXCEPT !.pc = "curr"] \in Loads
      BY <2>6, PartsTyped, InPlaces DEF SetMarkets, On, ChannelsTied, Loads, Typed, Free, Chan, Obj
    <3>2. markets' \in [Exgs -> Chan] /\ mixed' \in [Exgs -> BOOLEAN]
      BY <2>6, PartsTyped DEF SetMarkets, Typed
    <3>3. QED
      BY <2>6, <3>1, <3>2 DEF SetMarkets, On, To, Typed
  <2>7. CASE SetCurrencies(l)
    <3>1. [loader[l] EXCEPT !.pc = "eval"] \in Loads
      BY <2>7, PartsTyped, InPlaces DEF SetCurrencies, On, ChannelsTied, Loads, Typed, Free, Chan, Obj
    <3>2. Listed(l) \in [Codes -> Chan] /\ Derived(l) \in [Codes -> Chan]
      BY <2>7, PartsTyped DEF SetCurrencies, On, Listed, Derived, ChannelsTied, Typed, Chan
    <3>3. currencies' \in [Exgs -> [Codes -> Chan]]
      BY <2>7, <3>2, PartsTyped DEF SetCurrencies, Typed
    <3>4. QED
      BY <2>7, <3>1, <3>3 DEF SetCurrencies, On, To, Typed
  <2>8. CASE EvalSend(l)
    <3>1. [loader[l] EXCEPT !.pc = "send", !.ch = wait[loader[l].exg]] \in Loads
      BY ZenonT(60), <2>8, PartsTyped, InPlaces DEF EvalSend, On, ChannelsTied, Loads, Typed, Free, Chan, Obj
    <3>2. QED
      BY <2>8, <3>1 DEF EvalSend, On, Typed
  <2>9. QED
    BY <1>6, <2>1, <2>2, <2>3, <2>4, <2>5, <2>6, <2>7, <2>8 DEF LoaderStep
<1> HIDE DEF cacheVars, exgVars
<1>7. QED
  BY <1>1, <1>2, <1>3, <1>4, <1>5, <1>6 DEF Next
-------------------------------------------------------------------------------
\* A step of no goroutine that fetches or sets.
LEMMA FetchedKept ==
  ASSUME Typed, Fetched,
         UNCHANGED <<currApi, cacheMarkets, cacheCurrs, locked, markets, currencies, mixed>>,
         \A l \in Loaders : \/ loader'[l] = loader[l]
                            \/ /\ loader[l].pc \notin {"fetch", "store", "set", "curr"}
                               /\ loader'[l].pc \notin {"fetch", "store", "set", "curr"}
  PROVE  Fetched'
<1>1. LockHeld' /\ CacheWhole' /\ LoadWhole'
  BY DEF Fetched, LockHeld, CacheWhole, LoadWhole, CurrsOf
<1>2. \A e \in Exgs : Setting(e)' = Setting(e)
  BY DEF Setting
<1>3. SetOnce'
  BY <1>2 DEF Fetched, SetOnce, Setting, OfOneFetch
<1>4. QED
  BY <1>1, <1>3 DEF Fetched

\* A goroutine moves alone: what does not touch setMarkets and setCurrencies keeps
\* the objects whole.
LEMMA ObjectsKept ==
  ASSUME Typed, SetOnce, UNCHANGED <<currApi, markets, currencies, mixed>>, NEW l \in Loaders,
         \A k \in Loaders \ {l} : loader'[k] = loader[k],
         loader[l].pc # "curr", loader'[l].pc # "curr"
  PROVE  SetOnce'
<1>1. \A e \in Exgs : Setting(e)' = Setting(e)
  BY DEF Setting
<1>2. QED
  BY <1>1 DEF SetOnce, Setting, OfOneFetch

\* No step parts the markets from the currencies they were fetched with.
LEMMA FetchedStep == Typed /\ ChannelsTied /\ Fetched /\ [Next]_vars => Fetched'
<1> SUFFICES ASSUME Typed /\ ChannelsTied /\ Fetched, [Next]_vars PROVE Fetched'
  OBVIOUS
<1> USE BoundAssumption DEF Typed, Loads, cacheVars, exgVars
<1>1. CASE UNCHANGED vars
  BY <1>1, FetchedKept DEF vars
<1>2. CASE Tick
  BY <1>2, FetchedKept DEF Tick
<1>3. ASSUME NEW c \in Callers, NEW e \in Exgs, NEW reload \in BOOLEAN, Begin(c, e, reload)
      PROVE  Fetched'
  BY <1>3, FetchedKept DEF Begin, At
<1>4. ASSUME NEW e \in Exgs, CloseWait(e) PROVE Fetched'
  BY <1>4, FetchedKept DEF CloseWait
<1>5. ASSUME NEW c \in Callers, CallerStep(c) PROVE Fetched'
  <2>1. CASE CheckWait(c)
    BY <2>1, FetchedKept DEF CheckWait, At, Go
  <2>2. CASE Make(c)
    <3>1. PICK l \in Loaders :
            /\ loader[l].pc = "free"
            /\ loader' = [loader EXCEPT ![l] = [Free EXCEPT !.pc = "cache", !.exg = caller[c].exg]]
      BY <2>2 DEF Make
    <3>2. UNCHANGED <<currApi, cacheMarkets, cacheCurrs, locked, markets, currencies, mixed>>
      BY <2>2 DEF Make
    <3>3. QED
      BY <3>1, <3>2, FetchedKept DEF Free
  <2>3. CASE EvalWait(c)
    BY <2>3, FetchedKept DEF EvalWait, At
  <2>4. CASE ReceiveClosed(c)
    BY <2>4, FetchedKept DEF ReceiveClosed, At, Go
  <2>5. CASE Clear(c)
    BY <2>5, FetchedKept DEF Clear, At, Idle
  <2>6. ASSUME NEW l \in Loaders, Deliver(c, l) PROVE Fetched'
    BY <2>6, FetchedKept DEF Deliver, At, Go
  <2>7. QED
    BY <1>5, <2>1, <2>2, <2>3, <2>4, <2>5, <2>6 DEF CallerStep
<1>6. ASSUME NEW l \in Loaders, LoaderStep(l) PROVE Fetched'
  <2>1. CASE LookInCache(l)
    <3>1. /\ \A k \in Loaders \ {l} : loader'[k] = loader[k]
          /\ loader[l].pc = "cache"
          /\ \/ loader'[l].pc = "lock"
             \/ /\ cacheMarkets # None
                /\ loader'[l].pc = "set" /\ loader'[l].mk = cacheMarkets /\ loader'[l].cur = cacheCurrs
      BY <2>1 DEF LookInCache, On, To, FromCache, CacheHit
    <3>2. LockHeld' /\ CacheWhole' /\ LoadWhole'
      BY <2>1, <3>1 DEF LookInCache, Fetched, LockHeld, CacheWhole, LoadWhole, CurrsOf
    <3>3. SetOnce'
      BY <2>1, <3>1, ObjectsKept DEF LookInCache, On, Fetched
    <3>4. QED
      BY <3>2, <3>3 DEF Fetched
  <2>2. CASE LockCache(l)
    <3>1. /\ \A k \in Loaders \ {l} : loader'[k] = loader[k]
          /\ loader[l].pc = "lock" /\ locked = None
          /\ \/ loader'[l].pc = "fetch" /\ locked' = l
             \/ /\ locked' = None /\ cacheMarkets # None
                /\ loader'[l].pc = "set" /\ loader'[l].mk = cacheMarkets /\ loader'[l].cur = cacheCurrs
      BY <2>2 DEF LockCache, On, To, FromCache, CacheHit
    <3>2. LockHeld' /\ CacheWhole' /\ LoadWhole'
      BY <2>2, <3>1 DEF LockCache, Fetched, LockHeld, CacheWhole, LoadWhole, CurrsOf
    <3>3. SetOnce'
      BY <2>2, <3>1, ObjectsKept DEF LockCache, On, Fetched
    <3>4. QED
      BY <3>2, <3>3 DEF Fetched
  <2>3. CASE FetchOk(l)
    <3>1. /\ \A k \in Loaders \ {l} : loader'[k] = loader[k]
          /\ loader[l].pc = "fetch" /\ loader'[l].pc = "store"
      BY <2>3 DEF FetchOk, On, To
    <3>2. LockHeld' /\ CacheWhole' /\ LoadWhole'
      BY <2>3, <3>1 DEF FetchOk, On, To, Fetched, LockHeld, CacheWhole, LoadWhole, CurrsOf
    <3>3. SetOnce'
      BY <2>3, <3>1, ObjectsKept DEF FetchOk, On, Fetched
    <3>4. QED
      BY <3>2, <3>3 DEF Fetched
  <2>4. CASE Store(l)
    <3>1. /\ \A k \in Loaders \ {l} : loader'[k] = loader[k]
          /\ loader[l].pc = "store" /\ loader'[l].pc = "set"
          /\ loader'[l].mk = l /\ loader'[l].cur = cacheCurrs
      BY <2>4 DEF Store, On
    <3>2. LockHeld' /\ CacheWhole' /\ LoadWhole'
      BY <2>4, <3>1 DEF Store, On, Fetched, LockHeld, CacheWhole, LoadWhole, CurrsOf
    <3>3. SetOnce'
      BY <2>4, <3>1, ObjectsKept DEF Store, On, Fetched
    <3>4. QED
      BY <3>2, <3>3 DEF Fetched
  <2>5. CASE FetchFail(l)
    <3>1. /\ \A k \in Loaders \ {l} : loader'[k] = loader[k]
          /\ loader[l].pc = "fetch" /\ loader'[l].pc = "eval"
      BY <2>5 DEF FetchFail, On, To
    <3>2. LockHeld' /\ CacheWhole' /\ LoadWhole'
      BY <2>5, <3>1 DEF FetchFail, On, To, Fetched, LockHeld, CacheWhole, LoadWhole, CurrsOf
    <3>3. SetOnce'
      BY <2>5, <3>1, ObjectsKept DEF FetchFail, On, Fetched
    <3>4. QED
      BY <3>2, <3>3 DEF Fetched
  <2>6. CASE SetMarkets(l)
    <3> DEFINE e == loader[l].exg
    <3>1. /\ \A k \in Loaders \ {l} : loader'[k] = loader[k]
          /\ loader[l].pc = "set" /\ loader' = [loader EXCEPT ![l].pc = "curr"]
      BY <2>6 DEF SetMarkets, On, To
    <3>2. LockHeld' /\ CacheWhole' /\ LoadWhole'
      BY <2>6, <3>1 DEF SetMarkets, Fetched, LockHeld, CacheWhole, LoadWhole, CurrsOf
    <3>3. e \in Exgs
      BY <3>1 DEF ChannelsTied
    <3>4. loader'[l].pc = "curr" /\ loader'[l].exg = e /\ loader'[l].mk = loader[l].mk
      BY <3>1
    <3>5. ASSUME NEW x \in Exgs, ~mixed'[x]
          PROVE  /\ \A j, k \in Setting(x)' : j = k
                 /\ \A k \in Setting(x)' : markets'[x] = loader'[k].mk
                 /\ Setting(x)' = {} => OfOneFetch(x)'
      <4>1. CASE x = e
        <5>1. Setting(x) = {}
          BY <2>6, <3>3, <3>5, <4>1 DEF SetMarkets, Setting
        <5>2. Setting(x)' = {l}
          BY <3>1, <3>4, <4>1, <5>1 DEF Setting
        <5>3. markets'[x] = loader[l].mk
          BY <2>6, <3>3, <4>1 DEF SetMarkets
        <5>4. QED
          BY <3>4, <5>2, <5>3
      <4>2. CASE x # e
        <5>1. Setting(x)' = Setting(x) /\ \A k \in Setting(x) : loader'[k].mk = loader[k].mk
          BY <3>1, <3>4, <4>2 DEF Setting
        <5>2. /\ ~mixed[x] /\ markets'[x] = markets[x]
              /\ UNCHANGED <<currencies, currApi>>
          BY <2>6, <3>5, <4>2 DEF SetMarkets
        <5>3. QED
          BY <5>1, <5>2 DEF Fetched, SetOnce, OfOneFetch
      <4>3. QED
        BY <4>1, <4>2
    <3>6. SetOnce'
      BY <3>5 DEF SetOnce
    <3>7. QED
      BY <3>2, <3>6 DEF Fetched
  <2>7. CASE SetCurrencies(l)
    <3> DEFINE e == loader[l].exg
    <3>1. /\ \A k \in Loaders \ {l} : loader'[k] = loader[k]
          /\ loader[l].pc = "curr" /\ loader'[l].pc = "eval"
      BY <2>7 DEF SetCurrencies, On, To
    <3>2. LockHeld' /\ CacheWhole' /\ LoadWhole'
      BY <2>7, <3>1 DEF SetCurrencies, Fetched, LockHeld, CacheWhole, LoadWhole, CurrsOf
    <3>3. e \in Exgs
      BY <3>1 DEF ChannelsTied
    <3>4. ASSUME NEW x \in Exgs, ~mixed'[x]
          PROVE  /\ \A j, k \in Setting(x)' : j = k
                 /\ \A k \in Setting(x)' : markets'[x] = loader'[k].mk
                 /\ Setting(x)' = {} => OfOneFetch(x)'
      <4>1. ~mixed[x] /\ markets' = markets
        BY <2>7, <3>4 DEF SetCurrencies
      <4>2. CASE x = e
        <5>1. l \in Setting(x)
          BY <3>1, <4>2 DEF Setting
        <5>2. Setting(x)' = {}
          <6>1. Setting(x)' = Setting(x) \ {l}
            BY <3>1 DEF Setting
          <6>2. \A k \in Setting(x) : k = l
            BY <4>1, <5>1 DEF Fetched, SetOnce
          <6>3. QED
            BY <6>1, <6>2
        <5>3. /\ loader[l].mk \in Loaders /\ loader[l].cur = CurrsOf(loader[l].mk)
              /\ UNCHANGED currApi
          BY <2>7, <3>1 DEF SetCurrencies, Fetched, LoadWhole, Chan
        <5>4. currencies'[x] = IF currApi THEN Listed(l) ELSE Derived(l)
          BY <2>7, <3>3, <4>2, <5>3 DEF SetCurrencies, CurrsOf
        <5>5. markets'[x] = loader[l].mk
          BY <4>1, <5>1 DEF Fetched, SetOnce
        <5>6. OfOneFetch(x)'
          BY <5>3, <5>4, <5>5 DEF OfOneFetch, Listed, Derived, CurrsOf
        <5>7. QED
          BY <5>2, <5>6
      <4>3. CASE x # e
        <5>1. Setting(x)' = Setting(x) /\ \A k \in Setting(x) : loader'[k] = loader[k]
          BY ZenonT(60), <3>1, <4>3 DEF Setting
        <5>2. currencies'[x] = currencies[x] /\ UNCHANGED currApi
          BY <2>7, <4>3 DEF SetCurrencies
        <5>3. QED
          BY <4>1, <5>1, <5>2 DEF Fetched, SetOnce, OfOneFetch
      <4>4. QED
        BY <4>2, <4>3
    <3>5. SetOnce'
      BY <3>4 DEF SetOnce
    <3>6. QED
      BY <3>2, <3>5 DEF Fetched
  <2>8. CASE EvalSend(l)
    BY <2>8, FetchedKept DEF EvalSend, On
  <2>9. QED
    BY <1>6, <2>1, <2>2, <2>3, <2>4, <2>5, <2>6, <2>7, <2>8 DEF LoaderStep
<1> HIDE DEF Typed, Loads, cacheVars, exgVars
<1>7. QED
  BY <1>1, <1>2, <1>3, <1>4, <1>5, <1>6 DEF Next
-------------------------------------------------------------------------------
\* A goroutine stays one of its object once it is started.
Grows ==
  \A k \in Loaders :
    loader[k].pc # "free" => loader'[k].pc # "free" /\ loader'[k].exg = loader[k].exg

\* Every step keeps the goroutines that are started.
LEMMA GrowsStep == Typed /\ [Next]_vars => Grows
<1> SUFFICES ASSUME Typed, [Next]_vars PROVE Grows
  OBVIOUS
<1> USE BoundAssumption DEF Typed, Loads, Grows, cacheVars, exgVars
<1>1. CASE UNCHANGED vars
  BY <1>1 DEF vars, cacheVars, exgVars
<1>2. CASE Tick
  BY <1>2 DEF Tick
<1>3. ASSUME NEW c \in Callers, NEW e \in Exgs, NEW reload \in BOOLEAN, Begin(c, e, reload)
      PROVE  Grows
  BY <1>3 DEF Begin, At
<1>4. ASSUME NEW e \in Exgs, CloseWait(e) PROVE Grows
  BY <1>4 DEF CloseWait
<1>5. ASSUME NEW c \in Callers, CallerStep(c) PROVE Grows
  <2>1. CASE CheckWait(c)
    BY <2>1 DEF CheckWait, At, Go
  <2>2. CASE Make(c)
    <3>1. PICK l \in Loaders :
            /\ loader[l].pc = "free"
            /\ loader' = [loader EXCEPT ![l] = [Free EXCEPT !.pc = "cache", !.exg = caller[c].exg]]
      BY <2>2 DEF Make
    <3>2. QED
      BY <3>1
  <2>3. CASE EvalWait(c)
    BY <2>3 DEF EvalWait, At
  <2>4. CASE ReceiveClosed(c)
    BY <2>4 DEF ReceiveClosed, At, Go
  <2>5. CASE Clear(c)
    BY <2>5 DEF Clear, At, Idle
  <2>6. ASSUME NEW l \in Loaders, Deliver(c, l) PROVE Grows
    BY <2>6 DEF Deliver, At, Go
  <2>7. QED
    BY <1>5, <2>1, <2>2, <2>3, <2>4, <2>5, <2>6 DEF CallerStep
<1>6. ASSUME NEW l \in Loaders, LoaderStep(l) PROVE Grows
  <2>1. CASE LookInCache(l)
    <3>1. /\ \A k \in Loaders \ {l} : loader'[k] = loader[k]
          /\ loader'[l].pc \in {"lock", "set"} /\ loader'[l].exg = loader[l].exg
      BY <2>1 DEF LookInCache, To, FromCache
    <3>2. QED
      BY <3>1
  <2>2. CASE LockCache(l)
    <3>1. /\ \A k \in Loaders \ {l} : loader'[k] = loader[k]
          /\ loader'[l].pc \in {"fetch", "set"} /\ loader'[l].exg = loader[l].exg
      BY <2>2 DEF LockCache, To, FromCache
    <3>2. QED
      BY <3>1
  <2>3. CASE FetchOk(l)
    BY <2>3 DEF FetchOk, On, To
  <2>4. CASE Store(l)
    BY <2>4 DEF Store, On
  <2>5. CASE FetchFail(l)
    BY <2>5 DEF FetchFail, On, To
  <2>6. CASE SetMarkets(l)
    BY <2>6 DEF SetMarkets, On, To
  <2>7. CASE SetCurrencies(l)
    BY <2>7 DEF SetCurrencies, On, To
  <2>8. CASE EvalSend(l)
    BY <2>8 DEF EvalSend, On
  <2>9. QED
    BY <1>6, <2>1, <2>2, <2>3, <2>4, <2>5, <2>6, <2>7, <2>8 DEF LoaderStep
<1> HIDE DEF Typed, Loads, Grows, cacheVars, exgVars
<1>7. QED
  BY <1>1, <1>2, <1>3, <1>4, <1>5, <1>6 DEF Next
\* A goroutine before it looks at MarketsWait.
Work(l) ==
  \/ LookInCache(l) \/ LockCache(l) \/ FetchOk(l) \/ Store(l) \/ FetchFail(l)
  \/ SetMarkets(l) \/ SetCurrencies(l)

\* Its steps are its own.
LEMMA WorkEffect ==
  ASSUME Typed, NEW l \in Loaders, Work(l)
  PROVE  /\ \A k \in Loaders \ {l} : loader'[k] = loader[k]
         /\ loader[l].pc \in Working /\ loader'[l].pc \in Working
         /\ loader'[l].exg = loader[l].exg /\ loader'[l].ch = loader[l].ch
         /\ UNCHANGED <<wait, caller, alone, closed>>
<1> USE DEF Typed, Loads, Working, On, To, FromCache, cacheVars, exgVars
<1>1. CASE LookInCache(l)
  BY <1>1 DEF LookInCache
<1>2. CASE LockCache(l)
  BY <1>2 DEF LockCache
<1>3. CASE FetchOk(l)
  BY <1>3 DEF FetchOk
<1>4. CASE Store(l)
  BY <1>4 DEF Store
<1>5. CASE FetchFail(l)
  BY <1>5 DEF FetchFail
<1>6. CASE SetMarkets(l)
  BY <1>6 DEF SetMarkets
<1>7. CASE SetCurrencies(l)
  BY <1>7 DEF SetCurrencies
<1>8. QED
  BY <1>1, <1>2, <1>3, <1>4, <1>5, <1>6, <1>7 DEF Work

\* They keep each channel with its object.
LEMMA TiedWork ==
  ASSUME Typed, ChannelsTied, NEW l \in Loaders, Work(l)
  PROVE  ChannelsTied'
<1>1. \A k \in Loaders : /\ loader'[k].pc = "free" <=> loader[k].pc = "free"
                         /\ loader'[k].exg = loader[k].exg /\ loader'[k].ch = loader[k].ch
  BY WorkEffect DEF Working
<1>2. UNCHANGED <<wait, caller>>
  BY WorkEffect
<1>3. \A x \in Chan, e \in Obj : MadeFor(x, e) => MadeFor(x, e)'
  BY <1>1 DEF MadeFor, Chan
<1>4. QED
  BY <1>1, <1>2, <1>3, PartsTyped DEF ChannelsTied, Typed, Obj

\* Every step keeps each channel with its object.
LEMMA TiedStep == Typed /\ ChannelsTied /\ Grows /\ [Next]_vars => ChannelsTied'
<1> SUFFICES ASSUME Typed /\ ChannelsTied /\ Grows, [Next]_vars PROVE ChannelsTied'
  OBVIOUS
<1> USE BoundAssumption DEF Typed, Calls, Loads, Chan, ChannelsTied, MadeFor, Grows, cacheVars, exgVars
<1>1. CASE UNCHANGED vars
  BY <1>1 DEF vars, cacheVars, exgVars
<1>2. CASE Tick
  BY <1>2 DEF Tick
<1>3. ASSUME NEW c \in Callers, NEW e \in Exgs, NEW reload \in BOOLEAN, Begin(c, e, reload)
      PROVE  ChannelsTied'
  <2>1. caller' = [caller EXCEPT ![c] = [pc |-> "check", exg |-> e, ch |-> None]]
    BY <1>3 DEF Begin
  <2>2. UNCHANGED <<wait, loader>>
    BY <1>3 DEF Begin
  <2>3. QED
    BY <2>1, <2>2
<1>4. ASSUME NEW e \in Exgs, CloseWait(e) PROVE ChannelsTied'
  BY <1>4 DEF CloseWait
<1>5. ASSUME NEW c \in Callers, CallerStep(c) PROVE ChannelsTied'
  <2>1. CASE CheckWait(c)
    BY <2>1 DEF CheckWait, At, Go
  <2>2. CASE Make(c)
    <3>1. PICK l \in Loaders :
            /\ loader[l].pc = "free"
            /\ wait' = [wait EXCEPT ![caller[c].exg] = l]
            /\ loader' = [loader EXCEPT ![l] = [Free EXCEPT !.pc = "cache", !.exg = caller[c].exg]]
      BY <2>2 DEF Make
    <3>2. caller[c].exg \in Exgs /\ caller' = [caller EXCEPT ![c].pc = "eval"]
      BY <2>2 DEF Make, At, Go
    <3>3. loader'[l].pc = "cache" /\ loader'[l].exg = caller[c].exg /\ loader'[l].ch = None
      BY <3>1 DEF Free
    <3>4. QED
      BY <3>1, <3>2, <3>3
  <2>3. CASE EvalWait(c)
    BY <2>3 DEF EvalWait, At
  <2>4. CASE ReceiveClosed(c)
    BY <2>4 DEF ReceiveClosed, At, Go
  <2>5. CASE Clear(c)
    BY <2>5 DEF Clear, At, Idle
  <2>6. ASSUME NEW l \in Loaders, Deliver(c, l) PROVE ChannelsTied'
    BY <2>6 DEF Deliver, At, Go
  <2>7. QED
    BY <1>5, <2>1, <2>2, <2>3, <2>4, <2>5, <2>6 DEF CallerStep
<1>6. ASSUME NEW l \in Loaders, LoaderStep(l) PROVE ChannelsTied'
  <2>1. CASE LookInCache(l)
    BY <2>1, TiedWork DEF Work
  <2>2. CASE LockCache(l)
    BY <2>2, TiedWork DEF Work
  <2>3. CASE FetchOk(l)
    BY <2>3, TiedWork DEF Work
  <2>4. CASE Store(l)
    BY <2>4, TiedWork DEF Work
  <2>5. CASE FetchFail(l)
    BY <2>5, TiedWork DEF Work
  <2>6. CASE SetMarkets(l)
    BY <2>6, TiedWork DEF Work
  <2>7. CASE SetCurrencies(l)
    BY <2>7, TiedWork DEF Work
  <2>8. CASE EvalSend(l)
    <3>1. /\ loader[l].pc = "eval" /\ UNCHANGED <<wait, caller>>
          /\ loader' = [loader EXCEPT ![l].pc = "send", ![l].ch = wait[loader[l].exg]]
      BY <2>8 DEF EvalSend, On
    <3>2. /\ loader'[l].pc = "send" /\ loader'[l].exg = loader[l].exg
          /\ loader'[l].ch = wait[loader[l].exg]
      BY <3>1
    <3>3. \A k \in Loaders : k # l => loader'[k] = loader[k]
      BY <3>1
    <3> HIDE DEF ChannelsTied, MadeFor, Typed, Calls, Loads
    <3>4. \A k \in Loaders : (loader'[k].pc # "free" => loader[k].pc # "free")
                            /\ (loader[k].pc # "free" => loader'[k].pc # "free")
                            /\ loader'[k].exg = loader[k].exg
      BY ONLY <3>1, <3>2, <3>3
    <3>5. ASSUME NEW x \in Chan, NEW e, MadeFor(x, e) PROVE MadeFor(x, e)'
      BY ONLY <3>4, <3>5 DEF MadeFor, Chan
    <3>6. /\ \A e \in Exgs : wait[e] \in Chan
          /\ \A c \in Callers : caller[c].ch \in Chan
          /\ \A k \in Loaders : loader[k].ch \in Chan
      BY DEF Typed, Calls, Loads
    <3>7. ASSUME NEW k \in Loaders PROVE MadeFor(loader[k].ch, loader[k].exg)'
      <4>1. CASE k # l
        <5>1. loader'[k] = loader[k]
          BY ONLY <3>3, <4>1
        <5>2. PICK x, e : x \in Chan /\ x = loader[k].ch /\ e = loader[k].exg
          BY <3>6
        <5>3. MadeFor(x, e)'
          BY <3>5, <5>2 DEF ChannelsTied
        <5>4. QED
          BY <5>1, <5>2, <5>3 DEF MadeFor
      <4>2. CASE k = l
        <5>1. PICK e \in Exgs : e = loader[l].exg
          BY <3>1 DEF ChannelsTied
        <5>2. PICK x \in Chan : x = wait[e]
          BY <3>6
        <5>3. MadeFor(x, e)'
          BY <3>5, <5>2 DEF ChannelsTied
        <5>4. QED
          BY <3>2, <4>2, <5>1, <5>2, <5>3 DEF MadeFor
      <4>3. QED
        BY <4>1, <4>2
    <3>8. \A e \in Exgs : MadeFor(wait[e], e)'
      <4> TAKE e \in Exgs
      <4>1. PICK x \in Chan : x = wait[e]
        BY <3>6
      <4>2. MadeFor(x, e)'
        BY <3>5, <4>1 DEF ChannelsTied
      <4>3. QED
        BY <3>1, <4>1, <4>2 DEF MadeFor
    <3>9. \A c \in Callers : MadeFor(caller[c].ch, caller[c].exg)'
      <4> TAKE c \in Callers
      <4>1. PICK x, e : x \in Chan /\ x = caller[c].ch /\ e = caller[c].exg
        BY <3>6
      <4>2. MadeFor(x, e)'
        BY <3>5, <4>1 DEF ChannelsTied
      <4>3. QED
        BY <3>1, <4>1, <4>2 DEF MadeFor
    <3>10. QED
      BY <3>1, <3>4, <3>7, <3>8, <3>9 DEF ChannelsTied
  <2>9. QED
    BY <1>6, <2>1, <2>2, <2>3, <2>4, <2>5, <2>6, <2>7, <2>8 DEF LoaderStep
<1> HIDE DEF Typed, Calls, Loads, Chan, ChannelsTied, MadeFor, Grows, cacheVars, exgVars
<1>7. QED
  BY <1>1, <1>2, <1>3, <1>4, <1>5, <1>6 DEF Next
-------------------------------------------------------------------------------
\* A step that changes neither a MarketsWait nor, for the worse, a caller.
LEMMA ForgottenKept ==
  ASSUME Typed, WaitForgotten, \A e \in Exgs : wait'[e] \in {None, wait[e]},
         \A d \in Callers, e \in Exgs : Clearing(d, e) /\ wait'[e] # None => Clearing(d, e)'
  PROVE  WaitForgotten'
BY DEF WaitForgotten

\* Every step leaves somebody to forget a MarketsWait that is set.
LEMMA ForgottenStep == Typed /\ ChannelsTied /\ WaitForgotten /\ [Next]_vars => WaitForgotten'
<1> SUFFICES ASSUME Typed /\ ChannelsTied /\ WaitForgotten, [Next]_vars PROVE WaitForgotten'
  OBVIOUS
<1> USE BoundAssumption DEF Typed, Calls, cacheVars, exgVars
<1>1. CASE UNCHANGED vars
  BY <1>1, ForgottenKept DEF vars, Clearing
<1>2. CASE Tick
  BY <1>2, ForgottenKept DEF Tick, Clearing
<1>3. ASSUME NEW c \in Callers, NEW e \in Exgs, NEW reload \in BOOLEAN, Begin(c, e, reload)
      PROVE  WaitForgotten'
  <2>1. /\ caller[c].pc = "idle" /\ wait' = wait
        /\ \A d \in Callers \ {c} : caller'[d] = caller[d]
    BY <1>3 DEF Begin, At
  <2>2. QED
    BY <2>1, ForgottenKept DEF Clearing
<1>4. ASSUME NEW e \in Exgs, CloseWait(e) PROVE WaitForgotten'
  <2>1. UNCHANGED caller /\ \A x \in Exgs : wait'[x] \in {None, wait[x]}
    BY <1>4 DEF CloseWait
  <2>2. QED
    BY <2>1, ForgottenKept DEF Clearing
<1>5. ASSUME NEW c \in Callers, CallerStep(c) PROVE WaitForgotten'
  <2>1. CASE CheckWait(c)
    <3>1. caller[c].pc = "check" /\ wait' = wait
      BY <2>1 DEF CheckWait, At, Go
    <3>2. \A d \in Callers \ {c} : caller'[d] = caller[d]
      BY <2>1 DEF CheckWait, At, Go
    <3>3. QED
      BY <3>1, <3>2, ForgottenKept DEF Clearing
  <2>2. CASE Make(c)
    <3>1. PICK e \in Exgs : e = caller[c].exg
      BY <2>2 DEF Make, At, ChannelsTied
    <3>2. PICK l \in Loaders : wait' = [wait EXCEPT ![e] = l]
      BY <2>2, <3>1 DEF Make
    <3>3. /\ caller[c].pc = "make" /\ caller'[c].pc = "eval" /\ caller'[c].exg = e
          /\ \A d \in Callers \ {c} : caller'[d] = caller[d]
      BY <2>2, <3>1 DEF Make, At, Go
    <3>4. Clearing(c, e)'
      BY <3>3 DEF Clearing
    <3>5. \A x \in Exgs \ {e} : wait'[x] = wait[x]
      BY <3>2
    <3>6. \A d \in Callers, x \in Exgs \ {e} : Clearing(d, x) => Clearing(d, x)'
      BY <3>1, <3>3, <3>5 DEF Clearing
    <3>7. ASSUME NEW x \in Exgs, wait'[x] # None PROVE \E d \in Callers : Clearing(d, x)'
      <4>1. CASE x = e
        BY <3>4, <4>1
      <4>2. CASE x # e
        BY <3>5, <3>6, <3>7, <4>2 DEF WaitForgotten
      <4>3. QED
        BY <4>1, <4>2
    <3>8. QED
      BY <3>7 DEF WaitForgotten
  <2>3. CASE EvalWait(c)
    <3>1. /\ wait' = wait /\ caller'[c].exg = caller[c].exg
          /\ caller'[c].pc = "recv" /\ caller'[c].ch = wait[caller[c].exg]
      BY <2>3 DEF EvalWait, At
    <3>2. \A d \in Callers \ {c} : caller'[d] = caller[d]
      BY <2>3 DEF EvalWait, At
    <3>3. QED
      BY <3>1, <3>2, ForgottenKept DEF Clearing
  <2>4. CASE ReceiveClosed(c)
    <3>1. /\ wait' = wait /\ caller'[c].exg = caller[c].exg
          /\ caller'[c].pc = "clear"
      BY <2>4 DEF ReceiveClosed, At, Go
    <3>2. \A d \in Callers \ {c} : caller'[d] = caller[d]
      BY <2>4 DEF ReceiveClosed, At, Go
    <3>3. QED
      BY <3>1, <3>2, ForgottenKept DEF Clearing
  <2>5. CASE Clear(c)
    <3>1. /\ caller[c].pc = "clear" /\ caller[c].exg \in Exgs
          /\ wait' = [wait EXCEPT ![caller[c].exg] = None]
      BY <2>5 DEF Clear, At, ChannelsTied
    <3>2. \A d \in Callers \ {c} : caller'[d] = caller[d]
      BY <2>5 DEF Clear
    <3>3. QED
      BY <3>1, <3>2, ForgottenKept DEF Clearing
  <2>6. ASSUME NEW l \in Loaders, Deliver(c, l) PROVE WaitForgotten'
    <3>1. /\ wait' = wait /\ caller'[c].exg = caller[c].exg
          /\ caller'[c].pc = "clear"
      BY <2>6 DEF Deliver, At, Go
    <3>2. \A d \in Callers \ {c} : caller'[d] = caller[d]
      BY <2>6 DEF Deliver, At, Go
    <3>3. QED
      BY <3>1, <3>2, ForgottenKept DEF Clearing
  <2>7. QED
    BY <1>5, <2>1, <2>2, <2>3, <2>4, <2>5, <2>6 DEF CallerStep
<1>6. ASSUME NEW l \in Loaders, LoaderStep(l) PROVE WaitForgotten'
  <2>1. CASE LookInCache(l)
    BY <2>1, WorkEffect, ForgottenKept DEF Work, Clearing
  <2>2. CASE LockCache(l)
    BY <2>2, WorkEffect, ForgottenKept DEF Work, Clearing
  <2>3. CASE FetchOk(l)
    BY <2>3, WorkEffect, ForgottenKept DEF Work, Clearing
  <2>4. CASE Store(l)
    BY <2>4, WorkEffect, ForgottenKept DEF Work, Clearing
  <2>5. CASE FetchFail(l)
    BY <2>5, WorkEffect, ForgottenKept DEF Work, Clearing
  <2>6. CASE SetMarkets(l)
    BY <2>6, WorkEffect, ForgottenKept DEF Work, Clearing
  <2>7. CASE SetCurrencies(l)
    BY <2>7, WorkEffect, ForgottenKept DEF Work, Clearing
  <2>8. CASE EvalSend(l)
    BY <2>8, ForgottenKept DEF EvalSend, Clearing
  <2>9. QED
    BY <1>6, <2>1, <2>2, <2>3, <2>4, <2>5, <2>6, <2>7, <2>8 DEF LoaderStep
<1> HIDE DEF Typed, Calls, cacheVars, exgVars
<1>7. QED
  BY <1>1, <1>2, <1>3, <1>4, <1>5, <1>6 DEF Next
-------------------------------------------------------------------------------
\* A caller that hangs does so for good.
Hanging(d) == caller'[d] = caller[d] /\ Hung(d)'
StillHung == \A d \in Callers : Hung(d) => Hanging(d)

\* A step in which the channels that are opened, closed or offered are not its own.
LEMMA HungKept ==
  ASSUME Typed, NEW d \in Callers, Hung(d), caller'[d] = caller[d],
         caller[d].ch # None =>
           /\ wait'[caller[d].exg] # caller[d].ch
           /\ caller[d].ch \notin closed'
           /\ \A l \in Loaders : loader'[l].pc = "send" /\ loader'[l].ch = caller[d].ch =>
                                loader[l].pc = "send" /\ loader[l].ch = caller[d].ch
  PROVE  Hanging(d)
BY DEF Hung, Hanging

\* No step wakes a caller that hangs.
LEMMA HungStep == Typed /\ ChannelsTied /\ [Next]_vars => StillHung
<1> SUFFICES ASSUME Typed /\ ChannelsTied, [Next]_vars PROVE StillHung
  OBVIOUS
<1> USE BoundAssumption DEF Typed, Calls, Loads, cacheVars, exgVars
<1>1. CASE UNCHANGED vars
  BY <1>1 DEF vars, StillHung, Hanging, Hung
<1>2. CASE Tick
  <2> SUFFICES ASSUME NEW d \in Callers, Hung(d) PROVE Hanging(d)
    BY DEF StillHung
  <2>2. UNCHANGED <<caller, wait, closed, loader>>
    BY <1>2 DEF Tick
  <2>3. QED
    BY <2>2, HungKept DEF Hung
<1>3. ASSUME NEW c \in Callers, NEW e \in Exgs, NEW reload \in BOOLEAN, Begin(c, e, reload)
      PROVE  StillHung
  <2> SUFFICES ASSUME NEW d \in Callers, Hung(d) PROVE Hanging(d)
    BY DEF StillHung
  <2>2. UNCHANGED <<wait, closed, loader>>
    BY <1>3 DEF Begin
  <2>3. caller[d].pc = "recv" /\ caller'[d] = caller[d]
    BY <1>3 DEF Begin, At, Hung
  <2>4. QED
    BY <2>2, <2>3, HungKept DEF Hung
<1>4. ASSUME NEW e \in Exgs, CloseWait(e) PROVE StillHung
  <2> SUFFICES ASSUME NEW d \in Callers, Hung(d) PROVE Hanging(d)
    BY DEF StillHung
  <2>2. UNCHANGED <<caller, loader>> /\ wait[e] # None
        /\ wait' = [wait EXCEPT ![e] = None] /\ closed' = closed \cup {wait[e]}
    BY <1>4 DEF CloseWait
  <2>3. caller[d].ch # None => caller[d].ch # wait[e]
    BY <2>2 DEF Hung, ChannelsTied, MadeFor
  <2>4. QED
    BY <2>2, <2>3, HungKept DEF Hung
<1>5. ASSUME NEW c \in Callers, CallerStep(c) PROVE StillHung
  <2>1. CASE CheckWait(c)
    <3> SUFFICES ASSUME NEW d \in Callers, Hung(d) PROVE Hanging(d)
      BY DEF StillHung
    <3>2. UNCHANGED <<closed, loader, wait>> /\ c # d /\ caller'[d] = caller[d]
      BY <2>1 DEF CheckWait, At, Go, Hung
    <3>3. QED
      BY <3>2, HungKept DEF Hung
  <2>2. CASE Make(c)
    <3> SUFFICES ASSUME NEW d \in Callers, Hung(d) PROVE Hanging(d)
      BY DEF StillHung
    <3>2. PICK l \in Loaders :
            /\ loader[l].pc = "free"
            /\ wait' = [wait EXCEPT ![caller[c].exg] = l]
            /\ loader' = [loader EXCEPT ![l] = [Free EXCEPT !.pc = "cache", !.exg = caller[c].exg]]
      BY <2>2 DEF Make
    <3>3. caller[d].pc = "recv" /\ caller'[d] = caller[d] /\ UNCHANGED closed
      BY <2>2 DEF Make, At, Go, Hung
    <3>4. caller[d].ch # l /\ caller[d].exg \in Exgs
      BY <3>2, <3>3 DEF ChannelsTied, MadeFor
    <3>5. loader'[l].pc = "cache" /\ \A k \in Loaders \ {l} : loader'[k] = loader[k]
      BY <3>2 DEF Free
    <3>6. QED
      BY <3>2, <3>3, <3>4, <3>5, HungKept DEF Hung
  <2>3. CASE EvalWait(c)
    <3> SUFFICES ASSUME NEW d \in Callers, Hung(d) PROVE Hanging(d)
      BY DEF StillHung
    <3>2. UNCHANGED <<closed, loader, wait>> /\ c # d /\ caller'[d] = caller[d]
      BY <2>3 DEF EvalWait, At, Hung
    <3>3. QED
      BY <3>2, HungKept DEF Hung
  <2>4. CASE ReceiveClosed(c)
    <3> SUFFICES ASSUME NEW d \in Callers, Hung(d) PROVE Hanging(d)
      BY DEF StillHung
    <3>2. c # d
      BY <2>4 DEF ReceiveClosed, Hung
    <3>3. UNCHANGED <<closed, loader, wait>> /\ caller'[d] = caller[d]
      BY <2>4, <3>2 DEF ReceiveClosed, Go
    <3>4. QED
      BY <3>3, HungKept DEF Hung
  <2>5. CASE Clear(c)
    <3> SUFFICES ASSUME NEW d \in Callers, Hung(d) PROVE Hanging(d)
      BY DEF StillHung
    <3>2. /\ UNCHANGED <<closed, loader>> /\ caller'[d] = caller[d] /\ caller[d].pc = "recv"
          /\ wait' = [wait EXCEPT ![caller[c].exg] = None]
      BY <2>5 DEF Clear, At, Hung
    <3>3. QED
      BY <3>2, HungKept DEF Hung, ChannelsTied
  <2>6. ASSUME NEW l \in Loaders, Deliver(c, l) PROVE StillHung
    <3> SUFFICES ASSUME NEW d \in Callers, Hung(d) PROVE Hanging(d)
      BY DEF StillHung
    <3>2. c # d
      BY <2>6 DEF Deliver, Hung
    <3>3. UNCHANGED <<closed, wait>> /\ caller'[d] = caller[d]
      BY <2>6, <3>2 DEF Deliver, Go
    <3>4. loader'[l].pc = "done" /\ \A k \in Loaders \ {l} : loader'[k] = loader[k]
      BY <2>6 DEF Deliver
    <3>5. QED
      BY <3>3, <3>4, HungKept DEF Hung
  <2>7. QED
    BY <1>5, <2>1, <2>2, <2>3, <2>4, <2>5, <2>6 DEF CallerStep
<1>6. ASSUME NEW l \in Loaders, LoaderStep(l) PROVE StillHung
  <2>1. CASE LookInCache(l)
    <3> SUFFICES ASSUME NEW d \in Callers, Hung(d) PROVE Hanging(d)
      BY DEF StillHung
    <3>2. UNCHANGED <<caller, wait, closed>> /\ \A k \in Loaders \ {l} : loader'[k] = loader[k]
      BY <2>1, WorkEffect DEF Work
    <3>3. loader'[l].pc # "send"
      BY <2>1, WorkEffect DEF Work, Working
    <3>4. QED
      BY <3>2, <3>3, HungKept DEF Hung
  <2>2. CASE LockCache(l)
    <3> SUFFICES ASSUME NEW d \in Callers, Hung(d) PROVE Hanging(d)
      BY DEF StillHung
    <3>2. UNCHANGED <<caller, wait, closed>> /\ \A k \in Loaders \ {l} : loader'[k] = loader[k]
      BY <2>2, WorkEffect DEF Work
    <3>3. loader'[l].pc # "send"
      BY <2>2, WorkEffect DEF Work, Working
    <3>4. QED
      BY <3>2, <3>3, HungKept DEF Hung
  <2>3. CASE FetchOk(l)
    <3> SUFFICES ASSUME NEW d \in Callers, Hung(d) PROVE Hanging(d)
      BY DEF StillHung
    <3>2. UNCHANGED <<caller, wait, closed>> /\ \A k \in Loaders \ {l} : loader'[k] = loader[k]
      BY <2>3, WorkEffect DEF Work
    <3>3. loader'[l].pc # "send"
      BY <2>3, WorkEffect DEF Work, Working
    <3>4. QED
      BY <3>2, <3>3, HungKept DEF Hung
  <2>4. CASE Store(l)
    <3> SUFFICES ASSUME NEW d \in Callers, Hung(d) PROVE Hanging(d)
      BY DEF StillHung
    <3>2. UNCHANGED <<caller, wait, closed>> /\ \A k \in Loaders \ {l} : loader'[k] = loader[k]
      BY <2>4, WorkEffect DEF Work
    <3>3. loader'[l].pc # "send"
      BY <2>4, WorkEffect DEF Work, Working
    <3>4. QED
      BY <3>2, <3>3, HungKept DEF Hung
  <2>5. CASE FetchFail(l)
    <3> SUFFICES ASSUME NEW d \in Callers, Hung(d) PROVE Hanging(d)
      BY DEF StillHung
    <3>2. UNCHANGED <<caller, wait, closed>> /\ \A k \in Loaders \ {l} : loader'[k] = loader[k]
      BY <2>5, WorkEffect DEF Work
    <3>3. loader'[l].pc # "send"
      BY <2>5, WorkEffect DEF Work, Working
    <3>4. QED
      BY <3>2, <3>3, HungKept DEF Hung
  <2>6. CASE SetMarkets(l)
    <3> SUFFICES ASSUME NEW d \in Callers, Hung(d) PROVE Hanging(d)
      BY DEF StillHung
    <3>2. UNCHANGED <<caller, wait, closed>> /\ \A k \in Loaders \ {l} : loader'[k] = loader[k]
      BY <2>6, WorkEffect DEF Work
    <3>3. loader'[l].pc # "send"
      BY <2>6, WorkEffect DEF Work, Working
    <3>4. QED
      BY <3>2, <3>3, HungKept DEF Hung
  <2>7. CASE SetCurrencies(l)
    <3> SUFFICES ASSUME NEW d \in Callers, Hung(d) PROVE Hanging(d)
      BY DEF StillHung
    <3>2. UNCHANGED <<caller, wait, closed>> /\ \A k \in Loaders \ {l} : loader'[k] = loader[k]
      BY <2>7, WorkEffect DEF Work
    <3>3. loader'[l].pc # "send"
      BY <2>7, WorkEffect DEF Work, Working
    <3>4. QED
      BY <3>2, <3>3, HungKept DEF Hung
  <2>8. CASE EvalSend(l)
    <3> SUFFICES ASSUME NEW d \in Callers, Hung(d) PROVE Hanging(d)
      BY DEF StillHung
    <3>2. UNCHANGED <<closed, wait, caller>> /\ \A k \in Loaders \ {l} : loader'[k] = loader[k]
      BY <2>8 DEF EvalSend
    <3>3. loader[l].pc = "eval" /\ loader'[l].ch = wait[loader[l].exg]
      BY <2>8 DEF EvalSend, On
    <3>4. caller[d].ch # None => caller[d].ch # wait[loader[l].exg]
      BY <3>3 DEF Hung, ChannelsTied, MadeFor
    <3>5. QED
      BY <3>2, <3>3, <3>4, HungKept DEF Hung
  <2>9. QED
    BY <1>6, <2>1, <2>2, <2>3, <2>4, <2>5, <2>6, <2>7, <2>8 DEF LoaderStep
<1> HIDE DEF Typed, Calls, Loads, cacheVars, exgVars
<1>7. QED
  BY <1>1, <1>2, <1>3, <1>4, <1>5, <1>6 DEF Next
-------------------------------------------------------------------------------
\* The others of the object still hang.
LEMMA OthersHang ==
  ASSUME StillHung, NEW a \in Callers, NEW x \in Exgs, LoneCall(a, x),
         \A d \in Callers \ {a} : caller'[d].exg = x => caller'[d] = caller[d]
  PROVE  \A d \in Callers \ {a} : caller'[d].exg = x => Hung(d)'
BY DEF LoneCall, StillHung, Hanging

\* A step that is of other objects, or serves on.
LEMMA LoneKept ==
  ASSUME StillHung, NEW a \in Callers, NEW x \in Exgs, LoneCall(a, x),
         \A d \in Callers : caller'[d].exg = x => caller'[d] = caller[d],
         caller'[a] = caller[a], wait'[x] = wait[x], Serving(x) => Serving(x)'
  PROVE  LoneCall(a, x)'
<1>1. \A d \in Callers \ {a} : caller'[d].exg = x => Hung(d)'
  BY OthersHang
<1>2. QED
  BY <1>1 DEF LoneCall

\* A call that nobody overlaps does not hang, and is not overlapped by one that moves.
LEMMA LoneAwake ==
  ASSUME Typed, NEW a \in Callers, NEW x \in Exgs, LoneCall(a, x), caller[a].exg = x
  PROVE  ~Hung(a) /\ \A c \in Callers \ {a} : ~Hung(c) => caller[c].exg # x
BY DEF LoneCall, Hung

\* The steps of a goroutine before it looks at MarketsWait.
LEMMA LoneWork ==
  ASSUME Typed, StillHung, LoneCalls, NEW l \in Loaders, Work(l)
  PROVE  LoneCalls'
<1> SUFFICES ASSUME NEW a \in Callers, NEW x \in Exgs, alone'[a], caller'[a].pc # "idle",
                    caller'[a].exg = x
             PROVE  LoneCall(a, x)'
  BY DEF LoneCalls
<1>1. /\ UNCHANGED <<caller, wait, alone>>
      /\ \A k \in Loaders \ {l} : loader'[k] = loader[k]
      /\ loader[l].pc \in Working /\ loader'[l].pc \in Working /\ loader'[l].exg = loader[l].exg
  BY WorkEffect
<1>2. LoneCall(a, x)
  BY <1>1 DEF LoneCalls
<1>3. Serving(x) => Serving(x)'
  BY <1>1 DEF Serving, Working
<1>4. QED
  BY <1>1, <1>2, <1>3, LoneKept

\* Every step serves a call that nobody overlaps.
LEMMA LoneStep == Typed /\ ChannelsTied /\ WaitForgotten /\ StillHung /\ LoneCalls /\ [Next]_vars => LoneCalls'
<1> SUFFICES ASSUME Typed /\ ChannelsTied /\ WaitForgotten /\ StillHung /\ LoneCalls, [Next]_vars PROVE LoneCalls'
  OBVIOUS
<1> USE BoundAssumption DEF Typed, Calls, Loads, cacheVars, exgVars
<1>1. CASE UNCHANGED vars
  BY <1>1 DEF vars, LoneCalls, LoneCall, Serving, Hung
<1>2. CASE Tick
  <2> SUFFICES ASSUME NEW a \in Callers, NEW x \in Exgs, alone'[a], caller'[a].pc # "idle",
                      caller'[a].exg = x
               PROVE  LoneCall(a, x)'
    BY DEF LoneCalls
  <2>1. UNCHANGED <<caller, wait, loader, alone>>
    BY <1>2 DEF Tick
  <2>2. LoneCall(a, x) /\ (Serving(x) => Serving(x)')
    BY <2>1 DEF LoneCalls, Serving
  <2>3. QED
    BY <2>1, <2>2, LoneKept
<1>3. ASSUME NEW c \in Callers, NEW e \in Exgs, NEW reload \in BOOLEAN, Begin(c, e, reload)
      PROVE  LoneCalls'
  <2> SUFFICES ASSUME NEW a \in Callers, NEW x \in Exgs, alone'[a], caller'[a].pc # "idle",
                      caller'[a].exg = x
               PROVE  LoneCall(a, x)'
    BY DEF LoneCalls
  <2>1. /\ caller[c].pc = "idle" /\ UNCHANGED <<wait, loader>>
        /\ caller' = [caller EXCEPT ![c] = [pc |-> "check", exg |-> e, ch |-> None]]
    BY <1>3 DEF Begin, At
  <2>2. CASE a = c
    <3>1. x = e /\ caller'[a].pc = "check"
      BY <2>1, <2>2
    <3>2. \A d \in Callers \ {a} : caller[d].exg = x => Hung(d)
      BY <1>3, <2>2, <3>1 DEF Begin, Others
    <3>3. \A d \in Callers \ {a} : caller'[d].exg = x => Hung(d)'
      BY <2>1, <2>2, <3>2 DEF StillHung, Hanging
    <3>4. \A d \in Callers : Clearing(d, x) => wait[x] = None
      BY <2>1, <2>2, <3>2 DEF Clearing, Hung
    <3>5. wait[x] = None
      BY <3>4 DEF WaitForgotten
    <3>6. QED
      BY <2>1, <3>1, <3>3, <3>5 DEF LoneCall
  <2>3. CASE a # c
    <3>1. caller'[a] = caller[a] /\ alone[a] /\ (caller[a].exg = e => Hung(a))
      BY <1>3, <2>1, <2>3 DEF Begin
    <3>2. LoneCall(a, x)
      BY <3>1 DEF LoneCalls
    <3>3. x # e
      BY <3>1, <3>2, LoneAwake
    <3>4. \A d \in Callers : caller'[d].exg = x => caller'[d] = caller[d]
      BY <2>1, <3>3
    <3>5. Serving(x) => Serving(x)'
      BY <2>1 DEF Serving
    <3>6. QED
      BY <2>1, <3>1, <3>2, <3>4, <3>5, LoneKept
  <2>4. QED
    BY <2>2, <2>3
<1>4. ASSUME NEW e \in Exgs, CloseWait(e) PROVE LoneCalls'
  <2> SUFFICES ASSUME NEW a \in Callers, NEW x \in Exgs, alone'[a], caller'[a].pc # "idle",
                      caller'[a].exg = x
               PROVE  LoneCall(a, x)'
    BY DEF LoneCalls
  <2>1. UNCHANGED <<caller, loader>> /\ alone[a] /\ x # e /\ wait'[x] = wait[x]
    BY <1>4 DEF CloseWait
  <2>2. LoneCall(a, x) /\ (Serving(x) => Serving(x)')
    BY <2>1 DEF LoneCalls, Serving
  <2>3. QED
    BY <2>1, <2>2, LoneKept
<1>5. ASSUME NEW c \in Callers, CallerStep(c) PROVE LoneCalls'
  <2>1. CASE CheckWait(c)
    <3> SUFFICES ASSUME NEW a \in Callers, NEW x \in Exgs, alone'[a], caller'[a].pc # "idle",
                        caller'[a].exg = x
                 PROVE  LoneCall(a, x)'
      BY DEF LoneCalls
    <3>1. alone[a] /\ \A d \in Callers \ {c} : caller'[d] = caller[d]
      BY <2>1 DEF CheckWait, At, Go
    <3>2. ~Hung(c) /\ caller'[c].exg \in {caller[c].exg, None}
      BY <2>1 DEF CheckWait, At, Go, Hung
    <3>3. CASE a = c
      <4>1. /\ caller[a].pc = "check" /\ caller[a].exg = x /\ UNCHANGED wait
            /\ (wait[x] = None => caller'[a].pc = "make")
        BY <2>1, <3>3 DEF CheckWait, At, Go
      <4>2. LoneCall(a, x)
        BY <3>1, <3>3, <4>1 DEF LoneCalls
      <4>3. \A d \in Callers \ {a} : caller'[d].exg = x => Hung(d)'
        BY <3>1, <3>3, <4>2, OthersHang
      <4>4. QED
        BY <3>3, <4>1, <4>2, <4>3 DEF LoneCall
    <3>4. CASE a # c
      <4>1. LoneCall(a, x)
        BY <3>1, <3>4 DEF LoneCalls
      <4>2. caller[c].exg # x
        BY <3>1, <3>2, <3>4, <4>1, LoneAwake
      <4>3. \A d \in Callers : caller'[d].exg = x => caller'[d] = caller[d]
        BY <3>1, <3>2, <4>2
      <4>4. wait'[x] = wait[x]
        BY <2>1 DEF CheckWait
      <4>5. Serving(x) => Serving(x)'
        BY <2>1 DEF CheckWait, Serving
      <4>6. QED
        BY <3>1, <3>4, <4>1, <4>3, <4>4, <4>5, LoneKept
    <3>5. QED
      BY <3>3, <3>4
  <2>2. CASE Make(c)
    <3> SUFFICES ASSUME NEW a \in Callers, NEW x \in Exgs, alone'[a], caller'[a].pc # "idle",
                        caller'[a].exg = x
                 PROVE  LoneCall(a, x)'
      BY DEF LoneCalls
    <3>1. alone[a] /\ \A d \in Callers \ {c} : caller'[d] = caller[d]
      BY <2>2 DEF Make, At, Go, Free
    <3>2. ~Hung(c) /\ caller'[c].exg \in {caller[c].exg, None}
      BY <2>2 DEF Make, At, Go, Free, Hung
    <3>3. CASE a = c
      <4>1. caller[a].pc = "make" /\ caller[a].exg = x /\ caller'[a].pc = "eval"
        BY <2>2, <3>3 DEF Make, At, Go
      <4>2. PICK l \in Loaders :
              /\ wait' = [wait EXCEPT ![x] = l]
              /\ loader' = [loader EXCEPT ![l] = [Free EXCEPT !.pc = "cache", !.exg = x]]
        BY <2>2, <3>3, <4>1 DEF Make
      <4>3. LoneCall(a, x)
        BY <3>1, <3>3, <4>1 DEF LoneCalls
      <4>4. \A d \in Callers \ {a} : caller'[d].exg = x => Hung(d)'
        BY <3>1, <3>3, <4>3, OthersHang
      <4>5. loader'[l].exg = x /\ loader'[l].pc = "cache" /\ wait'[x] = l
        BY <4>2 DEF Free
      <4>6. Serving(x)' /\ wait'[x] # None
        BY <4>5 DEF Serving, Working
      <4>7. QED
        BY <4>1, <4>4, <4>6 DEF LoneCall
    <3>4. CASE a # c
      <4>1. LoneCall(a, x)
        BY <3>1, <3>4 DEF LoneCalls
      <4>2. caller[c].exg # x
        BY <3>1, <3>2, <3>4, <4>1, LoneAwake
      <4>3. \A d \in Callers : caller'[d].exg = x => caller'[d] = caller[d]
        BY <3>1, <3>2, <4>2
      <4>4. wait'[x] = wait[x]
        <5>1. caller[c].exg \in Exgs
          BY <2>2 DEF Make, At, ChannelsTied
        <5>2. QED
          BY <2>2, <4>2, <5>1 DEF Make
      <4>5. Serving(x) => Serving(x)'
        <5>1. PICK l \in Loaders : loader[l].pc = "free"
                                 /\ \A k \in Loaders \ {l} : loader'[k] = loader[k]
          BY <2>2 DEF Make
        <5>2. QED
          BY <4>4, <5>1 DEF Serving, Working
      <4>6. QED
        BY <3>1, <3>4, <4>1, <4>3, <4>4, <4>5, LoneKept
    <3>5. QED
      BY <3>3, <3>4
  <2>3. CASE EvalWait(c)
    <3> SUFFICES ASSUME NEW a \in Callers, NEW x \in Exgs, alone'[a], caller'[a].pc # "idle",
                        caller'[a].exg = x
                 PROVE  LoneCall(a, x)'
      BY DEF LoneCalls
    <3>1. alone[a] /\ \A d \in Callers \ {c} : caller'[d] = caller[d]
      BY <2>3 DEF EvalWait, At
    <3>2. ~Hung(c) /\ caller'[c].exg \in {caller[c].exg, None}
      BY <2>3 DEF EvalWait, At, Hung
    <3>3. CASE a = c
      <4>1. /\ caller[a].pc = "eval" /\ caller[a].exg = x /\ UNCHANGED <<wait, loader>>
            /\ caller'[a].pc = "recv" /\ caller'[a].ch = wait[x]
        BY <2>3, <3>3 DEF EvalWait, At
      <4>2. LoneCall(a, x)
        BY <3>1, <3>3, <4>1 DEF LoneCalls
      <4>3. \A d \in Callers \ {a} : caller'[d].exg = x => Hung(d)'
        BY <3>1, <3>3, <4>2, OthersHang
      <4>4. QED
        BY <3>3, <4>1, <4>2, <4>3 DEF LoneCall, Serving
    <3>4. CASE a # c
      <4>1. LoneCall(a, x)
        BY <3>1, <3>4 DEF LoneCalls
      <4>2. caller[c].exg # x
        BY <3>1, <3>2, <3>4, <4>1, LoneAwake
      <4>3. \A d \in Callers : caller'[d].exg = x => caller'[d] = caller[d]
        BY <3>1, <3>2, <4>2
      <4>4. wait'[x] = wait[x]
        BY <2>3 DEF EvalWait
      <4>5. Serving(x) => Serving(x)'
        BY <2>3 DEF EvalWait, Serving
      <4>6. QED
        BY <3>1, <3>4, <4>1, <4>3, <4>4, <4>5, LoneKept
    <3>5. QED
      BY <3>3, <3>4
  <2>4. CASE ReceiveClosed(c)
    <3> SUFFICES ASSUME NEW a \in Callers, NEW x \in Exgs, alone'[a], caller'[a].pc # "idle",
                        caller'[a].exg = x
                 PROVE  LoneCall(a, x)'
      BY DEF LoneCalls
    <3>1. alone[a] /\ \A d \in Callers \ {c} : caller'[d] = caller[d]
      BY <2>4 DEF ReceiveClosed, At, Go
    <3>2. ~Hung(c) /\ caller'[c].exg \in {caller[c].exg, None}
      BY <2>4 DEF ReceiveClosed, At, Go, Hung
    <3>3. CASE a = c
      <4>1. caller[a].pc = "recv" /\ caller[a].exg = x /\ caller'[a].pc = "clear"
        BY <2>4, <3>3 DEF ReceiveClosed, At, Go
      <4>2. LoneCall(a, x)
        BY <3>1, <3>3, <4>1 DEF LoneCalls
      <4>3. \A d \in Callers \ {a} : caller'[d].exg = x => Hung(d)'
        BY <3>1, <3>3, <4>2, OthersHang
      <4>4. QED
        BY <3>3, <4>1, <4>2, <4>3 DEF LoneCall
    <3>4. CASE a # c
      <4>1. LoneCall(a, x)
        BY <3>1, <3>4 DEF LoneCalls
      <4>2. caller[c].exg # x
        BY <3>1, <3>2, <3>4, <4>1, LoneAwake
      <4>3. \A d \in Callers : caller'[d].exg = x => caller'[d] = caller[d]
        BY <3>1, <3>2, <4>2
      <4>4. wait'[x] = wait[x]
        BY <2>4 DEF ReceiveClosed
      <4>5. Serving(x) => Serving(x)'
        BY <2>4 DEF ReceiveClosed, Serving
      <4>6. QED
        BY <3>1, <3>4, <4>1, <4>3, <4>4, <4>5, LoneKept
    <3>5. QED
      BY <3>3, <3>4
  <2>5. CASE Clear(c)
    <3> SUFFICES ASSUME NEW a \in Callers, NEW x \in Exgs, alone'[a], caller'[a].pc # "idle",
                        caller'[a].exg = x
                 PROVE  LoneCall(a, x)'
      BY DEF LoneCalls
    <3>1. alone[a] /\ \A d \in Callers \ {c} : caller'[d] = caller[d]
      BY <2>5 DEF Clear, At, Idle
    <3>2. ~Hung(c) /\ caller'[c].exg \in {caller[c].exg, None}
      BY <2>5 DEF Clear, At, Idle, Hung
    <3>3. CASE a = c
      BY <2>5, <3>3 DEF Clear, Idle
    <3>4. CASE a # c
      <4>1. LoneCall(a, x)
        BY <3>1, <3>4 DEF LoneCalls
      <4>2. caller[c].exg # x
        BY <3>1, <3>2, <3>4, <4>1, LoneAwake
      <4>3. \A d \in Callers : caller'[d].exg = x => caller'[d] = caller[d]
        BY <3>1, <3>2, <4>2
      <4>4. wait'[x] = wait[x]
        BY <2>5, <4>2 DEF Clear
      <4>5. Serving(x) => Serving(x)'
        BY <2>5, <4>4 DEF Clear, Serving
      <4>6. QED
        BY <3>1, <3>4, <4>1, <4>3, <4>4, <4>5, LoneKept
    <3>5. QED
      BY <3>3, <3>4
  <2>6. ASSUME NEW l \in Loaders, Deliver(c, l) PROVE LoneCalls'
    <3> SUFFICES ASSUME NEW a \in Callers, NEW x \in Exgs, alone'[a], caller'[a].pc # "idle",
                        caller'[a].exg = x
                 PROVE  LoneCall(a, x)'
      BY DEF LoneCalls
    <3>1. alone[a] /\ \A d \in Callers \ {c} : caller'[d] = caller[d]
      BY <2>6 DEF Deliver, At, Go
    <3>2. ~Hung(c) /\ caller'[c].exg \in {caller[c].exg, None}
      BY <2>6 DEF Deliver, At, Go, Hung
    <3>3. CASE a = c
      <4>1. caller[a].pc = "recv" /\ caller[a].exg = x /\ caller'[a].pc = "clear"
        BY <2>6, <3>3 DEF Deliver, At, Go
      <4>2. LoneCall(a, x)
        BY <3>1, <3>3, <4>1 DEF LoneCalls
      <4>3. \A d \in Callers \ {a} : caller'[d].exg = x => Hung(d)'
        BY <3>1, <3>3, <4>2, OthersHang
      <4>4. QED
        BY <3>3, <4>1, <4>2, <4>3 DEF LoneCall
    <3>4. CASE a # c
      <4>1. LoneCall(a, x)
        BY <3>1, <3>4 DEF LoneCalls
      <4>2. caller[c].exg # x
        BY <3>1, <3>2, <3>4, <4>1, LoneAwake
      <4>3. \A d \in Callers : caller'[d].exg = x => caller'[d] = caller[d]
        BY <3>1, <3>2, <4>2
      <4>4. wait'[x] = wait[x]
        BY <2>6 DEF Deliver
      <4>5. Serving(x) => Serving(x)'
        <5>1. /\ loader[l].pc = "send" /\ loader[l].ch = caller[c].ch /\ caller[c].ch # None
              /\ \A k \in Loaders \ {l} : loader'[k] = loader[k]
          BY <2>6 DEF Deliver
        <5>2. loader[l].exg # x /\ loader[l].ch # wait[x]
          BY <4>2, <5>1 DEF ChannelsTied, MadeFor, Chan
        <5>3. QED
          BY <4>4, <5>1, <5>2 DEF Serving, Working
      <4>6. QED
        BY <3>1, <3>4, <4>1, <4>3, <4>4, <4>5, LoneKept
    <3>5. QED
      BY <3>3, <3>4
  <2>7. QED
    BY <1>5, <2>1, <2>2, <2>3, <2>4, <2>5, <2>6 DEF CallerStep
<1>6. ASSUME NEW l \in Loaders, LoaderStep(l) PROVE LoneCalls'
  <2>1. CASE LookInCache(l)
    BY <2>1, LoneWork DEF Work
  <2>2. CASE LockCache(l)
    BY <2>2, LoneWork DEF Work
  <2>3. CASE FetchOk(l)
    BY <2>3, LoneWork DEF Work
  <2>4. CASE Store(l)
    BY <2>4, LoneWork DEF Work
  <2>5. CASE FetchFail(l)
    BY <2>5, LoneWork DEF Work
  <2>6. CASE SetMarkets(l)
    BY <2>6, LoneWork DEF Work
  <2>7. CASE SetCurrencies(l)
    BY <2>7, LoneWork DEF Work
  <2>8. CASE EvalSend(l)
    <3> SUFFICES ASSUME NEW a \in Callers, NEW x \in Exgs, alone'[a], caller'[a].pc # "idle",
                        caller'[a].exg = x
                 PROVE  LoneCall(a, x)'
      BY DEF LoneCalls
    <3>1. /\ UNCHANGED <<caller, wait, alone>> /\ loader[l].pc = "eval"
          /\ loader'[l].pc = "send" /\ loader'[l].ch = wait[loader[l].exg]
          /\ \A k \in Loaders \ {l} : loader'[k] = loader[k]
      BY <2>8 DEF EvalSend, On
    <3>2. LoneCall(a, x)
      BY <3>1 DEF LoneCalls
    <3>3. Serving(x) => Serving(x)'
      BY <3>1 DEF Serving, Working
    <3>4. QED
      BY <3>1, <3>2, <3>3, LoneKept
  <2>9. QED
    BY <1>6, <2>1, <2>2, <2>3, <2>4, <2>5, <2>6, <2>7, <2>8 DEF LoaderStep
<1> HIDE DEF Typed, Calls, Loads, cacheVars, exgVars
<1>7. QED
  BY <1>1, <1>2, <1>3, <1>4, <1>5, <1>6 DEF Next
-------------------------------------------------------------------------------
LoadInv == Typed /\ ChannelsTied /\ WaitForgotten /\ LoneCalls /\ Fetched

\* The invariant holds at the start.
LEMMA LoadBegins == Init => LoadInv
<1> SUFFICES ASSUME Init PROVE LoadInv
  OBVIOUS
<1> USE BoundAssumption DEF Init, Idle, Free
<1>1. Typed
  BY InPlaces DEF Typed, Calls, Loads, Chan, Obj
<1>2. ChannelsTied /\ WaitForgotten /\ LoneCalls
  BY DEF ChannelsTied, MadeFor, WaitForgotten, LoneCalls
<1>3. LockHeld /\ CacheWhole /\ LoadWhole
  BY DEF LockHeld, CacheWhole, LoadWhole, CurrsOf
<1>4. SetOnce
  BY DEF SetOnce, Setting, OfOneFetch
<1>5. QED
  BY <1>1, <1>2, <1>3, <1>4 DEF LoadInv, Fetched

\* Channels, calls, goroutines and caches fit together at all times.
THEOREM LoadKept == Spec => []LoadInv
<1>1. LoadInv /\ [Next]_vars => LoadInv'
  BY TypedStep, FetchedStep, GrowsStep, TiedStep, ForgottenStep, HungStep, LoneStep DEF LoadInv
<1>2. QED
  BY LoadBegins, <1>1, PTL DEF Spec

\* For every code an object's markets were fetched with, its currency is of that fetch,
\* however many objects and loads share the cache, and where FetchCurrencies is supported
\* it has no currency of another fetch; unless two loads of the object met between its
\* two halves.
THEOREM OneFetch == Spec => []CurrenciesOfMarkets
<1>1. LoadInv => CurrenciesOfMarkets
  BY DEF LoadInv, Fetched, SetOnce, Setting, CurrenciesOfMarkets
<1>2. QED
  BY <1>1, LoadKept, PTL

\* A LoadMarkets that nothing overlaps is going to be answered, however many calls
\* hang and goroutines linger from before.
THEOREM LoneServed == Spec => []LoneLoadServed
<1>1. LoadInv => LoneLoadServed
  <2> SUFFICES ASSUME LoadInv PROVE LoneLoadServed
    OBVIOUS
  <2>1. ASSUME NEW c \in Callers, At(c, "recv"), alone[c]
        PROVE  \E l \in Loaders :
                 \/ On(l, "send") /\ loader[l].ch = caller[c].ch
                 \/ /\ loader[l].exg = caller[c].exg
                    /\ loader[l].pc \notin {"send", "done"}
                    /\ caller[c].ch = wait[caller[c].exg] /\ caller[c].ch # None
    <3>1. PICK x \in Exgs : x = caller[c].exg
      BY <2>1 DEF LoadInv, ChannelsTied, At
    <3>2. LoneCall(c, x) /\ caller[c].pc = "recv" /\ ~crashed
      BY <2>1, <3>1 DEF LoadInv, LoneCalls, At
    <3>3. Serving(x) /\ caller[c].ch = wait[x] /\ wait[x] # None
      BY <3>2 DEF LoneCall
    <3>4. QED
      BY <3>1, <3>2, <3>3 DEF Serving, On, Working
  <2>2. locked # None => loader[locked].pc \in {"fetch", "store"}
    BY DEF LoadInv, Fetched, LockHeld
  <2>3. QED
    BY <2>1, <2>2 DEF LoneLoadServed
<1>2. QED
  BY <1>1, LoadKept, PTL

-------------------------------------------------------------------------------
(* The tiers of Leverage.                                                  *)

\* Numbers have a least one.
LEMMA LeastIs ==
  ASSUME NEW S \in SUBSET Nat, S # {}
  PROVE  \E x \in S : \A y \in S : x <= y
<1>1. PICK x \in S : \A y \in S : <<y, x>> \notin OpToRel(<, Nat)
  BY WFMin, NatLessThanWellFounded, Zenon
<1>2. \A y \in S : ~(y < x)
  BY <1>1, Zenon DEF OpToRel
<1>3. \A y \in S : x <= y
  BY <1>2
<1> QED BY <1>3

\* What CHOOSE finds for the greatest.
LEMMA MaxIs ==
  ASSUME NEW S \in SUBSET Nat, NEW m \in S, \A y \in S : y <= m
  PROVE  Max(S) = m
<1>1. \A x \in S : (\A y \in S : x >= y) => x = m
  OBVIOUS
<1> QED BY <1>1 DEF Max

\* A finite set can be put in the order of keys that are all different: an element
\* stands behind as many as there are below it.
LEMMA Ranked ==
  ASSUME NEW S, IsFiniteSet(S), NEW g \in [S -> Nat], \A t, u \in S : g[t] = g[u] => t = u
  PROVE  \E f \in [1..Cardinality(S) -> S] :
           IsInjective(f) /\ \A i, j \in DOMAIN f : i < j => g[f[i]] <= g[f[j]]
<1> DEFINE n == Cardinality(S)  Below(t) == {u \in S : g[u] < g[t]}
           rank == [t \in S |-> Cardinality(Below(t)) + 1]
<1>1. n \in Nat
  BY FS_CardinalityType
<1>2. ASSUME NEW t \in S
      PROVE  IsFiniteSet(Below(t)) /\ Cardinality(Below(t)) \in Nat /\ Cardinality(Below(t)) < n
  <2>1. Below(t) \in SUBSET S /\ t \notin Below(t)
    OBVIOUS
  <2> HIDE DEF Below
  <2>2. IsFiniteSet(Below(t)) /\ Cardinality(Below(t)) <= n /\ (n = Cardinality(Below(t)) => S = Below(t))
    BY <2>1, FS_Subset
  <2>3. Cardinality(Below(t)) \in Nat
    BY <2>2, FS_CardinalityType
  <2> QED BY <1>1, <2>1, <2>2, <2>3
<1>3. ASSUME NEW t \in S, NEW u \in S, g[t] < g[u] PROVE Cardinality(Below(t)) < Cardinality(Below(u))
  <2>1. Below(t) \in SUBSET Below(u) /\ t \in Below(u) /\ t \notin Below(t)
    BY <1>3
  <2> HIDE DEF Below
  <2>2. /\ Cardinality(Below(t)) <= Cardinality(Below(u))
        /\ Cardinality(Below(u)) = Cardinality(Below(t)) => Below(u) = Below(t)
    BY <1>2, <2>1, FS_Subset
  <2> QED BY <1>2, <2>1, <2>2
<1> HIDE DEF n, Below
<1>4. \A t \in S : rank[t] \in 1..n /\ rank[t] = Cardinality(Below(t)) + 1
  BY <1>1, <1>2
<1>5. \A t, u \in S : g[t] < g[u] => rank[t] < rank[u]
  BY <1>2, <1>3, <1>4
<1>6. \A t, u \in S : rank[t] = rank[u] => t = u
  <2>1. \A t, u \in S : g[t] \in Nat /\ g[u] \in Nat /\ rank[t] \in Nat
    BY <1>4
  <2> QED BY <1>5, <2>1
<1>7. rank \in Injection(S, 1..n)
  BY <1>4, <1>6 DEF Injection, IsInjective
<1>8. IsFiniteSet(1..n) /\ Cardinality(1..n) = n
  BY <1>1, FS_Interval
<1> HIDE DEF rank
<1>9. rank \in Surjection(S, 1..n)
  BY <1>7, <1>8, FS_Injection DEF n
<1>10. \A i \in 1..n : \E t \in S : rank[t] = i
  BY <1>9 DEF Surjection
<1> DEFINE f == [i \in 1..n |-> CHOOSE t \in S : rank[t] = i]
<1>11. \A i \in 1..n : f[i] \in S /\ rank[f[i]] = i
  BY <1>10
<1>12. f \in [1..n -> S] /\ DOMAIN f = 1..n
  BY <1>11
<1> HIDE DEF f
<1>13. IsInjective(f)
  BY <1>11, <1>12 DEF IsInjective
<1>14. ASSUME NEW i \in 1..n, NEW j \in 1..n, i < j PROVE g[f[i]] <= g[f[j]]
  <2>1. g[f[i]] \in Nat /\ g[f[j]] \in Nat /\ f[i] \in S /\ f[j] \in S /\ rank[f[i]] = i /\ rank[f[j]] = j
    BY <1>11
  <2>2. ~(g[f[j]] < g[f[i]])
    BY <1>5, <1>14, <2>1
  <2> QED BY <2>1, <2>2
<1> QED BY <1>12, <1>13, <1>14 DEF n

\* What is sorted has every element once.
LEMMA SortedIs ==
  ASSUME NEW S, IsFiniteSet(S), NEW g \in [S -> Nat], \A t, u \in S : g[t] = g[u] => t = u
  PROVE  /\ Cardinality(S) \in Nat /\ SortedBy(S, g) \in [1..Cardinality(S) -> S]
         /\ \A i, j \in 1..Cardinality(S) : i < j => g[SortedBy(S, g)[i]] < g[SortedBy(S, g)[j]]
         /\ \A t \in S : \E i \in 1..Cardinality(S) : SortedBy(S, g)[i] = t
<1> DEFINE n == Cardinality(S)  f == SortedBy(S, g)
<1>1. n \in Nat
  BY FS_CardinalityType
<1>2. f \in [1..n -> S] /\ IsInjective(f) /\ \A i, j \in DOMAIN f : i < j => g[f[i]] <= g[f[j]]
  BY Ranked DEF SortedBy
<1> HIDE DEF f
<1>3. \A i, j \in 1..n : f[i] = f[j] => i = j
  BY <1>2 DEF IsInjective
<1>4. ASSUME NEW i \in 1..n, NEW j \in 1..n, i < j PROVE g[f[i]] < g[f[j]]
  <2>1. g[f[i]] <= g[f[j]] /\ f[i] \in S /\ f[j] \in S
    BY <1>2, <1>4
  <2>2. f[i] # f[j]
    BY <1>3, <1>4
  <2>3. g[f[i]] # g[f[j]] /\ g[f[i]] \in Nat /\ g[f[j]] \in Nat
    BY <2>1, <2>2
  <2> QED BY <2>1, <2>3
<1>5. f \in Injection(1..n, S)
  BY <1>2 DEF Injection
<1>6. Cardinality(1..n) = n
  BY <1>1, FS_Interval
<1>7. f \in Surjection(1..n, S)
  BY <1>5, <1>6, FS_Injection DEF n
<1>8. \A t \in S : \E i \in 1..n : f[i] = t
  BY <1>7 DEF Surjection
<1> QED BY <1>1, <1>2, <1>4, <1>8 DEF n, f

-------------------------------------------------------------------------------
\* The tiers of a symbol, sorted, and the rows a lookup goes through: they have
\* the tiers' leverage, rate and upper bound, and go on from one to the next.
Ladder(s, f, R) ==
  /\ Cardinality(Tiers[s]) \in Nat \ {0} /\ f \in [1..Cardinality(Tiers[s]) -> Tiers[s]]
  /\ DOMAIN R = 1..Cardinality(Tiers[s])
  /\ \A t \in Tiers[s] : \E i \in 1..Cardinality(Tiers[s]) : f[i] = t
  /\ \A i \in 1..Cardinality(Tiers[s]) :
       /\ R[i].cap = f[i].cap /\ R[i].lev = f[i].lev /\ R[i].rate = f[i].rate
       /\ f[i].floor \in Nat /\ f[i].cap \in Nat
       /\ R[i].floor \in Nat /\ R[i].floor <= f[i].floor /\ f[i].floor < f[i].cap
       /\ i = 1 => R[i].floor = 0
       /\ i # 1 => R[i].floor <= f[i - 1].cap + 1
  /\ \A i, j \in 1..Cardinality(Tiers[s]) :
       i < j => f[i].cap < f[j].cap /\ f[i].cap <= R[j].floor /\ f[i].rate <= f[j].rate

\* Tiers in steps are sorted into such rows, on okx and on bybit.
LEMMA RowsLadder ==
  ASSUME InSteps, NEW s \in Syms
  PROVE  \E f : Ladder(s, f, Rows(s))
<1> DEFINE T == Tiers[s]  n == Cardinality(T)  R == Rows(s)
<1>1. /\ IsFiniteSet(T) /\ T # {} /\ T \subseteq [floor : Nat, cap : Nat, lev : Nat, rate : Nat]
      /\ \A t \in T : t.floor < t.cap
      /\ \A t \in T : t.floor = 0 \/ \E u \in T : u.cap <= t.floor /\ t.floor <= u.cap + 1
      /\ \A t, u \in T : t = u \/ (t.cap <= u.floor /\ t.rate <= u.rate)
                               \/ (u.cap <= t.floor /\ u.rate <= t.rate)
  BY Zenon DEF InSteps
<1>2. \A t \in T : t.floor \in Nat /\ t.cap \in Nat /\ t.lev \in Nat /\ t.rate \in Nat
  BY <1>1
<1>o. lexg = "okx" => R = SortedBy(T, [t \in T |-> t.floor])
  BY DEF Rows
<1>b. lexg # "okx" =>
        LET rows  == {t \in T : t.cap > 0}
            byCap == SortedBy(rows, [t \in rows |-> t.cap])
        IN  R = [i \in DOMAIN byCap |->
                   [byCap[i] EXCEPT !.floor = IF i = 1 THEN 0 ELSE byCap[i - 1].cap]]
  BY DEF Rows
<1> HIDE DEF T, R
<1>c. n \in Nat /\ n # 0
  BY <1>1, FS_CardinalityType, FS_EmptySet
<1>3. \A t, u \in T : t # u => (t.floor < u.floor /\ t.cap < u.cap /\ t.cap <= u.floor /\ t.rate <= u.rate)
                               \/ (u.floor < t.floor /\ u.cap < t.cap /\ u.cap <= t.floor /\ u.rate <= t.rate)
  <2> SUFFICES ASSUME NEW t \in T, NEW u \in T, t # u
               PROVE  (t.floor < u.floor /\ t.cap < u.cap /\ t.cap <= u.floor /\ t.rate <= u.rate)
                      \/ (u.floor < t.floor /\ u.cap < t.cap /\ u.cap <= t.floor /\ u.rate <= t.rate)
    OBVIOUS
  <2>1. /\ t.floor < t.cap /\ t.floor \in Nat /\ t.cap \in Nat
        /\ u.floor < u.cap /\ u.floor \in Nat /\ u.cap \in Nat
    BY <1>1, <1>2
  <2>2. (t.cap <= u.floor /\ t.rate <= u.rate) \/ (u.cap <= t.floor /\ u.rate <= t.rate)
    BY <1>1
  <2> QED BY <2>1, <2>2
\* Sorted by either bound, they go on from one to the next.
<1>4. ASSUME NEW f \in [1..n -> T], \A t \in T : \E i \in 1..n : f[i] = t,
             \A i, j \in 1..n : i < j => f[i].floor < f[j].floor \/ f[i].cap < f[j].cap
      PROVE  /\ \A i, j \in 1..n :
                  i < j => f[i].cap < f[j].cap /\ f[i].cap <= f[j].floor /\ f[i].rate <= f[j].rate
             /\ f[1].floor = 0
             /\ \A i \in 1..n : i # 1 => f[i].floor <= f[i - 1].cap + 1
  <2>1. \A i, j \in 1..n :
          i < j => /\ f[i].floor < f[j].floor /\ f[i].cap < f[j].cap
                   /\ f[i].cap <= f[j].floor /\ f[i].rate <= f[j].rate
    <3> SUFFICES ASSUME NEW i \in 1..n, NEW j \in 1..n, i < j
                 PROVE  /\ f[i].floor < f[j].floor /\ f[i].cap < f[j].cap
                        /\ f[i].cap <= f[j].floor /\ f[i].rate <= f[j].rate
      OBVIOUS
    <3>1. PICK t \in T, u \in T : t = f[i] /\ u = f[j]
      OBVIOUS
    <3>2. t.floor < u.floor \/ t.cap < u.cap
      BY <1>4, <3>1
    <3>3. t # u
      BY <1>2, <3>2
    <3>4. ~(u.floor < t.floor /\ u.cap < t.cap)
      BY <1>2, <3>2
    <3>5. t.floor < u.floor /\ t.cap < u.cap /\ t.cap <= u.floor /\ t.rate <= u.rate
      BY <1>3, <3>3, <3>4
    <3> QED BY <3>1, <3>5
  <2>2. ASSUME NEW i \in 1..n, NEW k \in 1..n, f[k].cap <= f[i].floor PROVE k < i
    <3>1. f[i].floor \in Nat /\ f[k].floor \in Nat /\ f[k].cap \in Nat /\ f[k].floor < f[k].cap
      BY <1>1, <1>2
    <3>2. k # i
      BY <2>2, <3>1
    <3>3. ~(i < k)
      BY <2>1, <2>2, <3>1
    <3> QED BY <3>2, <3>3
  <2>3. f[1].floor = 0
    <3> SUFFICES ASSUME f[1].floor # 0 PROVE FALSE
      OBVIOUS
    <3>1. 1 \in 1..n /\ f[1] \in T
      BY <1>c
    <3>2. PICK u \in T : u.cap <= f[1].floor
      BY <1>1, <3>1
    <3>3. PICK k \in 1..n : f[k] = u
      BY <1>4
    <3>4. k < 1
      BY <2>2, <3>1, <3>2, <3>3
    <3> QED BY <3>4
  <2>4. ASSUME NEW i \in 1..n, i # 1 PROVE f[i].floor <= f[i - 1].cap + 1
    <3>1. i - 1 \in 1..n /\ f[i] \in T /\ f[i - 1] \in T
      BY <1>c, <2>4
    <3>2. CASE f[i].floor = 0
      <4>1. f[i - 1].cap \in Nat
        BY <1>2, <3>1
      <4> QED BY <3>2, <4>1
    <3>3. CASE f[i].floor # 0
      <4>1. PICK u \in T : u.cap <= f[i].floor /\ f[i].floor <= u.cap + 1
        BY <1>1, <3>1, <3>3
      <4>2. PICK k \in 1..n : f[k] = u
        BY <1>4
      <4>3. k < i
        BY <2>2, <4>1, <4>2
      <4>4. k = i - 1 \/ k < i - 1
        BY <4>3
      <4>5. u.cap <= f[i - 1].cap /\ u.cap \in Nat /\ f[i - 1].cap \in Nat /\ f[i].floor \in Nat
        <5>1. u.cap \in Nat /\ f[i - 1].cap \in Nat /\ f[i].floor \in Nat
          BY <1>2, <3>1
        <5>2. u.cap = f[i - 1].cap \/ u.cap < f[i - 1].cap
          BY <2>1, <3>1, <4>2, <4>4
        <5> QED BY <5>1, <5>2
      <4> QED BY <4>1, <4>5
    <3> QED BY <3>2, <3>3
  <2> QED BY <2>1, <2>3, <2>4
<1>5. CASE lexg = "okx"
  <2> DEFINE g == [t \in T |-> t.floor]
  <2>1. g \in [T -> Nat] /\ \A t \in T : g[t] = t.floor
    BY <1>2
  <2>2. \A t, u \in T : g[t] = g[u] => t = u
    BY <1>2, <1>3, <2>1
  <2>3. R = SortedBy(T, g)
    BY <1>5, <1>o
  <2> HIDE DEF g
  <2>a. IsFiniteSet(T) /\ g \in [T -> Nat] /\ \A t, u \in T : g[t] = g[u] => t = u
    BY <1>1, <2>1, <2>2
  <2>s. /\ n \in Nat /\ SortedBy(T, g) \in [1..n -> T]
        /\ \A i, j \in 1..n : i < j => g[SortedBy(T, g)[i]] < g[SortedBy(T, g)[j]]
        /\ \A t \in T : \E i \in 1..n : SortedBy(T, g)[i] = t
    BY ONLY <2>a, SortedIs
  <2>4. /\ R \in [1..n -> T] /\ \A t \in T : \E i \in 1..n : R[i] = t
        /\ \A i, j \in 1..n : i < j => g[R[i]] < g[R[j]]
    BY <2>3, <2>s
  <2>5. \A i, j \in 1..n : i < j => R[i].floor < R[j].floor
    BY <2>1, <2>4
  <2>6. /\ \A i, j \in 1..n : i < j => R[i].cap < R[j].cap /\ R[i].cap <= R[j].floor /\ R[i].rate <= R[j].rate
        /\ R[1].floor = 0 /\ \A i \in 1..n : i # 1 => R[i].floor <= R[i - 1].cap + 1
    BY <1>4, <2>4, <2>5
  <2>7. \A i \in 1..n : /\ R[i].floor \in Nat /\ R[i].cap \in Nat
                        /\ R[i].floor < R[i].cap /\ R[i].floor <= R[i].floor
    BY <1>1, <1>2, <2>4
  <2>8. Ladder(s, R, R)
    BY <1>c, <2>4, <2>6, <2>7 DEF Ladder, T
  <2> QED BY <2>8 DEF R
<1>6. CASE lexg # "okx"
  <2> DEFINE g == [t \in T |-> t.cap]  f == SortedBy(T, g)
  <2>1. g \in [T -> Nat] /\ \A t \in T : g[t] = t.cap
    BY <1>2
  <2>2. \A t, u \in T : g[t] = g[u] => t = u
    BY <1>2, <1>3, <2>1
  <2>3. {t \in T : t.cap > 0} = T
    BY <1>1, <1>2
  <2>4. R = [i \in DOMAIN f |-> [f[i] EXCEPT !.floor = IF i = 1 THEN 0 ELSE f[i - 1].cap]]
    BY <1>6, <1>b, <2>3
  <2> HIDE DEF g, f
  <2>a. IsFiniteSet(T) /\ g \in [T -> Nat] /\ \A t, u \in T : g[t] = g[u] => t = u
    BY <1>1, <2>1, <2>2
  <2>s. /\ n \in Nat /\ SortedBy(T, g) \in [1..n -> T]
        /\ \A i, j \in 1..n : i < j => g[SortedBy(T, g)[i]] < g[SortedBy(T, g)[j]]
        /\ \A t \in T : \E i \in 1..n : SortedBy(T, g)[i] = t
    BY ONLY <2>a, SortedIs
  <2>5. /\ f \in [1..n -> T] /\ \A t \in T : \E i \in 1..n : f[i] = t
        /\ \A i, j \in 1..n : i < j => g[f[i]] < g[f[j]]
    BY <2>s DEF f
  <2>6. \A i, j \in 1..n : i < j => f[i].cap < f[j].cap
    BY <2>1, <2>5
  <2>7. /\ \A i, j \in 1..n : i < j => f[i].cap < f[j].cap /\ f[i].cap <= f[j].floor /\ f[i].rate <= f[j].rate
        /\ f[1].floor = 0 /\ \A i \in 1..n : i # 1 => f[i].floor <= f[i - 1].cap + 1
    BY <1>4, <2>5, <2>6
  <2>8. \A i \in 1..n : f[i].floor \in Nat /\ f[i].floor < f[i].cap /\ f[i].cap \in Nat
                        /\ f[i] \in [floor : Nat, cap : Nat, lev : Nat, rate : Nat]
    BY <1>1, <1>2, <2>5
  <2>9. DOMAIN R = 1..n /\ \A i \in 1..n :
          /\ R[i].cap = f[i].cap /\ R[i].lev = f[i].lev /\ R[i].rate = f[i].rate
          /\ R[i].floor = IF i = 1 THEN 0 ELSE f[i - 1].cap
    BY <2>4, <2>5, <2>8
  <2>10. ASSUME NEW i \in 1..n
         PROVE  /\ R[i].floor \in Nat /\ R[i].floor <= f[i].floor
                /\ i = 1 => R[i].floor = 0
                /\ i # 1 => R[i].floor <= f[i - 1].cap + 1
    <3>1. CASE i = 1
      BY <2>8, <2>9, <3>1
    <3>2. CASE i # 1
      <4>1. i - 1 \in 1..n /\ i - 1 < i
        BY <1>c, <3>2
      <4>2. R[i].floor = f[i - 1].cap /\ f[i - 1].cap <= f[i].floor /\ f[i - 1].cap \in Nat
        BY <2>7, <2>8, <2>9, <3>2, <4>1
      <4> QED BY <3>2, <4>2
    <3> QED BY <3>1, <3>2
  <2>11. ASSUME NEW i \in 1..n, NEW j \in 1..n, i < j PROVE f[i].cap <= R[j].floor
    <3>1. j - 1 \in 1..n /\ j # 1 /\ (i = j - 1 \/ i < j - 1)
      BY <1>c, <2>11
    <3>2. R[j].floor = f[j - 1].cap
      BY <2>9, <3>1
    <3>3. f[i].cap = f[j - 1].cap \/ f[i].cap < f[j - 1].cap
      BY <2>6, <3>1
    <3>4. f[i].cap \in Nat /\ f[j - 1].cap \in Nat
      BY <2>8, <3>1
    <3> QED BY <3>2, <3>3, <3>4
  <2>12. Ladder(s, f, R)
    BY <1>c, <2>5, <2>7, <2>8, <2>9, <2>10, <2>11 DEF Ladder, T
  <2> QED BY <2>12 DEF R
<1> QED BY <1>5, <1>6

\* The loop of a lookup ends at the tier of the value.
LEMMA FoundTier ==
  ASSUME lexg # "binance", NEW s \in Syms, NEW f, NEW R, Ladder(s, f, R), NEW x \in Nat
  PROVE  \E i \in 1..Cardinality(Tiers[s]) :
           Reached(R, x) # {} /\ Max(Reached(R, x)) = i /\ f[i] = TierOf(s, x) /\ R[i].floor <= x
<1> DEFINE T == Tiers[s]  n == Cardinality(T)  H == {i \in 1..n : x <= f[i].cap}  In == Reached(R, x)
<1>1. /\ n \in Nat \ {0} /\ f \in [1..n -> T] /\ DOMAIN R = 1..n /\ \A t \in T : \E i \in 1..n : f[i] = t
      /\ \A i \in 1..n :
           /\ R[i].cap = f[i].cap /\ R[i].floor \in Nat /\ R[i].floor <= f[i].floor /\ f[i].floor < f[i].cap
           /\ i = 1 => R[i].floor = 0
           /\ i # 1 => R[i].floor <= f[i - 1].cap + 1
      /\ \A i, j \in 1..n : i < j => f[i].cap < f[j].cap
  BY DEF Ladder
<1> PICK y \in Nat : y = x
  OBVIOUS
<1>n. \A i \in 1..n : f[i].cap \in Nat /\ f[i].floor \in Nat
  BY DEF Ladder
<1>2. PICK m \in 1..n : /\ \A j \in 1..n : j < m => x > f[j].cap
                        /\ x <= f[m].cap \/ (m = n /\ x > f[m].cap)
  <2>1. CASE H = {}
    <3>1. n \in 1..n /\ \A j \in 1..n : ~(y <= f[j].cap) /\ f[j].cap \in Nat
      BY <1>1, <1>n, <2>1
    <3>2. \A j \in 1..n : y > f[j].cap
      BY <3>1
    <3> QED BY <3>1, <3>2
  <2>2. CASE H # {}
    <3>1. H \in SUBSET Nat
      OBVIOUS
    <3>2. PICK m \in H : \A k \in H : m <= k
      BY <2>2, <3>1, LeastIs
    <3>3. \A j \in 1..n : j < m => j \notin H
      BY <3>2
    <3>4. \A j \in 1..n : j < m => ~(y <= f[j].cap) /\ f[j].cap \in Nat
      BY <1>n, <3>3
    <3>5. \A j \in 1..n : j < m => y > f[j].cap
      BY <3>4
    <3> QED BY <3>2, <3>5
  <2> QED BY <2>1, <2>2
<1>3. \A i : i \in In <=> /\ i \in 1..n /\ \A j \in 1..i : x >= R[j].floor
                          /\ \A j \in 1..i - 1 : R[j].cap = 0 \/ x > R[j].cap
  BY <1>1 DEF Reached
<1> HIDE DEF T, n, In, H
<1>4. m \in In
  <2>1. ASSUME NEW j \in 1..m PROVE x >= R[j].floor
    <3>1. CASE j = 1
      BY <1>1, <2>1, <3>1
    <3>2. CASE j # 1
      <4>1. j \in 1..n /\ j - 1 \in 1..n /\ j - 1 < m
        BY <1>1, <3>2
      <4>2. x > f[j - 1].cap /\ f[j - 1].cap \in Nat /\ R[j].floor \in Nat /\ R[j].floor <= f[j - 1].cap + 1
        BY <1>1, <1>2, <1>n, <3>2, <4>1
      <4> QED BY <4>2
    <3> QED BY <3>1, <3>2
  <2>2. ASSUME NEW j \in 1..m - 1 PROVE x > R[j].cap
    <3>1. j \in 1..n /\ j < m
      BY <1>1
    <3>2. x > f[j].cap /\ R[j].cap = f[j].cap
      BY <1>1, <1>2, <3>1
    <3> QED BY <3>2
  <2> QED BY <1>3, <2>1, <2>2
<1>5. ASSUME NEW i \in In PROVE i <= m
  <2> SUFFICES ASSUME i > m PROVE FALSE
    BY <1>1, <1>3
  <2>1. i \in 1..n /\ m \in 1..i - 1 /\ m < n
    BY <1>1, <1>3
  <2>2. x <= f[m].cap /\ R[m].cap = f[m].cap /\ f[m].cap \in Nat /\ f[m].cap > 0
    <3>1. R[m].cap = f[m].cap /\ f[m].cap \in Nat /\ f[m].floor \in Nat /\ f[m].floor < f[m].cap
      BY <1>1, <1>n
    <3>2. x <= f[m].cap
      BY <1>2, <2>1
    <3> QED BY <3>1, <3>2
  <2> QED BY <1>3, <2>1, <2>2
<1>6. Max(In) = m /\ In # {}
  <2>1. In \in SUBSET Nat
    BY <1>3
  <2> QED BY <1>4, <1>5, <2>1, MaxIs
<1>7. \A t, u \in T : t.cap = u.cap => t = u
  <2> SUFFICES ASSUME NEW t \in T, NEW u \in T, t.cap = u.cap PROVE t = u
    OBVIOUS
  <2>1. PICK k \in 1..n, l \in 1..n : f[k] = t /\ f[l] = u
    BY <1>1
  <2>2. f[k].cap = f[l].cap /\ f[k].cap \in Nat
    BY <1>n, <2>1
  <2>3. ~(k < l) /\ ~(l < k)
    BY <1>1, <2>2
  <2> QED BY <2>1, <2>3
<1>m. f[m] \in T /\ \A t \in T : t.cap \in Nat
  BY <1>1, <1>n
<1>t. TierOf(s, x) = LET Hold == {t \in T : x <= t.cap}
                     IN  IF Hold = {} THEN CHOOSE t \in T : \A u \in T : u.cap <= t.cap
                         ELSE CHOOSE t \in Hold : \A u \in Hold : t.cap <= u.cap
  BY DEF TierOf, T
<1>8. f[m] = TierOf(s, x)
  <2>1. CASE x <= f[m].cap
    <3> DEFINE Hold == {t \in T : x <= t.cap}
    <3>1. f[m] \in Hold
      BY <1>m, <2>1
    <3>2. ASSUME NEW u \in Hold PROVE f[m].cap <= u.cap
      <4>1. PICK k \in 1..n : f[k] = u
        BY <1>1
      <4>2. ~(k < m)
        BY <1>2, <1>n, <3>2, <4>1
      <4>3. k = m \/ m < k
        BY <4>2
      <4> QED BY <1>1, <1>n, <4>1, <4>3
    <3>3. ASSUME NEW t \in Hold, \A u \in Hold : t.cap <= u.cap PROVE t = f[m]
      <4>1. t.cap <= f[m].cap /\ f[m].cap <= t.cap /\ t \in T
        BY <3>1, <3>2, <3>3
      <4>2. t.cap = f[m].cap
        BY <1>m, <4>1
      <4> QED BY <1>7, <1>m, <4>1, <4>2
    <3>4. TierOf(s, x) = CHOOSE t \in Hold : \A u \in Hold : t.cap <= u.cap
      BY <1>t, <3>1
    <3> HIDE DEF Hold
    <3> QED BY <3>1, <3>2, <3>3, <3>4
  <2>2. CASE m = n /\ x > f[m].cap
    <3>1. ASSUME NEW u \in T PROVE u.cap <= f[m].cap
      <4>1. PICK k \in 1..n : f[k] = u
        BY <1>1
      <4>2. k = m \/ k < m
        BY <1>1, <2>2
      <4>3. k < m => f[k].cap < f[m].cap
        BY <1>1
      <4>4. f[k].cap \in Nat /\ f[m].cap \in Nat
        BY <1>n
      <4> QED BY <4>1, <4>2, <4>3, <4>4
    <3>2. {t \in T : x <= t.cap} = {}
      BY <1>m, <2>2, <3>1
    <3>3. TierOf(s, x) = CHOOSE t \in T : \A u \in T : u.cap <= t.cap
      BY <1>t, <3>2
    <3>4. ASSUME NEW t \in T, \A u \in T : u.cap <= t.cap PROVE t = f[m]
      <4>1. t.cap = f[m].cap
        BY <1>m, <3>1, <3>4
      <4> QED BY <1>7, <1>m, <4>1
    <3> QED BY <1>m, <3>1, <3>3, <3>4
  <2> QED BY <1>2, <2>1, <2>2
<1>9. R[m].floor <= x
  BY <1>3, <1>4
<1> QED BY <1>6, <1>8, <1>9 DEF In, n, T

-------------------------------------------------------------------------------
(* The sum of the margins of the rows below.                               *)

SumOf(R, S) == MapThenSumSet(LAMBDA j : Span(R[j]), S)
SpanTurn(g, R, S) ==
  IF S = {} THEN 0 ELSE LET j == CHOOSE k \in S : TRUE IN Span(R[j]) + g[S \ {j}]
UpTo(D, k) == {S \in SUBSET D : Cardinality(S) <= k}
Sums(R, D, k, g) == DOMAIN g = UpTo(D, k) /\ \A S \in UpTo(D, k) : g[S] = SpanTurn(g, R, S)

\* A subset without one of its elements.
LEMMA WithoutOne ==
  ASSUME NEW D, IsFiniteSet(D), NEW S \in SUBSET D
  PROVE  /\ IsFiniteSet(S) /\ Cardinality(S) \in Nat /\ (Cardinality(S) = 0 <=> S = {})
         /\ \A j \in S : S \ {j} \in SUBSET D /\ Cardinality(S \ {j}) = Cardinality(S) - 1
<1>1. IsFiniteSet(S)
  BY FS_Subset
<1>2. Cardinality(S) \in Nat /\ (Cardinality(S) = 0 <=> S = {})
  BY <1>1, FS_CardinalityType, FS_EmptySet
<1>3. ASSUME NEW j \in S PROVE Cardinality(S \ {j}) = Cardinality(S) - 1
  BY <1>1, FS_RemoveElement
<1> QED BY <1>1, <1>2, <1>3

\* Sums of the sets of up to k rows give those of up to k + 1: what a recursive
\* definition over finite sets needs to be defined at all.
LEMMA SumsExtend ==
  ASSUME NEW R, NEW D, IsFiniteSet(D), NEW k \in Nat, NEW g, Sums(R, D, k, g)
  PROVE  \E h : Sums(R, D, k + 1, h)
<1> DEFINE h == [S \in UpTo(D, k + 1) |-> IF Cardinality(S) <= k THEN g[S] ELSE SpanTurn(g, R, S)]
<1>1. DOMAIN h = UpTo(D, k + 1)
  OBVIOUS
<1>2. \A S \in UpTo(D, k + 1) : S \in SUBSET D /\ Cardinality(S) <= k + 1
  BY DEF UpTo
<1>3. \A S \in UpTo(D, k + 1) :
        h[S] = IF Cardinality(S) <= k THEN g[S] ELSE SpanTurn(g, R, S)
  OBVIOUS
<1> HIDE DEF h
<1>4. ASSUME NEW S \in UpTo(D, k + 1) PROVE h[S] = SpanTurn(h, R, S)
  <2>1. h[S] = SpanTurn(g, R, S)
    <3>1. CASE Cardinality(S) <= k
      <4>1. S \in UpTo(D, k)
        BY <1>2, <3>1 DEF UpTo
      <4> QED BY <1>3, <3>1, <4>1 DEF Sums
    <3>2. CASE ~(Cardinality(S) <= k)
      BY <1>3, <3>2
    <3> QED BY <3>1, <3>2
  <2>2. ASSUME NEW j \in S PROVE h[S \ {j}] = g[S \ {j}]
    <3>1. /\ S \ {j} \in SUBSET D /\ Cardinality(S \ {j}) = Cardinality(S) - 1
          /\ Cardinality(S) \in Nat /\ Cardinality(S) <= k + 1
      BY <1>2, WithoutOne
    <3>2. Cardinality(S \ {j}) <= k /\ Cardinality(S \ {j}) <= k + 1
      BY <3>1
    <3>3. S \ {j} \in UpTo(D, k + 1)
      BY <3>1, <3>2 DEF UpTo
    <3> QED BY <1>3, <3>2, <3>3
  <2>3. CASE S = {}
    BY <2>1, <2>3 DEF SpanTurn
  <2>4. CASE S # {}
    <3>1. PICK j \in S : j = CHOOSE k_1 \in S : TRUE
      BY <2>4
    <3>2. SpanTurn(g, R, S) = Span(R[j]) + g[S \ {j}] /\ SpanTurn(h, R, S) = Span(R[j]) + h[S \ {j}]
      BY <2>4, <3>1 DEF SpanTurn
    <3> QED BY <2>1, <2>2, <3>2
  <2> QED BY <2>3, <2>4
<1> QED BY <1>1, <1>4 DEF Sums

LEMMA SumsExist ==
  ASSUME NEW R, NEW D, IsFiniteSet(D), NEW n \in Nat
  PROVE  \E g : Sums(R, D, n, g)
<1> DEFINE Bad == {k \in Nat : ~\E g : Sums(R, D, k, g)}
<1> SUFFICES ASSUME n \in Bad PROVE FALSE
  OBVIOUS
<1>0. \A k : k \in Bad <=> k \in Nat /\ ~\E g : Sums(R, D, k, g)
  OBVIOUS
<1> HIDE DEF Bad
<1>1. Bad \in SUBSET Nat /\ Bad # {}
  BY <1>0
<1>2. PICK m \in Bad : \A y \in Bad : m <= y
  BY <1>1, LeastIs
<1>3. m # 0
  <2> DEFINE g == [S \in UpTo(D, 0) |-> 0]
  <2>1. ASSUME NEW S \in UpTo(D, 0) PROVE S = {}
    <3>1. S \in SUBSET D /\ Cardinality(S) <= 0
      BY DEF UpTo
    <3>2. Cardinality(S) \in Nat /\ (Cardinality(S) = 0 <=> S = {})
      BY <3>1, WithoutOne
    <3> QED BY <3>1, <3>2
  <2>2. Sums(R, D, 0, g)
    BY <2>1 DEF Sums, SpanTurn
  <2> QED BY <1>0, <2>2
<1>4. m - 1 \in Nat /\ m - 1 \notin Bad /\ (m - 1) + 1 = m
  BY <1>0, <1>2, <1>3
<1>5. PICK g : Sums(R, D, m - 1, g)
  BY <1>0, <1>4
<1>6. \E h : Sums(R, D, (m - 1) + 1, h)
  BY <1>4, <1>5, SumsExtend
<1> QED BY <1>0, <1>2, <1>4, <1>6

\* The sum over a set of rows is that of one of them and that of the others.
LEMMA SumSteps ==
  ASSUME NEW R, NEW D, IsFiniteSet(D)
  PROVE  \E g : /\ \A S \in SUBSET D : g[S] = SpanTurn(g, R, S)
                /\ SumOf(R, D) = g[D]
<1> DEFINE g == CHOOSE g : g = [S \in SUBSET D |-> SpanTurn(g, R, S)]
<1>1. \E f : f = [S \in SUBSET D |-> SpanTurn(f, R, S)]
  <2>0. Cardinality(D) \in Nat
    BY FS_CardinalityType
  <2>1. PICK h : Sums(R, D, Cardinality(D), h)
    BY <2>0, SumsExist
  <2>2. UpTo(D, Cardinality(D)) = SUBSET D
    BY FS_Subset DEF UpTo
  <2>3. \A S \in SUBSET D : h[S] = SpanTurn(h, R, S)
    BY <2>1, <2>2 DEF Sums
  <2> DEFINE f == [S \in SUBSET D |-> h[S]]
  <2>4. ASSUME NEW S \in SUBSET D PROVE f[S] = SpanTurn(f, R, S)
    <3>1. f[S] = h[S] /\ \A j : f[S \ {j}] = h[S \ {j}]
      OBVIOUS
    <3> HIDE DEF f
    <3> QED BY <2>3, <3>1 DEF SpanTurn
  <2>5. f = [S \in SUBSET D |-> SpanTurn(f, R, S)]
    BY <2>4
  <2> HIDE DEF f
  <2> QED BY <2>5
<1>2. g = [S \in SUBSET D |-> SpanTurn(g, R, S)]
  BY <1>1
<1>3. SumOf(R, D) = g[D]
  BY DEF SumOf, MapThenSumSet, MapThenFoldSet, SpanTurn
<1> HIDE DEF g
<1> QED BY <1>2, <1>3

\* Arithmetic of products, kept apart from everything else.
LEMMA Products ==
  /\ \A a, b, c \in Nat : b <= c => a * b <= a * c
  /\ \A a, b, c \in Nat : a * (b + c) = a * b + a * c
  /\ \A a, b \in Nat : a * b \in Nat /\ a * b = b * a
<1>1. \A a, b, c \in Nat : a * (b + c) = a * b + a * c
  OBVIOUS
<1>2. \A a, b \in Nat : a * b \in Nat /\ a * b = b * a
  OBVIOUS
<1>3. ASSUME NEW a \in Nat, NEW b \in Nat, NEW c \in Nat, b <= c PROVE a * b <= a * c
  <2>1. PICK d \in Nat : c = b + d
    <3>1. c - b \in Nat /\ c = b + (c - b)
      BY <1>3
    <3> QED BY <3>1
  <2>2. a * c = a * b + a * d
    BY <1>1, <2>1
  <2> QED BY <1>2, <2>2
<1> QED BY <1>1, <1>2, <1>3

\* Rows that do not overlap: their margins are no more than the greatest rate of
\* what they cover.
LEMMA SumBound ==
  ASSUME NEW R, NEW D, IsFiniteSet(D), NEW B \in Nat, NEW top \in Nat,
         \A j \in D : R[j].floor \in Nat /\ R[j].cap \in Nat /\ R[j].rate \in Nat
                      /\ R[j].rate <= B /\ R[j].floor < R[j].cap /\ R[j].cap <= top,
         \A j, k \in D : j # k => R[j].cap <= R[k].floor \/ R[k].cap <= R[j].floor
  PROVE  SumOf(R, D) \in 0..B * top
<1> DEFINE Inside(S) == {y \in 1..top : \E j \in S : R[j].floor < y /\ y <= R[j].cap}
           Row(j) == R[j].floor + 1 .. R[j].cap
<1>1. PICK g : /\ \A S \in SUBSET D : g[S] = SpanTurn(g, R, S)
               /\ SumOf(R, D) = g[D]
  BY SumSteps
<1>2. ASSUME NEW S \in SUBSET D
      PROVE  IsFiniteSet(Inside(S)) /\ Cardinality(Inside(S)) \in Nat /\ Cardinality(Inside(S)) <= top
  <2>0. 1 \in Int /\ top \in Int
    OBVIOUS
  <2>1. Inside(S) \in SUBSET (1..top)
    OBVIOUS
  <2>2. IsFiniteSet(1..top) /\ Cardinality(1..top) = top
    BY <2>0, FS_Interval
  <2> HIDE DEF Inside
  <2> QED BY <2>1, <2>2, FS_Subset, FS_CardinalityType
<1> DEFINE Good(S) == g[S] \in Nat /\ g[S] <= B * Cardinality(Inside(S))
<1>3. Good({})
  <2>1. g[{}] = 0
    BY <1>1 DEF SpanTurn
  <2>2. Cardinality(Inside({})) \in Nat
    BY <1>2
  <2> HIDE DEF Inside
  <2> QED BY <2>1, <2>2, Products
<1>4. ASSUME NEW S \in SUBSET D, NEW x \in S, g[S] = Span(R[x]) + g[S \ {x}], Good(S \ {x}) PROVE Good(S)
  <2> DEFINE Q == S \ {x}
  <2>1. x \in D /\ Q \in SUBSET D
    OBVIOUS
  <2>2. Inside(S) = Inside(Q) \cup Row(x)
    <3>1. ASSUME NEW y \in Row(x) PROVE y \in 1..top /\ R[x].floor < y /\ y <= R[x].cap
      <4>1. R[x].floor \in Nat /\ R[x].cap \in Nat /\ R[x].cap <= top /\ y \in Int
        BY <2>1
      <4> QED BY <4>1
    <3>2. \A y \in 1..top : R[x].floor < y /\ y <= R[x].cap => y \in Row(x)
      BY <2>1
    <3> HIDE DEF Row
    <3> QED BY <3>1, <3>2
  <2>3. Inside(Q) \cap Row(x) = {}
    <3> SUFFICES ASSUME NEW y \in Inside(Q), y \in Row(x) PROVE FALSE
      OBVIOUS
    <3>1. PICK j \in Q : R[j].floor < y /\ y <= R[j].cap
      OBVIOUS
    <3>2. R[x].floor < y /\ y <= R[x].cap /\ y \in Int
      BY <2>1
    <3>3. j \in D /\ j # x
      OBVIOUS
    <3>4. R[j].cap <= R[x].floor \/ R[x].cap <= R[j].floor
      BY <2>1, <3>3
    <3>5. R[j].cap \in Nat /\ R[j].floor \in Nat /\ R[x].cap \in Nat /\ R[x].floor \in Nat
      BY <2>1, <3>3
    <3> QED BY <3>1, <3>2, <3>4, <3>5
  <2>4. PICK a \in Nat, r \in Nat : a = R[x].cap - R[x].floor /\ r = R[x].rate /\ r <= B /\ Span(R[x]) = a * r
    <3>1. /\ R[x].floor \in Nat /\ R[x].cap \in Nat /\ R[x].rate \in Nat
          /\ R[x].rate <= B /\ R[x].floor < R[x].cap
      BY <2>1
    <3>2. R[x].cap - R[x].floor \in Nat /\ Span(R[x]) = (R[x].cap - R[x].floor) * R[x].rate
      BY <3>1 DEF Span
    <3> QED BY <3>1, <3>2
  <2>5. IsFiniteSet(Row(x)) /\ Cardinality(Row(x)) = a
    <3>1. R[x].floor \in Nat /\ R[x].cap \in Nat /\ R[x].floor < R[x].cap
      BY <2>1
    <3>2. R[x].floor + 1 \in Int /\ R[x].cap \in Int /\ ~(R[x].floor + 1 > R[x].cap)
      BY <3>1
    <3>3. IsFiniteSet(Row(x)) /\ Cardinality(Row(x)) = R[x].cap - (R[x].floor + 1) + 1
      BY <3>2, FS_Interval
    <3> QED BY <2>4, <3>1, <3>3
  <2>6. /\ IsFiniteSet(Inside(Q)) /\ Cardinality(Inside(Q)) \in Nat
    BY <1>2, <2>1
  <2>7. g[Q] \in Nat /\ g[Q] <= B * Cardinality(Inside(Q))
    BY <1>4
  <2>8. g[S] = Span(R[x]) + g[Q]
    BY <1>4
  <2> HIDE DEF Inside, Row, Q
  <2>9. Cardinality(Inside(S)) = Cardinality(Inside(Q)) + a
    <3>1. Cardinality(Inside(Q) \cup Row(x)) =
            Cardinality(Inside(Q)) + Cardinality(Row(x)) - Cardinality(Inside(Q) \cap Row(x))
      BY <2>5, <2>6, FS_Union
    <3>2. Cardinality({}) = 0
      BY FS_EmptySet
    <3>3. PICK q \in Nat : q = Cardinality(Inside(Q))
      BY <2>6
    <3>4. Cardinality(Inside(S)) = q + a - 0
      BY <2>2, <2>3, <2>5, <3>1, <3>2, <3>3
    <3> QED BY <3>3, <3>4
  <2>10. PICK c \in Nat, b \in Nat : c = Cardinality(Inside(Q)) /\ b = g[Q]
    BY <2>6, <2>7
  <2>11. a * r \in Nat /\ a * r <= B * a /\ B * (c + a) = B * c + B * a /\ B * c \in Nat /\ B * a \in Nat
    <3>1. a * r <= a * B /\ a * B = B * a
      BY <2>4, Products
    <3>2. a * r \in Nat /\ B * c \in Nat /\ B * a \in Nat
      BY Products
    <3>3. B * (c + a) = B * c + B * a
      BY Products
    <3> QED BY <3>1, <3>2, <3>3
  <2>12. g[S] = a * r + b /\ b <= B * c /\ Cardinality(Inside(S)) = c + a
    BY <2>4, <2>7, <2>8, <2>9, <2>10
  <2>13. a * r + b \in Nat /\ a * r + b <= B * (c + a)
    BY <2>11, <2>12
  <2> QED BY <2>12, <2>13
<1> DEFINE Bad == {k \in Nat : \E S \in SUBSET D : Cardinality(S) = k /\ ~Good(S)}
<1> HIDE DEF Inside, Row, Good
<1>5. Bad = {}
  <2> SUFFICES ASSUME Bad # {} PROVE FALSE
    OBVIOUS
  <2>1. Bad \in SUBSET Nat
    OBVIOUS
  <2>2. PICK k \in Bad : \A y \in Bad : k <= y
    BY <2>1, LeastIs
  <2>3. PICK S \in SUBSET D : Cardinality(S) = k /\ ~Good(S)
    OBVIOUS
  <2>4. S # {}
    BY <1>3, <2>3
  <2>5. PICK x \in S : x = CHOOSE y \in S : TRUE
    BY <2>4
  <2>6. g[S] = Span(R[x]) + g[S \ {x}]
    BY <1>1, <2>4, <2>5 DEF SpanTurn
  <2>7. S \ {x} \in SUBSET D /\ Cardinality(S \ {x}) = k - 1 /\ k \in Nat
    BY <2>3, WithoutOne
  <2>8. k # 0
    BY <2>3, <2>4, WithoutOne
  <2>9. k - 1 \in Nat /\ k - 1 \notin Bad
    BY <2>2, <2>7, <2>8
  <2>10. Good(S \ {x})
    BY <2>7, <2>9
  <2> QED BY <1>4, <2>3, <2>6, <2>10
<1>6. Good(D)
  <2>1. Cardinality(D) \in Nat
    BY FS_CardinalityType
  <2> QED BY <1>5, <2>1
<1>7. Cardinality(Inside(D)) \in Nat /\ Cardinality(Inside(D)) <= top
  BY <1>2
<1>8. g[D] \in Nat /\ g[D] <= B * Cardinality(Inside(D))
  BY <1>6 DEF Good
<1>9. B * Cardinality(Inside(D)) <= B * top /\ B * Cardinality(Inside(D)) \in Nat /\ B * top \in Nat
  BY <1>7, Products
<1> QED BY <1>1, <1>8, <1>9

\* MaxLev and Margin of okx and bybit are of the tier of the value.
LEMMA LookedUp ==
  ASSUME InSteps, lexg # "binance", NEW s \in Syms, NEW x \in Nat, NEW t, t = TierOf(s, x)
  PROVE  /\ MaxLev(s, x) = t.lev
         /\ Margin(s, x) \in t.rate * (IF x > t.floor THEN x - t.floor ELSE 0)..t.rate * x
<1> DEFINE R == Rows(s)  n == Cardinality(Tiers[s])
<1>1. PICK f : Ladder(s, f, R)
  BY RowsLadder
<1>2. PICK i \in 1..n : Reached(R, x) # {} /\ Max(Reached(R, x)) = i /\ f[i] = t /\ R[i].floor <= x
  BY <1>1, FoundTier
<1>3. MaxLev(s, x) = R[i].lev /\ Margin(s, x) = R[i].rate * x - SumOf(R, 1..i - 1)
  BY <1>2 DEF MaxLev, Margin, Cum, SumOf
<1> HIDE DEF R
<1>4. R[i].lev = t.lev /\ R[i].rate = t.rate /\ n \in Nat
  BY <1>1, <1>2 DEF Ladder
<1>5. \A j \in 1..n : R[j].floor \in Nat /\ f[j].cap \in Nat /\ f[j].floor \in Nat /\ f[j].rate \in Nat
  <2>1. Tiers[s] \subseteq [floor : Nat, cap : Nat, lev : Nat, rate : Nat]
    BY Zenon DEF InSteps
  <2>2. \A j \in 1..n : f[j] \in [floor : Nat, cap : Nat, lev : Nat, rate : Nat] /\ R[j].floor \in Nat
    BY <1>1, <2>1 DEF Ladder
  <2> QED BY <2>2
<1> DEFINE D == 1..i - 1  B == t.rate  top == R[i].floor
<1>6. B \in Nat /\ top \in Nat /\ top <= x /\ top <= t.floor /\ t.floor \in Nat
  BY <1>1, <1>2, <1>5 DEF Ladder
<1>7. IsFiniteSet(D)
  <2>1. 1 \in Int /\ i - 1 \in Int
    BY <1>4
  <2> QED BY <2>1, FS_Interval
<1>8. ASSUME NEW j \in D
      PROVE  R[j].floor \in Nat /\ R[j].cap \in Nat /\ R[j].rate \in Nat
             /\ R[j].rate <= B /\ R[j].floor < R[j].cap /\ R[j].cap <= top
  <2>1. j \in 1..n /\ j < i
    BY <1>4
  <2>2. /\ R[j].cap = f[j].cap /\ R[j].rate = f[j].rate /\ R[j].floor <= f[j].floor /\ f[j].floor < f[j].cap
        /\ f[j].cap <= R[i].floor /\ f[j].rate <= f[i].rate
    BY <1>1, <2>1 DEF Ladder
  <2>3. R[j].floor < R[j].cap
    BY <1>5, <2>1, <2>2
  <2> QED BY <1>2, <1>5, <2>1, <2>2, <2>3
<1>9. ASSUME NEW j \in D, NEW k \in D, j # k PROVE R[j].cap <= R[k].floor \/ R[k].cap <= R[j].floor
  <2>1. j \in 1..n /\ k \in 1..n /\ (j < k \/ k < j)
    BY <1>4, <1>9
  <2> QED BY <1>1, <2>1 DEF Ladder
<1> HIDE DEF D, B, top
<1>10. SumOf(R, D) \in 0..B * top
  BY <1>6, <1>7, <1>8, <1>9, SumBound
<1>11. PICK b \in Nat, p \in Nat, q \in Nat : b = B /\ p = top /\ q = t.floor
  BY <1>6
<1>12. PICK c \in Nat : c = SumOf(R, D) /\ c <= b * p
  BY <1>10, <1>11, Products
<1>13. Margin(s, x) = b * x - c
  BY <1>3, <1>4, <1>11, <1>12 DEF D, B
<1>14. b * p <= b * x /\ b * p <= b * q /\ b * x \in Nat /\ b * p \in Nat /\ b * q \in Nat
  BY <1>6, <1>11, Products
<1>15. CASE x > q
  <2>1. x - q \in Nat /\ q + (x - q) = x
    BY <1>15
  <2>2. b * (q + (x - q)) = b * q + b * (x - q) /\ b * (x - q) \in Nat
    BY <2>1, Products
  <2>3. b * (x - q) <= b * x - c /\ b * x - c <= b * x
    BY <1>12, <1>14, <2>1, <2>2
  <2>4. b * x - c \in b * (x - q)..b * x
    BY <1>14, <2>2, <2>3
  <2> QED BY <1>3, <1>4, <1>11, <1>13, <1>15, <2>4 DEF B
<1>16. CASE ~(x > q)
  <2>1. b * 0 = 0
    OBVIOUS
  <2>2. b * x - c \in b * 0..b * x
    BY <1>12, <1>14, <2>1
  <2> QED BY <1>3, <1>4, <1>11, <1>13, <1>16, <2>2 DEF B
<1> QED BY <1>15, <1>16

-------------------------------------------------------------------------------
\* What is so of an answer from the moment it has been read from the tiers.
InTier(r) ==
  LET t == TierOf(r.s, r.x)
  IN  IF r.op = "get" THEN r.max = t.lev
      ELSE r.max \in t.rate * (IF r.x > t.floor THEN r.x - t.floor ELSE 0)..t.rate * r.x
RightAnswer(r) ==
  r.st \in {"fetch", "store", "answered"} /\ lexg # "binance" /\ r.from = r.s => InTier(r)
RightAnswers == \A c \in LevCallers : RightAnswer(lcall[c])

\* A call that takes a new step; the others stay.
LEMMA SetTold ==
  ASSUME LevInv, RightAnswers, NEW c \in LevCallers, NEW q, lcall' = [lcall EXCEPT ![c] = q],
         lexg' = lexg, RightAnswer(q)
  PROVE  RightAnswers'
<1>1. lcall = [d \in LevCallers |-> lcall[d]]
  BY DEF LevInv, LevTypeOK
<1>2. ASSUME NEW d \in LevCallers PROVE RightAnswer(lcall[d])'
  <2>1. PICK p : p = lcall'[d]
    OBVIOUS
  <2>2. RightAnswer(p)
    BY <1>1, <2>1 DEF RightAnswers
  <2> QED BY <2>1, <2>2 DEF RightAnswer, InTier
<1> QED BY <1>2 DEF RightAnswers

\* A call that goes on with what it has read.
LEMMA SameTold ==
  ASSUME NEW r, NEW q, InTier(r), q.op = r.op, q.s = r.s, q.x = r.x, q.max = r.max
  PROVE  InTier(q)
BY DEF InTier

\* The answers a call reads from the tiers of its own symbol.
LEMMA ReadTold ==
  ASSUME InSteps, lexg # "binance", NEW r, r.s \in Syms, r.x \in Nat, NEW t, t = r.s,
         NEW q, q.op = r.op, q.s = r.s, q.x = r.x,
         r.op = "get" => q.max = IF t = "" THEN 0 ELSE MaxLev(t, r.x),
         r.op # "get" => q.max = IF t = "" THEN 0 ELSE Margin(t, r.x)
  PROVE  InTier(q)
<1>1. t # ""
  BY Zenon DEF InSteps
<1>2. (r.op = "get" => q.max = MaxLev(t, r.x)) /\ (r.op # "get" => q.max = Margin(t, r.x))
  BY <1>1, Zenon
<1>3. PICK s \in Syms, x \in Nat : s = r.s /\ x = r.x
  OBVIOUS
<1>u. PICK u : u = TierOf(s, x)
  OBVIOUS
<1>4. /\ MaxLev(s, x) = u.lev
      /\ Margin(s, x) \in u.rate * (IF x > u.floor THEN x - u.floor ELSE 0)..u.rate * x
  BY <1>u, LookedUp
<1>5. q.op = r.op /\ q.s = s /\ q.x = x /\ t = s
  BY <1>3
<1> QED BY <1>2, <1>3, <1>u, <1>4, <1>5 DEF InTier

\* ReadMargin and ReadCaches answer from the tiers.
LEMMA LookTold ==
  ASSUME InSteps, LevInv, RightAnswers, NEW c \in LevCallers, ReadMargin(c) \/ ReadCaches(c)
  PROVE  RightAnswers'
<1>1. PICK r : r = lcall[c]
  OBVIOUS
<1>2. r \in LevRecords(r.max, r.from) /\ r.s \in Syms /\ r.x \in Nat /\ r.st = "read"
  <2>1. TypedCall(r) /\ r.st = "read"
    BY <1>1 DEF LevInv, SoundCalls, ReadMargin, ReadCaches
  <2> QED BY <2>1 DEF TypedCall, LevRecords
<1>3. lexg' = lexg
  BY DEF ReadMargin, ReadCaches
\* An answer, or what GetLeverage asks the exchange with.
<1>4. ASSUME NEW t, NEW v, NEW p, NEW q, p = [r EXCEPT !.from = t, !.max = v],
             q \in {[p EXCEPT !.st = "fetch"],
                    [p EXCEPT !.st = "answered", !.a = DefName, !.l = 0, !.n = 0]},
             r.op = "get" => v = IF t = "" THEN 0 ELSE MaxLev(t, r.x),
             r.op # "get" => v = IF t = "" THEN 0 ELSE Margin(t, r.x),
             lcall' = [lcall EXCEPT ![c] = q]
      PROVE  RightAnswers'
  <2>1. p.op = r.op /\ p.s = r.s /\ p.x = r.x /\ p.max = v /\ p.from = t
        /\ DOMAIN p = {"op", "a", "s", "x", "st", "l", "n", "max", "from"}
    BY <1>2, <1>4 DEF LevRecords
  <2>2. q.op = r.op /\ q.s = r.s /\ q.x = r.x /\ q.max = v /\ q.from = t
    <3>1. CASE q = [p EXCEPT !.st = "fetch"]
      BY <2>1, <3>1
    <3>2. CASE q = [p EXCEPT !.st = "answered", !.a = DefName, !.l = 0, !.n = 0]
      BY <2>1, <3>2
    <3> QED BY <1>4, <3>1, <3>2
  <2>3. ASSUME lexg # "binance", q.from = q.s PROVE InTier(q)
    <3>1. t = r.s
      BY <2>2, <2>3
    <3> QED BY <1>2, <1>4, <2>2, <2>3, <3>1, ReadTold, Zenon
  <2>4. RightAnswer(q)
    BY <2>3 DEF RightAnswer
  <2> QED BY <1>3, <1>4, <2>4, SetTold
<1>5. CASE ReadMargin(c)
  <2>1. PICK t : t = TiersFor("margin", r.s)
    OBVIOUS
  <2>2. PICK v : v = IF t = "" THEN 0 ELSE Margin(t, r.x)
    OBVIOUS
  <2>3. PICK p : p = [r EXCEPT !.from = t, !.max = v]
    OBVIOUS
  <2>4. /\ r.op = "margin"
        /\ lcall' = [lcall EXCEPT ![c] = [p EXCEPT !.st = "answered", !.a = DefName, !.l = 0, !.n = 0]]
    BY <1>1, <1>5, <2>1, <2>2, <2>3, Zenon DEF ReadMargin, Answer, SetCall
  <2>5. r.op # "get"
    BY <2>4
  <2> QED BY <1>4, <2>2, <2>3, <2>4, <2>5, Zenon
<1>6. CASE ReadCaches(c)
  <2>1. PICK t : t = TiersFor("get", r.s)
    OBVIOUS
  <2>2. PICK v : v = IF t = "" THEN 0 ELSE MaxLev(t, r.x)
    OBVIOUS
  <2>3. PICK p : p = [r EXCEPT !.from = t, !.max = v]
    OBVIOUS
  <2>4. /\ r.op = "get"
        /\ \/ lcall' = [lcall EXCEPT ![c] = [p EXCEPT !.st = "fetch"]]
           \/ lcall' = [lcall EXCEPT ![c] = [p EXCEPT !.st = "answered", !.a = DefName, !.l = 0, !.n = 0]]
    BY <1>1, <1>6, <2>1, <2>2, <2>3, Zenon DEF ReadCaches, Answer, SetCall
  <2>5. /\ r.op = "get" => v = IF t = "" THEN 0 ELSE MaxLev(t, r.x)
        /\ r.op # "get" => v = IF t = "" THEN 0 ELSE Margin(t, r.x)
    BY <2>2, <2>4, Zenon
  <2>6. PICK q : /\ lcall' = [lcall EXCEPT ![c] = q]
                 /\ q \in {[p EXCEPT !.st = "fetch"],
                          [p EXCEPT !.st = "answered", !.a = DefName, !.l = 0, !.n = 0]}
    BY <2>4, Zenon
  <2> QED BY <1>4, <2>3, <2>5, <2>6, Zenon
<1> QED BY <1>5, <1>6

\* The steps of a call that come after it has read the tiers.
LEMMA GoOnTold ==
  ASSUME LevInv, RightAnswers, NEW c \in LevCallers, FetchLev(c) \/ StoreGet(c)
  PROVE  RightAnswers'
<1>1. PICK r : r = lcall[c]
  OBVIOUS
<1>2. TypedCall(r) /\ RightAnswer(r) /\ r.st \in {"fetch", "store"}
  BY <1>1 DEF LevInv, SoundCalls, RightAnswers, FetchLev, StoreGet
<1>3. DOMAIN r = {"op", "a", "s", "x", "st", "l", "n", "max", "from"}
  BY <1>2 DEF TypedCall, LevRecords
<1>4. lexg' = lexg
  BY DEF FetchLev, StoreGet
<1>5. PICK y, n : FetchLev(c) => y = xlev[<<FetchedFor(r), r.s>>] /\ n = nth[<<FetchedFor(r), r.s>>]
  OBVIOUS
<1>6. \/ lcall' = [lcall EXCEPT ![c] = [r EXCEPT !.st = "store", !.l = y, !.n = n]]
      \/ lcall' = [lcall EXCEPT ![c] = [r EXCEPT !.st = "answered", !.a = DefName, !.l = 0, !.n = 0]]
  BY <1>1, <1>5, Zenon DEF FetchLev, StoreGet, Answer, SetCall
<1>7. ASSUME NEW q, q \in {[r EXCEPT !.st = "store", !.l = y, !.n = n],
                          [r EXCEPT !.st = "answered", !.a = DefName, !.l = 0, !.n = 0]},
             lcall' = [lcall EXCEPT ![c] = q]
      PROVE  RightAnswers'
  <2>1. q.op = r.op /\ q.s = r.s /\ q.x = r.x /\ q.max = r.max /\ q.from = r.from
    <3>1. CASE q = [r EXCEPT !.st = "store", !.l = y, !.n = n]
      BY <1>3, <3>1
    <3>2. CASE q = [r EXCEPT !.st = "answered", !.a = DefName, !.l = 0, !.n = 0]
      BY <1>3, <3>2
    <3> QED BY <1>7, <3>1, <3>2
  <2>2. RightAnswer(q)
    BY <1>2, <2>1, SameTold DEF RightAnswer
  <2> QED BY <1>4, <1>7, <2>2, SetTold
<1> QED BY <1>6, <1>7

\* Of the other steps none ends in a call that has read the tiers.
LEMMA OtherTold ==
  ASSUME LevInv, RightAnswers, NEW c \in LevCallers,
         \/ \E a \in Names, s \in Syms, l \in Levs : CallSet(c, a, s, l)
         \/ \E a \in Names, s \in Syms, x \in Notionals : CallGet(c, a, s, x)
         \/ \E s \in Syms, x \in Notionals : CallMargin(c, s, x)
         \/ Execute(c) \/ StoreSet(c) \/ LoadTiers(c) \/ Return(c)
  PROVE  RightAnswers'
<1>1. PICK r : r = lcall[c]
  OBVIOUS
<1>2. TypedCall(r)
  BY <1>1 DEF LevInv, SoundCalls
<1>3. DOMAIN r = {"op", "a", "s", "x", "st", "l", "n", "max", "from"}
  BY <1>2 DEF TypedCall, LevRecords
<1>4. lexg' = lexg
  BY DEF CallSet, CallGet, CallMargin, Execute, StoreSet, LoadTiers, Return
<1>5. ASSUME NEW q, q.st \notin {"fetch", "store", "answered"}, lcall' = [lcall EXCEPT ![c] = q]
      PROVE  RightAnswers'
  <2>1. RightAnswer(q)
    BY <1>5 DEF RightAnswer
  <2> QED BY <1>4, <1>5, <2>1, SetTold
<1>6. \A op, a, s, x, st : NewCall(op, a, s, x, st).st = st
  BY DEF NewCall
<1>7. NoCall.st = "idle"
  BY NoCallTyped
<1>8. CASE \E a \in Names, s \in Syms, l \in Levs : CallSet(c, a, s, l)
  <2>1. PICK a \in Names, s \in Syms, l \in Levs : CallSet(c, a, s, l)
    BY <1>8
  <2>2. PICK q : q = NewCall("set", a, s, l, "sent")
    OBVIOUS
  <2>3. lcall' = [lcall EXCEPT ![c] = q] /\ q.st = "sent"
    BY <1>6, <2>1, <2>2 DEF CallSet, SetCall
  <2> QED BY <1>5, <2>3
<1>9. ASSUME NEW q, NEW op, NEW a, NEW s, NEW x, NEW st \in {"load", "read"},
             q = NewCall(op, a, s, x, st), SetCall(c, q)
      PROVE  RightAnswers'
  <2>1. q.st \in {"load", "read"}
    BY <1>6, <1>9
  <2> QED BY <1>5, <1>9, <2>1 DEF SetCall
<1>10. CASE \E a \in Names, s \in Syms, x \in Notionals : CallGet(c, a, s, x)
  <2>1. PICK a \in Names, s \in Syms, x \in Notionals : CallGet(c, a, s, x)
    BY <1>10
  <2>2. PICK st \in {"load", "read"} : st = IF Missing("get", s) THEN "load" ELSE "read"
    OBVIOUS
  <2> QED BY <1>9, <2>1, <2>2 DEF CallGet
<1>11. CASE \E s \in Syms, x \in Notionals : CallMargin(c, s, x)
  <2>1. PICK s \in Syms, x \in Notionals : CallMargin(c, s, x)
    BY <1>11
  <2>2. PICK st \in {"load", "read"} : st = IF Missing("margin", s) THEN "load" ELSE "read"
    OBVIOUS
  <2> QED BY <1>9, <2>1, <2>2 DEF CallMargin
<1>12. CASE Execute(c)
  <2>1. PICK n : n = nth'[<<r.a, r.s>>]
    OBVIOUS
  <2>2. PICK k : k = nth[<<r.a, r.s>>]
    OBVIOUS
  <2>3. \/ lcall' = [lcall EXCEPT ![c] = NoCall]
        \/ lcall' = [lcall EXCEPT ![c] = [r EXCEPT !.st = "set", !.l = r.x, !.n = n]]
        \/ lcall' = [lcall EXCEPT ![c] = [r EXCEPT !.st = "set", !.l = r.x, !.n = k]]
    BY <1>1, <1>12, <2>1, <2>2, Zenon DEF Execute, SetCall
  <2>4. \A z : [r EXCEPT !.st = "set", !.l = r.x, !.n = z].st = "set"
    BY <1>3
  <2> QED BY <1>5, <1>7, <2>3, <2>4
<1>13. CASE StoreSet(c) \/ Return(c)
  BY <1>5, <1>7, <1>13 DEF StoreSet, Return, SetCall
<1>14. CASE LoadTiers(c)
  <2>1. lcall' = [lcall EXCEPT ![c] = [r EXCEPT !.st = "read"]] /\ [r EXCEPT !.st = "read"].st = "read"
    BY <1>1, <1>3, <1>14 DEF LoadTiers, SetCall
  <2> QED BY <1>5, <2>1
<1> QED BY <1>8, <1>10, <1>11, <1>12, <1>13, <1>14

LEMMA TierStep ==
  ASSUME InSteps, LevInv, RightAnswers, [CachesNext]_<<vars, levVars, holdVars>>
  PROVE  RightAnswers'
<1>1. CASE UNCHANGED <<lexg, lcall>>
  BY <1>1 DEF RightAnswers, RightAnswer, InTier
<1>2. CASE LevNext
  <2>1. ASSUME NEW c \in LevCallers,
             \/ \E a \in Names, s \in Syms, l \in Levs : CallSet(c, a, s, l)
             \/ \E a \in Names, s \in Syms, x \in Notionals : CallGet(c, a, s, x)
             \/ \E s \in Syms, x \in Notionals : CallMargin(c, s, x)
             \/ Execute(c) \/ StoreSet(c) \/ LoadTiers(c) \/ ReadMargin(c) \/ ReadCaches(c)
             \/ FetchLev(c) \/ StoreGet(c) \/ Return(c)
        PROVE  RightAnswers'
    BY <2>1, LookTold, GoOnTold, OtherTold
  <2>2. ASSUME NEW a \in Names, HandleConfig(a) \/ HandlePositions(a) PROVE RightAnswers'
    BY <1>1, <2>2 DEF HandleConfig, HandlePositions
  <2>3. ASSUME NEW a \in Names, NEW s \in Syms, NEW l \in Levs, ChangeElsewhere(a, s, l) PROVE RightAnswers'
    BY <1>1, <2>3 DEF ChangeElsewhere
  <2>4. CASE (\E s \in Syms, reload \in BOOLEAN : LoadBrackets(s, reload)) \/ InitBrackets
    BY <1>1, <2>4 DEF LoadBrackets, InitBrackets
  <2> QED BY <1>2, <2>1, <2>2, <2>3, <2>4 DEF LevNext
<1>3. CASE UNCHANGED levVars
  BY <1>1, <1>3 DEF levVars
<1> QED BY <1>2, <1>3 DEF CachesNext

\* What GetLeverage and CalcMaintMargin of okx and bybit answer is of the tier the
\* value is in, in whatever order the exchange lists the tiers of the symbol and
\* however many they are, if they are steps that do not overlap.
THEOREM TierIsServed == ASSUME InSteps PROVE CachesSpec => []TierServed
<1>1. CachesInit => RightAnswers
  <2>1. CachesInit => lcall = [c \in LevCallers |-> NoCall]
    BY Zenon DEF CachesInit, LevInit, NoLeverage
  <2>2. CachesInit => \A c \in LevCallers : lcall[c].st = "idle"
    BY <2>1, NoCallTyped
  <2> QED BY <2>2 DEF RightAnswers, RightAnswer
<1>2. LevInv /\ RightAnswers /\ [CachesNext]_<<vars, levVars, holdVars>> => RightAnswers'
  BY TierStep
<1>3. LevInv /\ RightAnswers => TierServed
  BY DEF RightAnswers, RightAnswer, InTier, TierServed
<1>4. QED
  BY <1>1, <1>2, <1>3, LevKept, PTL DEF CachesSpec
================================================================================
