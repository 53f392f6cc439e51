---------------------------- MODULE ScriptProofs ----------------------------
(***************************************************************************)
(* Those that call scripts back: the event loop with the test harness, and *)
(* listeners and mutation observers.                                       *)
(*                                                                         *)
(* 1. Harness.  For any documents and any number of timers and of tests:   *)
(* timeouts fire once, timers that were cleared do not fire, scripts run   *)
(* in their order, the pending tests are counted, and a file that passes   *)
(* had its tests pass.                                                     *)
(*                                                                         *)
(* 2. Callbacks, over any nodes, listeners, event objects and observers:   *)
(* each record reaches its observer once; stopPropagation and              *)
(* currentTarget are those of the dispatch; a loop over listeners calls    *)
(* each once, whatever callbacks do between.                               *)
(***************************************************************************)
EXTENDS Harness, Callbacks, FiniteSetTheorems, SequenceTheorems, WellFoundedInduction, TLAPS

-----------------------------------------------------------------------------
(***************************************************************************)
(* 1. Harness                                                              *)
(***************************************************************************)
(* Timers.  A timeout that fired is out of the heap, and an id that was    *)
(* not given yet has no entry.                                             *)
Timers == [due : Int, interval : Delays \cup {0}, cleared : BOOLEAN, queued : BOOLEAN]

LoopOK ==
    /\ LoopTypeOK
    /\ timers \in [TimerIds -> Timers] /\ fired \in [TimerIds -> 0..2]
    /\ \A i \in TimerIds : i > nextID => timers[i] = NoTimer /\ fired[i] = 0
    /\ \A i \in TimerIds : timers[i].interval = 0 => fired[i] # 2 /\ (fired[i] # 0 => ~timers[i].queued)

LEMMA DelaysAreNat == \A d \in Delays \cup {0} : d \in Nat
<1>1. Delays \subseteq Nat
  BY LoopAssumption
<1>2. \A d \in Delays : d \in Nat
  BY <1>1
<1> QED
  BY <1>2

(* What LoopTypeOK says of timers is that they are of their type.          *)
LEMMA TypedLoop ==
    ASSUME timers \in [TimerIds -> Timers], nextID \in 0..MaxTimers, byID \subseteq 1..nextID,
           code \in {Idle, InLoop, Script} \cup TimerIds, quiet \subseteq TimerIds
    PROVE  LoopTypeOK
BY DEF LoopTypeOK, Timers

LEMMA InitLoop == LoopInit => LoopOK
<1> SUFFICES ASSUME LoopInit PROVE LoopOK
  OBVIOUS
<1>1. NoTimer \in Timers
  BY DEF NoTimer, Timers
<1>2. MaxTimers \in Nat
  BY LoopAssumption
<1>3. /\ timers \in [TimerIds -> Timers] /\ fired \in [TimerIds -> 0..2]
      /\ \A i \in TimerIds : timers[i] = NoTimer /\ fired[i] = 0
  BY <1>1 DEF LoopInit
<1>4. LoopTypeOK
  BY <1>2, <1>3, TypedLoop DEF LoopInit
<1> QED
  BY <1>3, <1>4 DEF LoopOK

LEMMA SetKeepsLoop ==
    ASSUME LoopOK, NEW delay \in Delays, NEW interval \in Delays \cup {0}, SetTimer(delay, interval)
    PROVE  LoopOK'
<1> DEFINE id == nextID + 1
           entry == [due |-> delay, interval |-> interval, cleared |-> FALSE, queued |-> TRUE]
<1>1. id \in TimerIds /\ nextID' = id /\ nextID' \in 0..MaxTimers /\ nextID \in Nat
  BY LoopAssumption DEF LoopOK, LoopTypeOK, SetTimer, TimerIds
<1>2. entry \in Timers
  BY LoopAssumption DEF Timers
<1>3. timers' = [timers EXCEPT ![id] = entry] /\ UNCHANGED <<code, fired, quiet>> /\ byID' = byID \cup {id}
  BY DEF SetTimer
<1>4. fired[id] = 0
  BY <1>1 DEF LoopOK
<1> HIDE DEF id, entry
<1>5. timers' \in [TimerIds -> Timers]
  BY <1>2, <1>3 DEF LoopOK
<1>6. \A i \in TimerIds : i > nextID' => timers'[i] = NoTimer /\ fired'[i] = 0
  BY <1>1, <1>3 DEF LoopOK, TimerIds, id
<1>7. \A i \in TimerIds : timers'[i].interval = 0 => fired'[i] # 2 /\ (fired'[i] # 0 => ~timers'[i].queued)
  BY <1>3, <1>4 DEF LoopOK
<1>8. byID' \subseteq 1..nextID'
  BY <1>1, <1>3 DEF LoopOK, LoopTypeOK, id
<1>9. LoopTypeOK'
  BY <1>1, <1>3, <1>5, <1>8, TypedLoop DEF LoopOK, LoopTypeOK, Timers
<1> QED
  BY <1>3, <1>5, <1>6, <1>7, <1>9 DEF LoopOK

LEMMA ClearKeepsLoop ==
    ASSUME LoopOK, NEW i \in TimerIds, ClearTimer(i)
    PROVE  LoopOK'
<1>1. timers' = [timers EXCEPT ![i].cleared = TRUE] /\ i <= nextID /\ byID' \subseteq byID
      /\ quiet' = quiet \cup {i} /\ UNCHANGED <<nextID, code, fired>>
  BY DEF ClearTimer, LoopOK, LoopTypeOK
<1>2. timers' \in [TimerIds -> Timers]
  BY <1>1 DEF LoopOK, Timers
<1>3. \A j \in TimerIds : /\ timers'[j].interval = timers[j].interval /\ timers'[j].queued = timers[j].queued
                          /\ j # i => timers'[j] = timers[j]
  BY <1>1 DEF LoopOK, Timers
<1>4. \A j \in TimerIds : j > nextID' => j # i
  BY <1>1 DEF LoopOK, LoopTypeOK, TimerIds
<1>5. LoopTypeOK'
  BY <1>1, <1>2 DEF LoopOK, LoopTypeOK, Timers
<1> QED
  BY <1>1, <1>2, <1>3, <1>4, <1>5 DEF LoopOK

LEMMA CallsKeepLoop ==
    ASSUME LoopOK, Calls
    PROVE  LoopOK'
<1>1. ASSUME NEW d \in Delays, SetTimeout(d) \/ SetInterval(d) PROVE LoopOK'
  BY <1>1, SetKeepsLoop DEF SetTimeout, SetInterval
<1> QED
  BY <1>1, ClearKeepsLoop DEF Calls

(* Whatever the loop does with a timer, its id was given.                  *)
LEMMA QueuedIsGiven ==
    ASSUME LoopOK, NEW i \in TimerIds, timers[i].queued \/ timers[i].interval # 0
    PROVE  i <= nextID /\ nextID \in Nat /\ i \in Nat
BY DEF LoopOK, LoopTypeOK, NoTimer, TimerIds

LEMMA StepKeepsLoop ==
    ASSUME LoopOK, LoopStep
    PROVE  LoopOK'
<1> PICK i \in TimerIds : SkipCleared(i) \/ Fire(i) \/ CallbackEnds(i)
  BY DEF LoopStep
<1>1. ASSUME i <= nextID, NEW t \in Timers, timers' = [timers EXCEPT ![i] = t],
             NEW n \in 0..2, fired' = [fired EXCEPT ![i] = n], UNCHANGED <<nextID, byID, quiet>>,
             code' \in {Idle, InLoop, Script} \cup TimerIds, 
             t.interval = 0 => n # 2 /\ (n # 0 => ~t.queued)
      PROVE  LoopOK'
  <2>1. timers' \in [TimerIds -> Timers] /\ fired' \in [TimerIds -> 0..2]
    BY <1>1 DEF LoopOK
  <2>2. LoopTypeOK'
    BY <1>1, <2>1 DEF LoopOK, LoopTypeOK, Timers
  <2>3. \A j \in TimerIds : j # i => timers'[j] = timers[j] /\ fired'[j] = fired[j]
    BY <1>1 DEF LoopOK
  <2>4. timers'[i] = t /\ fired'[i] = n
    BY <1>1 DEF LoopOK
  <2>5. \A j \in TimerIds : j > nextID => j # i
    BY <1>1 DEF LoopOK, LoopTypeOK, TimerIds
  <2> QED
    BY <1>1, <2>1, <2>2, <2>3, <2>4, <2>5 DEF LoopOK
<1>0. timers[i] \in Timers /\ fired[i] \in 0..2 /\ code \in {Idle, InLoop, Script} \cup TimerIds
  BY DEF LoopOK, LoopTypeOK
<1> DEFINE out == [timers[i] EXCEPT !.queued = FALSE]
<1>2. /\ Pop(i) = [timers EXCEPT ![i] = out]
      /\ out \in Timers /\ ~out.queued /\ out.interval = timers[i].interval
  BY <1>0 DEF Pop, Timers, LoopOK
<1> HIDE DEF out
<1>3. fired = [fired EXCEPT ![i] = fired[i]] /\ timers = [timers EXCEPT ![i] = timers[i]]
  BY DEF LoopOK
<1>4. CASE SkipCleared(i)
  <2>1. i <= nextID
    BY <1>4, QueuedIsGiven DEF SkipCleared, First, Heap
  <2>2. out.interval = 0 => fired[i] # 2 /\ (fired[i] # 0 => ~out.queued)
    BY <1>2 DEF LoopOK
  <2> QED
    BY <1>0, <1>1, <1>2, <1>3, <1>4, <2>1, <2>2 DEF SkipCleared
<1>5. CASE Fire(i)
  <2>1. i <= nextID
    BY <1>5, QueuedIsGiven DEF Fire, First, Heap
  <2> DEFINE n == IF fired[i] = 2 THEN 2 ELSE fired[i] + 1
  <2>2. n \in 0..2 /\ fired' = [fired EXCEPT ![i] = n]
    BY <1>0, <1>5 DEF Fire
  <2>3. timers[i].queued
    BY <1>5 DEF Fire, First, Heap
  <2>4. timers[i].interval = 0 => fired[i] = 0
    BY <2>3 DEF LoopOK
  <2>5. timers[i].interval = 0 => n = 1
    BY <2>4
  <2>6. out.interval = 0 => n # 2 /\ (n # 0 => ~out.queued)
    BY <1>2, <2>5
  <2> HIDE DEF n
  <2> QED
    BY <1>1, <1>2, <1>5, <2>1, <2>2, <2>6 DEF Fire
<1>6. CASE CallbackEnds(i)
  <2>1. CASE Repeats(i)
    <3>1. i <= nextID /\ timers[i].interval # 0
      BY <1>0, <2>1, QueuedIsGiven, LoopAssumption DEF Repeats, Timers
    <3> DEFINE back == [timers[i] EXCEPT !.due = NextDue(i), !.queued = TRUE]
    <3>2. timers' = [timers EXCEPT ![i] = back]
      BY <1>6, <2>1 DEF CallbackEnds, LoopOK, Timers
    <3>3. NextDue(i) \in Int
      <4>1. timers[i].interval \in Delays \cup {0}
        BY <1>0 DEF Timers
      <4>2. timers[i].interval \in Nat
        BY <4>1, DelaysAreNat
      <4> QED
        BY <4>2 DEF NextDue
    <3>4. back \in Timers /\ back.interval = timers[i].interval
      BY <1>0, <3>3 DEF Timers
    <3> HIDE DEF back
    <3> QED
      BY <1>0, <1>1, <1>3, <1>6, <3>1, <3>2, <3>4 DEF CallbackEnds
  <2>2. CASE ~Repeats(i)
    <3>1. UNCHANGED <<timers, fired, nextID, byID, quiet>> /\ code' = InLoop
      BY <1>6, <2>2 DEF CallbackEnds
    <3> QED
      BY <3>1 DEF LoopOK, LoopTypeOK
  <2> QED
    BY <2>1, <2>2
<1> QED
  BY <1>4, <1>5, <1>6

LEMMA TickKeepsLoop ==
    ASSUME LoopOK, Tick
    PROVE  LoopOK'
<1>1. \A i \in TimerIds : timers[i] \in Timers
  BY DEF LoopOK
<1>2. ASSUME NEW i \in TimerIds
      PROVE  /\ timers'[i] \in Timers
             /\ timers'[i].interval = timers[i].interval /\ timers'[i].queued = timers[i].queued
             /\ timers[i] = NoTimer => timers'[i] = NoTimer
  <2>1. timers'[i] = IF timers[i].queued THEN [timers[i] EXCEPT !.due = @ - 1] ELSE timers[i]
    BY DEF Tick, Heap
  <2> QED
    BY <1>1, <2>1 DEF Timers, NoTimer
<1>3. timers' \in [TimerIds -> Timers]
  BY <1>2 DEF Tick
<1>4. UNCHANGED <<nextID, byID, code, fired, quiet>>
  BY DEF Tick
<1>5. LoopTypeOK'
  BY <1>3, <1>4 DEF LoopOK, LoopTypeOK, Timers
<1> QED
  BY <1>2, <1>3, <1>4, <1>5 DEF LoopOK

-----------------------------------------------------------------------------
(* The order of scripts. *)

(* The library's induction, said of sets of numbers.                       *)
LEMMA Least ==
    ASSUME NEW S \in SUBSET Nat, S # {}
    PROVE  \E n \in S : \A m \in S : n <= m
<1> DEFINE R == OpToRel(<, Nat)
<1>1. \A x, y \in Nat : <<x, y>> \in R <=> x < y
  BY DEF OpToRel
<1>2. IsWellFoundedOn(R, Nat)
  BY NatLessThanWellFounded
<1> HIDE DEF R
<1>3. PICK n \in S : \A m \in S : ~(<<m, n>> \in R)
  BY <1>2, WFMin
<1>4. \A m \in S : ~(m < n) /\ m \in Nat /\ n \in Nat
  BY <1>1, <1>3, Zenon
<1> QED
  BY <1>4, SMT

LEMMA Induct ==
    ASSUME NEW P, 0 \in P, \A n \in Nat : n \in P => n + 1 \in P
    PROVE  Nat \subseteq P
<1> DEFINE S == Nat \ P
<1> SUFFICES ASSUME S # {} PROVE FALSE
  OBVIOUS
<1>1. PICK n \in S : \A m \in S : n <= m
  <2>1. S \in SUBSET Nat
    OBVIOUS
  <2> QED
    BY <2>1, Least
<1>2. n \in Nat /\ n # 0 /\ n \notin P
  BY <1>1
<1>3. n - 1 \in Nat /\ n - 1 + 1 = n /\ n - 1 < n
  BY <1>2
<1>4. n - 1 \in P
  BY <1>1, <1>3
<1> QED
  BY <1>2, <1>3, <1>4

(* What is collected of the first n scripts, script by script.             *)
Collect1(kind, list, n) == IF scripts[n] = kind THEN Append(list, n) ELSE list

LEMMA CollectedIs ==
    ASSUME scripts \in Seq(Kinds), NEW kind
    PROVE  /\ Collected(kind)[0] = <<>>
           /\ \A n \in 1..Len(scripts) : Collected(kind)[n] = Collect1(kind, Collected(kind)[n - 1], n)
<1> DEFINE N == Len(scripts)
           Upto(g, n) == g[0] = <<>> /\ \A i \in 1..n : g[i] = Collect1(kind, g[i - 1], i)
           P == {n \in Nat : \E g : Upto(g, n)}
<1>1. 0 \in P
  <2>1. Upto([i \in {0} |-> <<>>], 0)
    OBVIOUS
  <2> QED
    BY <2>1
<1>2. ASSUME NEW n \in Nat, n \in P PROVE n + 1 \in P
  <2>1. PICK g : Upto(g, n)
    BY <1>2
  <2> DEFINE h == [i \in 0..(n + 1) |-> IF i = n + 1 THEN Collect1(kind, g[n], n + 1) ELSE g[i]]
  <2>2. h[0] = <<>> /\ h[n + 1] = Collect1(kind, g[n], n + 1) /\ \A i \in 0..n : h[i] = g[i]
    BY <2>1
  <2> HIDE DEF h
  <2>3. ASSUME NEW i \in 1..(n + 1) PROVE h[i] = Collect1(kind, h[i - 1], i)
    <3>1. CASE i = n + 1
      <4>1. i - 1 = n /\ n \in 0..n
        BY <3>1
      <4> QED
        BY <2>2, <3>1, <4>1
    <3>2. CASE i # n + 1
      <4>1. i \in 1..n /\ i \in 0..n /\ i - 1 \in 0..n
        BY <3>2
      <4> QED
        BY <2>1, <2>2, <4>1
    <3> QED
      BY <3>1, <3>2
  <2> QED
    BY <2>2, <2>3
<1>3. N \in Nat
  OBVIOUS
<1>4. PICK g : Upto(g, N)
  <2> HIDE DEF P
  <2>1. N \in P
    BY <1>1, <1>2, <1>3, Induct
  <2> QED
    BY <2>1 DEF P
<1> DEFINE h == [i \in 0..N |-> g[i]]
           F(f) == [n \in 0..N |-> IF n = 0 THEN <<>> ELSE IF scripts[n] = kind THEN Append(f[n - 1], n) ELSE f[n - 1]]
<1>5. h = F(h)
  <2>1. ASSUME NEW n \in 0..N PROVE h[n] = IF n = 0 THEN <<>> ELSE Collect1(kind, h[n - 1], n)
    <3>1. CASE n = 0
      BY <1>4, <3>1
    <3>2. CASE n # 0
      <4>1. n \in 1..N /\ n - 1 \in 0..N
        BY <3>2
      <4> QED
        BY <1>4, <3>2, <4>1
    <3> QED
      BY <3>1, <3>2
  <2> QED
    BY <2>1 DEF Collect1
<1>6. Collected(kind) = CHOOSE f : f = F(f)
  BY DEF Collected
<1>7. Collected(kind) = F(Collected(kind))
  <2> HIDE DEF h, F
  <2> QED
    BY <1>5, <1>6
<1>8. ASSUME NEW n \in 0..N
      PROVE  Collected(kind)[n] = IF n = 0 THEN <<>> ELSE Collect1(kind, Collected(kind)[n - 1], n)
  BY <1>7, Zenon DEF Collect1
<1> QED
  BY <1>3, <1>8

(* A list of scripts of one kind: those among the first n, as they stand.  *)
ListOf(kind, n, list) ==
    /\ list \in Seq(1..n)
    /\ \A i \in DOMAIN list : scripts[list[i]] = kind
    /\ \A i, j \in DOMAIN list : i < j => list[i] < list[j]
    /\ \A k \in 1..n : scripts[k] = kind => \E i \in DOMAIN list : list[i] = k

LEMMA CollectsNext ==
    ASSUME NEW kind, NEW n \in Nat \ {0}, NEW list, ListOf(kind, n - 1, list)
    PROVE  ListOf(kind, n, Collect1(kind, list, n))
<1>1. list \in Seq(1..(n - 1)) /\ list \in Seq(1..n) /\ \A i \in DOMAIN list : list[i] \in 1..(n - 1)
  BY DEF ListOf
<1>2. CASE scripts[n] = kind
  <2> DEFINE more == Append(list, n)
  <2>1. /\ more \in Seq(1..n) /\ DOMAIN more = 1..(Len(list) + 1) /\ Len(list) \in Nat
        /\ more[Len(list) + 1] = n /\ \A i \in 1..Len(list) : more[i] = list[i]
    BY <1>1
  <2> HIDE DEF more
  <2>2. DOMAIN list = 1..Len(list)
    BY <1>1
  <2>3. \A i, j \in DOMAIN more : i < j => more[i] < more[j]
    <3> SUFFICES ASSUME NEW i \in DOMAIN more, NEW j \in DOMAIN more, i < j PROVE more[i] < more[j]
      OBVIOUS
    <3>1. i \in 1..Len(list) /\ more[i] = list[i] /\ list[i] \in 1..(n - 1)
      BY <1>1, <2>1, <2>2
    <3>2. CASE j = Len(list) + 1
      BY <2>1, <3>1, <3>2
    <3>3. CASE j # Len(list) + 1
      <4>1. j \in DOMAIN list /\ i \in DOMAIN list /\ more[j] = list[j]
        BY <2>1, <2>2, <3>1, <3>3
      <4> QED
        BY <3>1, <4>1 DEF ListOf
    <3> QED
      BY <3>2, <3>3
  <2>4. \A i \in DOMAIN more : scripts[more[i]] = kind
    <3> SUFFICES ASSUME NEW i \in DOMAIN more PROVE scripts[more[i]] = kind
      OBVIOUS
    <3>1. CASE i = Len(list) + 1
      BY <1>2, <2>1, <3>1
    <3>2. CASE i # Len(list) + 1
      <4>1. i \in DOMAIN list /\ more[i] = list[i]
        BY <2>1, <2>2, <3>2
      <4> QED
        BY <4>1 DEF ListOf
    <3> QED
      BY <3>1, <3>2
  <2>5. ASSUME NEW k \in 1..n, scripts[k] = kind PROVE \E i \in DOMAIN more : more[i] = k
    <3>1. CASE k = n
      BY <2>1, <3>1
    <3>2. CASE k # n
      <4>1. PICK i \in DOMAIN list : list[i] = k
        BY <2>5, <3>2 DEF ListOf
      <4> QED
        BY <2>1, <2>2, <4>1
    <3> QED
      BY <3>1, <3>2
  <2> QED
    BY <1>2, <2>1, <2>3, <2>4, <2>5 DEF ListOf, Collect1, more
<1>3. CASE scripts[n] # kind
  BY <1>1, <1>3 DEF ListOf, Collect1
<1> QED
  BY <1>2, <1>3

LEMMA OfIs ==
    ASSUME scripts \in Seq(Kinds), NEW kind
    PROVE  ListOf(kind, Len(scripts), Of(kind))
<1> DEFINE P == {n \in Nat : n <= Len(scripts) => ListOf(kind, n, Collected(kind)[n])}
<1>1. 0 \in P
  <2>1. ListOf(kind, 0, <<>>)
    BY DEF ListOf
  <2> QED
    BY <2>1, CollectedIs
<1>2. ASSUME NEW n \in Nat, n \in P PROVE n + 1 \in P
  <2> SUFFICES ASSUME n + 1 <= Len(scripts)
               PROVE  ListOf(kind, n + 1, Collected(kind)[n + 1])
    OBVIOUS
  <2>1. n + 1 \in 1..Len(scripts) /\ n + 1 - 1 = n /\ n + 1 \in Nat \ {0} /\ n <= Len(scripts)
    OBVIOUS
  <2>2. Collected(kind)[n + 1] = Collect1(kind, Collected(kind)[n + 1 - 1], n + 1)
    BY <2>1, CollectedIs
  <2>3. ListOf(kind, n, Collected(kind)[n])
    BY <1>2, <2>1
  <2> QED
    BY <2>1, <2>2, <2>3, CollectsNext
<1>3. Len(scripts) \in Nat
  OBVIOUS
<1> HIDE DEF P
<1>4. Len(scripts) \in P
  BY <1>1, <1>2, <1>3, Induct
<1> QED
  BY <1>3, <1>4 DEF P, Of

(* The scripts in the order in which they run.                             *)
Ordered(i, j) ==
    \/ scripts[i] = scripts[j] /\ i < j
    \/ scripts[i] = "inline" /\ scripts[j] = "defer"

LEMMA OrderIs ==
    ASSUME scripts \in Seq(Kinds)
    PROVE  /\ ScriptOrder \in Seq(DOMAIN scripts)
           /\ \A i, j \in DOMAIN ScriptOrder : i < j => Ordered(ScriptOrder[i], ScriptOrder[j])
           /\ {ScriptOrder[i] : i \in DOMAIN ScriptOrder} = {k \in DOMAIN scripts : scripts[k] # "src"}
<1> DEFINE N == Len(scripts)
           a == Of("inline")
           b == Of("defer")
<1>1. ListOf("inline", N, a) /\ ListOf("defer", N, b)
  BY OfIs
<1> HIDE DEF a, b
<1>2. a \in Seq(1..N) /\ b \in Seq(1..N) /\ DOMAIN scripts = 1..N /\ N \in Nat
  BY <1>1 DEF ListOf
<1> DEFINE s == a \o b
<1>3. /\ s \in Seq(1..N) /\ DOMAIN s = 1..(Len(a) + Len(b)) /\ Len(a) \in Nat /\ Len(b) \in Nat
      /\ DOMAIN a = 1..Len(a) /\ DOMAIN b = 1..Len(b)
      /\ \A i \in 1..(Len(a) + Len(b)) : s[i] = IF i <= Len(a) THEN a[i] ELSE b[i - Len(a)]
  BY <1>2
<1> HIDE DEF s
<1>4. ScriptOrder = s
  BY DEF ScriptOrder, s, a, b
<1>5. ASSUME NEW i \in DOMAIN s
      PROVE  \/ i \in DOMAIN a /\ s[i] = a[i] /\ scripts[s[i]] = "inline"
             \/ i > Len(a) /\ i - Len(a) \in DOMAIN b /\ s[i] = b[i - Len(a)] /\ scripts[s[i]] = "defer"
  <2>1. CASE i <= Len(a)
    BY <1>1, <1>3, <2>1 DEF ListOf
  <2>2. CASE i > Len(a)
    <3>1. i - Len(a) \in DOMAIN b /\ s[i] = b[i - Len(a)]
      BY <1>3, <2>2
    <3> QED
      BY <1>1, <2>2, <3>1 DEF ListOf
  <2> QED
    BY <1>3, <2>1, <2>2
<1>6. ASSUME NEW i \in DOMAIN s, NEW j \in DOMAIN s, i < j PROVE Ordered(s[i], s[j])
  <2>1. CASE j \in DOMAIN a
    <3>1. i \in DOMAIN a /\ s[i] = a[i] /\ s[j] = a[j]
      BY <1>3, <1>6, <2>1
    <3> QED
      BY <1>1, <1>6, <2>1, <3>1 DEF ListOf, Ordered
  <2>2. CASE j \notin DOMAIN a /\ i \in DOMAIN a
    BY <1>3, <1>5, <2>2 DEF Ordered
  <2>3. CASE i \notin DOMAIN a /\ j \notin DOMAIN a
    <3>1. /\ i - Len(a) \in DOMAIN b /\ s[i] = b[i - Len(a)]
          /\ j - Len(a) \in DOMAIN b /\ s[j] = b[j - Len(a)]
          /\ scripts[s[i]] = scripts[s[j]] /\ i - Len(a) < j - Len(a)
      <4>1. i \notin DOMAIN a /\ j \notin DOMAIN a /\ i \in DOMAIN s /\ j \in DOMAIN s
        BY <1>6, <2>3
      <4>2. i - Len(a) \in DOMAIN b /\ s[i] = b[i - Len(a)] /\ scripts[s[i]] = "defer"
        BY <1>5, <4>1
      <4>3. j - Len(a) \in DOMAIN b /\ s[j] = b[j - Len(a)] /\ scripts[s[j]] = "defer"
        BY <1>5, <4>1
      <4>4. i - Len(a) < j - Len(a)
        BY <1>3, <1>6, <4>1
      <4> QED
        BY <4>2, <4>3, <4>4
    <3>2. s[i] < s[j]
      BY <1>1, <3>1 DEF ListOf
    <3> QED
      BY <3>1, <3>2 DEF Ordered
  <2> QED
    BY <2>1, <2>2, <2>3
<1>7. \A i \in DOMAIN s : s[i] \in DOMAIN scripts /\ scripts[s[i]] # "src"
  <2> SUFFICES ASSUME NEW i \in DOMAIN s
               PROVE  s[i] \in DOMAIN scripts /\ scripts[s[i]] # "src"
    OBVIOUS
  <2>1. s[i] \in DOMAIN scripts
    BY <1>2, <1>3
  <2>2. scripts[s[i]] = "inline" \/ scripts[s[i]] = "defer"
    BY <1>5
  <2> QED
    BY <2>1, <2>2
<1>8. ASSUME NEW k \in DOMAIN scripts, scripts[k] # "src" PROVE \E i \in DOMAIN s : s[i] = k
  <2>1. scripts[k] \in {"inline", "defer"} /\ k \in 1..N
    BY <1>2, <1>8 DEF Kinds
  <2>2. CASE scripts[k] = "inline"
    <3>1. PICK i \in DOMAIN a : a[i] = k
      BY <1>1, <2>1, <2>2 DEF ListOf
    <3>2. i \in 1..(Len(a) + Len(b)) /\ i <= Len(a)
      BY <1>3
    <3>3. s[i] = k
      BY <1>3, <3>1, <3>2
    <3> QED
      BY <1>3, <3>2, <3>3
  <2>3. CASE scripts[k] = "defer"
    <3>1. PICK i \in DOMAIN b : b[i] = k
      BY <1>1, <2>1, <2>3 DEF ListOf
    <3>2. i + Len(a) \in 1..(Len(a) + Len(b)) /\ i + Len(a) > Len(a) /\ i + Len(a) - Len(a) = i
      BY <1>3
    <3>3. s[i + Len(a)] = k
      BY <1>3, <3>1, <3>2
    <3> QED
      BY <1>3, <3>2, <3>3
  <2> QED
    BY <2>1, <2>2, <2>3
<1>9. {s[i] : i \in DOMAIN s} = {k \in DOMAIN scripts : scripts[k] # "src"}
  BY <1>7, <1>8
<1> QED
  BY <1>2, <1>3, <1>4, <1>6, <1>9

-----------------------------------------------------------------------------
(* Tests.  A test that is done was recorded once, as what it is; one that  *)
(* is not done is asynchronous.                                            *)
Outcomes == {Pass, Failed, TimedOut}
TestRecords == [kind : {"sync", "async"}, done : BOOLEAN, status : Outcomes]
ResultRecords == [test : Nat, status : Outcomes]

RecordedOK ==
    /\ tests \in Seq(TestRecords) /\ results \in Seq(ResultRecords) /\ Len(tests) <= MaxTests
    /\ \A t \in DOMAIN tests : tests[t].kind = "sync" => tests[t].done
    /\ \A i \in DOMAIN results :
          LET t == results[i].test
          IN t \in DOMAIN tests /\ tests[t].done /\ tests[t].status = results[i].status
    /\ \A i, j \in DOMAIN results : results[i].test = results[j].test => i = j
    /\ \A t \in DOMAIN tests : tests[t].done => \E i \in DOMAIN results : results[i].test = t

Pending == {t \in DOMAIN tests : ~tests[t].done}

LEMMA PendingIs == RecordedOK => {t \in Tests : IsPending(t)} = Pending
<1> SUFFICES ASSUME RecordedOK PROVE {t \in Tests : IsPending(t)} = Pending
  OBVIOUS
<1>1. DOMAIN tests = 1..Len(tests) /\ Len(tests) \in Nat /\ Len(tests) <= MaxTests /\ MaxTests \in Nat
  BY HarnessAssumption DEF RecordedOK
<1>2. DOMAIN tests \subseteq Tests
  BY <1>1 DEF Tests
<1>3. \A t \in DOMAIN tests : ~tests[t].done => tests[t].kind = "async"
  <2>1. \A t \in DOMAIN tests : tests[t] \in TestRecords
    BY DEF RecordedOK
  <2> QED
    BY <2>1 DEF RecordedOK, TestRecords
<1> QED
  BY <1>2, <1>3 DEF IsPending, Pending

(* A record is added for a test that has none.                             *)
LEMMA Records ==
    ASSUME RecordedOK, tests' \in Seq(TestRecords), Len(tests') <= MaxTests,
           \A u \in DOMAIN tests' : tests'[u].kind = "sync" => tests'[u].done,
           NEW t \in DOMAIN tests', NEW st \in Outcomes, tests'[t].done, tests'[t].status = st,
           t \notin DOMAIN tests \/ ~tests[t].done,
           DOMAIN tests \subseteq DOMAIN tests',
           \A u \in DOMAIN tests' : u # t => u \in DOMAIN tests /\ tests'[u] = tests[u],
           results' = Append(results, [test |-> t, status |-> st])
    PROVE  RecordedOK'
<1> DEFINE n == Len(results)
           new == [test |-> t, status |-> st]
<1>1. results \in Seq(ResultRecords) /\ n \in Nat /\ DOMAIN results = 1..n
  BY DEF RecordedOK
<1>2. t \in Nat /\ new \in ResultRecords
  <2>1. t \in 1..Len(tests') /\ Len(tests') \in Nat
    OBVIOUS
  <2> QED
    BY <2>1 DEF ResultRecords
<1>3. /\ results' \in Seq(ResultRecords) /\ DOMAIN results' = 1..(n + 1) /\ results'[n + 1] = new
      /\ \A i \in 1..n : results'[i] = results[i]
  BY <1>1, <1>2
<1>4. new.test = t /\ new.status = st
  OBVIOUS
<1> HIDE DEF n, new
<1>5. ASSUME NEW i \in 1..n PROVE results[i].test # t /\ results[i].test \in DOMAIN tests
  <2>1. results[i].test \in DOMAIN tests /\ tests[results[i].test].done
    BY <1>1 DEF RecordedOK
  <2> QED
    BY <2>1
<1>6. ASSUME NEW i \in DOMAIN results'
      PROVE  LET u == results'[i].test
             IN u \in DOMAIN tests' /\ tests'[u].done /\ tests'[u].status = results'[i].status
  <2>1. CASE i = n + 1
    BY <1>3, <1>4, <2>1
  <2>2. CASE i # n + 1
    <3>1. i \in DOMAIN results /\ results'[i] = results[i]
      BY <1>1, <1>3, <2>2
    <3> QED
      BY <1>1, <1>5, <3>1 DEF RecordedOK
  <2> QED
    BY <2>1, <2>2
<1>7. ASSUME NEW i \in DOMAIN results', NEW j \in DOMAIN results', results'[i].test = results'[j].test
      PROVE  i = j
  <2>1. CASE i = n + 1 /\ j # n + 1
    BY <1>1, <1>3, <1>4, <1>5, <1>7, <2>1
  <2>2. CASE i # n + 1 /\ j = n + 1
    BY <1>1, <1>3, <1>4, <1>5, <1>7, <2>2
  <2>3. CASE i # n + 1 /\ j # n + 1
    <3>1. i \in DOMAIN results /\ j \in DOMAIN results /\ results'[i] = results[i] /\ results'[j] = results[j]
      BY <1>1, <1>3, <2>3
    <3> QED
      BY <1>7, <3>1 DEF RecordedOK
  <2> QED
    BY <2>1, <2>2, <2>3
<1>8. ASSUME NEW u \in DOMAIN tests', tests'[u].done PROVE \E i \in DOMAIN results' : results'[i].test = u
  <2>1. CASE u = t
    <3>1. n + 1 \in DOMAIN results'
      BY <1>1, <1>3
    <3> QED
      BY <1>3, <1>4, <2>1, <3>1
  <2>2. CASE u # t
    <3>1. u \in DOMAIN tests /\ tests[u].done
      BY <1>8, <2>2
    <3>2. PICK i \in DOMAIN results : results[i].test = u
      BY <3>1 DEF RecordedOK
    <3> QED
      BY <1>1, <1>3, <3>2
  <2> QED
    BY <2>1, <2>2
<1> QED
  BY <1>3, <1>6, <1>7, <1>8 DEF RecordedOK

LEMMA MadeIs ==
    ASSUME RecordedOK, MayMake, NEW kind \in {"sync", "async"}, NEW done \in BOOLEAN, NEW st \in Outcomes,
           tests' = Made(kind, done, st)
    PROVE  LET t == Len(tests) + 1
           IN /\ tests' \in Seq(TestRecords) /\ Len(tests') <= MaxTests
              /\ t \in DOMAIN tests' /\ t \notin DOMAIN tests /\ DOMAIN tests \subseteq DOMAIN tests'
              /\ tests'[t] = [kind |-> kind, done |-> done, status |-> st]
              /\ \A u \in DOMAIN tests' : u # t => u \in DOMAIN tests /\ tests'[u] = tests[u]
<1> DEFINE n == Len(tests)
           new == [kind |-> kind, done |-> done, status |-> st]
<1>1. tests \in Seq(TestRecords) /\ n \in Nat /\ DOMAIN tests = 1..n /\ new \in TestRecords /\ n < MaxTests
  BY DEF RecordedOK, TestRecords, MayMake
<1>2. tests' = Append(tests, new)
  BY DEF Made
<1>3. MaxTests \in Nat
  BY HarnessAssumption
<1> HIDE DEF new
<1>4. /\ tests' \in Seq(TestRecords) /\ Len(tests') = n + 1 /\ DOMAIN tests' = 1..(n + 1)
      /\ tests'[n + 1] = new /\ \A u \in 1..n : tests'[u] = tests[u]
  BY <1>1, <1>2
<1> HIDE DEF n
<1>5. \A u \in DOMAIN tests' : u # n + 1 => u \in DOMAIN tests /\ tests'[u] = tests[u]
  BY <1>1, <1>4
<1>6. n + 1 \in DOMAIN tests' /\ n + 1 \notin DOMAIN tests /\ DOMAIN tests \subseteq DOMAIN tests' /\ Len(tests') <= MaxTests
  BY <1>1, <1>3, <1>4
<1> QED
  BY <1>4, <1>5, <1>6 DEF n, new

LEMMA RecordsNew ==
    ASSUME RecordedOK, MayMake, NEW kind \in {"sync", "async"}, NEW st \in Outcomes,
           tests' = Made(kind, TRUE, st),
           results' = Append(results, [test |-> Len(tests) + 1, status |-> st])
    PROVE  RecordedOK' /\ Pending' = Pending
<1> DEFINE t == Len(tests) + 1
<1>1. /\ tests' \in Seq(TestRecords) /\ Len(tests') <= MaxTests
      /\ t \in DOMAIN tests' /\ t \notin DOMAIN tests /\ DOMAIN tests \subseteq DOMAIN tests'
      /\ tests'[t] = [kind |-> kind, done |-> TRUE, status |-> st]
      /\ \A u \in DOMAIN tests' : u # t => u \in DOMAIN tests /\ tests'[u] = tests[u]
  BY MadeIs
<1> HIDE DEF t
<1>2. tests'[t].done /\ tests'[t].status = st
  <2> DEFINE new == [kind |-> kind, done |-> TRUE, status |-> st]
  <2>1. new.done /\ new.status = st
    OBVIOUS
  <2>2. tests'[t] = new
    BY <1>1
  <2> HIDE DEF new
  <2> QED
    BY <2>1, <2>2
<1>3. \A u \in DOMAIN tests' : tests'[u].kind = "sync" => tests'[u].done
  <2> SUFFICES ASSUME NEW u \in DOMAIN tests', tests'[u].kind = "sync"
               PROVE  tests'[u].done
    OBVIOUS
  <2>1. CASE u = t
    BY <1>2, <2>1
  <2>2. CASE u # t
    <3>1. u \in DOMAIN tests /\ tests'[u] = tests[u]
      BY <1>1, <2>2
    <3> QED
      BY <3>1 DEF RecordedOK
  <2> QED
    BY <2>1, <2>2
<1>4. RecordedOK'
  BY <1>1, <1>2, <1>3, Records DEF t
<1>5. Pending' = Pending
  BY <1>1, <1>2 DEF Pending
<1> QED
  BY <1>4, <1>5

LEMMA PendsNew ==
    ASSUME RecordedOK, MayMake, tests' = Made("async", FALSE, Pass), UNCHANGED results
    PROVE  /\ RecordedOK'
           /\ Len(tests) + 1 \notin Pending /\ Pending' = Pending \cup {Len(tests) + 1}
<1> DEFINE t == Len(tests) + 1
<1>0. Pass \in Outcomes
  BY DEF Outcomes
<1>1. /\ tests' \in Seq(TestRecords) /\ Len(tests') <= MaxTests
      /\ t \in DOMAIN tests' /\ t \notin DOMAIN tests /\ DOMAIN tests \subseteq DOMAIN tests'
      /\ tests'[t] = [kind |-> "async", done |-> FALSE, status |-> Pass]
      /\ \A u \in DOMAIN tests' : u # t => u \in DOMAIN tests /\ tests'[u] = tests[u]
  BY <1>0, MadeIs
<1> HIDE DEF t
<1>2. ~tests'[t].done /\ tests'[t].kind = "async"
  <2> DEFINE new == [kind |-> "async", done |-> FALSE, status |-> Pass]
  <2>1. ~new.done /\ new.kind = "async"
    OBVIOUS
  <2>2. tests'[t] = new
    BY <1>1
  <2> HIDE DEF new
  <2> QED
    BY <2>1, <2>2
<1>3. \A u \in DOMAIN tests' : tests'[u].kind = "sync" => tests'[u].done
  BY <1>1, <1>2 DEF RecordedOK
<1>4. \A u \in DOMAIN tests : u # t /\ u \in DOMAIN tests' /\ tests'[u] = tests[u]
  BY <1>1
<1>5. \A i \in DOMAIN results :
          LET u == results[i].test
          IN u \in DOMAIN tests' /\ tests'[u].done /\ tests'[u].status = results[i].status
  BY <1>4 DEF RecordedOK
<1>6. \A u \in DOMAIN tests' : tests'[u].done => \E i \in DOMAIN results : results[i].test = u
  BY <1>1, <1>2 DEF RecordedOK
<1>7. RecordedOK'
  BY <1>1, <1>3, <1>5, <1>6 DEF RecordedOK
<1>8. t \notin Pending /\ Pending' = Pending \cup {t}
  BY <1>1, <1>2, <1>4 DEF Pending
<1> QED
  BY <1>7, <1>8 DEF t

LEMMA Finishes ==
    ASSUME RecordedOK, NEW t, IsPending(t), NEW st \in Outcomes,
           tests' = [tests EXCEPT ![t].done = TRUE, ![t].status = st],
           results' = Append(results, [test |-> t, status |-> st])
    PROVE  RecordedOK' /\ t \in Pending /\ Pending' = Pending \ {t}
<1>1. t \in DOMAIN tests /\ ~tests[t].done /\ tests[t] \in TestRecords /\ tests[t].kind = "async"
  BY DEF IsPending, RecordedOK
<1> DEFINE ended == [tests[t] EXCEPT !.done = TRUE, !.status = st]
<1>2. ended \in TestRecords /\ ended.done /\ ended.status = st /\ ended.kind = "async"
  BY <1>1 DEF TestRecords
<1>3. tests' = [tests EXCEPT ![t] = ended]
  BY <1>1 DEF TestRecords, RecordedOK
<1> HIDE DEF ended
<1>4. tests \in Seq(TestRecords) /\ Len(tests) <= MaxTests
  BY DEF RecordedOK
<1>5. tests' \in Seq(TestRecords) /\ Len(tests') = Len(tests) /\ DOMAIN tests' = DOMAIN tests
  <2>1. t \in 1..Len(tests) /\ tests \in Seq(TestRecords)
    BY <1>1, <1>4
  <2>2. [tests EXCEPT ![t] = ended] \in Seq(TestRecords) /\ Len([tests EXCEPT ![t] = ended]) = Len(tests)
    BY <1>2, <2>1, ExceptSeq
  <2> QED
    BY <1>3, <1>4, <2>2
<1>6. tests'[t] = ended /\ \A u \in DOMAIN tests : u # t => tests'[u] = tests[u]
  BY <1>1, <1>3, <1>4
<1>7. \A u \in DOMAIN tests' : tests'[u].kind = "sync" => tests'[u].done
  BY <1>2, <1>5, <1>6 DEF RecordedOK
<1>8. RecordedOK'
  BY <1>1, <1>2, <1>4, <1>5, <1>6, <1>7, Records
<1>9. t \in Pending /\ Pending' = Pending \ {t}
  BY <1>1, <1>2, <1>5, <1>6 DEF Pending
<1> QED
  BY <1>8, <1>9

-----------------------------------------------------------------------------
(* The count of pending tests, and the completion of the file.             *)
Unfinished == {"start", "scripts", "loop"}

CountOK ==
    /\ pendingAsync \in 0..MaxTests
    /\ phase \in Unfinished => pendingAsync = Cardinality(Pending)

CompleteOK ==
    /\ completed \in BOOLEAN /\ harnessStatus \in {Pass, TimedOut}
    /\ completions = IF completed THEN 1 ELSE 0
    /\ completed => \A t \in Pending : t \in late \/ harnessStatus = TimedOut
    /\ phase = "complete" => completed

ApiOK == RecordedOK /\ CountOK /\ CompleteOK

LEMMA SetOfTests ==
    ASSUME NEW S \in SUBSET Tests
    PROVE  IsFiniteSet(S) /\ Cardinality(S) \in 0..MaxTests
<1>1. Tests = 1..MaxTests /\ MaxTests \in Nat
  BY HarnessAssumption DEF Tests
<1>2. IsFiniteSet(Tests) /\ Cardinality(Tests) = MaxTests
  BY <1>1, FS_Interval
<1>3. IsFiniteSet(S) /\ Cardinality(S) <= MaxTests
  BY <1>2, FS_Subset
<1> QED
  BY <1>1, <1>3, FS_CardinalityType

(* A call that leaves the tests of S pending.                              *)
LEMMA CallKeeps ==
    ASSUME ApiOK, phase \in Unfinished, UNCHANGED <<phase, harnessStatus>>, RecordedOK',
           NEW S \in SUBSET Tests, Pending' = S, pendingAsync' = Cardinality(S),
           completed => \A t \in S : t \in late' \/ harnessStatus = TimedOut,
           UNCHANGED <<completed, completions>> \/ CheckComplete(Cardinality(S))
    PROVE  ApiOK'
<1>1. IsFiniteSet(S) /\ Cardinality(S) \in 0..MaxTests
  BY SetOfTests
<1>2. Cardinality(S) = 0 => S = {}
  BY <1>1, FS_EmptySet
<1>3. CountOK'
  BY <1>1 DEF CountOK
<1>4. phase # "complete"
  BY DEF Unfinished
<1>5. /\ completed \in BOOLEAN /\ harnessStatus \in {Pass, TimedOut}
      /\ completions = IF completed THEN 1 ELSE 0
  BY DEF ApiOK, CompleteOK
<1>6. CASE UNCHANGED <<completed, completions>>
  <2>1. CompleteOK'
    BY <1>4, <1>5, <1>6 DEF CompleteOK
  <2> QED
    BY <1>3, <2>1 DEF ApiOK
<1>7. CASE ~completed /\ Cardinality(S) = 0 /\ completed' = TRUE /\ completions' = completions + 1
  <2>1. CompleteOK'
    BY <1>2, <1>4, <1>5, <1>7 DEF CompleteOK
  <2> QED
    BY <1>3, <2>1 DEF ApiOK
<1> QED
  BY <1>6, <1>7 DEF CheckComplete

LEMMA PendingNow ==
    ASSUME ApiOK, phase \in Unfinished
    PROVE  /\ Pending \in SUBSET Tests /\ pendingAsync = Cardinality(Pending)
           /\ completed => \A t \in Pending : t \in late \/ harnessStatus = TimedOut
BY PendingIs DEF ApiOK, CountOK, CompleteOK

LEMMA RunTestKeeps ==
    ASSUME ApiOK, phase \in Unfinished, UNCHANGED phase, NEW st \in Outcomes, RunTest(st)
    PROVE  ApiOK'
<1>1. RecordedOK' /\ Pending' = Pending
  BY RecordsNew DEF RunTest, ApiOK
<1>2. /\ UNCHANGED <<pendingAsync, completed, harnessStatus, completions>>
      /\ completed => \A t \in Pending : t \in late' \/ harnessStatus = TimedOut
  BY PendingNow DEF RunTest, NoteLate
<1> QED
  BY <1>1, <1>2, PendingNow, CallKeeps

LEMMA AsyncTestKeeps ==
    ASSUME ApiOK, phase \in Unfinished, UNCHANGED phase, AsyncTest
    PROVE  ApiOK'
<1> DEFINE t == Len(tests) + 1
           S == Pending \cup {t}
<1>1. RecordedOK' /\ t \notin Pending /\ Pending' = S
  BY PendsNew DEF AsyncTest, ApiOK
<1>2. t \in Tests
  <2>1. Len(tests) \in Nat /\ Len(tests) < MaxTests /\ MaxTests \in Nat
    BY HarnessAssumption DEF AsyncTest, MayMake, ApiOK, RecordedOK
  <2> QED
    BY <2>1 DEF Tests
<1> HIDE DEF t
<1>3. S \in SUBSET Tests
  BY <1>2, PendingNow
<1>4. Cardinality(S) = Cardinality(Pending) + 1
  BY <1>1, PendingNow, SetOfTests, FS_AddElement
<1>5. /\ UNCHANGED <<completed, completions, harnessStatus>> /\ pendingAsync' = pendingAsync + 1
      /\ late' = IF completed THEN late \cup {t} ELSE late
  BY DEF AsyncTest, NoteLate, t
<1>6. completed => \A u \in S : u \in late' \/ harnessStatus = TimedOut
  BY <1>5, PendingNow
<1> HIDE DEF S
<1> QED
  BY <1>1, <1>3, <1>4, <1>5, <1>6, PendingNow, CallKeeps

LEMMA AsyncTestThrowsKeeps ==
    ASSUME ApiOK, phase \in Unfinished, UNCHANGED phase, AsyncTestThrows
    PROVE  ApiOK'
<1>0. Failed \in Outcomes
  BY DEF Outcomes
<1>1. RecordedOK' /\ Pending' = Pending
  BY <1>0, RecordsNew DEF AsyncTestThrows, ApiOK
<1>2. /\ UNCHANGED <<pendingAsync, harnessStatus>> /\ CheckComplete(pendingAsync)
      /\ completed => \A t \in Pending : t \in late' \/ harnessStatus = TimedOut
  BY PendingNow DEF AsyncTestThrows, NoteLate
<1> QED
  BY <1>1, <1>2, PendingNow, CallKeeps

LEMMA DoneKeeps ==
    ASSUME ApiOK, phase \in Unfinished, UNCHANGED phase, NEW t, NEW st \in Outcomes, Done(t, st)
    PROVE  ApiOK'
<1> DEFINE S == Pending \ {t}
<1>1. RecordedOK' /\ t \in Pending /\ Pending' = S
  BY Finishes DEF Done, ApiOK
<1>2. S \in SUBSET Tests
  BY PendingNow
<1>3. Cardinality(S) = Cardinality(Pending) - 1
  BY <1>1, PendingNow, SetOfTests, FS_RemoveElement
<1>4. /\ UNCHANGED <<harnessStatus, late>> /\ pendingAsync' = pendingAsync - 1 /\ CheckComplete(pendingAsync - 1)
      /\ completed => \A u \in S : u \in late' \/ harnessStatus = TimedOut
  BY PendingNow DEF Done
<1> HIDE DEF S
<1> QED
  BY <1>1, <1>2, <1>3, <1>4, PendingNow, CallKeeps

LEMMA DoneAllKeeps ==
    ASSUME ApiOK, phase \in Unfinished, UNCHANGED phase, DoneAll
    PROVE  ApiOK'
<1>1. UNCHANGED <<tests, results, pendingAsync, harnessStatus, late>> /\ CheckComplete(pendingAsync)
  BY DEF DoneAll
<1>2. RecordedOK' /\ Pending' = Pending
  BY <1>1 DEF ApiOK, RecordedOK, Pending
<1> QED
  BY <1>1, <1>2, PendingNow, CallKeeps

LEMMA ForceKeeps ==
    ASSUME ApiOK, phase \in Unfinished, phase' = "complete", ForceComplete
    PROVE  ApiOK'
<1>1. UNCHANGED <<tests, results, late>>
  BY DEF ForceComplete
<1>2. RecordedOK' /\ Pending' = Pending
  BY <1>1 DEF ApiOK, RecordedOK, Pending
<1>3. /\ IsFiniteSet(Pending) /\ Cardinality(Pending) = pendingAsync /\ pendingAsync \in 0..MaxTests
      /\ MaxTests \in Nat
  BY PendingNow, SetOfTests, HarnessAssumption
<1>4. pendingAsync = 0 => Pending = {}
  BY <1>3, FS_EmptySet
<1>5. /\ completed \in BOOLEAN /\ harnessStatus \in {Pass, TimedOut}
      /\ completions = IF completed THEN 1 ELSE 0
  BY DEF ApiOK, CompleteOK
<1>6. CountOK'
  BY <1>3 DEF ForceComplete, CountOK, Unfinished
<1>7. completed' = TRUE /\ completions' = 1
  BY <1>5 DEF ForceComplete, CheckComplete
<1>8. /\ harnessStatus' \in {Pass, TimedOut}
      /\ \A t \in Pending : t \in late \/ harnessStatus' = TimedOut
  <2>1. CASE ~completed /\ pendingAsync > 0
    BY <2>1 DEF ForceComplete
  <2>2. CASE ~(~completed /\ pendingAsync > 0)
    <3>1. UNCHANGED harnessStatus
      BY <2>2 DEF ForceComplete
    <3> QED
      BY <1>3, <1>4, <1>5, <2>2, <3>1, PendingNow
  <2> QED
    BY <2>1, <2>2
<1>9. CompleteOK'
  BY <1>1, <1>2, <1>7, <1>8 DEF CompleteOK
<1> QED
  BY <1>2, <1>6, <1>9 DEF ApiOK

LEMMA ApiStays ==
    ASSUME ApiOK, UNCHANGED harnessVars, phase' \in Unfinished => phase \in Unfinished,
           phase' = "complete" => phase = "complete"
    PROVE  ApiOK'
<1>1. UNCHANGED <<tests, results, pendingAsync, completed, harnessStatus, completions, late>>
  BY DEF harnessVars
<1>2. RecordedOK' /\ Pending' = Pending
  BY <1>1 DEF ApiOK, RecordedOK, Pending
<1>3. CountOK' /\ CompleteOK'
  BY <1>1, <1>2 DEF ApiOK, CountOK, CompleteOK
<1> QED
  BY <1>2, <1>3 DEF ApiOK

LEMMA InitApi == HarnessInit /\ phase = "start" => ApiOK
<1> SUFFICES ASSUME HarnessInit, phase = "start" PROVE ApiOK
  OBVIOUS
<1>1. MaxTests \in Nat
  BY HarnessAssumption
<1>2. tests = <<>> /\ results = <<>>
  BY DEF HarnessInit
<1>3. RecordedOK
  BY <1>1, <1>2 DEF RecordedOK
<1>4. Pending = {}
  BY <1>2 DEF Pending
<1>5. Cardinality(Pending) = 0
  BY <1>4, FS_EmptySet
<1>6. CountOK
  BY <1>1, <1>5 DEF HarnessInit, CountOK
<1>7. CompleteOK
  BY <1>4 DEF HarnessInit, CompleteOK
<1> QED
  BY <1>3, <1>6, <1>7 DEF ApiOK

-----------------------------------------------------------------------------
(* The runner: where it is tells what runs, which scripts ran, and what a  *)
(* passed file had recorded.                                               *)
PlaceOK ==
    /\ phase \in {"start", "scripts", "loop", "complete", "reported"}
    /\ code = Script => phase = "scripts"
    /\ code \in {InLoop} \cup TimerIds => phase = "loop"

OrderOK ==
    /\ scripts \in Seq(Kinds)
    /\ \/ ran = <<>> /\ todo = <<>> /\ phase \in {"start", "reported"}
       \/ /\ phase # "start" /\ (phase \in {"loop", "complete"} => todo = <<>>)
          /\ ran \in Seq(DOMAIN scripts) /\ todo \in Seq(DOMAIN scripts)
          /\ Len(ran) + Len(todo) = Len(ScriptOrder)
          /\ \A i \in 1..Len(ran) : ran[i] = ScriptOrder[i]
          /\ \A i \in 1..Len(todo) : todo[i] = ScriptOrder[Len(ran) + i]

ReportOK ==
    phase = "reported" /\ result.status = Pass =>
        /\ harnessStatus = Pass /\ completed
        /\ result.subTests = Statuses(results) /\ AllPass(Statuses(results))

IInv == LoopOK /\ ApiOK /\ PlaceOK /\ OrderOK /\ ReportOK

LEMMA RunsInPhase ==
    ASSUME LoopOK, PlaceOK, RunsScript
    PROVE  phase \in {"scripts", "loop"}
<1>1. code \in {Idle, InLoop, Script} \cup TimerIds
  BY DEF LoopOK, LoopTypeOK
<1>2. code # Idle /\ code # InLoop
  BY DEF RunsScript, Idle, InLoop, Script
<1> QED
  BY <1>1, <1>2 DEF PlaceOK

LEMMA OrderStays ==
    ASSUME OrderOK, UNCHANGED <<scripts, todo, ran>>,
           phase' # phase => phase' = "reported" \/ (phase \in {"scripts", "loop"} /\ phase' \in {"loop", "complete"} /\ todo = <<>>)
    PROVE  OrderOK'
<1>1. ScriptOrder' = ScriptOrder
  BY DEF ScriptOrder, Of, Collected
<1>2. CASE ran = <<>> /\ todo = <<>> /\ phase \in {"start", "reported"}
  BY <1>2 DEF OrderOK
<1>3. CASE ~(ran = <<>> /\ todo = <<>> /\ phase \in {"start", "reported"})
  BY <1>1, <1>3 DEF OrderOK
<1> QED
  BY <1>2, <1>3

LEMMA StartKeepsOrder ==
    ASSUME OrderOK, StartScripts
    PROVE  OrderOK'
<1>1. ScriptOrder' = ScriptOrder
  <2>1. scripts' = scripts
    BY DEF StartScripts
  <2> QED
    BY <2>1 DEF ScriptOrder, Of, Collected
<1>2. ran = <<>> /\ phase' = "scripts" /\ todo' = ScriptOrder /\ UNCHANGED <<ran, scripts>>
  BY DEF StartScripts, OrderOK
<1>3. scripts \in Seq(Kinds) /\ ScriptOrder \in Seq(DOMAIN scripts)
  BY OrderIs DEF OrderOK
<1> QED
  BY <1>1, <1>2, <1>3 DEF OrderOK

(* One script more was run.                                                *)
LEMMA OneMore ==
    ASSUME NEW D, NEW s, NEW a \in Seq(D), NEW b \in Seq(D), b # <<>>, Len(a) + Len(b) = Len(s),
           \A i \in 1..Len(a) : a[i] = s[i], \A i \in 1..Len(b) : b[i] = s[Len(a) + i]
    PROVE  LET a1 == Append(a, Head(b))
               b1 == Tail(b)
           IN /\ a1 \in Seq(D) /\ b1 \in Seq(D) /\ Len(a1) + Len(b1) = Len(s)
              /\ \A i \in 1..Len(a1) : a1[i] = s[i]
              /\ \A j \in 1..Len(b1) : b1[j] = s[Len(a1) + j]
<1> DEFINE a1 == Append(a, Head(b))
           b1 == Tail(b)
<1>1. Len(a) \in Nat /\ Len(b) \in Nat /\ Len(b) # 0 /\ Head(b) = b[1] /\ Head(b) \in D
  OBVIOUS
<1>2. /\ a1 \in Seq(D) /\ Len(a1) = Len(a) + 1
      /\ \A i \in 1..(Len(a) + 1) : a1[i] = IF i = Len(a) + 1 THEN b[1] ELSE a[i]
  BY <1>1
<1>3. /\ b1 \in Seq(D) /\ Len(b1) = Len(b) - 1
      /\ \A i \in 1..(Len(b) - 1) : b1[i] = b[i + 1]
  BY <1>1
<1> HIDE DEF a1, b1
<1>4. Len(a1) + Len(b1) = Len(a) + Len(b)
  BY <1>1, <1>2, <1>3
<1>5. b[1] = s[Len(a) + 1]
  BY <1>1
<1>6. ASSUME NEW i \in 1..Len(a1) PROVE a1[i] = s[i]
  <2>1. CASE i = Len(a) + 1
    BY <1>1, <1>2, <1>5, <2>1
  <2>2. CASE i # Len(a) + 1
    <3>1. i \in 1..Len(a) /\ i \in 1..(Len(a) + 1)
      BY <1>1, <1>2, <2>2
    <3> QED
      BY <1>2, <2>2, <3>1
  <2> QED
    BY <2>1, <2>2
<1>7. ASSUME NEW i \in 1..Len(b1) PROVE b1[i] = s[Len(a1) + i]
  <2>1. i + 1 \in 1..Len(b) /\ i \in 1..(Len(b) - 1) /\ Len(a) + (i + 1) = Len(a1) + i
    BY <1>1, <1>2, <1>3
  <2> QED
    BY <1>3, <2>1
<1> QED
  BY <1>2, <1>3, <1>4, <1>6, <1>7 DEF a1, b1

LEMMA ScriptKeepsOrder ==
    ASSUME OrderOK, StartScript
    PROVE  OrderOK'
<1>1. ScriptOrder' = ScriptOrder
  BY DEF StartScript, ScriptOrder, Of, Collected
<1>2. /\ phase = "scripts" /\ UNCHANGED <<phase, scripts>> /\ todo # <<>>
      /\ todo' = Tail(todo) /\ ran' = Append(ran, Head(todo))
  BY DEF StartScript
<1>3. /\ ran \in Seq(DOMAIN scripts) /\ todo \in Seq(DOMAIN scripts)
      /\ Len(ran) + Len(todo) = Len(ScriptOrder)
      /\ \A i \in 1..Len(ran) : ran[i] = ScriptOrder[i]
      /\ \A i \in 1..Len(todo) : todo[i] = ScriptOrder[Len(ran) + i]
  BY <1>2 DEF OrderOK
<1>4. /\ ran' \in Seq(DOMAIN scripts) /\ todo' \in Seq(DOMAIN scripts)
      /\ Len(ran') + Len(todo') = Len(ScriptOrder)
      /\ \A i \in 1..Len(ran') : ran'[i] = ScriptOrder[i]
      /\ \A i \in 1..Len(todo') : todo'[i] = ScriptOrder[Len(ran') + i]
  <2> DEFINE D == DOMAIN scripts
             s == ScriptOrder
  <2>1. /\ ran \in Seq(D) /\ todo \in Seq(D) /\ Len(ran) + Len(todo) = Len(s)
        /\ \A i \in 1..Len(ran) : ran[i] = s[i]
        /\ \A i \in 1..Len(todo) : todo[i] = s[Len(ran) + i]
    BY <1>3
  <2> HIDE DEF D, s
  <2>2. LET a1 == Append(ran, Head(todo))
            b1 == Tail(todo)
        IN /\ a1 \in Seq(D) /\ b1 \in Seq(D) /\ Len(a1) + Len(b1) = Len(s)
           /\ \A i \in 1..Len(a1) : a1[i] = s[i]
           /\ \A j \in 1..Len(b1) : b1[j] = s[Len(a1) + j]
    BY <1>2, <2>1, OneMore
  <2> QED
    BY <1>2, <2>2, Zenon DEF D, s
<1>5. scripts' \in Seq(Kinds) /\ phase' = "scripts"
  BY <1>2 DEF OrderOK
<1> QED
  BY <1>1, <1>2, <1>4, <1>5 DEF OrderOK

LEMMA ReportStays ==
    ASSUME ReportOK, phase' = "reported" => phase = "reported" /\ UNCHANGED <<harnessStatus, completed, results, result>>
    PROVE  ReportOK'
BY DEF ReportOK, Statuses, AllPass

LEMMA LoopStays == ASSUME LoopOK, UNCHANGED loopVars PROVE LoopOK'
BY DEF LoopOK, LoopTypeOK, loopVars

(* A step that runs or stops a script.                                     *)
LEMMA CodeKeepsLoop ==
    ASSUME LoopOK, UNCHANGED <<timers, nextID, byID, fired, quiet>>, code' \in {Idle, InLoop, Script}
    PROVE  LoopOK'
BY DEF LoopOK, LoopTypeOK

LEMMA ScriptCallsKeep ==
    ASSUME IInv, ScriptCalls
    PROVE  IInv'
<1>1. UNCHANGED <<phase, scripts, todo, ran, result>> /\ phase \in {"scripts", "loop"}
  BY RunsInPhase DEF ScriptCalls, runnerVars, IInv
<1>2. phase \in Unfinished /\ phase # "reported"
  BY <1>1 DEF Unfinished
<1>3. OrderOK' /\ ReportOK'
  BY <1>1, <1>2, OrderStays, ReportStays DEF IInv
<1>4. CASE Calls /\ UNCHANGED harnessVars
  <2>1. LoopOK' /\ UNCHANGED code
    BY <1>4, CallsKeepLoop DEF IInv, Calls, SetTimeout, SetInterval, SetTimer, ClearTimer
  <2>2. ApiOK'
    BY <1>1, <1>4, ApiStays DEF IInv
  <2>3. PlaceOK'
    BY <1>1, <2>1 DEF IInv, PlaceOK
  <2> QED
    BY <1>3, <2>1, <2>2, <2>3 DEF IInv
<1>5. CASE /\ \/ \E st \in {Pass, Failed, TimedOut} : RunTest(st)
              \/ AsyncTest \/ AsyncTestThrows \/ DoneAll
              \/ \E t \in Tests, st \in {Pass, Failed} : Done(t, st)
           /\ UNCHANGED loopVars
  <2>1. LoopOK' /\ UNCHANGED code
    BY <1>5, LoopStays DEF IInv, loopVars
  <2>2. PlaceOK'
    BY <1>1, <2>1 DEF IInv, PlaceOK
  <2>3. ApiOK'
    BY <1>1, <1>2, <1>5, RunTestKeeps, AsyncTestKeeps, AsyncTestThrowsKeeps, DoneAllKeeps, DoneKeeps
       DEF IInv, Outcomes
  <2> QED
    BY <1>3, <2>1, <2>2, <2>3 DEF IInv
<1> QED
  BY <1>4, <1>5 DEF ScriptCalls

(* A step of the runner that leaves the timers and the tests alone.        *)
LEMMA RunnerKeeps ==
    ASSUME IInv, UNCHANGED <<timers, nextID, byID, fired, quiet, harnessVars>>,
           code' \in {Idle, InLoop, Script}, PlaceOK', OrderOK', ReportOK',
           phase' \in Unfinished => phase \in Unfinished, phase' = "complete" => phase = "complete"
    PROVE  IInv'
BY CodeKeepsLoop, ApiStays DEF IInv, harnessVars

LEMMA LoopGoesOn ==
    ASSUME IInv, Loop
    PROVE  IInv'
<1>1. phase = "loop" /\ LoopStep /\ UNCHANGED <<harnessVars, phase, scripts, todo, ran, result>>
  BY DEF Loop, runnerVars
<1>2. code' \in {InLoop} \cup TimerIds
  <2> PICK i \in TimerIds : SkipCleared(i) \/ Fire(i) \/ CallbackEnds(i)
    BY <1>1 DEF LoopStep
  <2> QED
    BY DEF SkipCleared, Fire, CallbackEnds
<1>3. LoopOK' /\ ApiOK' /\ OrderOK' /\ ReportOK'
  BY <1>1, StepKeepsLoop, ApiStays, OrderStays, ReportStays DEF IInv
<1>4. PlaceOK'
  <2>1. Script \notin {InLoop} \cup TimerIds
    BY DEF Script, InLoop, TimerIds
  <2> QED
    BY <1>1, <1>2, <2>1 DEF PlaceOK
<1> QED
  BY <1>3, <1>4 DEF IInv

LEMMA TimeKeeps ==
    ASSUME IInv, TimePasses
    PROVE  IInv'
<1>1. UNCHANGED <<harnessVars, phase, scripts, todo, ran, result, code>> /\ phase # "reported"
  BY DEF TimePasses, Tick, runnerVars
<1>2. LoopOK'
  BY TickKeepsLoop DEF TimePasses, IInv
<1>3. PlaceOK'
  BY <1>1 DEF PlaceOK, IInv
<1> QED
  BY <1>1, <1>2, <1>3, ApiStays, OrderStays, ReportStays DEF IInv

LEMMA EndLoopKeeps ==
    ASSUME IInv, EndLoop
    PROVE  IInv'
<1>1. /\ phase = "loop" /\ phase' = "complete" /\ code' = Idle /\ ForceComplete
      /\ UNCHANGED <<timers, nextID, byID, fired, quiet, scripts, todo, ran, result>>
  BY DEF EndLoop
<1>2. ApiOK'
  BY <1>1, ForceKeeps DEF IInv, Unfinished
<1>3. todo = <<>>
  BY <1>1 DEF IInv, OrderOK
<1>4. OrderOK' /\ ReportOK'
  BY <1>1, <1>3, OrderStays, ReportStays DEF IInv
<1>5. LoopOK'
  BY <1>1, CodeKeepsLoop DEF IInv
<1>6. PlaceOK'
  BY <1>1 DEF PlaceOK, Idle, Script, InLoop, TimerIds
<1> QED
  BY <1>2, <1>4, <1>5, <1>6 DEF IInv

LEMMA CollectKeeps ==
    ASSUME IInv, Collect
    PROVE  IInv'
<1>1. /\ phase = "complete" /\ phase' = "reported"
      /\ UNCHANGED <<loopVars, harnessVars, scripts, todo, ran>>
      /\ result' = [status |-> IF harnessStatus = Pass /\ ~AllPass(Statuses(results))
                               THEN Failed ELSE harnessStatus,
                    subTests |-> Statuses(results)]
  BY DEF Collect
<1>2. UNCHANGED <<code, harnessStatus, completed, results>>
  BY <1>1 DEF loopVars, harnessVars
<1>3. completed
  BY <1>1 DEF IInv, ApiOK, CompleteOK
<1>4. ReportOK'
  <2> SUFFICES ASSUME result'.status = Pass
               PROVE  harnessStatus = Pass /\ result'.subTests = Statuses(results) /\ AllPass(Statuses(results))
    BY <1>2, <1>3 DEF ReportOK, Statuses, AllPass
  <2>1. ~(harnessStatus = Pass /\ ~AllPass(Statuses(results)))
    BY <1>1 DEF Pass, Failed
  <2> QED
    BY <1>1, <2>1
<1>5. PlaceOK'
  <2>1. code \notin {Script, InLoop} \cup TimerIds
    BY <1>1 DEF IInv, PlaceOK
  <2> QED
    BY <1>1, <1>2, <2>1 DEF PlaceOK
<1>6. ApiOK'
  BY <1>1, ApiStays DEF IInv, Unfinished
<1>7. LoopOK' /\ OrderOK'
  BY <1>1, LoopStays, OrderStays DEF IInv
<1> QED
  BY <1>4, <1>5, <1>6, <1>7 DEF IInv

(* NotExecuted and Panic report what is not a pass.                        *)
LEMMA NotPassed ==
    ASSUME IInv, UNCHANGED <<timers, nextID, byID, fired, quiet, harnessVars, scripts, todo, ran>>,
           phase' = "reported", code' = Idle, NEW st \in {Skipped, Failed},
           result' = [status |-> st, subTests |-> <<>>]
    PROVE  IInv'
<1>1. ReportOK'
  BY DEF ReportOK, Pass, Failed, Skipped
<1>2. PlaceOK'
  BY DEF PlaceOK, Idle, Script, InLoop, TimerIds
<1>3. OrderOK'
  BY OrderStays DEF IInv
<1> QED
  BY <1>1, <1>2, <1>3, RunnerKeeps DEF Unfinished

LEMMA NextIInv ==
    ASSUME IInv, [Next]_vars
    PROVE  IInv'
<1>0. code \in {Idle, InLoop, Script} \cup TimerIds /\ 0 \notin TimerIds /\ -1 \notin TimerIds /\ -2 \notin TimerIds
  BY DEF IInv, LoopOK, LoopTypeOK, TimerIds
<1>1. CASE StartScripts
  <2>1. /\ phase = "start" /\ phase' = "scripts"
        /\ UNCHANGED <<timers, nextID, byID, fired, quiet, code, harnessVars>>
    BY <1>1 DEF StartScripts, loopVars
  <2>2. code = Idle
    BY <1>0, <2>1 DEF IInv, PlaceOK
  <2>3. PlaceOK'
    BY <2>1, <2>2 DEF PlaceOK, Idle, Script, InLoop, TimerIds
  <2>4. ReportOK' /\ OrderOK'
    BY <1>1, <2>1, ReportStays, StartKeepsOrder DEF IInv
  <2> QED
    BY <2>1, <2>2, <2>3, <2>4, RunnerKeeps DEF Unfinished
<1>2. CASE StartScript
  <2>1. /\ phase = "scripts" /\ UNCHANGED phase /\ code' = Script
        /\ UNCHANGED <<timers, nextID, byID, fired, quiet, harnessVars>>
    BY <1>2 DEF StartScript
  <2>2. PlaceOK'
    BY <2>1 DEF PlaceOK, Script, InLoop, TimerIds
  <2>3. ReportOK' /\ OrderOK'
    BY <1>2, <2>1, ReportStays, ScriptKeepsOrder DEF IInv
  <2> QED
    BY <2>1, <2>2, <2>3, RunnerKeeps DEF Unfinished
<1>3. CASE ScriptEnds
  <2>1. /\ phase = "scripts" /\ code' = Idle
        /\ UNCHANGED <<phase, scripts, todo, ran, result, timers, nextID, byID, fired, quiet, harnessVars>>
    BY <1>3 DEF ScriptEnds, runnerVars, IInv, PlaceOK
  <2>2. PlaceOK'
    BY <2>1 DEF PlaceOK, Idle, Script, InLoop, TimerIds
  <2>3. ReportOK' /\ OrderOK'
    BY <2>1, ReportStays, OrderStays DEF IInv
  <2> QED
    BY <2>1, <2>2, <2>3, RunnerKeeps DEF Unfinished
<1>4. CASE NotExecuted
  <2>1. code = Idle /\ UNCHANGED code
    BY <1>0, <1>4 DEF NotExecuted, loopVars, IInv, PlaceOK
  <2> QED
    BY <1>4, <2>1, NotPassed DEF NotExecuted, loopVars
<1>5. CASE StartLoop
  <2>1. /\ phase = "scripts" /\ phase' = "loop" /\ code' = InLoop /\ todo = <<>>
        /\ UNCHANGED <<timers, nextID, byID, fired, quiet, harnessVars, scripts, todo, ran, result>>
    BY <1>5 DEF StartLoop
  <2>2. PlaceOK'
    BY <2>1 DEF PlaceOK, Script, InLoop, TimerIds
  <2>3. ReportOK' /\ OrderOK'
    BY <2>1, ReportStays, OrderStays DEF IInv
  <2> QED
    BY <2>1, <2>2, <2>3, RunnerKeeps DEF Unfinished
<1>6. CASE Panic
  BY <1>6, NotPassed DEF Panic
<1>7. CASE UNCHANGED vars
  <2>1. UNCHANGED <<loopVars, harnessVars, phase, scripts, todo, ran, result, code>>
    BY <1>7 DEF vars, runnerVars, loopVars
  <2>2. PlaceOK'
    BY <2>1 DEF PlaceOK, IInv
  <2>3. ReportOK'
    BY <2>1, ReportStays DEF IInv, harnessVars
  <2> QED
    BY <2>1, <2>2, <2>3, LoopStays, ApiStays, OrderStays DEF IInv
<1> QED
  BY <1>1, <1>2, <1>3, <1>4, <1>5, <1>6, <1>7, ScriptCallsKeep, LoopGoesOn, TimeKeeps, EndLoopKeeps, CollectKeeps
     DEF Next

LEMMA InitIInv == Init => IInv
<1> SUFFICES ASSUME Init PROVE IInv
  OBVIOUS
<1>1. LoopOK /\ ApiOK
  BY InitLoop, InitApi DEF Init
<1>2. PlaceOK
  BY DEF Init, LoopInit, PlaceOK, Idle, Script, InLoop, TimerIds
<1>3. OrderOK
  BY HarnessAssumption DEF Init, OrderOK
<1>4. ReportOK
  BY DEF Init, ReportOK
<1> QED
  BY <1>1, <1>2, <1>3, <1>4 DEF IInv

LEMMA AlwaysIInv == Spec => []IInv
BY InitIInv, NextIInv, PTL DEF Spec

-----------------------------------------------------------------------------
(* What the invariant says of the file. *)

LEMMA OrderTells == IInv => ScriptsInOrder
<1> SUFFICES ASSUME IInv PROVE ScriptsInOrder
  OBVIOUS
<1>1. CASE ran = <<>> /\ phase \in {"start", "reported"}
  BY <1>1 DEF ScriptsInOrder
<1>2. CASE /\ phase \in {"loop", "complete"} => todo = <<>>
           /\ ran \in Seq(DOMAIN scripts) /\ todo \in Seq(DOMAIN scripts)
           /\ Len(ran) + Len(todo) = Len(ScriptOrder)
           /\ \A i \in 1..Len(ran) : ran[i] = ScriptOrder[i]
  <2> DEFINE s == ScriptOrder
  <2>1. /\ s \in Seq(DOMAIN scripts)
        /\ \A i, j \in DOMAIN s : i < j => Ordered(s[i], s[j])
        /\ {s[i] : i \in DOMAIN s} = {k \in DOMAIN scripts : scripts[k] # "src"}
    BY OrderIs DEF IInv, OrderOK
  <2> HIDE DEF s
  <2>2. /\ DOMAIN ran = 1..Len(ran) /\ DOMAIN s = 1..Len(s) /\ Len(ran) \in Nat /\ Len(todo) \in Nat
        /\ Len(s) \in Nat /\ Len(ran) + Len(todo) = Len(s) /\ \A i \in 1..Len(ran) : ran[i] = s[i]
    BY <1>2, <2>1 DEF s
  <2>3. DOMAIN ran \subseteq DOMAIN s
    BY <2>2
  <2>4. \A i, j \in DOMAIN ran : i < j => Ordered(ran[i], ran[j])
    BY <2>1, <2>2, <2>3
  <2>5. ASSUME phase \in {"loop", "complete"}
        PROVE  {ran[i] : i \in DOMAIN ran} = {k \in DOMAIN scripts : scripts[k] # "src"}
    <3>1. Len(todo) = 0
      BY <1>2, <2>5
    <3>2. Len(ran) = Len(s)
      <4>1. \A a, b, c \in Nat : a + b = c /\ b = 0 => a = c
        OBVIOUS
      <4> QED
        BY <2>2, <3>1, <4>1, Zenon
    <3> QED
      BY <2>1, <2>2, <3>2
  <2> QED
    BY <2>4, <2>5 DEF ScriptsInOrder, Ordered
<1> QED
  BY <1>1, <1>2 DEF IInv, OrderOK

LEMMA CountsTell == IInv => CountsAgree
<1> SUFFICES ASSUME IInv PROVE CountsAgree
  OBVIOUS
<1>1. {t \in Tests : IsPending(t)} = Pending
  BY PendingIs DEF IInv, ApiOK
<1>2. phase \in {"scripts", "loop"} => pendingAsync = Cardinality({t \in Tests : IsPending(t)})
  BY <1>1 DEF IInv, ApiOK, CountOK, Unfinished
<1>3. completions <= 1
  BY DEF IInv, ApiOK, CompleteOK
<1>4. completed => \A t \in Tests : IsPending(t) => t \in late \/ harnessStatus = TimedOut
  BY <1>1 DEF IInv, ApiOK, CompleteOK
<1>5. \A i, j \in DOMAIN results : results[i].test = results[j].test => i = j
  BY DEF IInv, ApiOK, RecordedOK
<1> QED
  BY <1>2, <1>3, <1>4, <1>5 DEF CountsAgree

(* Where each result is a pass, the summary counts passes only.            *)
LEMMA SummaryCounts ==
    ASSUME result.status = Pass, results \in Seq(ResultRecords),
           result.subTests = Statuses(results), AllPass(Statuses(results))
    PROVE  Summary(result).fail = 0 /\ Summary(result).pass = Summary(result).total
<1> DEFINE all == IF result.subTests = <<>> THEN <<result.status>> ELSE result.subTests
           Count(S) == Cardinality({i \in DOMAIN all : all[i] \in S})
<1>1. /\ Len(all) \in Nat /\ DOMAIN all = 1..Len(all)
      /\ \A i \in DOMAIN all : all[i] = Pass
  <2>1. CASE result.subTests = <<>>
    BY <2>1
  <2>2. CASE result.subTests # <<>>
    <3>1. all = Statuses(results) /\ Len(results) \in Nat /\ DOMAIN results = 1..Len(results)
      BY <2>2
    <3>2. all = [i \in 1..Len(results) |-> results[i].status]
      BY <3>1 DEF Statuses
    <3>3. Len(all) = Len(results) /\ DOMAIN all = 1..Len(results)
      BY <3>1, <3>2
    <3> QED
      BY <3>1, <3>3 DEF AllPass
  <2> QED
    BY <2>1, <2>2
<1> HIDE DEF all
<1>2. {i \in DOMAIN all : all[i] \in {Failed}} = {}
  BY <1>1 DEF Pass, Failed
<1>3. {i \in DOMAIN all : all[i] \in {Pass}} = 1..Len(all)
  BY <1>1
<1>4. Count({Failed}) = 0
  BY <1>2, FS_EmptySet
<1>5. Count({Pass}) = Len(all)
  <2>1. \A n \in Nat : Cardinality(1..n) = n
    BY FS_Interval
  <2>2. Cardinality(1..Len(all)) = Len(all)
    BY <1>1, <2>1, Zenon
  <2> QED
    BY <1>3, <2>2
<1>6. Summary(result).fail = Count({Failed}) /\ Summary(result).pass = Count({Pass}) /\ Summary(result).total = Len(all)
  BY DEF Summary, all
<1> QED
  BY <1>4, <1>5, <1>6

LEMMA PassTells == IInv => PassIsEarned
<1> SUFFICES ASSUME IInv, phase = "reported", result.status = Pass
             PROVE  /\ \A t \in DOMAIN tests : t \notin late => tests[t].done /\ tests[t].status = Pass
                    /\ Summary(result).fail = 0 /\ Summary(result).pass = Summary(result).total
  BY DEF PassIsEarned
<1>1. /\ harnessStatus = Pass /\ completed
      /\ result.subTests = Statuses(results) /\ AllPass(Statuses(results))
  BY DEF IInv, ReportOK
<1>2. RecordedOK /\ results \in Seq(ResultRecords)
  BY DEF IInv, ApiOK, RecordedOK
<1>3. \A i \in DOMAIN results : results[i].status = Pass
  BY <1>1 DEF AllPass, Statuses
<1>4. ASSUME NEW t \in DOMAIN tests, t \notin late PROVE tests[t].done /\ tests[t].status = Pass
  <2>1. tests[t].done
    <3>1. Pass # TimedOut
      BY DEF Pass, TimedOut
    <3> QED
      BY <1>1, <1>4, <3>1 DEF IInv, ApiOK, CompleteOK, Pending
  <2>2. PICK i \in DOMAIN results : results[i].test = t
    BY <1>2, <2>1 DEF RecordedOK
  <2> QED
    BY <1>2, <1>3, <2>1, <2>2 DEF RecordedOK
<1> QED
  BY <1>1, <1>2, <1>4, SummaryCounts

LEMMA TypesTell == IInv => TypeOK /\ TimeoutsFireOnce
<1> SUFFICES ASSUME IInv PROVE TypeOK /\ TimeoutsFireOnce
  OBVIOUS
<1>1. LoopTypeOK /\ RecordedOK /\ CountOK /\ CompleteOK /\ PlaceOK
  BY DEF IInv, LoopOK, ApiOK
<1>2. \A i \in DOMAIN results : results[i].test \in DOMAIN tests
  BY <1>1 DEF RecordedOK
<1>3. TypeOK
  BY <1>1, <1>2 DEF TypeOK, RecordedOK, CountOK, CompleteOK, PlaceOK
<1>4. TimeoutsFireOnce
  <2> SUFFICES ASSUME NEW i \in TimerIds, fired[i] = 2 PROVE timers[i].interval > 0
    BY DEF TimeoutsFireOnce
  <2>1. timers[i].interval # 0 /\ timers[i].interval \in Delays \cup {0}
    BY DEF IInv, LoopOK, Timers
  <2>2. timers[i].interval \in Nat
    BY <2>1, DelaysAreNat
  <2> QED
    BY <2>1, <2>2
<1> QED
  BY <1>3, <1>4

(* The counts of a file are earned: whatever its scripts and callbacks do, *)
(* timeouts fire once, scripts run in their order, pending tests are       *)
(* counted right, and a file that passes had its tests pass.               *)
THEOREM EveryCountEarned == Spec => []CountsEarned
<1>1. IInv => CountsEarned
  BY TypesTell, OrderTells, CountsTell, PassTells DEF CountsEarned
<1> QED
  BY <1>1, AlwaysIInv, PTL

-----------------------------------------------------------------------------
(* What was cleared is marked so as long as the page lives: no id is given *)
(* twice, and no step takes the mark away.                                 *)
Quieted == \A i \in quiet : i \in 1..nextID /\ timers[i].cleared

(* Steps that leave the entries of cleared timers, or make them cleared.   *)
LEMMA MarksStay ==
    ASSUME LoopOK, Quieted, quiet' = quiet, nextID' \in Nat, nextID <= nextID',
           \A i \in quiet : timers'[i].cleared = timers[i].cleared
    PROVE  Quieted'
BY DEF Quieted, LoopOK, LoopTypeOK

LEMMA SetStaysQuiet ==
    ASSUME LoopOK, Quieted, NEW delay, NEW interval, SetTimer(delay, interval)
    PROVE  Quieted'
<1>1. /\ nextID \in Nat /\ nextID' = nextID + 1 /\ quiet' = quiet /\ timers \in [TimerIds -> Timers]
      /\ timers' = [timers EXCEPT ![nextID + 1] =
                      [due |-> delay, interval |-> interval, cleared |-> FALSE, queued |-> TRUE]]
  BY LoopAssumption DEF LoopOK, LoopTypeOK, SetTimer
<1>2. \A i \in quiet : i # nextID + 1
  BY <1>1 DEF Quieted
<1>3. \A i \in quiet : i \in TimerIds
  BY DEF LoopOK, LoopTypeOK
<1>4. ASSUME NEW i \in quiet PROVE timers'[i] = timers[i]
  BY <1>1, <1>2, <1>3
<1>5. nextID' \in Nat /\ nextID <= nextID' /\ quiet' = quiet
  BY <1>1
<1>6. \A i \in quiet : timers'[i].cleared = timers[i].cleared
  BY <1>4
<1> QED
  BY <1>5, <1>6, MarksStay

LEMMA ClearMakesQuiet ==
    ASSUME LoopOK, Quieted, NEW i \in TimerIds, ClearTimer(i)
    PROVE  Quieted'
<1>1. /\ i \in 1..nextID /\ nextID' = nextID /\ quiet' = quiet \cup {i} /\ timers \in [TimerIds -> Timers]
      /\ timers' = [timers EXCEPT ![i].cleared = TRUE]
  BY DEF LoopOK, LoopTypeOK, ClearTimer
<1>2. \A j \in quiet' : j \in 1..nextID'
  BY <1>1 DEF Quieted
<1>3. ASSUME NEW j \in quiet' PROVE timers'[j].cleared
  <2>1. CASE j = i
    BY <1>1, <2>1 DEF Timers
  <2>2. CASE j # i
    <3>1. j \in quiet /\ j \in TimerIds
      BY <1>1, <1>3, <2>2 DEF LoopOK, LoopTypeOK
    <3> QED
      BY <1>1, <2>2, <3>1 DEF Quieted
  <2> QED
    BY <2>1, <2>2
<1> QED
  BY <1>2, <1>3 DEF Quieted

LEMMA StepStaysQuiet ==
    ASSUME LoopOK, Quieted, LoopStep \/ Tick
    PROVE  Quieted'
<1>1. timers \in [TimerIds -> Timers] /\ nextID' = nextID /\ quiet' = quiet /\ quiet \subseteq TimerIds
  <2>1. nextID' = nextID /\ quiet' = quiet
    BY DEF LoopStep, SkipCleared, Fire, CallbackEnds, Tick
  <2> QED
    BY <2>1 DEF LoopOK, LoopTypeOK
<1>2. nextID' \in Nat /\ nextID <= nextID'
  BY <1>1, LoopAssumption DEF LoopOK, LoopTypeOK
<1>3. ASSUME NEW j \in TimerIds PROVE timers'[j].cleared = timers[j].cleared
  <2>1. CASE Tick
    BY <1>1, <2>1 DEF Tick, Timers
  <2>2. CASE LoopStep
    <3>1. PICK i \in TimerIds : SkipCleared(i) \/ Fire(i) \/ CallbackEnds(i)
      BY <2>2 DEF LoopStep
    <3>2. CASE SkipCleared(i) \/ Fire(i)
      BY <1>1, <3>2 DEF SkipCleared, Fire, Pop, Timers
    <3>3. CASE CallbackEnds(i)
      BY <1>1, <3>3 DEF CallbackEnds, Timers
    <3> QED
      BY <3>1, <3>2, <3>3
  <2> QED
    BY <2>1, <2>2
<1> QED
  BY <1>1, <1>2, <1>3, MarksStay

LEMMA NextStaysQuiet ==
    ASSUME LoopOK, Quieted, [Next]_vars
    PROVE  Quieted'
<1>1. CASE UNCHANGED <<timers, nextID, quiet>>
  BY <1>1 DEF Quieted
<1>2. CASE LoopStep \/ Tick
  BY <1>2, StepStaysQuiet
<1>3. CASE Calls
  BY <1>3, SetStaysQuiet, ClearMakesQuiet DEF Calls, SetTimeout, SetInterval
<1> QED
  BY <1>1, <1>2, <1>3 DEF Next, StartScripts, StartScript, ScriptEnds, ScriptCalls, NotExecuted, StartLoop, Loop,
     TimePasses, EndLoop, Collect, Panic, vars, loopVars

(* A callback is called by Fire only, and not if its timer was cleared.    *)
LEMMA OnlyFireCalls ==
    ASSUME LoopOK, [Next]_vars, NEW i \in TimerIds, code' = i, code # i
    PROVE  ~timers[i].cleared
<1>1. i # Script /\ i # Idle /\ i # InLoop
  BY LoopAssumption DEF TimerIds, Script, Idle, InLoop
<1>2. CASE LoopStep
  <2>1. PICK j \in TimerIds : SkipCleared(j) \/ Fire(j) \/ CallbackEnds(j)
    BY <1>2 DEF LoopStep
  <2> QED
    BY <1>1, <2>1 DEF SkipCleared, Fire, CallbackEnds
<1>3. CASE code' \in {code, Script, Idle, InLoop}
  BY <1>1, <1>3
<1> QED
  BY <1>2, <1>3 DEF Next, StartScripts, StartScript, ScriptEnds, ScriptCalls, Calls, SetTimeout, SetInterval, SetTimer,
     ClearTimer, NotExecuted, StartLoop, Loop, TimePasses, Tick, EndLoop, Collect, Panic, vars, loopVars

(* A timer that was cleared does not fire, whoever cleared it and when.    *)
THEOREM ClearedTimersStayQuiet == Spec => ClearedStayQuiet
<1>1. Init => Quieted
  BY DEF Init, LoopInit, Quieted
<1>2. ASSUME IInv, Quieted, [Next]_vars PROVE Quieted'
  BY <1>2, NextStaysQuiet DEF IInv
<1>3. ASSUME IInv, Quieted, [Next]_vars PROVE [\A i \in quiet : code' = i => code = i]_code
  <2> SUFFICES ASSUME NEW i \in quiet, code' = i, code # i PROVE FALSE
    OBVIOUS
  <2>1. i \in TimerIds
    BY <1>3 DEF IInv, LoopOK, LoopTypeOK
  <2> QED
    BY <1>3, <2>1, OnlyFireCalls DEF IInv, Quieted
<1> QED
  BY <1>1, <1>2, <1>3, AlwaysIInv, PTL DEF Spec, ClearedStayQuiet

-----------------------------------------------------------------------------
(***************************************************************************)
(* 2. Callbacks                                                            *)
(***************************************************************************)
(* What Sublist does with the next element.                                *)
Take(list, S, upTo, n) == IF n \in S THEN Append(upTo, list[n]) ELSE upTo

LEMMA SublistUpToIs ==
    ASSUME NEW T, NEW list \in Seq(T), NEW S
    PROVE  /\ SublistUpTo(list, S)[0] = <<>>
           /\ \A n \in 1..Len(list) : SublistUpTo(list, S)[n] = Take(list, S, SublistUpTo(list, S)[n - 1], n)
<1> DEFINE N == Len(list)
           Upto(g, n) == g[0] = <<>> /\ \A i \in 1..n : g[i] = Take(list, S, g[i - 1], i)
           P == {n \in Nat : \E g : Upto(g, n)}
<1>1. 0 \in P
  <2>1. Upto([i \in {0} |-> <<>>], 0)
    OBVIOUS
  <2> QED
    BY <2>1
<1>2. ASSUME NEW n \in Nat, n \in P PROVE n + 1 \in P
  <2>1. PICK g : Upto(g, n)
    BY <1>2
  <2> DEFINE h == [i \in 0..(n + 1) |-> IF i = n + 1 THEN Take(list, S, g[n], n + 1) ELSE g[i]]
  <2>2. h[0] = <<>> /\ h[n + 1] = Take(list, S, g[n], n + 1) /\ \A i \in 0..n : h[i] = g[i]
    BY <2>1
  <2> HIDE DEF h
  <2>3. ASSUME NEW i \in 1..(n + 1) PROVE h[i] = Take(list, S, h[i - 1], i)
    <3>1. CASE i = n + 1
      <4>1. i - 1 = n /\ n \in 0..n
        BY <3>1
      <4> QED
        BY <2>2, <3>1, <4>1
    <3>2. CASE i # n + 1
      <4>1. i \in 1..n /\ i \in 0..n /\ i - 1 \in 0..n
        BY <3>2
      <4> QED
        BY <2>1, <2>2, <4>1
    <3> QED
      BY <3>1, <3>2
  <2> QED
    BY <2>2, <2>3
<1>3. N \in Nat
  OBVIOUS
<1>4. PICK g : Upto(g, N)
  <2> HIDE DEF P
  <2>1. N \in P
    BY <1>1, <1>2, <1>3, Induct
  <2> QED
    BY <2>1 DEF P
<1> DEFINE h == [i \in 0..N |-> g[i]]
           F(f) == [n \in 0..N |-> IF n = 0 THEN <<>> ELSE IF n \in S THEN Append(f[n - 1], list[n]) ELSE f[n - 1]]
<1>5. h = F(h)
  <2>1. ASSUME NEW n \in 0..N PROVE h[n] = IF n = 0 THEN <<>> ELSE Take(list, S, h[n - 1], n)
    <3>1. CASE n = 0
      BY <1>4, <3>1
    <3>2. CASE n # 0
      <4>1. n \in 1..N /\ n - 1 \in 0..N
        BY <3>2
      <4> QED
        BY <1>4, <3>2, <4>1
    <3> QED
      BY <3>1, <3>2
  <2> QED
    BY <2>1 DEF Take
<1>6. SublistUpTo(list, S) = CHOOSE f : f = F(f)
  BY DEF SublistUpTo
<1>7. SublistUpTo(list, S) = F(SublistUpTo(list, S))
  <2> HIDE DEF h, F
  <2> QED
    BY <1>5, <1>6
<1>8. ASSUME NEW n \in 0..N
      PROVE  SublistUpTo(list, S)[n] = IF n = 0 THEN <<>> ELSE Take(list, S, SublistUpTo(list, S)[n - 1], n)
  BY <1>7, Zenon DEF Take
<1> QED
  BY <1>3, <1>8

LEMMA ContainsAppend ==
    ASSUME NEW T, NEW s \in Seq(T), NEW x \in T, NEW y
    PROVE  Contains(Append(s, x), y) <=> Contains(s, y) \/ y = x
<1> DEFINE t == Append(s, x)
<1>1. /\ Len(s) \in Nat /\ Len(t) = Len(s) + 1 /\ t[Len(s) + 1] = x
      /\ \A i \in 1..Len(s) : t[i] = s[i]
  BY AppendProperties
<1> HIDE DEF t
<1> QED
  BY <1>1 DEF Contains

LEMMA ContainsConcat ==
    ASSUME NEW T, NEW s \in Seq(T), NEW t \in Seq(T), NEW y
    PROVE  Contains(s \o t, y) <=> Contains(s, y) \/ Contains(t, y)
<1> DEFINE u == s \o t
<1>1. /\ Len(s) \in Nat /\ Len(t) \in Nat /\ Len(u) = Len(s) + Len(t)
      /\ \A i \in 1..Len(s) : u[i] = s[i]
      /\ \A i \in 1..Len(t) : u[Len(s) + i] = t[i]
  BY ConcatProperties
<1> HIDE DEF u
<1>2. ASSUME NEW i \in 1..Len(u), u[i] = y PROVE Contains(s, y) \/ Contains(t, y)
  <2>1. CASE i <= Len(s)
    BY <1>1, <1>2, <2>1 DEF Contains
  <2>2. CASE i > Len(s)
    <3>1. i - Len(s) \in 1..Len(t) /\ Len(s) + (i - Len(s)) = i
      BY <1>1, <2>2
    <3> QED
      BY <1>1, <1>2, <3>1 DEF Contains
  <2> QED
    BY <2>1, <2>2, <1>1
<1>3. ASSUME NEW i \in 1..Len(s), s[i] = y PROVE Contains(u, y)
  BY <1>1, <1>3 DEF Contains
<1>4. ASSUME NEW i \in 1..Len(t), t[i] = y PROVE Contains(u, y)
  <2>1. Len(s) + i \in 1..Len(u)
    BY <1>1
  <2> QED
    BY <1>1, <1>4, <2>1 DEF Contains
<1> QED
  BY <1>2, <1>3, <1>4 DEF Contains, u

AppendLast(s, t, x) == Append(s \o t, x) = s \o Append(t, x)

LEMMA AppendConcat ==
    ASSUME NEW T, NEW s \in Seq(T), NEW t \in Seq(T), NEW x \in T
    PROVE  AppendLast(s, t, x)
<1>1. s \o t \in Seq(T) /\ <<x>> \in Seq(T)
  BY ConcatProperties
<1>2. Append(s \o t, x) = (s \o t) \o <<x>>
  BY <1>1, AppendIsConcat
<1>3. Append(t, x) = t \o <<x>>
  BY AppendIsConcat
<1>4. (s \o t) \o <<x>> = s \o (t \o <<x>>)
  BY <1>1, ConcatAssociative
<1> QED
  BY <1>2, <1>3, <1>4 DEF AppendLast

(* What a sublist has, up to n.                                            *)
Taken(list, S, n, y) == \E i \in 1..n : i \in S /\ list[i] = y

LEMMA SublistHas ==
    ASSUME NEW T, NEW list \in Seq(T), NEW S, NEW n \in 0..Len(list), NEW y
    PROVE  /\ SublistUpTo(list, S)[n] \in Seq(T) /\ Len(SublistUpTo(list, S)[n]) <= n
           /\ (Contains(SublistUpTo(list, S)[n], y) <=> Taken(list, S, n, y))
<1> DEFINE N == Len(list)
           sub == SublistUpTo(list, S)
           Good(m) == /\ sub[m] \in Seq(T) /\ Len(sub[m]) <= m
                      /\ (Contains(sub[m], y) <=> Taken(list, S, m, y))
           P == {m \in Nat : m <= N => Good(m)}
<1>1. N \in Nat /\ DOMAIN list = 1..N
  OBVIOUS
<1>2. 0 \in P
  <2>1. sub[0] = <<>>
    BY SublistUpToIs
  <2> HIDE DEF sub
  <2>2. sub[0] \in Seq(T) /\ Len(sub[0]) <= 0 /\ 1..Len(sub[0]) = {} /\ 1..0 = {}
    BY <2>1
  <2>3. Good(0)
    BY <2>2, Zenon DEF Contains, Taken
  <2> HIDE DEF Good
  <2> QED
    BY <2>3
<1>3. ASSUME NEW m \in Nat, m \in P PROVE m + 1 \in P
  <2> SUFFICES ASSUME m + 1 <= N PROVE Good(m + 1)
    <3> HIDE DEF Good
    <3> QED
      OBVIOUS
  <2>1. m + 1 \in 1..N /\ m <= N /\ (m + 1) - 1 = m
    BY <1>1
  <2>2. sub[m + 1] = Take(list, S, sub[m], m + 1)
    BY <2>1, SublistUpToIs
  <2>3. Good(m) /\ list[m + 1] \in T
    BY <1>1, <1>3, <2>1
  <2> HIDE DEF sub
  <2>4. CASE m + 1 \in S
    <3>1. sub[m + 1] = Append(sub[m], list[m + 1])
      BY <2>2, <2>4 DEF Take
    <3>2. sub[m + 1] \in Seq(T) /\ Len(sub[m + 1]) <= m + 1
      BY <2>3, <3>1
    <3>3. Contains(sub[m + 1], y) <=> Contains(sub[m], y) \/ y = list[m + 1]
      BY <2>3, <3>1, ContainsAppend
    <3>4. Contains(sub[m + 1], y) <=> Taken(list, S, m + 1, y)
      BY <2>3, <2>4, <3>3 DEF Taken
    <3> QED
      BY <3>2, <3>4
  <2>5. CASE m + 1 \notin S
    <3>1. sub[m + 1] = sub[m]
      BY <2>2, <2>5 DEF Take
    <3>2. Taken(list, S, m + 1, y) <=> Taken(list, S, m, y)
      BY <2>5 DEF Taken
    <3> QED
      BY <2>3, <3>1, <3>2
  <2> QED
    BY <2>4, <2>5
<1> HIDE DEF P, Good
<1>4. n \in P /\ n <= N
  BY <1>1, <1>2, <1>3, Induct
<1> QED
  BY <1>4 DEF P, Good

(* A sublist of a list without doubles has none.                           *)
OnceIn(list, S) == \A i, j \in 1..Len(list) : i \in S /\ j \in S /\ list[i] = list[j] => i = j

LEMMA SublistOnce ==
    ASSUME NEW T, NEW list \in Seq(T), NEW S, OnceIn(list, S)
    PROVE  IsInjective(Sublist(list, S))
<1> DEFINE N == Len(list)
           sub == SublistUpTo(list, S)
           P == {m \in Nat : m <= N => IsInjective(sub[m])}
<1>1. N \in Nat /\ DOMAIN list = 1..N
  OBVIOUS
<1>2. 0 \in P
  <2>1. sub[0] = <<>>
    BY SublistUpToIs
  <2> HIDE DEF sub
  <2> QED
    BY <2>1 DEF IsInjective
<1>3. ASSUME NEW m \in Nat, m \in P PROVE m + 1 \in P
  <2> SUFFICES ASSUME m + 1 <= N PROVE IsInjective(sub[m + 1])
    <3> HIDE DEF sub
    <3> QED
      OBVIOUS
  <2>1. m + 1 \in 1..N /\ m <= N /\ (m + 1) - 1 = m /\ m \in 0..N
    BY <1>1
  <2>2. sub[m + 1] = Take(list, S, sub[m], m + 1)
    BY <2>1, SublistUpToIs
  <2>3. /\ IsInjective(sub[m]) /\ list[m + 1] \in T /\ sub[m] \in Seq(T)
        /\ Contains(sub[m], list[m + 1]) <=> Taken(list, S, m, list[m + 1])
    <3>1. sub[m] \in Seq(T) /\ (Contains(sub[m], list[m + 1]) <=> Taken(list, S, m, list[m + 1]))
      BY <2>1, SublistHas
    <3>2. IsInjective(sub[m])
      <4> HIDE DEF sub, N
      <4> QED
        BY <1>3, <2>1, Zenon
    <3> QED
      BY <1>1, <2>1, <3>1, <3>2
  <2> HIDE DEF sub
  <2>4. CASE m + 1 \in S
    <3> DEFINE s == sub[m]
               x == list[m + 1]
               t == sub[m + 1]
    <3>1. t = Append(s, x)
      BY <2>2, <2>4 DEF Take
    <3>2. ~Contains(s, x)
      BY <1>1, <2>1, <2>3, <2>4 DEF OnceIn, Taken
    <3>3. s \in Seq(T) /\ x \in T /\ IsInjective(s)
      BY <2>3
    <3> HIDE DEF s, x, t
    <3>4. /\ Len(s) \in Nat /\ DOMAIN t = 1..(Len(s) + 1) /\ t[Len(s) + 1] = x /\ DOMAIN s = 1..Len(s)
          /\ \A i \in 1..Len(s) : t[i] = s[i]
      BY <3>1, <3>3
    <3>5. IsInjective(t)
      BY <3>2, <3>3, <3>4 DEF IsInjective, Contains
    <3> QED
      BY <3>5 DEF t
  <2>5. CASE m + 1 \notin S
    BY <2>2, <2>3, <2>5 DEF Take
  <2> QED
    BY <2>4, <2>5
<1> HIDE DEF P
<1>4. N \in P
  BY <1>1, <1>2, <1>3, Induct
<1> QED
  BY <1>1, <1>4 DEF P, Sublist

(* What a loop has so far is the beginning of what it will have.           *)
LEMMA SublistPrefix ==
    ASSUME NEW T, NEW list \in Seq(T), NEW S, NEW n \in 0..Len(list)
    PROVE  IsPrefix(SublistUpTo(list, S)[n], Sublist(list, S))
<1> DEFINE N == Len(list)
           sub == SublistUpTo(list, S)
           Begins(s, t) == Len(s) <= Len(t) /\ \A i \in 1..Len(s) : s[i] = t[i]
           P == {m \in Nat : n + m <= N => Begins(sub[n], sub[n + m])}
<1>1. N \in Nat /\ DOMAIN list = 1..N
  OBVIOUS
<1>2. \A m \in 0..N : sub[m] \in Seq(T)
  BY SublistHas
<1>3. 0 \in P
  BY <1>2
<1>4. ASSUME NEW m \in Nat, m \in P PROVE m + 1 \in P
  <2> SUFFICES ASSUME n + m + 1 <= N PROVE Begins(sub[n], sub[n + (m + 1)])
    <3> HIDE DEF Begins
    <3> QED
      OBVIOUS
  <2>1. /\ n + m + 1 \in 1..N /\ n + m <= N /\ (n + m + 1) - 1 = n + m /\ n + (m + 1) = n + m + 1
        /\ n + m \in 0..N
    BY <1>1
  <2>2. sub[n + m + 1] = Take(list, S, sub[n + m], n + m + 1)
    BY <2>1, SublistUpToIs
  <2>3. Begins(sub[n], sub[n + m]) /\ list[n + m + 1] \in T /\ sub[n + m] \in Seq(T) /\ sub[n] \in Seq(T)
    BY <1>1, <1>2, <1>4, <2>1
  <2> DEFINE s == sub[n]
             t == sub[n + m]
             x == list[n + m + 1]
             u == sub[n + m + 1]
  <2>4. u = t \/ u = Append(t, x)
    BY <2>2 DEF Take
  <2>5. Begins(s, t) /\ x \in T /\ t \in Seq(T) /\ s \in Seq(T)
    BY <2>3
  <2> HIDE DEF s, t, u, x
  <2>6. Len(s) <= Len(Append(t, x))
    BY <2>5
  <2>7. \A i \in 1..Len(s) : s[i] = Append(t, x)[i]
    BY <2>5
  <2>8. Begins(s, u)
    BY <2>4, <2>5, <2>6, <2>7
  <2> QED
    BY <2>1, <2>8 DEF s, u
<1> HIDE DEF P
<1>5. N - n \in P /\ n + (N - n) = N
  <2>1. N - n \in Nat
    BY <1>1
  <2> QED
    BY <1>1, <1>3, <1>4, <2>1, Induct
<1>6. Begins(sub[n], sub[N])
  BY <1>1, <1>5 DEF P
<1> DEFINE s == sub[n]
           t == sub[N]
<1>7. s \in Seq(T) /\ t \in Seq(T) /\ Begins(s, t)
  BY <1>1, <1>2, <1>6
<1>8. t = Sublist(list, S)
  BY DEF Sublist
<1> HIDE DEF s, t
<1>9. SubSeq(s, 1, Len(s)) = SubSeq(t, 1, Len(s))
  <2>1. /\ Len(s) \in Nat /\ \A i \in 1..Len(s) : t[i] = s[i] /\ s[i] \in T /\ t[i] \in T
    BY <1>7
  <2> QED
    BY <2>1
<1>10. IsPrefix(s, t)
  BY <1>7, <1>9 DEF IsPrefix
<1> QED
  BY <1>8, <1>10 DEF s

(* A list in which each element stands once, where it stood first.         *)
LEMMA FirstOfEachIs ==
    ASSUME NEW T, NEW list \in Seq(T), NEW first, first = FirstOfEach(list)
    PROVE  first \in Seq(T) /\ IsInjective(first) /\ \A y : Contains(first, y) <=> Contains(list, y)
<1> DEFINE N == Len(list)
           S == {i \in DOMAIN list : \A j \in 1..(i - 1) : list[j] # list[i]}
<1>1. N \in Nat /\ DOMAIN list = 1..N /\ N \in 0..Len(list)
  OBVIOUS
<1>2. first = Sublist(list, S) /\ first = SublistUpTo(list, S)[N]
  BY DEF FirstOfEach, Sublist
<1>3. OnceIn(list, S)
  <2> SUFFICES ASSUME NEW i \in 1..N, NEW j \in 1..N, i \in S, j \in S, list[i] = list[j], i < j PROVE FALSE
    BY <1>1 DEF OnceIn
  <2>1. i \in 1..(j - 1)
    BY <1>1
  <2> QED
    BY <2>1
<1>4. ASSUME NEW y PROVE Taken(list, S, N, y) <=> Contains(list, y)
  <2>1. Taken(list, S, N, y) => Contains(list, y)
    BY DEF Taken, Contains
  <2>2. ASSUME Contains(list, y) PROVE Taken(list, S, N, y)
    <3> DEFINE Is == {i \in 1..N : list[i] = y}
    <3>1. Is \in SUBSET Nat /\ Is # {}
      BY <2>2 DEF Contains
    <3>2. PICK n \in Is : \A m \in Is : n <= m
      <4> HIDE DEF Is
      <4> QED
        BY <3>1, Least
    <3>3. \A j \in 1..(n - 1) : list[j] # list[n]
      BY <1>1, <3>2
    <3> QED
      BY <1>1, <3>2, <3>3 DEF Taken
  <2> QED
    BY <2>1, <2>2
<1> HIDE DEF N, S
<1>5. ASSUME NEW y PROVE Contains(first, y) <=> Taken(list, S, N, y)
  BY <1>1, <1>2, SublistHas
<1>6. first \in Seq(T)
  BY <1>1, <1>2, SublistHas
<1>7. IsInjective(first)
  BY <1>2, <1>3, SublistOnce
<1> QED
  BY <1>4, <1>5, <1>6, <1>7

-----------------------------------------------------------------------------
(* The tree: a root, and what stands in it or not.                         *)
TreeOK ==
    /\ parent \in [Nodes -> {None, Root}] /\ parent[Root] = None
    /\ Root \in Nodes /\ None \notin Nodes

LEMMA PathIs ==
    ASSUME TreeOK, NEW node \in Nodes
    PROVE  Path(node) = IF parent[node] = None THEN <<node>> ELSE <<node, Root>>
<1> DEFINE F(up) == [n \in Nodes |-> <<n>> \o IF parent[n] = None THEN <<>> ELSE up[parent[n]]]
           way == [n \in Nodes |-> IF parent[n] = None THEN <<n>> ELSE <<n, Root>>]
           up == CHOOSE u : u = F(u)
<1>1. ASSUME NEW n \in Nodes PROVE <<n>> \o <<>> = <<n>> /\ <<n>> \o <<Root>> = <<n, Root>>
  <2>1. <<n>> \in Seq(Nodes) /\ <<Root>> \in Seq(Nodes)
    BY DEF TreeOK
  <2>2. <<n>> \o <<>> = <<n>>
    BY <2>1, ConcatEmptySeq
  <2> DEFINE both == <<n>> \o <<Root>>
  <2>3. both \in Seq(Nodes) /\ Len(both) = 2 /\ both[1] = n /\ both[2] = Root
    BY <2>1, ConcatProperties
  <2> HIDE DEF both
  <2>4. both = <<n, Root>>
    BY <2>3
  <2> QED
    BY <2>2, <2>4 DEF both
<1>2. way = F(way)
  <2>1. ASSUME NEW n \in Nodes PROVE way[n] = <<n>> \o IF parent[n] = None THEN <<>> ELSE way[parent[n]]
    <3>1. CASE parent[n] = None
      BY <1>1, <3>1
    <3>2. CASE parent[n] # None
      <4>1. parent[n] = Root /\ way[Root] = <<Root>>
        BY <3>2 DEF TreeOK
      <4> QED
        BY <1>1, <3>2, <4>1
    <3> QED
      BY <3>1, <3>2
  <2> QED
    BY <2>1, Zenon
<1>3. up = F(up)
  <2> HIDE DEF way, F
  <2> QED
    BY <1>2
<1>4. \A n \in Nodes : up[n] = <<n>> \o IF parent[n] = None THEN <<>> ELSE up[parent[n]]
  <2> HIDE DEF up
  <2> QED
    BY <1>3, Zenon
<1>5. Path(node) = up[node]
  BY DEF Path
<1> HIDE DEF up
<1>6. \A n \in Nodes : parent[n] = None => up[n] = <<n>>
  BY <1>1, <1>4
<1>7. up[Root] = <<Root>>
  BY <1>6 DEF TreeOK
<1>8. CASE parent[node] = None
  BY <1>5, <1>6, <1>8
<1>9. CASE parent[node] # None
  <2>1. parent[node] = Root
    BY <1>9 DEF TreeOK
  <2> QED
    BY <1>1, <1>4, <1>5, <1>7, <1>9, <2>1
<1> QED
  BY <1>8, <1>9

LEMMA PathOK ==
    ASSUME TreeOK, NEW node \in Nodes, NEW path, path = Path(node)
    PROVE  path \in Seq(Nodes) /\ Len(path) \in 1..2 /\ path[1] = node
<1>1. path = IF parent[node] = None THEN <<node>> ELSE <<node, Root>>
  BY PathIs
<1> QED
  BY <1>1 DEF TreeOK

-----------------------------------------------------------------------------
(* Who is told of a change.                                                *)
Registrations == [mo : Observers, options : Options]
RegistryOK == registry \in [Nodes -> Seq(Registrations)]

LEMMA RegistrationsAre ==
    ASSUME RegistryOK, NEW node \in Nodes, NEW target, NEW type, NEW y
    PROVE  /\ RegistrationsOn(node, target, type) \in Seq(Registrations)
           /\ Contains(RegistrationsOn(node, target, type), y) <=>
                 Contains(registry[node], y) /\ (node = target \/ y.options.subtree) /\ type \in y.options.types
<1> DEFINE list == registry[node]
           S == {i \in DOMAIN list : (node = target \/ list[i].options.subtree) /\ type \in list[i].options.types}
           N == Len(list)
<1>1. list \in Seq(Registrations) /\ N \in Nat /\ DOMAIN list = 1..N /\ N \in 0..Len(list)
  BY DEF RegistryOK
<1>2. RegistrationsOn(node, target, type) = SublistUpTo(list, S)[N]
  BY DEF RegistrationsOn, Sublist
<1>3. Taken(list, S, N, y) <=> Contains(list, y) /\ (node = target \/ y.options.subtree) /\ type \in y.options.types
  BY <1>1 DEF Taken, Contains
<1> HIDE DEF list, S, N
<1>4. SublistUpTo(list, S)[N] \in Seq(Registrations) /\ (Contains(SublistUpTo(list, S)[N], y) <=> Taken(list, S, N, y))
  BY <1>1, SublistHas
<1> QED
  BY <1>2, <1>3, <1>4 DEF list

Join(path, target, type, sofar, n) == sofar \o RegistrationsOn(path[n], target, type)

LEMMA FoundUpToIs ==
    ASSUME NEW path \in Seq(Nodes), NEW target, NEW type
    PROVE  /\ FoundUpTo(path, target, type)[0] = <<>>
           /\ \A n \in 1..Len(path) : FoundUpTo(path, target, type)[n] =
                 Join(path, target, type, FoundUpTo(path, target, type)[n - 1], n)
<1> DEFINE N == Len(path)
           Upto(g, n) == g[0] = <<>> /\ \A i \in 1..n : g[i] = Join(path, target, type, g[i - 1], i)
           P == {n \in Nat : \E g : Upto(g, n)}
<1>1. 0 \in P
  <2>1. Upto([i \in {0} |-> <<>>], 0)
    OBVIOUS
  <2> QED
    BY <2>1
<1>2. ASSUME NEW n \in Nat, n \in P PROVE n + 1 \in P
  <2>1. PICK g : Upto(g, n)
    BY <1>2
  <2> DEFINE h == [i \in 0..(n + 1) |-> IF i = n + 1 THEN Join(path, target, type, g[n], n + 1) ELSE g[i]]
  <2>2. h[0] = <<>> /\ h[n + 1] = Join(path, target, type, g[n], n + 1) /\ \A i \in 0..n : h[i] = g[i]
    BY <2>1
  <2> HIDE DEF h
  <2>3. ASSUME NEW i \in 1..(n + 1) PROVE h[i] = Join(path, target, type, h[i - 1], i)
    <3>1. CASE i = n + 1
      <4>1. i - 1 = n /\ n \in 0..n
        BY <3>1
      <4> QED
        BY <2>2, <3>1, <4>1
    <3>2. CASE i # n + 1
      <4>1. i \in 1..n /\ i \in 0..n /\ i - 1 \in 0..n
        BY <3>2
      <4> QED
        BY <2>1, <2>2, <4>1
    <3> QED
      BY <3>1, <3>2
  <2> QED
    BY <2>2, <2>3
<1>3. N \in Nat
  OBVIOUS
<1>4. PICK g : Upto(g, N)
  <2> HIDE DEF P
  <2>1. N \in P
    BY <1>1, <1>2, <1>3, Induct
  <2> QED
    BY <2>1 DEF P
<1> DEFINE h == [i \in 0..N |-> g[i]]
           F(f) == [n \in 0..N |-> IF n = 0 THEN <<>> ELSE Join(path, target, type, f[n - 1], n)]
<1>5. h = F(h)
  <2>1. ASSUME NEW n \in 0..N PROVE h[n] = IF n = 0 THEN <<>> ELSE Join(path, target, type, h[n - 1], n)
    <3>1. CASE n = 0
      BY <1>4, <3>1
    <3>2. CASE n # 0
      <4>1. n \in 1..N /\ n - 1 \in 0..N
        BY <3>2
      <4> QED
        BY <1>4, <3>2, <4>1
    <3> QED
      BY <3>1, <3>2
  <2> QED
    BY <2>1, Zenon
<1> DEFINE found == FoundUpTo(path, target, type)
<1>6. found = CHOOSE f : f = F(f)
  BY DEF FoundUpTo, Join
<1>7. found = F(found)
  <2> HIDE DEF h, F, found
  <2> QED
    BY <1>5, <1>6
<1> HIDE DEF found
<1>8. ASSUME NEW n \in 0..N PROVE found[n] = IF n = 0 THEN <<>> ELSE Join(path, target, type, found[n - 1], n)
  BY <1>7, Zenon
<1>9. found[0] = <<>> /\ \A n \in 1..N : found[n] = Join(path, target, type, found[n - 1], n)
  BY <1>3, <1>8
<1> QED
  BY <1>9 DEF found

LEMMA FoundHas ==
    ASSUME RegistryOK, NEW path \in Seq(Nodes), Len(path) \in 1..2, NEW target, NEW type,
           NEW found, found = FoundUpTo(path, target, type)[Len(path)], NEW y
    PROVE  /\ found \in Seq(Registrations)
           /\ Contains(found, y) <=> \E k \in 1..Len(path) : Contains(RegistrationsOn(path[k], target, type), y)
<1> DEFINE upTo == FoundUpTo(path, target, type)
           On(k) == RegistrationsOn(path[k], target, type)
<1>1. upTo[0] = <<>> /\ upTo[1] = upTo[0] \o On(1) /\ (Len(path) = 2 => upTo[2] = upTo[1] \o On(2))
  <2>1. upTo[0] = <<>> /\ \A n \in 1..Len(path) : upTo[n] = Join(path, target, type, upTo[n - 1], n)
    BY FoundUpToIs
  <2> HIDE DEF upTo
  <2>2. /\ upTo[1] = Join(path, target, type, upTo[0], 1)
        /\ Len(path) = 2 => upTo[2] = Join(path, target, type, upTo[1], 2)
    BY <2>1
  <2> QED
    BY <2>1, <2>2, Zenon DEF Join
<1>2. ASSUME NEW k \in 1..Len(path) PROVE On(k) \in Seq(Registrations)
  <2>1. path[k] \in Nodes
    OBVIOUS
  <2> QED
    BY <2>1, RegistrationsAre
<1>3. found = upTo[Len(path)]
  OBVIOUS
<1> DEFINE first == On(1)
           second == On(2)
           one == upTo[1]
           two == upTo[2]
<1>4. first \in Seq(Registrations) /\ one = first
  <2>1. first \in Seq(Registrations) /\ one = <<>> \o first
    BY <1>1, <1>2
  <2> HIDE DEF first, one
  <2> QED
    BY <2>1, ConcatEmptySeq
<1>5. Len(path) = 2 => second \in Seq(Registrations) /\ two = one \o second
  BY <1>1, <1>2
<1>6. CASE Len(path) = 1
  <2>1. found = first
    BY <1>3, <1>4, <1>6
  <2>2. \A k \in 1..Len(path) : k = 1
    BY <1>6
  <2> HIDE DEF upTo
  <2> QED
    BY <1>4, <1>6, <2>1, <2>2
<1>7. CASE Len(path) = 2
  <2>1. found = first \o second /\ first \in Seq(Registrations) /\ second \in Seq(Registrations)
    BY <1>3, <1>4, <1>5, <1>7
  <2>2. (\E k \in 1..Len(path) : Contains(On(k), y)) <=> Contains(first, y) \/ Contains(second, y)
    BY <1>7
  <2> HIDE DEF first, second, On
  <2>3. found \in Seq(Registrations)
    BY <2>1, ConcatProperties
  <2>4. Contains(found, y) <=> Contains(first, y) \/ Contains(second, y)
    BY <2>1, ContainsConcat
  <2> QED
    BY <2>2, <2>3, <2>4 DEF On
<1> QED
  BY <1>6, <1>7

LEMMA NotifiedIs ==
    ASSUME TreeOK, RegistryOK, NEW target \in Nodes, NEW type, NEW told, told = Notified(target, type)
    PROVE  /\ told \in Seq(Observers) /\ IsInjective(told)
           /\ \A mo \in Observers : Contains(told, mo) <=> HasToHear(mo, target, type)
<1> DEFINE path == Path(target)
           found == FoundUpTo(path, target, type)[Len(path)]
           all == [i \in DOMAIN found |-> found[i].mo]
           On(k) == RegistrationsOn(path[k], target, type)
<1>1. path \in Seq(Nodes) /\ Len(path) \in 1..2 /\ DOMAIN path = 1..Len(path)
  BY PathOK
<1>2. told = FirstOfEach(all)
  BY DEF Notified
<1> HIDE DEF path
<1>3. found \in Seq(Registrations) /\ \A y : Contains(found, y) <=> \E k \in 1..Len(path) : Contains(On(k), y)
  <2> HIDE DEF found, On
  <2>1. found = FoundUpTo(path, target, type)[Len(path)]
    BY DEF found
  <2>2. found \in Seq(Registrations)
    BY <1>1, <2>1, FoundHas
  <2>3. ASSUME NEW y PROVE Contains(found, y) <=> \E k \in 1..Len(path) : Contains(On(k), y)
    BY <1>1, <2>1, FoundHas DEF On
  <2> QED
    BY <2>2, <2>3
<1> HIDE DEF found, On
<1>4. all \in Seq(Observers) /\ Len(all) = Len(found) /\ \A i \in 1..Len(found) : all[i] = found[i].mo
  <2>1. Len(found) \in Nat /\ DOMAIN found = 1..Len(found)
    BY <1>3
  <2>2. \A i \in 1..Len(found) : found[i].mo \in Observers
    <3>1. found \in Seq(Registrations)
      BY <1>3
    <3>2. ASSUME NEW i \in 1..Len(found) PROVE found[i].mo \in Observers
      <4>1. found[i] \in Registrations
        BY <3>1, ElementOfSeq
      <4> QED
        BY <4>1 DEF Registrations
    <3> QED
      BY <3>2
  <2>3. all \in [1..Len(found) -> Observers]
    BY <2>1, <2>2
  <2> QED
    BY <2>1, <2>3
<1> HIDE DEF all
<1>5. told \in Seq(Observers) /\ IsInjective(told) /\ \A y : Contains(told, y) <=> Contains(all, y)
  BY <1>2, <1>4, FirstOfEachIs
<1>6. ASSUME NEW mo \in Observers, Contains(all, mo) PROVE HasToHear(mo, target, type)
  <2>1. PICK i \in 1..Len(found) : found[i].mo = mo
    BY <1>4, <1>6 DEF Contains
  <2>2. found[i] \in Registrations /\ Contains(found, found[i])
    BY <1>3, <2>1 DEF Contains
  <2> DEFINE o == found[i].options
  <2>3. found[i] = [mo |-> mo, options |-> o] /\ o \in Options
    BY <2>1, <2>2 DEF Registrations
  <2>4. PICK k \in 1..Len(path) : Contains(On(k), found[i])
    BY <1>3, <2>2
  <2>5. path[k] \in Nodes /\ path[k] \in Range(path)
    BY <1>1 DEF Range
  <2>6. Contains(registry[path[k]], found[i]) /\ (path[k] = target \/ o.subtree) /\ type \in o.types
    BY <2>4, <2>5, RegistrationsAre DEF On
  <2> HIDE DEF o
  <2> QED
    BY <2>3, <2>5, <2>6, Zenon DEF HasToHear, path
<1>7. ASSUME NEW mo \in Observers, HasToHear(mo, target, type) PROVE Contains(all, mo)
  <2>1. PICK n \in Range(path), o \in Options :
           Contains(registry[n], [mo |-> mo, options |-> o]) /\ type \in o.types /\ (n = target \/ o.subtree)
    BY <1>7, Zenon DEF HasToHear, path
  <2> DEFINE y == [mo |-> mo, options |-> o]
  <2>2. PICK k \in 1..Len(path) : path[k] = n
    BY <1>1 DEF Range
  <2>3. n \in Nodes /\ y.options = o /\ y.mo = mo
    BY <1>1, <2>2
  <2>4. Contains(registry[n], y)
    BY <2>1
  <2> HIDE DEF y
  <2>5. Contains(On(k), y)
    BY <2>1, <2>2, <2>3, <2>4, RegistrationsAre DEF On
  <2>6. Contains(found, y)
    BY <1>3, <2>5
  <2>7. PICK i \in 1..Len(found) : found[i] = y
    BY <2>6 DEF Contains
  <2> QED
    BY <1>4, <2>3, <2>7 DEF Contains
<1> QED
  BY <1>5, <1>6, <1>7

-----------------------------------------------------------------------------
(* Observers: what the queues hold, and who comes to them.                 *)
Flushes == [rest : Seq(Observers), calling : Observers \cup {None}]

QueuesOK ==
    /\ records \in [Observers -> Seq(Nat)] /\ due \in [Observers -> Seq(Nat)] /\ got \in [Observers -> Seq(Nat)]
    /\ changes \in Nat
    /\ pending \in Seq(Observers) /\ IsInjective(pending)
    /\ flushes \in Seq(Flushes)
    /\ \A mo \in Observers : \A i \in 1..Len(records[mo]) : records[mo][i] \in 1..changes

ObserversOK == TreeOK /\ RegistryOK /\ QueuesOK /\ EachChangeOnce /\ NothingForgotten

Awaited(mo) == Contains(pending, mo) \/ \E f \in Range(flushes) : Contains(f.rest, mo)

LEMMA PendingWithout ==
    ASSUME QueuesOK, NEW mo \in Observers, NEW rest, rest = RemovePending(mo)
    PROVE  /\ rest \in Seq(Observers) /\ IsInjective(rest)
           /\ \A o \in Observers : Contains(rest, o) <=> Contains(pending, o) /\ o # mo
<1> DEFINE S == {i \in DOMAIN pending : pending[i] # mo}
           N == Len(pending)
<1>1. pending \in Seq(Observers) /\ IsInjective(pending) /\ N \in Nat /\ DOMAIN pending = 1..N /\ N \in 0..Len(pending)
  BY DEF QueuesOK
<1>2. rest = Sublist(pending, S) /\ rest = SublistUpTo(pending, S)[N]
  BY DEF RemovePending, Sublist
<1>3. OnceIn(pending, S)
  BY <1>1 DEF OnceIn, IsInjective
<1>4. ASSUME NEW o \in Observers PROVE Taken(pending, S, N, o) <=> Contains(pending, o) /\ o # mo
  BY <1>1 DEF Taken, Contains
<1> HIDE DEF S, N
<1>5. rest \in Seq(Observers)
  BY <1>1, <1>2, SublistHas
<1>6. ASSUME NEW o \in Observers PROVE Contains(rest, o) <=> Taken(pending, S, N, o)
  BY <1>1, <1>2, SublistHas
<1>7. IsInjective(rest)
  BY <1>1, <1>2, <1>3, SublistOnce
<1> QED
  BY <1>4, <1>5, <1>6, <1>7

LEMMA PendingMore ==
    ASSUME QueuesOK, NEW told \in Seq(Observers), IsInjective(told), NEW all, all = EnqueuePending(told)
    PROVE  /\ all \in Seq(Observers) /\ IsInjective(all)
           /\ \A o \in Observers : Contains(all, o) <=> Contains(pending, o) \/ Contains(told, o)
<1> DEFINE S == {i \in DOMAIN told : ~Contains(pending, told[i])}
           N == Len(told)
           new == Sublist(told, S)
<1>1. told \in Seq(Observers) /\ N \in Nat /\ DOMAIN told = 1..N /\ N \in 0..Len(told)
  OBVIOUS
<1>2. all = pending \o new /\ new = SublistUpTo(told, S)[N]
  BY DEF EnqueuePending, Sublist
<1>3. OnceIn(told, S)
  BY <1>1 DEF OnceIn, IsInjective
<1>4. ASSUME NEW o \in Observers PROVE Taken(told, S, N, o) <=> Contains(told, o) /\ ~Contains(pending, o)
  BY <1>1 DEF Taken, Contains
<1>5. new = Sublist(told, S)
  OBVIOUS
<1> HIDE DEF S, N, new
<1>6. new \in Seq(Observers)
  BY <1>1, <1>2, SublistHas
<1>7. ASSUME NEW o \in Observers PROVE Contains(new, o) <=> Taken(told, S, N, o)
  BY <1>1, <1>2, SublistHas
<1>8. IsInjective(new)
  BY <1>1, <1>3, <1>5, SublistOnce
<1>9. pending \in Seq(Observers) /\ IsInjective(pending)
  BY DEF QueuesOK
<1>10. all \in Seq(Observers) /\ Len(all) = Len(pending) + Len(new)
       /\ (\A i \in 1..Len(pending) : all[i] = pending[i]) /\ (\A i \in 1..Len(new) : all[Len(pending) + i] = new[i])
  BY <1>2, <1>6, <1>9, ConcatProperties
<1>11. ASSUME NEW o \in Observers PROVE Contains(all, o) <=> Contains(pending, o) \/ Contains(new, o)
  BY <1>2, <1>6, <1>9, ContainsConcat
<1>12. IsInjective(all)
  <2>1. \A i \in 1..Len(pending), j \in 1..Len(new) : pending[i] # new[j]
    <3>1. \A j \in 1..Len(new) : new[j] \in Observers /\ Contains(new, new[j])
      BY <1>6 DEF Contains
    <3>2. \A j \in 1..Len(new) : ~Contains(pending, new[j])
      BY <1>4, <1>7, <3>1
    <3> QED
      BY <3>2 DEF Contains
  <2> DEFINE n == Len(pending)
  <2>2. n \in Nat /\ Len(new) \in Nat /\ DOMAIN all = 1..(n + Len(new)) /\ DOMAIN pending = 1..n /\ DOMAIN new = 1..Len(new)
    BY <1>6, <1>9, <1>10
  <2>3. ASSUME NEW i \in 1..(n + Len(new)), NEW j \in 1..(n + Len(new)), all[i] = all[j], i < j PROVE FALSE
    <3>1. CASE j <= n
      <4>1. i \in 1..n /\ j \in 1..n
        BY <2>2, <2>3, <3>1
      <4>2. pending[i] = pending[j] /\ i \in DOMAIN pending /\ j \in DOMAIN pending
        <5>1. \A k \in 1..n : all[k] = pending[k]
          BY <1>10
        <5>2. all[i] = pending[i] /\ all[j] = pending[j]
          BY <4>1, <5>1
        <5>3. DOMAIN pending = 1..n
          BY <2>2
        <5> HIDE DEF n
        <5> QED
          BY <2>3, <4>1, <5>2, <5>3
      <4>3. i = j
        BY <1>9, <4>2, Zenon DEF IsInjective
      <4> QED
        BY <2>3, <4>3
    <3>2. CASE i <= n /\ j > n
      <4>1. i \in 1..n /\ j - n \in 1..Len(new) /\ n + (j - n) = j
        BY <2>2, <3>2
      <4>2. all[i] = pending[i]
        BY <1>10, <4>1
      <4>3. all[n + (j - n)] = new[j - n]
        BY <1>10, <4>1
      <4>4. all[j] = new[j - n]
        BY <4>1, <4>3
      <4> QED
        BY <2>1, <2>3, <4>1, <4>2, <4>4
    <3>3. CASE i > n
      <4>1. i - n \in 1..Len(new) /\ j - n \in 1..Len(new) /\ n + (j - n) = j /\ n + (i - n) = i /\ i - n # j - n
        BY <2>2, <2>3, <3>3
      <4> DEFINE a == i - n
                 b == j - n
      <4>2. a \in DOMAIN new /\ b \in DOMAIN new /\ a # b /\ new[a] = new[b]
        BY <1>10, <2>2, <2>3, <4>1
      <4> HIDE DEF a, b
      <4> QED
        BY <1>8, <4>2 DEF IsInjective
    <3> QED
      BY <2>2, <3>1, <3>2, <3>3
  <2> HIDE DEF n
  <2>4. \A i, j \in 1..(n + Len(new)) : all[i] = all[j] => i = j
    BY <2>2, <2>3
  <2> QED
    BY <2>2, <2>4 DEF IsInjective
<1> QED
  BY <1>4, <1>7, <1>10, <1>11, <1>12

-----------------------------------------------------------------------------
(* What each step does to them.                                            *)
LEMMA RegistryWithout ==
    ASSUME NEW list \in Seq(Registrations), NEW mo
    PROVE  Unregistered(list, mo) \in Seq(Registrations)
<1>1. Unregistered(list, mo) = SublistUpTo(list, {i \in DOMAIN list : list[i].mo # mo})[Len(list)]
  BY DEF Unregistered, Sublist
<1> DEFINE S == {i \in DOMAIN list : list[i].mo # mo}
<1>2. Len(list) \in 0..Len(list)
  OBVIOUS
<1> HIDE DEF S
<1>3. SublistUpTo(list, S)[Len(list)] \in Seq(Registrations)
  BY <1>2, SublistHas
<1> QED
  BY <1>1, <1>3 DEF S

LEMMA ObserveKeeps ==
    ASSUME ObserversOK, NEW mo \in Observers, NEW node \in Nodes, NEW o \in Options, Observe(mo, node, o), UNCHANGED parent
    PROVE  ObserversOK'
<1> DEFINE list == registry[node]
           entry == [mo |-> mo, options |-> o]
           new == IF \E i \in DOMAIN list : list[i].mo = mo
                  THEN [i \in DOMAIN list |-> IF list[i].mo = mo THEN entry ELSE list[i]]
                  ELSE Append(list, entry)
<1>1. list \in Seq(Registrations) /\ entry \in Registrations
  BY DEF ObserversOK, RegistryOK, Registrations
<1>2. registry' = [registry EXCEPT ![node] = new]
  BY DEF Observe
<1>3. new \in Seq(Registrations)
  <2> HIDE DEF list, entry
  <2>1. Len(list) \in Nat /\ DOMAIN list = 1..Len(list) /\ \A i \in 1..Len(list) : list[i] \in Registrations
    BY <1>1
  <2> DEFINE changed == [i \in DOMAIN list |-> IF list[i].mo = mo THEN entry ELSE list[i]]
  <2>2. changed \in [1..Len(list) -> Registrations]
    BY <1>1, <2>1
  <2>3. changed \in Seq(Registrations)
    <3> HIDE DEF changed
    <3> QED
      BY <2>1, <2>2
  <2>4. Append(list, entry) \in Seq(Registrations)
    BY <1>1
  <2> HIDE DEF changed
  <2> QED
    BY <2>3, <2>4 DEF changed
<1> HIDE DEF new
<1>4. RegistryOK'
  BY <1>2, <1>3 DEF ObserversOK, RegistryOK
<1>5. UNCHANGED <<parent, records, pending, flushes, changes, due, got>>
  BY DEF Observe
<1> QED
  BY <1>4, <1>5 DEF ObserversOK, TreeOK, QueuesOK, EachChangeOnce, NothingForgotten

LEMMA DisconnectKeeps ==
    ASSUME ObserversOK, NEW mo \in Observers, Disconnect(mo), UNCHANGED parent
    PROVE  ObserversOK'
<1>1. /\ registry' = [n \in Nodes |-> Unregistered(registry[n], mo)]
      /\ records' = [records EXCEPT ![mo] = <<>>] /\ pending' = RemovePending(mo)
      /\ due' = [due EXCEPT ![mo] = got[mo]] /\ UNCHANGED <<flushes, changes, got>>
  BY DEF Disconnect
<1>2. QueuesOK /\ RegistryOK
  BY DEF ObserversOK
<1>3. RegistryOK'
  <2>1. \A n \in Nodes : Unregistered(registry[n], mo) \in Seq(Registrations)
    BY <1>2, RegistryWithout DEF RegistryOK
  <2> QED
    BY <1>1, <2>1 DEF RegistryOK
<1>4. /\ pending' \in Seq(Observers) /\ IsInjective(pending')
      /\ \A o \in Observers : Contains(pending', o) <=> Contains(pending, o) /\ o # mo
  BY <1>1, <1>2, PendingWithout
<1>5. /\ records' \in [Observers -> Seq(Nat)] /\ due' \in [Observers -> Seq(Nat)] /\ got' \in [Observers -> Seq(Nat)]
      /\ records'[mo] = <<>> /\ due'[mo] = got'[mo]
      /\ \A o \in Observers : o # mo => records'[o] = records[o] /\ due'[o] = due[o] /\ got'[o] = got[o]
  BY <1>1, <1>2 DEF QueuesOK
<1>6. QueuesOK'
  BY <1>1, <1>2, <1>4, <1>5 DEF QueuesOK
<1>7. EachChangeOnce'
  <2>1. got'[mo] \o <<>> = got'[mo]
    BY <1>5, ConcatEmptySeq
  <2>2. \A o \in Observers : due'[o] = got'[o] \o records'[o]
    BY <1>5, <2>1 DEF ObserversOK, EachChangeOnce
  <2> QED
    BY <2>2 DEF EachChangeOnce
<1>8. NothingForgotten'
  <2>1. \A o \in Observers : records[o] # <<>> => Awaited(o)
    BY DEF ObserversOK, NothingForgotten, Awaited
  <2>2. \A o \in Observers : records'[o] # <<>> => Awaited(o)'
    BY <1>1, <1>4, <1>5, <2>1 DEF Awaited
  <2> QED
    BY <2>2 DEF NothingForgotten, Awaited
<1> QED
  BY <1>3, <1>6, <1>7, <1>8 DEF ObserversOK, TreeOK

(* The records that are read are those still due.                          *)
LEMMA RecordsRead ==
    ASSUME QueuesOK, NEW mo \in Observers, NEW all \in Seq(Nat), all = due[mo],
           got' = [got EXCEPT ![mo] = all], records' = [records EXCEPT ![mo] = <<>>], due' = due
    PROVE  /\ records' \in [Observers -> Seq(Nat)] /\ due' \in [Observers -> Seq(Nat)] /\ got' \in [Observers -> Seq(Nat)]
           /\ records'[mo] = <<>> /\ got'[mo] = due'[mo]
           /\ \A o \in Observers : o # mo => records'[o] = records[o] /\ due'[o] = due[o] /\ got'[o] = got[o]
<1>1. /\ records \in [Observers -> Seq(Nat)] /\ due \in [Observers -> Seq(Nat)] /\ got \in [Observers -> Seq(Nat)]
  BY DEF QueuesOK
<1>2. <<>> \in Seq(Nat)
  OBVIOUS
<1>3. records' \in [Observers -> Seq(Nat)] /\ records'[mo] = <<>> /\ \A o \in Observers : o # mo => records'[o] = records[o]
  BY <1>1, <1>2
<1>4. got' \in [Observers -> Seq(Nat)] /\ got'[mo] = all /\ \A o \in Observers : o # mo => got'[o] = got[o]
  BY <1>1
<1> QED
  BY <1>1, <1>3, <1>4

LEMMA TakeRecordsKeeps ==
    ASSUME ObserversOK, NEW mo \in Observers, TakeRecords(mo), UNCHANGED parent
    PROVE  ObserversOK'
<1>1. /\ got' = [got EXCEPT ![mo] = got[mo] \o records[mo]]
      /\ records' = [records EXCEPT ![mo] = <<>>] /\ pending' = RemovePending(mo)
      /\ UNCHANGED <<registry, flushes, changes, due>>
  BY DEF TakeRecords, ObserversOK, QueuesOK
<1>2. QueuesOK /\ RegistryOK
  BY DEF ObserversOK
<1>3. /\ pending' \in Seq(Observers) /\ IsInjective(pending')
      /\ \A o \in Observers : Contains(pending', o) <=> Contains(pending, o) /\ o # mo
  BY <1>1, <1>2, PendingWithout
<1> DEFINE all == got[mo] \o records[mo]
<1>4. all \in Seq(Nat) /\ all = due[mo] /\ due[mo] \o <<>> = due[mo]
  BY <1>2 DEF QueuesOK, ObserversOK, EachChangeOnce
<1>5. got' = [got EXCEPT ![mo] = all]
  BY <1>1
<1> HIDE DEF all
<1>6. /\ records' \in [Observers -> Seq(Nat)] /\ due' \in [Observers -> Seq(Nat)] /\ got' \in [Observers -> Seq(Nat)]
      /\ records'[mo] = <<>> /\ got'[mo] = due'[mo]
      /\ \A o \in Observers : o # mo => records'[o] = records[o] /\ due'[o] = due[o] /\ got'[o] = got[o]
  BY <1>1, <1>2, <1>4, <1>5, RecordsRead
<1>7. QueuesOK'
  BY <1>1, <1>2, <1>3, <1>6 DEF QueuesOK
<1>8. EachChangeOnce'
  <2>1. due'[mo] = got'[mo] \o records'[mo]
    BY <1>1, <1>4, <1>6
  <2>2. \A o \in Observers : due'[o] = got'[o] \o records'[o]
    BY <1>6, <2>1 DEF ObserversOK, EachChangeOnce
  <2> QED
    BY <2>2 DEF EachChangeOnce
<1>9. NothingForgotten'
  <2>1. \A o \in Observers : records[o] # <<>> => Awaited(o)
    BY DEF ObserversOK, NothingForgotten, Awaited
  <2>2. \A o \in Observers : records'[o] # <<>> => Awaited(o)'
    BY <1>1, <1>3, <1>6, <2>1 DEF Awaited
  <2> QED
    BY <2>2 DEF NothingForgotten, Awaited
<1> QED
  BY <1>1, <1>2, <1>7, <1>8, <1>9 DEF ObserversOK, TreeOK, RegistryOK

LEMMA NotifyKeeps ==
    ASSUME ObserversOK, NEW target \in Nodes, NEW type, Notify(target, type), TreeOK'
    PROVE  ObserversOK'
<1> DEFINE told == Notified(target, type)
           next == changes + 1
<1>1. /\ changes' = next
      /\ records' = [mo \in Observers |-> IF Contains(told, mo) THEN Append(records[mo], next) ELSE records[mo]]
      /\ pending' = EnqueuePending(told)
      /\ due' = [mo \in Observers |-> IF HasToHear(mo, target, type) THEN Append(due[mo], next) ELSE due[mo]]
      /\ UNCHANGED <<registry, flushes, got>>
  BY DEF Notify
<1>2. QueuesOK /\ RegistryOK /\ TreeOK
  BY DEF ObserversOK
<1>3. /\ told \in Seq(Observers) /\ IsInjective(told)
      /\ \A mo \in Observers : Contains(told, mo) <=> HasToHear(mo, target, type)
  <2>1. told = Notified(target, type)
    OBVIOUS
  <2> HIDE DEF told
  <2> QED
    BY <1>2, <2>1, NotifiedIs
<1> HIDE DEF told
<1>4. /\ pending' \in Seq(Observers) /\ IsInjective(pending')
      /\ \A o \in Observers : Contains(pending', o) <=> Contains(pending, o) \/ Contains(told, o)
  BY <1>1, <1>2, <1>3, PendingMore
<1>5. next \in Nat /\ changes \in Nat /\ changes < next
  BY <1>2 DEF QueuesOK
<1>6. ASSUME NEW mo \in Observers
      PROVE  /\ records'[mo] = IF Contains(told, mo) THEN Append(records[mo], next) ELSE records[mo]
             /\ due'[mo] = IF Contains(told, mo) THEN Append(due[mo], next) ELSE due[mo]
             /\ got'[mo] = got[mo]
  BY <1>1, <1>3
<1> HIDE DEF next
<1>7. ASSUME NEW mo \in Observers
      PROVE  /\ records[mo] \in Seq(Nat) /\ due[mo] \in Seq(Nat) /\ got[mo] \in Seq(Nat)
             /\ due[mo] = got[mo] \o records[mo]
             /\ \A i \in 1..Len(records[mo]) : records[mo][i] \in 1..changes
  BY <1>2 DEF QueuesOK, ObserversOK, EachChangeOnce
<1>8. /\ records' \in [Observers -> Seq(Nat)] /\ due' \in [Observers -> Seq(Nat)] /\ got' \in [Observers -> Seq(Nat)]
  <2>1. ASSUME NEW mo \in Observers
        PROVE  Append(records[mo], next) \in Seq(Nat) /\ Append(due[mo], next) \in Seq(Nat)
    <3>1. records[mo] \in Seq(Nat) /\ due[mo] \in Seq(Nat)
      BY <1>7
    <3> QED
      BY <1>5, <3>1
  <2> QED
    BY <1>1, <1>2, <1>7, <2>1 DEF QueuesOK
<1>9. ASSUME NEW mo \in Observers, NEW i \in 1..Len(records'[mo]) PROVE records'[mo][i] \in 1..next
  <2> DEFINE list == records[mo]
             more == Append(list, next)
  <2>1. list \in Seq(Nat) /\ \A k \in 1..Len(list) : list[k] \in 1..next
    <3>1. list \in Seq(Nat) /\ \A k \in 1..Len(list) : list[k] \in 1..changes
      BY <1>7
    <3>2. \A x \in 1..changes : x \in 1..next
      BY <1>5
    <3> QED
      BY <3>1, <3>2, Zenon
  <2>2. records'[mo] = more \/ records'[mo] = list
    BY <1>6
  <2> HIDE DEF list
  <2>3. \A k \in 1..Len(more) : more[k] \in 1..next
    BY <1>5, <2>1
  <2> HIDE DEF more
  <2> QED
    BY <1>9, <2>1, <2>2, <2>3
<1>10. QueuesOK'
  BY <1>1, <1>2, <1>4, <1>5, <1>8, <1>9 DEF QueuesOK
<1>11. ASSUME NEW mo \in Observers PROVE due'[mo] = got'[mo] \o records'[mo]
  <2> DEFINE d == due[mo]
             g == got[mo]
             r == records[mo]
  <2>1. r \in Seq(Nat) /\ g \in Seq(Nat) /\ d = g \o r
    BY <1>7
  <2>2. CASE Contains(told, mo)
    <3>1. due'[mo] = Append(d, next) /\ records'[mo] = Append(r, next) /\ got'[mo] = g
      BY <1>6, <2>2
    <3> HIDE DEF d, g, r
    <3>2. Append(g \o r, next) = g \o Append(r, next)
      <4>1. g \in Seq(Nat) /\ r \in Seq(Nat) /\ next \in Nat
        BY <1>5, <2>1
      <4>2. AppendLast(g, r, next)
        BY <4>1, AppendConcat
      <4> QED
        BY <4>2 DEF AppendLast
    <3> QED
      BY <2>1, <3>1, <3>2
  <2>3. CASE ~Contains(told, mo)
    BY <1>6, <2>1, <2>3
  <2> QED
    BY <2>2, <2>3
<1>12. NothingForgotten'
  <2>1. \A o \in Observers : records[o] # <<>> => Awaited(o)
    BY DEF ObserversOK, NothingForgotten, Awaited
  <2>2. \A o \in Observers : records'[o] # <<>> => Awaited(o)'
    BY <1>1, <1>4, <1>6, <2>1 DEF Awaited
  <2> QED
    BY <2>2 DEF NothingForgotten, Awaited
<1> QED
  BY <1>1, <1>2, <1>10, <1>11, <1>12 DEF ObserversOK, RegistryOK, EachChangeOnce

(* The flushes: what the innermost holds, and that others stay.            *)
LEMMA AwaitedIs ==
    ASSUME flushes \in Seq(Flushes), NEW o
    PROVE  Awaited(o) <=> Contains(pending, o) \/ \E i \in 1..Len(flushes) : Contains(flushes[i].rest, o)
<1>1. Range(flushes) = {flushes[i] : i \in 1..Len(flushes)}
  BY DEF Range
<1> QED
  BY <1>1 DEF Awaited

LEMMA LastFlushIs ==
    ASSUME flushes \in Seq(Flushes), flushes # <<>>
    PROVE  /\ Len(flushes) \in Nat \ {0} /\ LastFlush \in Flushes /\ LastFlush = flushes[Len(flushes)]
           /\ LastFlush.rest \in Seq(Observers)
<1>1. Len(flushes) \in Nat \ {0} /\ flushes[Len(flushes)] \in Flushes
  OBVIOUS
<1> QED
  BY <1>1 DEF LastFlush, Flushes

LEMMA SetFlushIs ==
    ASSUME flushes \in Seq(Flushes), flushes # <<>>, NEW f \in Flushes, SetFlush(f)
    PROVE  /\ flushes' \in Seq(Flushes) /\ Len(flushes') = Len(flushes) /\ flushes'[Len(flushes)] = f
           /\ \A i \in 1..Len(flushes) : i # Len(flushes) => flushes'[i] = flushes[i]
<1> DEFINE n == Len(flushes)
<1>1. n \in Nat \ {0} /\ DOMAIN flushes = 1..n /\ n \in 1..n
  OBVIOUS
<1>2. flushes' = [flushes EXCEPT ![n] = f]
  BY DEF SetFlush
<1>3. flushes' \in Seq(Flushes) /\ Len(flushes') = n
  BY <1>1, <1>2
<1> QED
  BY <1>1, <1>2, <1>3

(* What is waited for stays so when the tree, the registry and the queues  *)
(* do and the flushes go on.                                               *)
LEMMA FlushesKeep ==
    ASSUME ObserversOK, UNCHANGED <<parent, registry, records, changes, due, got>>,
           pending' \in Seq(Observers), IsInjective(pending'), flushes' \in Seq(Flushes),
           \A o \in Observers : records[o] # <<>> /\ Awaited(o) => Awaited(o)'
    PROVE  ObserversOK'
<1>1. QueuesOK'
  BY DEF ObserversOK, QueuesOK
<1>2. NothingForgotten'
  <2>1. \A o \in Observers : records'[o] # <<>> => Awaited(o)'
    BY DEF ObserversOK, NothingForgotten, Awaited
  <2> QED
    BY <2>1 DEF NothingForgotten, Awaited
<1> QED
  BY <1>1, <1>2 DEF ObserversOK, TreeOK, RegistryOK, EachChangeOnce

LEMMA NoneInEmpty == \A o : ~Contains(<<>>, o)
  BY DEF Contains

LEMMA FlushKeeps ==
    ASSUME ObserversOK, Flush, UNCHANGED parent
    PROVE  ObserversOK'
<1> DEFINE n == Len(flushes)
           f == [rest |-> pending, calling |-> None]
<1>1. /\ flushes \in Seq(Flushes) /\ pending \in Seq(Observers) /\ n \in Nat
      /\ flushes' = Append(flushes, f) /\ pending' = <<>> /\ UNCHANGED <<registry, records, changes, due, got>>
  BY DEF Flush, ObserversOK, QueuesOK
<1>2. f \in Flushes /\ f.rest = pending
  BY <1>1 DEF Flushes
<1> HIDE DEF f
<1>3. flushes' \in Seq(Flushes) /\ Len(flushes') = n + 1 /\ flushes'[n + 1] = f /\ \A i \in 1..n : flushes'[i] = flushes[i]
  BY <1>1, <1>2
<1>4. ASSUME NEW o \in Observers, Awaited(o) PROVE Awaited(o)'
  <2>1. Contains(pending, o) \/ \E i \in 1..n : Contains(flushes[i].rest, o)
    BY <1>1, <1>4, AwaitedIs
  <2>2. \E i \in 1..(n + 1) : Contains(flushes'[i].rest, o)
    BY <1>1, <1>2, <1>3, <2>1
  <2>3. \E g \in Range(flushes') : Contains(g.rest, o)
    BY <1>3, <2>2 DEF Range
  <2> QED
    BY <2>3 DEF Awaited
<1>5. pending' \in Seq(Observers) /\ IsInjective(pending')
  BY <1>1 DEF IsInjective
<1> QED
  BY <1>1, <1>3, <1>4, <1>5, FlushesKeep

LEMMA CallbackReturnsKeeps ==
    ASSUME ObserversOK, CallbackReturns, UNCHANGED parent
    PROVE  ObserversOK'
<1> DEFINE n == Len(flushes)
           f == [LastFlush EXCEPT !.calling = None]
<1>1. /\ flushes \in Seq(Flushes) /\ flushes # <<>> /\ SetFlush(f)
      /\ UNCHANGED <<registry, records, pending, changes, due, got>>
  BY DEF CallbackReturns, ObserversOK, QueuesOK
<1>2. n \in Nat \ {0} /\ LastFlush \in Flushes /\ LastFlush = flushes[n]
  BY <1>1, LastFlushIs
<1>3. f \in Flushes /\ f.rest = flushes[n].rest
  BY <1>2 DEF Flushes
<1> HIDE DEF f
<1>4. /\ flushes' \in Seq(Flushes) /\ Len(flushes') = n /\ flushes'[n] = f
      /\ \A i \in 1..n : i # n => flushes'[i] = flushes[i]
  BY <1>1, <1>3, SetFlushIs
<1>5. ASSUME NEW o \in Observers, Awaited(o) PROVE Awaited(o)'
  <2>1. Contains(pending, o) \/ \E i \in 1..n : Contains(flushes[i].rest, o)
    BY <1>1, <1>5, AwaitedIs
  <2>2. Contains(pending', o) \/ \E i \in 1..n : Contains(flushes'[i].rest, o)
    BY <1>1, <1>3, <1>4, <2>1
  <2>3. Contains(pending', o) \/ \E g \in Range(flushes') : Contains(g.rest, o)
    BY <1>4, <2>2 DEF Range
  <2> QED
    BY <2>3 DEF Awaited
<1>6. pending' \in Seq(Observers) /\ IsInjective(pending')
  BY <1>1 DEF ObserversOK, QueuesOK
<1> QED
  BY <1>1, <1>4, <1>5, <1>6, FlushesKeep

LEMMA NextBatchKeeps ==
    ASSUME ObserversOK, NextBatch, UNCHANGED parent
    PROVE  ObserversOK'
<1> DEFINE n == Len(flushes)
           f == [LastFlush EXCEPT !.rest = pending]
<1>1. /\ flushes \in Seq(Flushes) /\ flushes # <<>> /\ SetFlush(f) /\ LastFlush.rest = <<>>
      /\ pending' = <<>> /\ pending \in Seq(Observers) /\ UNCHANGED <<registry, records, changes, due, got>>
  BY DEF NextBatch, Flushing, ObserversOK, QueuesOK
<1>2. n \in Nat \ {0} /\ LastFlush \in Flushes /\ LastFlush = flushes[n]
  BY <1>1, LastFlushIs
<1>3. f \in Flushes /\ f.rest = pending /\ flushes[n].rest = <<>>
  BY <1>1, <1>2 DEF Flushes
<1> HIDE DEF f
<1>4. /\ flushes' \in Seq(Flushes) /\ Len(flushes') = n /\ flushes'[n] = f
      /\ \A i \in 1..n : i # n => flushes'[i] = flushes[i]
  BY <1>1, <1>3, SetFlushIs
<1>5. ASSUME NEW o \in Observers, Awaited(o) PROVE Awaited(o)'
  <2>1. Contains(pending, o) \/ \E i \in 1..n : Contains(flushes[i].rest, o)
    BY <1>1, <1>5, AwaitedIs
  <2>2. ~Contains(flushes[n].rest, o)
    BY <1>3, NoneInEmpty
  <2>3. \E i \in 1..n : Contains(flushes'[i].rest, o)
    BY <1>2, <1>3, <1>4, <2>1, <2>2
  <2>4. \E g \in Range(flushes') : Contains(g.rest, o)
    BY <1>4, <2>3 DEF Range
  <2> QED
    BY <2>4 DEF Awaited
<1>6. pending' \in Seq(Observers) /\ IsInjective(pending')
  BY <1>1 DEF IsInjective
<1> QED
  BY <1>1, <1>4, <1>5, <1>6, FlushesKeep

LEMMA FrontIs ==
    ASSUME NEW T, NEW s \in Seq(T), s # <<>>
    PROVE  /\ Front(s) \in Seq(T) /\ Len(Front(s)) = Len(s) - 1
           /\ \A i \in 1..(Len(s) - 1) : Front(s)[i] = s[i]
<1>1. Len(s) \in Nat \ {0} /\ \A i \in 1..Len(s) : s[i] \in T
  OBVIOUS
<1>2. Front(s) = [i \in 1..(Len(s) - 1) |-> s[i]]
  BY <1>1 DEF Front
<1> DEFINE f == [i \in 1..(Len(s) - 1) |-> s[i]]
<1>3. Len(s) - 1 \in Nat /\ f \in [1..(Len(s) - 1) -> T]
  BY <1>1
<1>4. f \in Seq(T) /\ Len(f) = Len(s) - 1
  <2> HIDE DEF f
  <2> QED
    BY <1>3
<1> QED
  BY <1>2, <1>4

LEMMA FlushReturnsKeeps ==
    ASSUME ObserversOK, FlushReturns, UNCHANGED parent
    PROVE  ObserversOK'
<1> DEFINE n == Len(flushes)
<1>1. /\ flushes \in Seq(Flushes) /\ flushes # <<>> /\ LastFlush.rest = <<>>
      /\ flushes' = Front(flushes) /\ UNCHANGED <<registry, records, pending, changes, due, got>>
  BY DEF FlushReturns, Flushing, ObserversOK, QueuesOK
<1>2. n \in Nat \ {0} /\ LastFlush \in Flushes /\ LastFlush = flushes[n]
  BY <1>1, LastFlushIs
<1>3. flushes' \in Seq(Flushes) /\ Len(flushes') = n - 1 /\ \A i \in 1..(n - 1) : flushes'[i] = flushes[i]
  BY <1>1, FrontIs
<1>4. ASSUME NEW o \in Observers, Awaited(o) PROVE Awaited(o)'
  <2>1. Contains(pending, o) \/ \E i \in 1..n : Contains(flushes[i].rest, o)
    BY <1>1, <1>4, AwaitedIs
  <2>2. ~Contains(flushes[n].rest, o)
    BY <1>1, <1>2, NoneInEmpty
  <2>3. Contains(pending', o) \/ \E i \in 1..(n - 1) : Contains(flushes'[i].rest, o)
    BY <1>1, <1>2, <1>3, <2>1, <2>2
  <2>4. Contains(pending', o) \/ \E g \in Range(flushes') : Contains(g.rest, o)
    BY <1>3, <2>3 DEF Range
  <2> QED
    BY <2>4 DEF Awaited
<1>5. pending' \in Seq(Observers) /\ IsInjective(pending')
  BY <1>1 DEF ObserversOK, QueuesOK
<1> QED
  BY <1>1, <1>3, <1>4, <1>5, FlushesKeep

LEMMA HeadOrTail ==
    ASSUME NEW T, NEW s \in Seq(T), s # <<>>, NEW o, Contains(s, o), o # Head(s)
    PROVE  Contains(Tail(s), o)
<1>1. PICK i \in 1..Len(s) : s[i] = o
  BY DEF Contains
<1>2. Len(s) \in Nat \ {0} /\ Head(s) = s[1] /\ Len(Tail(s)) = Len(s) - 1 /\ \A j \in 1..(Len(s) - 1) : Tail(s)[j] = s[j + 1]
  OBVIOUS
<1>3. i # 1
  BY <1>1, <1>2
<1>4. i - 1 \in 1..(Len(s) - 1) /\ (i - 1) + 1 = i
  BY <1>2, <1>3
<1>5. Tail(s)[i - 1] = o
  BY <1>1, <1>2, <1>4
<1> QED
  BY <1>2, <1>4, <1>5 DEF Contains

LEMMA DeliverKeeps ==
    ASSUME ObserversOK, Deliver, UNCHANGED parent
    PROVE  ObserversOK'
<1> DEFINE n == Len(flushes)
           rest == LastFlush.rest
           mo == Head(rest)
           who == IF records[mo] = <<>> THEN None ELSE mo
           f == [LastFlush EXCEPT !.rest = Tail(rest), !.calling = who]
<1>1. QueuesOK /\ RegistryOK /\ flushes \in Seq(Flushes) /\ flushes # <<>> /\ rest # <<>>
  BY DEF Deliver, Flushing, ObserversOK, QueuesOK
<1>2. n \in Nat \ {0} /\ LastFlush \in Flushes /\ LastFlush = flushes[n] /\ rest \in Seq(Observers)
  BY <1>1, LastFlushIs
<1>3. mo \in Observers /\ Tail(rest) \in Seq(Observers)
  <2> HIDE DEF rest
  <2> QED
    BY <1>1, <1>2
<1>4. /\ SetFlush(f) /\ got' = [got EXCEPT ![mo] = got[mo] \o records[mo]] /\ records' = [records EXCEPT ![mo] = <<>>]
      /\ UNCHANGED <<registry, pending, changes, due>>
  <2>1. got[mo] = got[mo] /\ DOMAIN got = Observers
    BY <1>1 DEF QueuesOK
  <2> QED
    BY <1>1, <1>2, <1>3, <2>1 DEF Deliver, Flushes
<1>5. f \in Flushes /\ f.rest = Tail(rest)
  BY <1>2, <1>3 DEF Flushes
<1>6. flushes[n].rest = rest
  BY <1>2
<1> HIDE DEF f, mo, rest
<1>7. /\ flushes' \in Seq(Flushes) /\ Len(flushes') = n /\ flushes'[n] = f
      /\ \A i \in 1..n : i # n => flushes'[i] = flushes[i]
  BY <1>1, <1>4, <1>5, SetFlushIs
<1> DEFINE all == got[mo] \o records[mo]
<1>8. all \in Seq(Nat) /\ all = due[mo] /\ due[mo] \o <<>> = due[mo]
  BY <1>1, <1>3 DEF QueuesOK, ObserversOK, EachChangeOnce
<1>9. got' = [got EXCEPT ![mo] = all]
  BY <1>4
<1> HIDE DEF all
<1>10. /\ records' \in [Observers -> Seq(Nat)] /\ due' \in [Observers -> Seq(Nat)] /\ got' \in [Observers -> Seq(Nat)]
       /\ records'[mo] = <<>> /\ got'[mo] = due'[mo]
       /\ \A o \in Observers : o # mo => records'[o] = records[o] /\ due'[o] = due[o] /\ got'[o] = got[o]
  BY <1>1, <1>3, <1>4, <1>8, <1>9, RecordsRead
<1>11. QueuesOK'
  BY <1>1, <1>4, <1>7, <1>10 DEF QueuesOK
<1>12. EachChangeOnce'
  <2>1. due'[mo] = got'[mo] \o records'[mo]
    BY <1>4, <1>8, <1>10
  <2>2. \A o \in Observers : due'[o] = got'[o] \o records'[o]
    BY <1>10, <2>1 DEF ObserversOK, EachChangeOnce
  <2> QED
    BY <2>2 DEF EachChangeOnce
<1>13. ASSUME NEW o \in Observers, o # mo, Awaited(o) PROVE Awaited(o)'
  <2>1. Contains(pending, o) \/ \E i \in 1..n : Contains(flushes[i].rest, o)
    BY <1>1, <1>13, AwaitedIs
  <2>2. Contains(flushes[n].rest, o) => Contains(f.rest, o)
    <3> SUFFICES ASSUME Contains(rest, o) PROVE Contains(Tail(rest), o)
      BY <1>5, <1>6
    <3> QED
      BY <1>1, <1>2, <1>13, HeadOrTail DEF mo
  <2>3. Contains(pending', o) \/ \E i \in 1..n : Contains(flushes'[i].rest, o)
    BY <1>4, <1>7, <2>1, <2>2
  <2>4. Contains(pending', o) \/ \E g \in Range(flushes') : Contains(g.rest, o)
    BY <1>7, <2>3 DEF Range
  <2> QED
    BY <2>4 DEF Awaited
<1>14. NothingForgotten'
  <2>1. \A o \in Observers : records'[o] # <<>> => Awaited(o)'
    BY <1>10, <1>13 DEF ObserversOK, NothingForgotten, Awaited
  <2> QED
    BY <2>1 DEF NothingForgotten, Awaited
<1> QED
  BY <1>1, <1>4, <1>11, <1>12, <1>14 DEF ObserversOK, TreeOK, RegistryOK

-----------------------------------------------------------------------------
LEMMA ObserversInitOK == CallbacksInit => ObserversOK
<1> SUFFICES ASSUME CallbacksInit PROVE ObserversOK
  OBVIOUS
<1>1. TreeOK
  BY CallbacksAssumption DEF CallbacksInit, TreeOK
<1>2. RegistryOK
  BY CallbacksAssumption DEF CallbacksInit, RegistryOK, Registrations
<1>3. QueuesOK /\ EachChangeOnce /\ NothingForgotten
  <2>1. /\ records = [mo \in Observers |-> <<>>] /\ pending = <<>> /\ flushes = <<>> /\ changes = 0
        /\ due = [mo \in Observers |-> <<>>] /\ got = [mo \in Observers |-> <<>>]
    BY DEF CallbacksInit, ObserversInit
  <2>2. \A mo \in Observers : records[mo] = <<>> /\ due[mo] = <<>> /\ got[mo] = <<>>
    BY <2>1
  <2>3. <<>> \in Seq(Nat) /\ <<>> \o <<>> = <<>> /\ Len(<<>>) = 0 /\ <<>> \in Seq(Observers) /\ <<>> \in Seq(Flushes)
    OBVIOUS
  <2>4. QueuesOK
    BY <2>1, <2>2, <2>3 DEF QueuesOK, IsInjective
  <2> QED
    BY <2>2, <2>3, <2>4 DEF EachChangeOnce, NothingForgotten
<1> QED
  BY <1>1, <1>2, <1>3 DEF ObserversOK

LEMMA ObserversNextOK == ObserversOK /\ [CallbacksNext]_callbackVars => ObserversOK'
<1> SUFFICES ASSUME ObserversOK, [CallbacksNext]_callbackVars PROVE ObserversOK'
  OBVIOUS
<1>1. ASSUME UNCHANGED <<parent, observerVars>> PROVE ObserversOK'
  BY <1>1 DEF observerVars, ObserversOK, TreeOK, RegistryOK, QueuesOK, EachChangeOnce, NothingForgotten
<1>2. CASE ObserverCalls
  <2>0. UNCHANGED parent
    BY <1>2 DEF ObserverCalls
  <2>1. ASSUME NEW mo \in Observers, TakeRecords(mo) \/ Disconnect(mo) PROVE ObserversOK'
    BY <2>0, <2>1, TakeRecordsKeeps, DisconnectKeeps
  <2>2. ASSUME NEW mo \in Observers, NEW n \in Nodes, NEW o \in Options, Observe(mo, n, o) PROVE ObserversOK'
    BY <2>0, <2>2, ObserveKeeps
  <2>3. CASE Flush
    BY <2>0, <2>3, FlushKeeps
  <2> QED
    BY <1>2, <2>1, <2>2, <2>3 DEF ObserverCalls
<1>3. CASE Changes
  <2>1. ASSUME NEW n \in Nodes \ {Root}, Notify(Root, "childList"),
               parent' = [parent EXCEPT ![n] = IF @ = Root THEN None ELSE Root]
        PROVE  ObserversOK'
    <3>1. TreeOK'
      BY <2>1 DEF ObserversOK, TreeOK
    <3>2. Root \in Nodes
      BY DEF ObserversOK, TreeOK
    <3> QED
      BY <2>1, <3>1, <3>2, NotifyKeeps
  <2>2. ASSUME NEW n \in Nodes, Notify(n, "attributes"), UNCHANGED parent PROVE ObserversOK'
    <3>1. TreeOK'
      BY <2>2 DEF ObserversOK, TreeOK
    <3> QED
      BY <2>2, <3>1, NotifyKeeps
  <2> QED
    BY <1>3, <2>1, <2>2 DEF Changes
<1>4. CASE FlushGoesOn
  BY <1>4, DeliverKeeps, CallbackReturnsKeeps, NextBatchKeeps, FlushReturnsKeeps DEF FlushGoesOn
<1>5. CASE EventCalls
  BY <1>1, <1>5 DEF EventCalls
<1>6. CASE DispatchGoesOn
  BY <1>1, <1>6 DEF DispatchGoesOn
<1>7. CASE UNCHANGED callbackVars
  BY <1>1, <1>7 DEF callbackVars
<1> QED
  BY <1>2, <1>3, <1>4, <1>5, <1>6, <1>7 DEF CallbacksNext

(* Records reach their observers, each once and in order, whatever         *)
(* callbacks do between: mutation_observer.go.                             *)
THEOREM RecordsArriveHolds == CallbacksSpec => []RecordsArrive
<1>1. ObserversOK => RecordsArrive
  BY DEF ObserversOK, RecordsArrive
<1> QED
  BY <1>1, ObserversInitOK, ObserversNextOK, PTL DEF CallbacksSpec

-----------------------------------------------------------------------------
(* Events: the types of lists and frames.                                  *)
Phases == {"capture", "target", "bubble"}
VisitsOf == [node : Nodes, phase : Phases]
Frames ==
    [ev : EventObjects, target : Nodes, visits : Seq(VisitsOf), at : Nat, node : Nodes \cup {None},
     phase : Phases \cup {"none"}, view : Seq(Entries), shared : BOOLEAN, next : Nat,
     stopped : BOOLEAN, calling : BOOLEAN, arrival : Seq(Entries), called : Seq(Entries),
     removed : BOOLEAN, stoppedAt : Nat, again : BOOLEAN, againHere : BOOLEAN]

EventsOK ==
    /\ lists \in [Nodes -> Seq(Entries)] /\ caps \in [Nodes -> Nat]
    /\ event \in [EventObjects -> [target : Nodes \cup {None}, current : Nodes \cup {None}, stops : Nat]]
    /\ dispatches \in Seq(Frames)

(* Two states of a frame that differ in what its loop sees.                *)
Same(q, r) ==
    /\ q.ev = r.ev /\ q.target = r.target /\ q.visits = r.visits /\ q.at = r.at /\ q.node = r.node
    /\ q.phase = r.phase /\ q.next = r.next /\ q.stopped = r.stopped /\ q.calling = r.calling
    /\ q.arrival = r.arrival /\ q.called = r.called /\ q.stoppedAt = r.stoppedAt
    /\ q.again = r.again /\ q.againHere = r.againHere

LEMMA SeqFrom ==
    ASSUME NEW T, NEW n \in Nat, NEW f \in [1..n -> T]
    PROVE  f \in Seq(T) /\ Len(f) = n
  OBVIOUS

LEMMA EventsAre ==
    ASSUME EventsOK
    PROVE  /\ dispatches \in Seq(Frames) /\ Len(dispatches) \in Nat /\ DOMAIN dispatches = 1..Len(dispatches)
           /\ \A d \in 1..Len(dispatches) : dispatches[d] \in Frames
  BY DEF EventsOK

(* What becomes of a frame when the array of a node is written to.         *)
EntriesIn(entries) == \A i \in DOMAIN entries : entries[i] \in Entries
WrittenAs(q, r, node, entries) ==
    /\ q \in Frames /\ Same(q, r) /\ Len(q.view) = Len(r.view) /\ q.removed = r.removed /\ q.shared = r.shared
    /\ \A i \in 1..Len(r.view) : q.view[i] = r.view[i] \/ (r.shared /\ r.node = node /\ i \in DOMAIN entries)
    /\ r.node # node => q = r

LEMMA WrittenIs ==
    ASSUME EventsOK, NEW node, NEW entries, EntriesIn(entries), NEW d \in 1..Len(dispatches)
    PROVE  WrittenAs(Written(node, entries)[d], dispatches[d], node, entries)
<1> DEFINE r == dispatches[d]
           new == [i \in DOMAIN r.view |-> IF i \in DOMAIN entries THEN entries[i] ELSE r.view[i]]
           q == Written(node, entries)[d]
<1>1. r \in Frames /\ r.view \in Seq(Entries)
  BY EventsAre DEF Frames
<1>2. new \in Seq(Entries) /\ Len(new) = Len(r.view) /\ \A i \in 1..Len(r.view) : i \in DOMAIN entries \/ new[i] = r.view[i]
  <2> DEFINE v == r.view
  <2>0. EntriesIn(entries)
    OBVIOUS
  <2>1. v \in Seq(Entries) /\ Len(v) \in Nat /\ DOMAIN v = 1..Len(v) /\ \A i \in 1..Len(v) : v[i] \in Entries
    BY <1>1
  <2> HIDE DEF v, r
  <2>2. new = [i \in 1..Len(v) |-> IF i \in DOMAIN entries THEN entries[i] ELSE v[i]]
    BY <2>1 DEF v
  <2> HIDE DEF new
  <2>3. new \in [1..Len(v) -> Entries] /\ \A i \in 1..Len(v) : i \in DOMAIN entries \/ new[i] = v[i]
    BY <2>0, <2>1, <2>2 DEF EntriesIn
  <2>4. new \in Seq(Entries) /\ Len(new) = Len(v)
    BY <2>1, <2>3, SeqFrom
  <2> QED
    BY <2>3, <2>4 DEF v
<1>3. q = IF r.shared /\ r.node = node THEN [r EXCEPT !.view = new] ELSE r
  BY EventsAre DEF Written
<1> HIDE DEF r, new, q
<1>4. CASE r.shared /\ r.node = node
  <2>1. q = [r EXCEPT !.view = new]
    BY <1>3, <1>4
  <2>2. q \in Frames /\ Same(q, r) /\ q.view = new /\ q.removed = r.removed /\ q.shared = r.shared
    BY <1>1, <1>2, <2>1 DEF Frames, Same
  <2>3. WrittenAs(q, r, node, entries)
    BY <1>2, <1>4, <2>2 DEF WrittenAs
  <2> QED
    BY <2>3 DEF q, r
<1>5. CASE ~(r.shared /\ r.node = node)
  <2>1. q = r
    BY <1>3, <1>5
  <2>2. WrittenAs(q, r, node, entries)
    BY <1>1, <2>1 DEF WrittenAs, Same
  <2> QED
    BY <2>2 DEF q, r
<1> QED
  BY <1>4, <1>5

(* The steps that change what loops see.                                   *)
Seen(q, r) ==
    /\ q \in Frames /\ Same(q, r) /\ Len(q.view) = Len(r.view)
    /\ (q.shared => r.shared) /\ (r.removed => q.removed)

LEMMA AddListenerIs ==
    ASSUME EventsOK, NEW node \in Nodes, NEW e \in Entries, AddListener(node, e),
           \A n \in Nodes : Len(lists[n]) <= caps[n]
    PROVE  /\ EventsOK' /\ UNCHANGED event /\ Len(dispatches') = Len(dispatches)
           /\ \A n \in Nodes : Len(lists'[n]) <= caps'[n] /\ Len(lists'[n]) >= Len(lists[n])
           /\ \A d \in 1..Len(dispatches) :
                 /\ Seen(dispatches'[d], dispatches[d]) /\ dispatches'[d].removed = dispatches[d].removed
                 /\ \A i \in 1..Len(dispatches[d].view) :
                       \/ dispatches'[d].view[i] = dispatches[d].view[i]
                       \/ dispatches[d].shared /\ dispatches[d].node = node /\ i > Len(lists[node])
<1> DEFINE len == Len(lists[node])
           n == Len(dispatches)
           more == Append(lists[node], e)
<1>1. /\ n \in Nat /\ len \in Nat /\ caps[node] \in Nat /\ lists[node] \in Seq(Entries)
      /\ more \in Seq(Entries) /\ Len(more) = len + 1 /\ DOMAIN dispatches = 1..n
  BY DEF EventsOK
<1>2. lists' = [lists EXCEPT ![node] = more] /\ event' = event
  BY DEF AddListener
<1>3. /\ lists' \in [Nodes -> Seq(Entries)] /\ Len(lists'[node]) = len + 1
      /\ \A m \in Nodes : m # node => lists'[m] = lists[m]
  BY <1>1, <1>2 DEF EventsOK
<1>4. CASE len < caps[node]
  <2> DEFINE w == [i \in {len + 1} |-> e]
  <2>1. dispatches' = Written(node, w) /\ caps' = caps
    BY <1>4 DEF AddListener
  <2>2. DOMAIN w = {len + 1} /\ EntriesIn(w)
    BY DEF EntriesIn
  <2> HIDE DEF w
  <2>3. ASSUME NEW d \in 1..n
        PROVE  /\ Seen(dispatches'[d], dispatches[d]) /\ dispatches'[d].removed = dispatches[d].removed
               /\ \A i \in 1..Len(dispatches[d].view) :
                     \/ dispatches'[d].view[i] = dispatches[d].view[i]
                     \/ dispatches[d].shared /\ dispatches[d].node = node /\ i \in DOMAIN w
    <3>1. WrittenAs(Written(node, w)[d], dispatches[d], node, w)
      BY <2>2, WrittenIs
    <3>2. WrittenAs(dispatches'[d], dispatches[d], node, w)
      BY <2>1, <3>1
    <3> QED
      BY <3>2 DEF WrittenAs, Seen
  <2>4. dispatches' \in [1..n -> Frames]
    <3>1. dispatches' = [d \in 1..n |-> dispatches'[d]]
      BY <1>1, <2>1 DEF Written
    <3>2. \A d \in 1..n : dispatches'[d] \in Frames
      BY <2>3 DEF Seen
    <3> QED
      BY <3>1, <3>2
  <2>5. dispatches' \in Seq(Frames) /\ Len(dispatches') = n
    BY <1>1, <2>4, SeqFrom
  <2>6. EventsOK'
    BY <1>2, <1>3, <2>1, <2>5 DEF EventsOK
  <2>7. \A m \in Nodes : Len(lists'[m]) <= caps'[m] /\ Len(lists'[m]) >= Len(lists[m])
    BY <1>1, <1>3, <1>4, <2>1 DEF EventsOK
  <2>8. \A i \in DOMAIN w : i > len
    BY <1>1, <2>2
  <2> QED
    BY <1>2, <2>3, <2>5, <2>6, <2>7, <2>8
<1>5. CASE ~(len < caps[node])
  <2>1. dispatches' = Moved(node) /\ caps' = [caps EXCEPT ![node] = Grown(caps[node])]
    BY <1>1, <1>5 DEF AddListener, EventsOK
  <2>2. ASSUME NEW d \in 1..n
        PROVE  /\ Seen(dispatches'[d], dispatches[d]) /\ dispatches'[d].removed = dispatches[d].removed
               /\ dispatches'[d].view = dispatches[d].view
    <3> DEFINE r == dispatches[d]
    <3>1. r \in Frames
      BY EventsAre
    <3>2. dispatches'[d] = [r EXCEPT !.shared = r.shared /\ r.node # node]
      BY <1>1, <2>1, <3>1 DEF Moved, Frames
    <3> HIDE DEF r
    <3> QED
      BY <3>1, <3>2 DEF Frames, Seen, Same, r
  <2>3. dispatches' \in [1..n -> Frames]
    <3>1. dispatches' = [d \in 1..n |-> dispatches'[d]]
      BY <1>1, <2>1 DEF Moved
    <3>2. \A d \in 1..n : dispatches'[d] \in Frames
      BY <2>2 DEF Seen
    <3> QED
      BY <3>1, <3>2
  <2>4. dispatches' \in Seq(Frames) /\ Len(dispatches') = n
    BY <1>1, <2>3, SeqFrom
  <2>5. Grown(caps[node]) \in Nat /\ Grown(caps[node]) > caps[node]
    BY <1>1 DEF Grown
  <2>6. EventsOK'
    BY <1>2, <1>3, <2>1, <2>4, <2>5 DEF EventsOK
  <2>7. \A m \in Nodes : Len(lists'[m]) <= caps'[m] /\ Len(lists'[m]) >= Len(lists[m])
    <3>1. caps[node] = len
      BY <1>1, <1>5
    <3>2. caps'[node] = Grown(caps[node]) /\ \A m \in Nodes : m # node => caps'[m] = caps[m]
      BY <2>1 DEF EventsOK
    <3>3. Len(lists'[node]) <= caps'[node]
      BY <1>1, <1>3, <2>5, <3>1, <3>2
    <3>4. \A m \in Nodes : m # node => Len(lists'[m]) <= caps'[m] /\ Len(lists'[m]) >= Len(lists[m])
      BY <1>3, <3>2 DEF EventsOK
    <3> QED
      BY <1>1, <1>3, <3>3, <3>4
  <2> QED
    BY <1>2, <2>2, <2>4, <2>6, <2>7
<1> QED
  BY <1>4, <1>5

LEMMA RemoveAtIs ==
    ASSUME NEW T, NEW s \in Seq(T), NEW at \in 1..Len(s)
    PROVE  RemoveAt(s, at) \in Seq(T) /\ Len(RemoveAt(s, at)) = Len(s) - 1
<1> DEFINE a == SubSeq(s, 1, at - 1)
           b == SubSeq(s, at + 1, Len(s))
<1>1. Len(s) \in Nat /\ at \in Nat /\ at <= Len(s) /\ 1 <= at
  OBVIOUS
<1>2. a \in Seq(T) /\ Len(a) = at - 1
  BY <1>1
<1>3. b \in Seq(T) /\ Len(b) = Len(s) - at
  BY <1>1
<1> HIDE DEF a, b
<1>4. a \o b \in Seq(T) /\ Len(a \o b) = (at - 1) + (Len(s) - at)
  BY <1>2, <1>3
<1>5. RemoveAt(s, at) = a \o b
  BY DEF RemoveAt, a, b
<1> QED
  BY <1>1, <1>4, <1>5

LEMMA RemoveListenerIs ==
    ASSUME EventsOK, NEW node \in Nodes, NEW e \in Entries, RemoveListener(node, e),
           \A n \in Nodes : Len(lists[n]) <= caps[n]
    PROVE  /\ EventsOK' /\ UNCHANGED event /\ Len(dispatches') = Len(dispatches)
           /\ \A n \in Nodes : Len(lists'[n]) <= caps'[n] /\ (n # node => lists'[n] = lists[n])
           /\ \A d \in 1..Len(dispatches) :
                 /\ Seen(dispatches'[d], dispatches[d])
                 /\ ~dispatches'[d].removed =>
                       dispatches[d].node # node /\ dispatches'[d].view = dispatches[d].view
<1> DEFINE list == lists[node]
           n == Len(dispatches)
<1>1. PICK at \in DOMAIN list :
         LET shifted == RemoveAt(list, at)
             written == Written(node, [i \in at..Len(shifted) |-> shifted[i]])
         IN /\ lists' = [lists EXCEPT ![node] = shifted]
            /\ dispatches' = [d \in DOMAIN written |->
                                   [written[d] EXCEPT !.removed = @ \/ written[d].node = node]]
            /\ UNCHANGED <<caps, event>>
  BY DEF RemoveListener
<1> DEFINE shifted == RemoveAt(list, at)
           w == [i \in at..Len(shifted) |-> shifted[i]]
           written == Written(node, w)
<1>2. list \in Seq(Entries) /\ Len(list) \in Nat /\ at \in 1..Len(list)
  BY DEF EventsOK
<1>3. shifted \in Seq(Entries) /\ Len(shifted) = Len(list) - 1
  BY <1>2, RemoveAtIs
<1>4. EntriesIn(w)
  <2>1. \A i \in 1..Len(shifted) : shifted[i] \in Entries
    BY <1>3
  <2>2. at..Len(shifted) \subseteq 1..Len(shifted)
    BY <1>2
  <2> HIDE DEF shifted
  <2> QED
    BY <2>1, <2>2 DEF EntriesIn
<1>5. /\ lists' = [lists EXCEPT ![node] = shifted] /\ UNCHANGED <<caps, event>>
      /\ dispatches' = [d \in DOMAIN written |-> [written[d] EXCEPT !.removed = written[d].removed \/ written[d].node = node]]
  <2> HIDE DEF w
  <2>1. dispatches' = [d \in DOMAIN written |-> [written[d] EXCEPT !.removed = @ \/ written[d].node = node]]
    BY <1>1, Zenon DEF w
  <2>2. \A d \in DOMAIN written : written[d] \in Frames
    <3>1. DOMAIN written = 1..n
      BY EventsAre DEF Written
    <3>2. \A d \in 1..n : WrittenAs(written[d], dispatches[d], node, w)
      BY <1>4, WrittenIs
    <3> QED
      BY <3>1, <3>2 DEF WrittenAs
  <2>3. \A d \in DOMAIN written : [written[d] EXCEPT !.removed = @ \/ written[d].node = node] =
                                  [written[d] EXCEPT !.removed = written[d].removed \/ written[d].node = node]
    <3> HIDE DEF written
    <3> QED
      BY <2>2 DEF Frames
  <2> QED
    BY <1>1, <2>1, <2>3
<1>6. DOMAIN written = 1..n /\ n \in Nat
  BY EventsAre DEF Written
<1>7. ASSUME NEW d \in 1..n
      PROVE  /\ Seen(dispatches'[d], dispatches[d])
             /\ ~dispatches'[d].removed => dispatches[d].node # node /\ dispatches'[d].view = dispatches[d].view
  <2> DEFINE r == dispatches[d]
             s == written[d]
             q == dispatches'[d]
  <2>1. r \in Frames
    BY EventsAre
  <2>2. s \in Frames /\ Same(s, r) /\ Len(s.view) = Len(r.view) /\ s.removed = r.removed /\ s.shared = r.shared
    <3>1. WrittenAs(s, r, node, w)
      <4> HIDE DEF w
      <4> QED
        BY <1>4, WrittenIs
    <3> QED
      BY <3>1 DEF WrittenAs
  <2>3. r.node # node => s = r
    <3>1. WrittenAs(s, r, node, w)
      <4> HIDE DEF w
      <4> QED
        BY <1>4, WrittenIs
    <3> QED
      BY <3>1 DEF WrittenAs
  <2>4. q = [s EXCEPT !.removed = s.removed \/ s.node = node]
    BY <1>5, <1>6
  <2> HIDE DEF r, s, q
  <2>5. q \in Frames /\ Same(q, r) /\ Len(q.view) = Len(r.view) /\ q.shared = r.shared /\ (r.removed => q.removed)
    BY <2>2, <2>4 DEF Frames, Same
  <2>6. ~q.removed => r.node # node
    BY <2>2, <2>4 DEF Frames, Same
  <2>7. ~q.removed => q.view = r.view
    BY <2>1, <2>3, <2>4, <2>6 DEF Frames
  <2> QED
    BY <2>5, <2>6, <2>7 DEF Seen, q, r
<1> HIDE DEF w, shifted, written
<1>8. dispatches' \in [1..n -> Frames]
  <2>1. dispatches' = [d \in 1..n |-> dispatches'[d]]
    BY <1>5, <1>6
  <2>2. \A d \in 1..n : dispatches'[d] \in Frames
    BY <1>7 DEF Seen
  <2> QED
    BY <2>1, <2>2
<1>9. dispatches' \in Seq(Frames) /\ Len(dispatches') = n
  BY <1>6, <1>8, SeqFrom
<1>10. /\ lists' \in [Nodes -> Seq(Entries)] /\ Len(lists'[node]) = Len(list) - 1
       /\ \A m \in Nodes : m # node => lists'[m] = lists[m]
  BY <1>3, <1>5 DEF EventsOK
<1>11. EventsOK'
  BY <1>5, <1>9, <1>10 DEF EventsOK
<1>12. \A m \in Nodes : Len(lists'[m]) <= caps'[m]
  BY <1>2, <1>5, <1>10 DEF EventsOK
<1> QED
  BY <1>5, <1>7, <1>9, <1>10, <1>11, <1>12

-----------------------------------------------------------------------------
(* What is known of a frame, of the object of its event and of its place   *)
(* among the dispatches.                                                   *)
FrameOK(r, e, d) ==
    /\ r.at <= Len(r.visits) /\ r.next >= 1 /\ r.next <= Len(r.view) + 1
    /\ (r.at = 0 => Len(r.view) = 0 /\ ~r.calling /\ ~r.shared)
    /\ (r.at # 0 => r.phase \in Phases /\ r.node \in Nodes)
    /\ (~r.again => e.stops = d /\ e.target = r.target)
    /\ (r.stoppedAt # 0 => r.stopped /\ r.at = r.stoppedAt)
    /\ (r.at # 0 /\ ~r.againHere => e.current = r.node)

Capacities == \A n \in Nodes : Len(lists[n]) <= caps[n]
FramesOK == \A d \in 1..Len(dispatches) : FrameOK(dispatches[d], event[dispatches[d].ev], d)

(* An inner dispatch of the same event marks the outer ones.               *)
NestedOK ==
    \A i, j \in 1..Len(dispatches) : i < j /\ dispatches[i].ev = dispatches[j].ev =>
        dispatches[i].again /\ dispatches[i].againHere

StopsOK ==
    \A ev \in EventObjects : event[ev].stops # NoDispatch =>
        event[ev].stops \in 1..Len(dispatches) /\ dispatches[event[ev].stops].ev = ev

DispatchesOK == EventsOK /\ Capacities /\ FramesOK /\ NestedOK /\ StopsOK

(* A step that leaves the objects, and of each frame the event and the     *)
(* marks, alone.                                                           *)
LEMMA FramesStay ==
    ASSUME DispatchesOK, EventsOK', Capacities', UNCHANGED event, Len(dispatches') = Len(dispatches),
           \A d \in 1..Len(dispatches) :
              /\ dispatches'[d].ev = dispatches[d].ev /\ dispatches'[d].again = dispatches[d].again
              /\ dispatches'[d].againHere = dispatches[d].againHere
              /\ FrameOK(dispatches'[d], event[dispatches[d].ev], d)
    PROVE  DispatchesOK'
<1>1. FramesOK'
  BY DEF DispatchesOK, FramesOK
<1>2. NestedOK'
  BY DEF DispatchesOK, NestedOK
<1>3. StopsOK'
  BY DEF DispatchesOK, StopsOK
<1> QED
  BY <1>1, <1>2, <1>3 DEF DispatchesOK

LEMMA SeenKeeps ==
    ASSUME NEW r \in Frames, NEW q, NEW e, NEW d, Seen(q, r), FrameOK(r, e, d)
    PROVE  FrameOK(q, e, d)
  BY DEF Seen, Same, FrameOK

LEMMA AddListenerKeeps ==
    ASSUME DispatchesOK, NEW node \in Nodes, NEW e \in Entries, AddListener(node, e)
    PROVE  DispatchesOK'
<1>1. EventsOK /\ \A n \in Nodes : Len(lists[n]) <= caps[n]
  BY DEF DispatchesOK, Capacities
<1>2. /\ EventsOK' /\ UNCHANGED event /\ Len(dispatches') = Len(dispatches)
      /\ \A n \in Nodes : Len(lists'[n]) <= caps'[n]
      /\ \A d \in 1..Len(dispatches) : Seen(dispatches'[d], dispatches[d])
  BY <1>1, AddListenerIs
<1>3. Capacities'
  BY <1>2 DEF Capacities
<1>4. ASSUME NEW d \in 1..Len(dispatches)
      PROVE  /\ dispatches'[d].ev = dispatches[d].ev /\ dispatches'[d].again = dispatches[d].again
             /\ dispatches'[d].againHere = dispatches[d].againHere
             /\ FrameOK(dispatches'[d], event[dispatches[d].ev], d)
  <2>1. Seen(dispatches'[d], dispatches[d]) /\ dispatches[d] \in Frames /\ FrameOK(dispatches[d], event[dispatches[d].ev], d)
    BY <1>1, <1>2, EventsAre DEF DispatchesOK, FramesOK
  <2>2. FrameOK(dispatches'[d], event[dispatches[d].ev], d)
    BY <2>1, SeenKeeps
  <2> QED
    BY <2>1, <2>2 DEF Seen, Same
<1> QED
  BY <1>2, <1>3, <1>4, FramesStay

LEMMA RemoveListenerKeeps ==
    ASSUME DispatchesOK, NEW node \in Nodes, NEW e \in Entries, RemoveListener(node, e)
    PROVE  DispatchesOK'
<1>1. EventsOK /\ \A n \in Nodes : Len(lists[n]) <= caps[n]
  BY DEF DispatchesOK, Capacities
<1>2. /\ EventsOK' /\ UNCHANGED event /\ Len(dispatches') = Len(dispatches)
      /\ \A n \in Nodes : Len(lists'[n]) <= caps'[n]
      /\ \A d \in 1..Len(dispatches) : Seen(dispatches'[d], dispatches[d])
  BY <1>1, RemoveListenerIs
<1>3. Capacities'
  BY <1>2 DEF Capacities
<1>4. ASSUME NEW d \in 1..Len(dispatches)
      PROVE  /\ dispatches'[d].ev = dispatches[d].ev /\ dispatches'[d].again = dispatches[d].again
             /\ dispatches'[d].againHere = dispatches[d].againHere
             /\ FrameOK(dispatches'[d], event[dispatches[d].ev], d)
  <2>1. Seen(dispatches'[d], dispatches[d]) /\ dispatches[d] \in Frames /\ FrameOK(dispatches[d], event[dispatches[d].ev], d)
    BY <1>1, <1>2, EventsAre DEF DispatchesOK, FramesOK
  <2>2. FrameOK(dispatches'[d], event[dispatches[d].ev], d)
    BY <2>1, SeenKeeps
  <2> QED
    BY <2>1, <2>2 DEF Seen, Same
<1> QED
  BY <1>2, <1>3, <1>4, FramesStay

(* stopPropagation.                                                        *)
LEMMA StopPropagationIs ==
    ASSUME EventsOK, NEW ev \in EventObjects, StopPropagation(ev), NEW d \in 1..Len(dispatches),
           NEW r, r = dispatches[d], NEW q, q = dispatches'[d]
    PROVE  /\ q \in Frames
           /\ q.ev = r.ev /\ q.target = r.target /\ q.visits = r.visits /\ q.at = r.at /\ q.node = r.node
           /\ q.phase = r.phase /\ q.view = r.view /\ q.shared = r.shared /\ q.next = r.next /\ q.calling = r.calling
           /\ q.arrival = r.arrival /\ q.called = r.called /\ q.removed = r.removed
           /\ q.again = r.again /\ q.againHere = r.againHere
           /\ q.stopped = (r.stopped \/ d = event[ev].stops)
           /\ q.stoppedAt = IF r.stoppedAt = 0 /\ r.ev = ev /\ ~r.again THEN r.at ELSE r.stoppedAt
<1>1. r \in Frames
  BY EventsAre
<1>2. q = [r EXCEPT !.stopped = @ \/ d = event[ev].stops,
                    !.stoppedAt = IF @ = 0 /\ r.ev = ev /\ ~r.again THEN r.at ELSE @]
  BY EventsAre DEF StopPropagation
<1>3. q = [r EXCEPT !.stopped = r.stopped \/ d = event[ev].stops,
                    !.stoppedAt = IF r.stoppedAt = 0 /\ r.ev = ev /\ ~r.again THEN r.at ELSE r.stoppedAt]
  BY <1>1, <1>2 DEF Frames
<1> DEFINE stopped == r.stopped \/ d = event[ev].stops
           at == IF r.stoppedAt = 0 /\ r.ev = ev /\ ~r.again THEN r.at ELSE r.stoppedAt
<1>4. stopped \in BOOLEAN /\ at \in Nat
  BY <1>1 DEF Frames
<1> HIDE DEF stopped, at
<1>5. q = [r EXCEPT !.stopped = stopped, !.stoppedAt = at]
  BY <1>3 DEF stopped, at
<1>6. /\ q \in Frames
      /\ q.ev = r.ev /\ q.target = r.target /\ q.visits = r.visits /\ q.at = r.at /\ q.node = r.node
      /\ q.phase = r.phase /\ q.view = r.view /\ q.shared = r.shared /\ q.next = r.next /\ q.calling = r.calling
      /\ q.arrival = r.arrival /\ q.called = r.called /\ q.removed = r.removed
      /\ q.again = r.again /\ q.againHere = r.againHere /\ q.stopped = stopped /\ q.stoppedAt = at
  BY <1>1, <1>4, <1>5 DEF Frames
<1> QED
  BY <1>6 DEF stopped, at

LEMMA StopPropagationEvents ==
    ASSUME EventsOK, NEW ev \in EventObjects, StopPropagation(ev)
    PROVE  EventsOK' /\ UNCHANGED <<lists, caps, event>> /\ Len(dispatches') = Len(dispatches)
<1> DEFINE n == Len(dispatches)
<1>1. n \in Nat /\ DOMAIN dispatches = 1..n
  BY EventsAre
<1>2. dispatches' \in [1..n -> Frames]
  <2>1. dispatches' = [d \in 1..n |-> dispatches'[d]]
    BY <1>1 DEF StopPropagation
  <2>2. \A d \in 1..n : dispatches'[d] \in Frames
    BY StopPropagationIs
  <2> QED
    BY <2>1, <2>2
<1>3. dispatches' \in Seq(Frames) /\ Len(dispatches') = n
  BY <1>1, <1>2, SeqFrom
<1>4. UNCHANGED <<lists, caps, event>>
  BY DEF StopPropagation
<1> QED
  BY <1>3, <1>4 DEF EventsOK

LEMMA StopPropagationKeeps ==
    ASSUME DispatchesOK, NEW ev \in EventObjects, StopPropagation(ev)
    PROVE  DispatchesOK'
<1>1. EventsOK
  BY DEF DispatchesOK
<1>2. EventsOK' /\ UNCHANGED <<lists, caps, event>> /\ Len(dispatches') = Len(dispatches)
  BY <1>1, StopPropagationEvents
<1>3. Capacities'
  BY <1>2 DEF DispatchesOK, Capacities
<1>4. ASSUME NEW d \in 1..Len(dispatches)
      PROVE  /\ dispatches'[d].ev = dispatches[d].ev /\ dispatches'[d].again = dispatches[d].again
             /\ dispatches'[d].againHere = dispatches[d].againHere
             /\ FrameOK(dispatches'[d], event[dispatches[d].ev], d)
  <2> DEFINE r == dispatches[d]
             q == dispatches'[d]
             e == event[r.ev]
  <2>1. /\ q.ev = r.ev /\ q.again = r.again /\ q.againHere = r.againHere /\ q.target = r.target /\ q.visits = r.visits
        /\ q.at = r.at /\ q.node = r.node /\ q.phase = r.phase /\ q.view = r.view /\ q.shared = r.shared /\ q.next = r.next
        /\ q.calling = r.calling
        /\ q.stopped = (r.stopped \/ d = event[ev].stops)
        /\ q.stoppedAt = IF r.stoppedAt = 0 /\ r.ev = ev /\ ~r.again THEN r.at ELSE r.stoppedAt
    BY <1>1, StopPropagationIs
  <2>2. FrameOK(r, e, d)
    BY DEF DispatchesOK, FramesOK
  <2>3. r.ev = ev => e = event[ev]
    OBVIOUS
  <2> HIDE DEF r, q, e
  <2>4. FrameOK(q, e, d)
    BY <2>1, <2>2, <2>3 DEF FrameOK
  <2> QED
    BY <2>1, <2>4 DEF r, q, e
<1> QED
  BY <1>2, <1>3, <1>4, FramesStay

(* The innermost dispatch goes on.                                         *)
LEMMA SetInnermostIs ==
    ASSUME EventsOK, dispatches # <<>>, NEW f \in Frames, SetInnermost(f)
    PROVE  /\ dispatches' \in Seq(Frames) /\ Len(dispatches') = Len(dispatches) /\ Len(dispatches) \in Nat \ {0}
           /\ dispatches'[Len(dispatches)] = f
           /\ \A d \in 1..Len(dispatches) : d # Len(dispatches) => dispatches'[d] = dispatches[d]
<1> DEFINE n == Len(dispatches)
<1>1. dispatches \in Seq(Frames) /\ n \in Nat \ {0} /\ DOMAIN dispatches = 1..n /\ n \in 1..n
  BY DEF EventsOK
<1>2. dispatches' = [dispatches EXCEPT ![n] = f]
  BY DEF SetInnermost
<1>3. dispatches' \in Seq(Frames) /\ Len(dispatches') = n
  BY <1>1, <1>2
<1> QED
  BY <1>1, <1>2, <1>3

LEMMA InnermostIs ==
    ASSUME EventsOK, dispatches # <<>>
    PROVE  /\ Innermost \in Frames /\ Innermost = dispatches[Len(dispatches)] /\ Len(dispatches) \in Nat \ {0}
           /\ DOMAIN dispatches = 1..Len(dispatches)
<1>1. dispatches \in Seq(Frames) /\ Len(dispatches) \in Nat \ {0}
  BY DEF EventsOK
<1> QED
  BY <1>1 DEF Innermost

(* A frame that goes on where it is.                                       *)
LEMMA InnermostStays ==
    ASSUME DispatchesOK, dispatches # <<>>, NEW f \in Frames, SetInnermost(f), UNCHANGED <<lists, caps, event>>,
           f.ev = Innermost.ev, f.again = Innermost.again, f.againHere = Innermost.againHere,
           FrameOK(f, event[f.ev], Len(dispatches))
    PROVE  DispatchesOK'
<1> DEFINE n == Len(dispatches)
<1>1. EventsOK /\ Innermost = dispatches[n] /\ n \in Nat \ {0}
  BY InnermostIs DEF DispatchesOK
<1>2. /\ dispatches' \in Seq(Frames) /\ Len(dispatches') = n /\ dispatches'[n] = f
      /\ \A d \in 1..n : d # n => dispatches'[d] = dispatches[d]
  BY <1>1, SetInnermostIs
<1>3. EventsOK' /\ Capacities'
  BY <1>2 DEF DispatchesOK, EventsOK, Capacities
<1>4. ASSUME NEW d \in 1..n
      PROVE  /\ dispatches'[d].ev = dispatches[d].ev /\ dispatches'[d].again = dispatches[d].again
             /\ dispatches'[d].againHere = dispatches[d].againHere
             /\ FrameOK(dispatches'[d], event[dispatches[d].ev], d)
  <2>1. CASE d = n
    BY <1>1, <1>2, <2>1
  <2>2. CASE d # n
    BY <1>2, <2>2 DEF DispatchesOK, FramesOK
  <2> QED
    BY <2>1, <2>2
<1> QED
  BY <1>2, <1>3, <1>4, FramesStay

LEMMA ListenerReturnsKeeps ==
    ASSUME DispatchesOK, ListenerReturns
    PROVE  DispatchesOK'
<1> DEFINE n == Len(dispatches)
           r == Innermost
           f == [r EXCEPT !.calling = FALSE]
<1>1. EventsOK /\ dispatches # <<>> /\ SetInnermost(f) /\ UNCHANGED <<lists, caps, event>>
  BY DEF DispatchesOK, ListenerReturns
<1>2. r \in Frames /\ r = dispatches[n] /\ n \in Nat \ {0}
  BY <1>1, InnermostIs
<1>3. FrameOK(r, event[r.ev], n)
  BY <1>2 DEF DispatchesOK, FramesOK
<1> HIDE DEF r
<1>4. /\ f \in Frames /\ f.ev = r.ev /\ f.again = r.again /\ f.againHere = r.againHere
      /\ FrameOK(f, event[f.ev], n)
  BY <1>2, <1>3 DEF Frames, FrameOK
<1> QED
  BY <1>1, <1>4, InnermostStays DEF r

(* A loop comes to its next listener.                                      *)
Called(f, r) ==
    LET entry == r.view[r.next] IN
    f = IF Wanted(r.phase, entry)
        THEN [r EXCEPT !.next = r.next + 1, !.calling = TRUE, !.called = Append(r.called, entry)]
        ELSE [r EXCEPT !.next = r.next + 1]

LEMMA CallIs ==
    ASSUME EventsOK, Call
    PROVE  /\ dispatches # <<>> /\ Innermost.next <= Len(Innermost.view) /\ UNCHANGED <<lists, caps, event>>
           /\ \E f : Called(f, Innermost) /\ SetInnermost(f)
<1> DEFINE entry == Innermost.view[Innermost.next]
<1>1. /\ dispatches # <<>> /\ ~(Innermost.next > Len(Innermost.view)) /\ UNCHANGED <<lists, caps, event>>
      /\ SetInnermost(IF Wanted(Innermost.phase, entry)
                    THEN [Innermost EXCEPT !.next = @ + 1, !.calling = TRUE, !.called = Append(@, entry)]
                    ELSE [Innermost EXCEPT !.next = @ + 1])
  BY DEF Call, Looping, LoopOver
<1>2. Innermost \in Frames
  BY <1>1, InnermostIs
<1> HIDE DEF entry
<1>3. /\ [Innermost EXCEPT !.next = @ + 1, !.calling = TRUE, !.called = Append(@, entry)] =
         [Innermost EXCEPT !.next = Innermost.next + 1, !.calling = TRUE, !.called = Append(Innermost.called, entry)]
      /\ [Innermost EXCEPT !.next = @ + 1] = [Innermost EXCEPT !.next = Innermost.next + 1]
  BY <1>2 DEF Frames
<1> DEFINE f == IF Wanted(Innermost.phase, entry)
                THEN [Innermost EXCEPT !.next = Innermost.next + 1, !.calling = TRUE, !.called = Append(Innermost.called, entry)]
                ELSE [Innermost EXCEPT !.next = Innermost.next + 1]
<1>4. SetInnermost(f)
  BY <1>1, <1>3
<1>5. Called(f, Innermost)
  BY DEF Called, entry
<1>6. Innermost.next <= Len(Innermost.view)
  <2>1. Innermost.next \in Nat /\ Len(Innermost.view) \in Nat
    <3>1. Innermost.next \in Nat /\ Innermost.view \in Seq(Entries)
      BY <1>2 DEF Frames
    <3> QED
      BY <3>1
  <2> QED
    BY <1>1, <2>1
<1> QED
  BY <1>1, <1>4, <1>5, <1>6

LEMMA CalledIs ==
    ASSUME NEW r \in Frames, NEW f, Called(f, r), r.next >= 1, r.next <= Len(r.view)
    PROVE  /\ f \in Frames /\ r.view[r.next] \in Entries
           /\ f.ev = r.ev /\ f.target = r.target /\ f.visits = r.visits /\ f.at = r.at /\ f.node = r.node
           /\ f.phase = r.phase /\ f.view = r.view /\ f.shared = r.shared /\ f.next = r.next + 1
           /\ f.stopped = r.stopped /\ f.arrival = r.arrival /\ f.removed = r.removed /\ f.stoppedAt = r.stoppedAt
           /\ f.again = r.again /\ f.againHere = r.againHere
           /\ f.called = IF Wanted(r.phase, r.view[r.next]) THEN Append(r.called, r.view[r.next]) ELSE r.called
<1> DEFINE entry == r.view[r.next]
           more == Append(r.called, entry)
           next == r.next + 1
<1>1. entry \in Entries /\ next \in Nat /\ more \in Seq(Entries)
  <2>1. r.view \in Seq(Entries) /\ r.next \in Nat /\ r.called \in Seq(Entries)
    BY DEF Frames
  <2> QED
    BY <2>1
<1>2. f = IF Wanted(r.phase, entry) THEN [r EXCEPT !.next = next, !.calling = TRUE, !.called = more]
          ELSE [r EXCEPT !.next = next]
  BY DEF Called
<1> HIDE DEF entry, more, next
<1>3. CASE Wanted(r.phase, entry)
  <2>1. f = [r EXCEPT !.next = next, !.calling = TRUE, !.called = more]
    BY <1>2, <1>3
  <2>2. /\ f \in Frames
        /\ f.ev = r.ev /\ f.target = r.target /\ f.visits = r.visits /\ f.at = r.at /\ f.node = r.node
        /\ f.phase = r.phase /\ f.view = r.view /\ f.shared = r.shared /\ f.next = next
        /\ f.stopped = r.stopped /\ f.arrival = r.arrival /\ f.removed = r.removed /\ f.stoppedAt = r.stoppedAt
        /\ f.again = r.again /\ f.againHere = r.againHere /\ f.called = more
    BY <1>1, <2>1 DEF Frames
  <2> QED
    BY <1>1, <1>3, <2>2 DEF more, next, entry
<1>4. CASE ~Wanted(r.phase, entry)
  <2>1. f = [r EXCEPT !.next = next]
    BY <1>2, <1>4
  <2>2. /\ f \in Frames
        /\ f.ev = r.ev /\ f.target = r.target /\ f.visits = r.visits /\ f.at = r.at /\ f.node = r.node
        /\ f.phase = r.phase /\ f.view = r.view /\ f.shared = r.shared /\ f.next = next
        /\ f.stopped = r.stopped /\ f.arrival = r.arrival /\ f.removed = r.removed /\ f.stoppedAt = r.stoppedAt
        /\ f.again = r.again /\ f.againHere = r.againHere /\ f.called = r.called
    BY <1>1, <2>1 DEF Frames
  <2> QED
    BY <1>1, <1>4, <2>2 DEF next, entry
<1> QED
  BY <1>3, <1>4

LEMMA NextCallKeeps ==
    ASSUME DispatchesOK, Call
    PROVE  DispatchesOK'
<1> DEFINE n == Len(dispatches)
           r == Innermost
<1>1. EventsOK /\ dispatches # <<>> /\ r.next <= Len(r.view) /\ UNCHANGED <<lists, caps, event>>
  BY CallIs DEF DispatchesOK
<1>2. PICK f : Called(f, r) /\ SetInnermost(f)
  BY <1>1, CallIs
<1>3. r \in Frames /\ r = dispatches[n] /\ n \in Nat \ {0}
  BY <1>1, InnermostIs
<1>4. FrameOK(r, event[r.ev], n) /\ r.next >= 1
  BY <1>3 DEF DispatchesOK, FramesOK, FrameOK
<1> HIDE DEF r
<1>5. /\ f \in Frames
      /\ f.ev = r.ev /\ f.target = r.target /\ f.visits = r.visits /\ f.at = r.at /\ f.node = r.node
      /\ f.phase = r.phase /\ f.view = r.view /\ f.shared = r.shared /\ f.next = r.next + 1
      /\ f.stopped = r.stopped /\ f.stoppedAt = r.stoppedAt
      /\ f.again = r.again /\ f.againHere = r.againHere
  BY <1>1, <1>2, <1>3, <1>4, CalledIs
<1>6. r.next \in Nat /\ Len(r.view) \in Nat
  <2>1. r.next \in Nat /\ r.view \in Seq(Entries)
    BY <1>3 DEF Frames
  <2> QED
    BY <2>1
<1>7. r.at # 0
  BY <1>1, <1>4, <1>6 DEF FrameOK
<1>8. FrameOK(f, event[f.ev], n)
  BY <1>1, <1>4, <1>5, <1>6, <1>7 DEF FrameOK
<1> QED
  BY <1>1, <1>2, <1>5, <1>8, InnermostStays DEF r

(* The next visit.                                                         *)
Visited(f, r, visit, list) ==
    /\ f \in Frames
    /\ f.ev = r.ev /\ f.target = r.target /\ f.visits = r.visits /\ f.at = r.at + 1 /\ f.node = visit.node
    /\ f.phase = visit.phase /\ f.view = list /\ f.shared = TRUE /\ f.next = 1 /\ f.stopped = r.stopped
    /\ f.calling = r.calling /\ f.arrival = list /\ f.called = <<>> /\ f.removed = FALSE
    /\ f.stoppedAt = r.stoppedAt /\ f.again = r.again /\ f.againHere = FALSE

LEMMA VisitIs ==
    ASSUME DispatchesOK, Visit
    PROVE  /\ EventsOK /\ dispatches # <<>> /\ ~Innermost.stopped /\ ~Innermost.calling
           /\ Innermost.at < Len(Innermost.visits) /\ NextVisit \in VisitsOf
           /\ UNCHANGED <<lists, caps>> /\ event' = [event EXCEPT ![Innermost.ev].current = NextVisit.node]
           /\ \E f : Visited(f, Innermost, NextVisit, lists[NextVisit.node]) /\ SetInnermost(f)
<1> DEFINE r == Innermost
           n == Len(dispatches)
           visit == NextVisit
           list == lists[visit.node]
           f == Visiting(visit)
<1>1. /\ EventsOK /\ dispatches # <<>> /\ ~r.stopped /\ ~r.calling /\ r.at # Len(r.visits)
      /\ UNCHANGED <<lists, caps>> /\ event' = [event EXCEPT ![r.ev].current = visit.node] /\ SetInnermost(f)
  BY DEF DispatchesOK, Visit, Looping, LastVisit
<1>2. r \in Frames /\ r = dispatches[n] /\ n \in Nat \ {0}
  BY <1>1, InnermostIs
<1>3. FrameOK(r, event[r.ev], n)
  BY <1>2 DEF DispatchesOK, FramesOK
<1>4. r.at < Len(r.visits) /\ visit \in VisitsOf
  <2>1. r.at \in Nat /\ r.visits \in Seq(VisitsOf) /\ r.at <= Len(r.visits)
    BY <1>2, <1>3 DEF FrameOK, Frames
  <2>2. visit = r.visits[r.at + 1]
    BY DEF NextVisit
  <2> HIDE DEF r, visit
  <2>3. r.at + 1 \in 1..Len(r.visits)
    BY <1>1, <2>1
  <2> QED
    BY <1>1, <2>1, <2>2, <2>3
<1>5. list \in Seq(Entries) /\ visit.node \in Nodes /\ visit.phase \in Phases
  BY <1>1, <1>4 DEF EventsOK, VisitsOf
<1>6. f = [r EXCEPT !.at = r.at + 1, !.node = visit.node, !.phase = visit.phase,
                    !.view = list, !.shared = TRUE, !.next = 1,
                    !.arrival = list, !.called = <<>>,
                    !.removed = FALSE, !.againHere = FALSE]
  BY <1>2 DEF Visiting, Frames
<1>7. r.at + 1 \in Nat /\ <<>> \in Seq(Entries)
  BY <1>2 DEF Frames
<1> HIDE DEF r, visit, list, f
<1>8. f \in Frames
  <2> DEFINE g == [r EXCEPT !.at = r.at + 1, !.node = visit.node, !.phase = visit.phase]
             h == [g EXCEPT !.view = list, !.shared = TRUE, !.next = 1, !.arrival = list]
  <2>1. g \in Frames
    BY <1>2, <1>5, <1>7 DEF Frames
  <2>2. f = [h EXCEPT !.called = <<>>, !.removed = FALSE, !.againHere = FALSE]
    BY <1>2, <1>6 DEF Frames
  <2> HIDE DEF g
  <2>3. h \in Frames
    BY <1>5, <2>1 DEF Frames
  <2> HIDE DEF h
  <2> QED
    BY <1>7, <2>2, <2>3 DEF Frames
<1>9. /\ f.ev = r.ev /\ f.target = r.target /\ f.visits = r.visits /\ f.at = r.at + 1 /\ f.node = visit.node
      /\ f.phase = visit.phase /\ f.view = list /\ f.shared = TRUE /\ f.next = 1
  BY <1>2, <1>6 DEF Frames
<1>10. /\ f.stopped = r.stopped /\ f.calling = r.calling /\ f.arrival = list /\ f.called = <<>> /\ f.removed = FALSE
       /\ f.stoppedAt = r.stoppedAt /\ f.again = r.again /\ f.againHere = FALSE
  BY <1>2, <1>6 DEF Frames
<1>11. Visited(f, r, visit, list)
  BY <1>8, <1>9, <1>10 DEF Visited
<1> QED
  BY <1>1, <1>4, <1>11 DEF r, visit, list

LEMMA VisitKeeps ==
    ASSUME DispatchesOK, Visit
    PROVE  DispatchesOK'
<1> DEFINE r == Innermost
           n == Len(dispatches)
           visit == NextVisit
           list == lists[visit.node]
<1>1. /\ EventsOK /\ dispatches # <<>> /\ ~r.stopped /\ ~r.calling /\ r.at < Len(r.visits) /\ visit \in VisitsOf
      /\ UNCHANGED <<lists, caps>> /\ event' = [event EXCEPT ![r.ev].current = visit.node]
  BY VisitIs
<1>2. PICK f : Visited(f, r, visit, list) /\ SetInnermost(f)
  BY VisitIs
<1>3. r \in Frames /\ r = dispatches[n] /\ n \in Nat \ {0}
  BY <1>1, InnermostIs
<1>4. FrameOK(r, event[r.ev], n)
  BY <1>3 DEF DispatchesOK, FramesOK
<1>5. f \in Frames
  BY <1>2 DEF Visited
<1> HIDE DEF r, visit, list
<1>6. /\ dispatches' \in Seq(Frames) /\ Len(dispatches') = n /\ dispatches'[n] = f
      /\ \A d \in 1..n : d # n => dispatches'[d] = dispatches[d]
  BY <1>1, <1>2, <1>5, SetInnermostIs
<1>7. visit.node \in Nodes /\ visit.phase \in Phases /\ r.ev \in EventObjects
  BY <1>1, <1>3 DEF VisitsOf, Frames
<1>8. /\ event' \in [EventObjects -> [target : Nodes \cup {None}, current : Nodes \cup {None}, stops : Nat]]
      /\ event'[r.ev].current = visit.node /\ \A ev \in EventObjects : ev # r.ev => event'[ev] = event[ev]
      /\ \A ev \in EventObjects : event'[ev].stops = event[ev].stops /\ event'[ev].target = event[ev].target
  BY <1>1, <1>7 DEF EventsOK
<1>9. EventsOK' /\ Capacities'
  BY <1>1, <1>6, <1>8 DEF DispatchesOK, EventsOK, Capacities
<1>10. FramesOK'
  <2>1. ASSUME NEW d \in 1..n PROVE FrameOK(dispatches'[d], event'[dispatches'[d].ev], d)
    <3>1. CASE d = n
      <4>1. list \in Seq(Entries)
        BY <1>1, <1>7 DEF EventsOK, list
      <4>2. Len(list) \in Nat /\ r.at \in Nat
        BY <1>3, <4>1 DEF Frames
      <4>3. FrameOK(f, event'[f.ev], n)
        <5> DEFINE e == event[r.ev]
                   e2 == event'[r.ev]
        <5>1. f.ev = r.ev /\ e2.stops = e.stops /\ e2.target = e.target /\ e2.current = visit.node /\ FrameOK(r, e, n)
          BY <1>2, <1>4, <1>7, <1>8 DEF Visited
        <5> HIDE DEF e, e2
        <5>2. r.stoppedAt = 0
          BY <1>1, <5>1 DEF FrameOK
        <5>3. FrameOK(f, e2, n)
          BY <1>1, <1>2, <1>7, <4>2, <5>1, <5>2 DEF FrameOK, Visited
        <5> QED
          BY <5>1, <5>3 DEF e2
      <4> QED
        BY <1>6, <3>1, <4>3
    <3>2. CASE d # n
      <4> DEFINE q == dispatches[d]
                 e == event[q.ev]
                 e2 == event'[q.ev]
      <4>1. dispatches'[d] = q /\ FrameOK(q, e, d) /\ q \in Frames
        BY <1>1, <1>6, <3>2, EventsAre DEF DispatchesOK, FramesOK
      <4>2. q.ev = r.ev => q.againHere
        <5>1. d \in 1..n /\ n \in 1..n /\ d < n
          BY <1>3, <3>2
        <5> QED
          BY <1>3, <5>1 DEF DispatchesOK, NestedOK
      <4>3. q.ev \in EventObjects
        BY <4>1 DEF Frames
      <4>4. e2.stops = e.stops /\ e2.target = e.target /\ (e2.current = e.current \/ q.againHere)
        BY <1>8, <4>2, <4>3
      <4> HIDE DEF q, e, e2
      <4>5. FrameOK(q, e2, d)
        BY <4>1, <4>4 DEF FrameOK
      <4> QED
        BY <4>1, <4>5 DEF e2
    <3> QED
      BY <3>1, <3>2
  <2> QED
    BY <1>6, <2>1 DEF FramesOK
<1>11. NestedOK'
  <2>1. ASSUME NEW i \in 1..n, NEW j \in 1..n, i < j, dispatches'[i].ev = dispatches'[j].ev
        PROVE  dispatches'[i].again /\ dispatches'[i].againHere
    <3>1. i # n
      BY <1>3, <2>1
    <3>2. dispatches'[i] = dispatches[i] /\ dispatches'[j].ev = dispatches[j].ev
      BY <1>2, <1>3, <1>6, <3>1 DEF Visited
    <3> QED
      BY <2>1, <3>2 DEF DispatchesOK, NestedOK
  <2> QED
    BY <1>6, <2>1 DEF NestedOK
<1>12. StopsOK'
  <2>1. \A d \in 1..n : dispatches'[d].ev = dispatches[d].ev
    BY <1>2, <1>3, <1>6 DEF Visited
  <2> QED
    BY <1>6, <1>8, <2>1 DEF DispatchesOK, StopsOK
<1> QED
  BY <1>9, <1>10, <1>11, <1>12 DEF DispatchesOK

LEMMA DispatchReturnsKeeps ==
    ASSUME DispatchesOK, DispatchReturns
    PROVE  DispatchesOK'
<1> DEFINE r == Innermost
           n == Len(dispatches)
<1>1. /\ EventsOK /\ dispatches # <<>> /\ dispatches' = Front(dispatches) /\ UNCHANGED <<lists, caps>>
      /\ event' = [event EXCEPT ![r.ev].stops = IF @ = n THEN NoDispatch ELSE @]
  BY DEF DispatchesOK, DispatchReturns, Looping
<1>2. r \in Frames /\ r = dispatches[n] /\ n \in Nat \ {0} /\ dispatches \in Seq(Frames)
  BY <1>1, InnermostIs, EventsAre
<1>3. /\ dispatches' \in Seq(Frames) /\ Len(dispatches') = n - 1
      /\ \A d \in 1..(n - 1) : dispatches'[d] = dispatches[d]
  BY <1>1, <1>2, FrontIs
<1>4. r.ev \in EventObjects
  BY <1>2 DEF Frames
<1> HIDE DEF r
<1>5. /\ event' \in [EventObjects -> [target : Nodes \cup {None}, current : Nodes \cup {None}, stops : Nat]]
      /\ \A ev \in EventObjects : event'[ev].target = event[ev].target /\ event'[ev].current = event[ev].current
      /\ \A ev \in EventObjects : ev # r.ev => event'[ev].stops = event[ev].stops
      /\ event'[r.ev].stops = IF event[r.ev].stops = n THEN 0 ELSE event[r.ev].stops
  <2> DEFINE E == [target : Nodes \cup {None}, current : Nodes \cup {None}, stops : Nat]
             old == event[r.ev]
             new == [old EXCEPT !.stops = IF old.stops = n THEN 0 ELSE old.stops]
  <2>1. event \in [EventObjects -> E]
    BY <1>1 DEF EventsOK
  <2>2. old \in E
    BY <1>4, <2>1
  <2>3. event' = [event EXCEPT ![r.ev] = new]
    BY <1>1 DEF NoDispatch
  <2> HIDE DEF old
  <2>4. /\ new \in E /\ new.target = old.target /\ new.current = old.current
        /\ new.stops = IF old.stops = n THEN 0 ELSE old.stops
    BY <2>2
  <2> HIDE DEF new, E
  <2>5. /\ event' \in [EventObjects -> E] /\ event'[r.ev] = new
        /\ \A ev \in EventObjects : ev # r.ev => event'[ev] = event[ev]
    BY <1>4, <2>1, <2>3, <2>4
  <2>6. event'[r.ev].target = event[r.ev].target /\ event'[r.ev].current = event[r.ev].current
    BY <2>4, <2>5 DEF old
  <2>7. \A ev \in EventObjects : event'[ev].target = event[ev].target /\ event'[ev].current = event[ev].current
    BY <2>5, <2>6
  <2>8. \A ev \in EventObjects : ev # r.ev => event'[ev].stops = event[ev].stops
    BY <2>5
  <2>9. event'[r.ev].stops = IF event[r.ev].stops = n THEN 0 ELSE event[r.ev].stops
    BY <2>4, <2>5 DEF old
  <2> QED
    BY <2>5, <2>7, <2>8, <2>9 DEF E
<1>6. EventsOK' /\ Capacities'
  BY <1>1, <1>3, <1>5 DEF DispatchesOK, EventsOK, Capacities
<1>7. FramesOK'
  <2>1. ASSUME NEW d \in 1..(n - 1) PROVE FrameOK(dispatches'[d], event'[dispatches'[d].ev], d)
    <3> DEFINE q == dispatches[d]
               e == event[q.ev]
               e2 == event'[q.ev]
    <3>1. dispatches'[d] = q /\ FrameOK(q, e, d) /\ q \in Frames /\ d # n
      <4>1. d \in 1..n /\ d # n
        BY <1>2
      <4> QED
        BY <1>1, <1>3, <4>1, EventsAre DEF DispatchesOK, FramesOK
    <3>2. q.ev \in EventObjects
      BY <3>1 DEF Frames
    <3>3. e2.target = e.target /\ e2.current = e.current /\ (e2.stops = e.stops \/ e.stops = n)
      BY <1>5, <3>2
    <3> HIDE DEF q, e, e2
    <3>4. FrameOK(q, e2, d)
      BY <3>1, <3>3 DEF FrameOK
    <3> QED
      BY <3>1, <3>4 DEF e2
  <2> QED
    BY <1>3, <2>1 DEF FramesOK
<1>8. NestedOK'
  <2>1. \A d \in 1..(n - 1) : d \in 1..n
    BY <1>2
  <2> QED
    BY <1>3, <2>1 DEF DispatchesOK, NestedOK
<1>9. StopsOK'
  <2>1. ASSUME NEW ev \in EventObjects, event'[ev].stops # NoDispatch
        PROVE  event'[ev].stops \in 1..(n - 1) /\ dispatches'[event'[ev].stops].ev = ev
    <3> DEFINE k == event[ev].stops
    <3>1. event'[ev].stops = k /\ (ev = r.ev => k # n)
      BY <1>5, <2>1 DEF NoDispatch
    <3>2. k \in 1..n /\ dispatches[k].ev = ev
      BY <2>1, <3>1 DEF DispatchesOK, StopsOK
    <3>3. k # n
      BY <1>2, <3>1, <3>2
    <3>4. k \in 1..(n - 1)
      BY <1>2, <3>2, <3>3
    <3> QED
      BY <1>3, <3>1, <3>2, <3>4
  <2> QED
    BY <1>3, <2>1 DEF StopsOK
<1> QED
  BY <1>6, <1>7, <1>8, <1>9 DEF DispatchesOK

LEMMA VisitsAre ==
    ASSUME NEW path \in Seq(Nodes), Len(path) >= 1, NEW bubbles \in BOOLEAN
    PROVE  Visits(path, bubbles) \in Seq(VisitsOf)
<1> DEFINE n == Len(path)
           down == [i \in 1..(n - 1) |-> [node |-> path[n + 1 - i], phase |-> "capture"]]
           there == <<[node |-> path[1], phase |-> "target"]>>
           up == [i \in 1..(n - 1) |-> [node |-> path[i + 1], phase |-> "bubble"]]
           back == IF bubbles THEN up ELSE <<>>
<1>1. n \in Nat /\ n - 1 \in Nat /\ \A i \in 1..n : path[i] \in Nodes
  OBVIOUS
<1>2. down \in Seq(VisitsOf)
  <2>1. \A i \in 1..(n - 1) : n + 1 - i \in 1..n
    BY <1>1
  <2>2. down \in [1..(n - 1) -> VisitsOf]
    BY <1>1, <2>1 DEF VisitsOf, Phases
  <2> HIDE DEF down, n
  <2> QED
    BY <1>1, <2>2, SeqFrom
<1>3. there \in Seq(VisitsOf)
  BY <1>1 DEF VisitsOf, Phases
<1>4. up \in Seq(VisitsOf)
  <2>1. \A i \in 1..(n - 1) : i + 1 \in 1..n
    BY <1>1
  <2>2. up \in [1..(n - 1) -> VisitsOf]
    BY <1>1, <2>1 DEF VisitsOf, Phases
  <2> HIDE DEF up, n
  <2> QED
    BY <1>1, <2>2, SeqFrom
<1>5. back \in Seq(VisitsOf)
  <2> HIDE DEF up
  <2> QED
    BY <1>4
<1>6. Visits(path, bubbles) = down \o there \o back
  BY DEF Visits
<1> HIDE DEF down, there, back
<1>7. down \o there \in Seq(VisitsOf)
  BY <1>2, <1>3, ConcatProperties
<1>8. (down \o there) \o back \in Seq(VisitsOf)
  BY <1>5, <1>7, ConcatProperties
<1> QED
  BY <1>6, <1>8

(* A dispatch begins: what it does to the frames there are.                *)
Marked(q, r, ev) ==
    /\ q \in Frames
    /\ q.ev = r.ev /\ q.target = r.target /\ q.visits = r.visits /\ q.at = r.at /\ q.node = r.node
    /\ q.phase = r.phase /\ q.view = r.view /\ q.shared = r.shared /\ q.next = r.next
    /\ q.stopped = r.stopped /\ q.calling = r.calling /\ q.arrival = r.arrival /\ q.called = r.called
    /\ q.removed = r.removed /\ q.stoppedAt = r.stoppedAt
    /\ q.again = (r.again \/ r.ev = ev) /\ q.againHere = (r.againHere \/ r.ev = ev)

Begun(f, ev, target) ==
    /\ f \in Frames /\ f.ev = ev /\ f.target = target /\ f.at = 0 /\ f.view = <<>> /\ f.shared = FALSE
    /\ f.next = 1 /\ f.stopped = FALSE /\ f.calling = FALSE /\ f.arrival = <<>> /\ f.called = <<>> /\ f.removed = FALSE
    /\ f.stoppedAt = 0 /\ f.again = FALSE /\ f.againHere = FALSE /\ f.phase = "none" /\ f.node = None

LEMMA DispatchIs ==
    ASSUME TreeOK, EventsOK, NEW ev \in EventObjects, NEW target \in Nodes, NEW bubbles \in BOOLEAN,
           Dispatch(ev, target, bubbles)
    PROVE  /\ dispatches' \in Seq(Frames) /\ Len(dispatches') = Len(dispatches) + 1 /\ UNCHANGED <<lists, caps>>
           /\ Begun(dispatches'[Len(dispatches) + 1], ev, target)
           /\ \A d \in 1..Len(dispatches) : Marked(dispatches'[d], dispatches[d], ev)
           /\ event' = [event EXCEPT ![ev].target = target, ![ev].stops = Len(dispatches) + 1]
<1> DEFINE n == Len(dispatches)
           visits == Visits(Path(target), bubbles)
           older == [d \in DOMAIN dispatches |->
                        IF dispatches[d].ev = ev THEN [dispatches[d] EXCEPT !.again = TRUE, !.againHere = TRUE]
                        ELSE dispatches[d]]
           f == [ev |-> ev, target |-> target, visits |-> visits, at |-> 0, node |-> None, phase |-> "none",
                 view |-> <<>>, shared |-> FALSE, next |-> 1, stopped |-> FALSE, calling |-> FALSE,
                 arrival |-> <<>>, called |-> <<>>, removed |-> FALSE, stoppedAt |-> 0,
                 again |-> FALSE, againHere |-> FALSE]
<1>1. visits \in Seq(VisitsOf)
  <2> DEFINE path == Path(target)
  <2>1. path \in Seq(Nodes) /\ Len(path) \in 1..2
    BY PathOK
  <2> HIDE DEF path
  <2>2. Visits(path, bubbles) \in Seq(VisitsOf)
    BY <2>1, VisitsAre
  <2> QED
    BY <2>2 DEF path
<1>2. dispatches' = Append(older, f) /\ UNCHANGED <<lists, caps>>
      /\ event' = [event EXCEPT ![ev].target = target, ![ev].stops = n + 1]
  BY DEF Dispatch
<1> HIDE DEF visits
<1>3. Begun(f, ev, target)
  BY <1>1 DEF Begun, Frames
<1>4. n \in Nat /\ DOMAIN dispatches = 1..n /\ \A d \in 1..n : dispatches[d] \in Frames
  BY EventsAre
<1>5. ASSUME NEW d \in 1..n PROVE Marked(older[d], dispatches[d], ev)
  <2> DEFINE r == dispatches[d]
             q == older[d]
  <2>1. r \in Frames /\ q = IF r.ev = ev THEN [r EXCEPT !.again = TRUE, !.againHere = TRUE] ELSE r
    BY <1>4
  <2> HIDE DEF r, q
  <2>2. CASE r.ev = ev
    <3>1. q = [r EXCEPT !.again = TRUE, !.againHere = TRUE]
      BY <2>1, <2>2
    <3>2. q \in Frames
      BY <2>1, <3>1 DEF Frames
    <3>3. /\ q.ev = r.ev /\ q.target = r.target /\ q.visits = r.visits /\ q.at = r.at /\ q.node = r.node
          /\ q.phase = r.phase /\ q.view = r.view /\ q.shared = r.shared /\ q.next = r.next
      BY <2>1, <3>1 DEF Frames
    <3>4. /\ q.stopped = r.stopped /\ q.calling = r.calling /\ q.arrival = r.arrival /\ q.called = r.called
          /\ q.removed = r.removed /\ q.stoppedAt = r.stoppedAt /\ q.again = TRUE /\ q.againHere = TRUE
      BY <2>1, <3>1 DEF Frames
    <3>5. Marked(q, r, ev)
      BY <2>2, <3>2, <3>3, <3>4 DEF Marked
    <3> QED
      BY <3>5 DEF q, r
  <2>3. CASE r.ev # ev
    <3>1. q = r
      BY <2>1, <2>3
    <3>2. Marked(q, r, ev)
      BY <2>1, <2>3, <3>1 DEF Marked, Frames
    <3> QED
      BY <3>2 DEF q, r
  <2> QED
    BY <2>2, <2>3
<1>6. older \in Seq(Frames) /\ Len(older) = n
  <2>1. older = [d \in 1..n |-> older[d]]
    BY <1>4
  <2> HIDE DEF older
  <2>2. older \in [1..n -> Frames]
    BY <1>5, <2>1 DEF Marked
  <2> QED
    BY <1>4, <2>2, SeqFrom
<1> HIDE DEF older, f
<1>7. f \in Frames
  BY <1>3 DEF Begun
<1>8. /\ dispatches' \in Seq(Frames) /\ Len(dispatches') = n + 1 /\ dispatches'[n + 1] = f
      /\ \A d \in 1..n : dispatches'[d] = older[d]
  BY <1>2, <1>6, <1>7, AppendProperties
<1> QED
  BY <1>2, <1>3, <1>5, <1>8

LEMMA DispatchKeeps ==
    ASSUME TreeOK, DispatchesOK, NEW ev \in EventObjects, NEW target \in Nodes, NEW bubbles \in BOOLEAN,
           Dispatch(ev, target, bubbles)
    PROVE  DispatchesOK'
<1> DEFINE n == Len(dispatches)
           f == dispatches'[n + 1]
<1>0. EventsOK /\ n \in Nat
  BY EventsAre DEF DispatchesOK
<1>1. /\ dispatches' \in Seq(Frames) /\ Len(dispatches') = n + 1 /\ UNCHANGED <<lists, caps>>
      /\ Begun(f, ev, target)
      /\ event' = [event EXCEPT ![ev].target = target, ![ev].stops = n + 1]
  BY <1>0, DispatchIs
<1>2. \A d \in 1..n : Marked(dispatches'[d], dispatches[d], ev)
  BY <1>0, DispatchIs
<1>3. /\ event' \in [EventObjects -> [target : Nodes \cup {None}, current : Nodes \cup {None}, stops : Nat]]
      /\ \A o \in EventObjects : event'[o].current = event[o].current /\ (o # ev => event'[o] = event[o])
      /\ event'[ev].target = target /\ event'[ev].stops = n + 1
  <2> DEFINE Objects == [target : Nodes \cup {None}, current : Nodes \cup {None}, stops : Nat]
             new == [target |-> target, current |-> event[ev].current, stops |-> n + 1]
  <2>1. event \in [EventObjects -> Objects]
    BY <1>0 DEF EventsOK
  <2>2. new \in Objects /\ new.current = event[ev].current /\ new.target = target /\ new.stops = n + 1
    BY <1>0, <2>1
  <2>3. event' = [event EXCEPT ![ev] = new]
    <3> DEFINE m == n + 1
    <3>1. event' = [event EXCEPT ![ev].target = target, ![ev].stops = m] /\ m \in Nat
      BY <1>0, <1>1
    <3>2. event' = [[event EXCEPT ![ev].target = target] EXCEPT ![ev].stops = m]
      BY <3>1, <2>1
    <3> HIDE DEF m
    <3>3. DOMAIN event' = EventObjects /\ \A o \in EventObjects : o # ev => event'[o] = event[o]
      BY <2>1, <3>2
    <3>4. event'[ev] = [target |-> target, current |-> event[ev].current, stops |-> m]
      BY <2>1, <3>2
    <3>5. event' = [o \in EventObjects |-> IF o = ev THEN new ELSE event[o]]
      BY <2>1, <3>2, <3>3, <3>4 DEF m
    <3> HIDE DEF new
    <3> QED
      BY <2>1, <3>5
  <2> HIDE DEF new
  <2> QED
    BY <2>1, <2>2, <2>3
<1>4. EventsOK' /\ Capacities'
  BY <1>1, <1>3 DEF DispatchesOK, EventsOK, Capacities
<1>5. FramesOK'
  <2>1. ASSUME NEW d \in 1..n PROVE FrameOK(dispatches'[d], event'[dispatches'[d].ev], d)
    <3> DEFINE r == dispatches[d]
               q == dispatches'[d]
               e == event[r.ev]
               e2 == event'[r.ev]
    <3>1. Marked(q, r, ev) /\ FrameOK(r, e, d) /\ r \in Frames
      BY <1>0, <1>2, EventsAre DEF DispatchesOK, FramesOK
    <3>2. r.ev \in EventObjects /\ q.ev = r.ev
      BY <3>1 DEF Frames, Marked
    <3>3. e2.current = e.current /\ (r.ev # ev => e2 = e)
      BY <1>3, <3>2
    <3> HIDE DEF q, r, e, e2
    <3>4. FrameOK(q, e2, d)
      BY <3>1, <3>3 DEF FrameOK, Marked
    <3> QED
      BY <3>2, <3>4 DEF q, e2
  <2>2. FrameOK(f, event'[f.ev], n + 1)
    <3> DEFINE e2 == event'[ev]
    <3>1. e2.target = target /\ e2.stops = n + 1
      BY <1>3
    <3> HIDE DEF f, e2
    <3>2. f.visits \in Seq(VisitsOf)
      BY <1>1 DEF Begun, Frames
    <3>3. Len(f.visits) \in Nat /\ Len(<<>>) = 0
      BY <3>2
    <3>4. FrameOK(f, e2, n + 1)
      BY <1>1, <3>1, <3>3 DEF FrameOK, Begun
    <3> QED
      BY <1>1, <3>4 DEF e2, Begun
  <2>3. ASSUME NEW d \in 1..(n + 1) PROVE d \in 1..n \/ d = n + 1
    BY <1>0
  <2> QED
    BY <1>1, <2>1, <2>2, <2>3 DEF FramesOK
<1>6. NestedOK'
  <2>1. ASSUME NEW i \in 1..(n + 1), NEW j \in 1..(n + 1), i < j, dispatches'[i].ev = dispatches'[j].ev
        PROVE  dispatches'[i].again /\ dispatches'[i].againHere
    <3>1. i \in 1..n /\ Marked(dispatches'[i], dispatches[i], ev)
      BY <1>0, <1>2, <2>1
    <3>2. CASE j = n + 1
      <4>1. dispatches'[j].ev = ev
        BY <1>1, <3>2 DEF Begun
      <4> QED
        BY <2>1, <3>1, <4>1 DEF Marked
    <3>3. CASE j # n + 1
      <4>1. j \in 1..n
        BY <1>0, <3>3
      <4>2. Marked(dispatches'[j], dispatches[j], ev)
        BY <1>2, <4>1
      <4>3. dispatches[i].ev = dispatches[j].ev
        BY <2>1, <3>1, <4>2 DEF Marked
      <4>4. dispatches[i].again /\ dispatches[i].againHere
        BY <2>1, <3>1, <4>1, <4>3 DEF DispatchesOK, NestedOK
      <4> QED
        BY <3>1, <4>4 DEF Marked
    <3> QED
      BY <3>2, <3>3
  <2> QED
    BY <1>1, <2>1 DEF NestedOK
<1>7. StopsOK'
  <2>1. ASSUME NEW o \in EventObjects, event'[o].stops # NoDispatch
        PROVE  event'[o].stops \in 1..(n + 1) /\ dispatches'[event'[o].stops].ev = o
    <3>1. CASE o = ev
      BY <1>0, <1>1, <1>3, <3>1 DEF Begun
    <3>2. CASE o # ev
      <4> DEFINE k == event[o].stops
      <4>1. event'[o].stops = k
        BY <1>3, <3>2
      <4>2. k \in 1..n /\ dispatches[k].ev = o
        BY <2>1, <4>1 DEF DispatchesOK, StopsOK
      <4>3. Marked(dispatches'[k], dispatches[k], ev) /\ k \in 1..(n + 1)
        BY <1>0, <1>2, <4>2
      <4> QED
        BY <4>1, <4>2, <4>3 DEF Marked
    <3> QED
      BY <3>1, <3>2
  <2> QED
    BY <1>1, <2>1 DEF StopsOK
<1> QED
  BY <1>4, <1>5, <1>6, <1>7 DEF DispatchesOK

(* A slice has the capacity for what was appended to it.                   *)
NextCap(cap, n) == IF n <= cap THEN cap ELSE Grown(cap)

LEMMA CapForIs ==
    ASSUME NEW len \in Nat
    PROVE  CapFor(len) \in Nat /\ CapFor(len) >= len
<1> DEFINE Upto(g, n) == g[0] = 0 /\ \A i \in 1..n : g[i] = NextCap(g[i - 1], i)
           P == {n \in Nat : \E g : Upto(g, n)}
<1>1. 0 \in P
  <2>1. Upto([i \in {0} |-> 0], 0)
    OBVIOUS
  <2> QED
    BY <2>1
<1>2. ASSUME NEW n \in Nat, n \in P PROVE n + 1 \in P
  <2>1. PICK g : Upto(g, n)
    BY <1>2
  <2> DEFINE h == [i \in 0..(n + 1) |-> IF i = n + 1 THEN NextCap(g[n], n + 1) ELSE g[i]]
  <2>2. h[0] = 0 /\ h[n + 1] = NextCap(g[n], n + 1) /\ \A i \in 0..n : h[i] = g[i]
    BY <2>1
  <2> HIDE DEF h
  <2>3. ASSUME NEW i \in 1..(n + 1) PROVE h[i] = NextCap(h[i - 1], i)
    <3>1. CASE i = n + 1
      <4>1. i - 1 = n /\ n \in 0..n
        BY <3>1
      <4> QED
        BY <2>2, <3>1, <4>1
    <3>2. CASE i # n + 1
      <4>1. i \in 1..n /\ i \in 0..n /\ i - 1 \in 0..n
        BY <3>2
      <4> QED
        BY <2>1, <2>2, <4>1
    <3> QED
      BY <3>1, <3>2
  <2> QED
    BY <2>2, <2>3
<1>3. PICK g : Upto(g, len)
  <2> HIDE DEF P
  <2>1. len \in P
    BY <1>1, <1>2, Induct
  <2> QED
    BY <2>1 DEF P
<1> DEFINE h == [i \in 0..len |-> g[i]]
           F(cap) == [n \in 0..len |-> IF n = 0 THEN 0 ELSE IF n <= cap[n - 1] THEN cap[n - 1] ELSE Grown(cap[n - 1])]
           up == CHOOSE cap : cap = F(cap)
<1>4. h = F(h)
  <2>1. ASSUME NEW n \in 0..len PROVE h[n] = IF n = 0 THEN 0 ELSE NextCap(h[n - 1], n)
    <3>1. CASE n = 0
      BY <1>3, <3>1
    <3>2. CASE n # 0
      <4>1. n \in 1..len /\ n - 1 \in 0..len
        BY <3>2
      <4> QED
        BY <1>3, <3>2, <4>1
    <3> QED
      BY <3>1, <3>2
  <2> QED
    BY <2>1 DEF NextCap
<1>5. up = F(up)
  <2> HIDE DEF h, F
  <2> QED
    BY <1>4
<1>6. CapFor(len) = up[len]
  BY DEF CapFor
<1>7. ASSUME NEW n \in 0..len PROVE up[n] = IF n = 0 THEN 0 ELSE NextCap(up[n - 1], n)
  <2> HIDE DEF up
  <2> QED
    BY <1>5, Zenon DEF NextCap
<1> HIDE DEF up
<1> DEFINE Good(n) == up[n] \in Nat /\ up[n] >= n
           Q == {n \in Nat : n <= len => Good(n)}
<1>8. 0 \in Q
  BY <1>7
<1>9. ASSUME NEW n \in Nat, n \in Q PROVE n + 1 \in Q
  <2> SUFFICES ASSUME n + 1 <= len PROVE Good(n + 1)
    <3> HIDE DEF Good
    <3> QED
      OBVIOUS
  <2>1. Good(n) /\ n + 1 \in 0..len /\ (n + 1) - 1 = n /\ n + 1 # 0
    BY <1>9
  <2>2. up[n + 1] = NextCap(up[n], n + 1)
    BY <1>7, <2>1
  <2> QED
    BY <2>1, <2>2 DEF NextCap, Grown
<1> HIDE DEF Q, Good
<1>10. len \in Q
  BY <1>8, <1>9, Induct
<1> QED
  BY <1>6, <1>10 DEF Q, Good

LEMMA DispatchesInitOK == CallbacksInit => DispatchesOK
<1> SUFFICES ASSUME CallbacksInit PROVE DispatchesOK
  OBVIOUS
<1>1. /\ lists \in InitialLists /\ caps = [n \in Nodes |-> CapFor(Len(lists[n]))]
      /\ event = [ev \in EventObjects |-> [target |-> None, current |-> None, stops |-> NoDispatch]]
      /\ dispatches = <<>>
  BY DEF CallbacksInit
<1>2. lists \in [Nodes -> Seq(Entries)]
  BY <1>1, CallbacksAssumption
<1>3. ASSUME NEW n \in Nodes PROVE caps[n] \in Nat /\ Len(lists[n]) <= caps[n]
  <2>1. Len(lists[n]) \in Nat
    BY <1>2
  <2>2. CapFor(Len(lists[n])) \in Nat /\ CapFor(Len(lists[n])) >= Len(lists[n])
    BY <2>1, CapForIs
  <2>3. caps[n] = CapFor(Len(lists[n]))
    BY <1>1
  <2> QED
    BY <2>1, <2>2, <2>3
<1>4. EventsOK
  <2>1. caps \in [Nodes -> Nat]
    BY <1>1, <1>3
  <2>2. dispatches \in Seq(Frames)
    BY <1>1
  <2>3. event \in [EventObjects -> [target : Nodes \cup {None}, current : Nodes \cup {None}, stops : Nat]]
    BY <1>1 DEF NoDispatch
  <2> QED
    BY <1>2, <2>1, <2>2, <2>3 DEF EventsOK
<1>5. Len(dispatches) = 0
  BY <1>1
<1>6. StopsOK
  BY <1>1 DEF StopsOK
<1> QED
  BY <1>3, <1>4, <1>5, <1>6 DEF DispatchesOK, Capacities, FramesOK, NestedOK

LEMMA DispatchesNextOK == ObserversOK /\ DispatchesOK /\ [CallbacksNext]_callbackVars => DispatchesOK'
<1> SUFFICES ASSUME ObserversOK, DispatchesOK, [CallbacksNext]_callbackVars PROVE DispatchesOK'
  OBVIOUS
<1>1. TreeOK /\ EventsOK
  BY DEF ObserversOK, DispatchesOK
<1>2. ASSUME UNCHANGED eventVars PROVE DispatchesOK'
  BY <1>2 DEF eventVars, DispatchesOK, EventsOK, Capacities, FramesOK, NestedOK, StopsOK
<1>3. CASE EventCalls
  <2>1. ASSUME NEW n \in Nodes, NEW e \in Entries, AddListener(n, e) \/ RemoveListener(n, e) PROVE DispatchesOK'
    BY <2>1, AddListenerKeeps, RemoveListenerKeeps
  <2>2. ASSUME NEW ev \in EventObjects, NEW n \in Nodes, NEW bubbles \in BOOLEAN, Dispatch(ev, n, bubbles)
        PROVE  DispatchesOK'
    BY <1>1, <2>2, DispatchKeeps
  <2>3. ASSUME NEW d \in Range(dispatches), StopPropagation(d.ev) PROVE DispatchesOK'
    <3>1. d \in Frames
      BY <1>1, EventsAre DEF Range
    <3>2. d.ev \in EventObjects
      BY <3>1 DEF Frames
    <3> QED
      BY <2>3, <3>2, StopPropagationKeeps
  <2> QED
    BY <1>3, <2>1, <2>2, <2>3 DEF EventCalls
<1>4. CASE DispatchGoesOn
  BY <1>4, VisitKeeps, NextCallKeeps, ListenerReturnsKeeps, DispatchReturnsKeeps DEF DispatchGoesOn
<1>5. CASE ObserverCalls
  BY <1>2, <1>5 DEF ObserverCalls
<1>6. CASE Changes
  BY <1>2, <1>6 DEF Changes
<1>7. CASE FlushGoesOn
  BY <1>2, <1>7 DEF FlushGoesOn
<1>8. CASE UNCHANGED callbackVars
  BY <1>2, <1>8 DEF callbackVars
<1> QED
  BY <1>3, <1>4, <1>5, <1>6, <1>7, <1>8 DEF CallbacksNext

(* A listener finds the node it is registered on, and the target, in the   *)
(* event, and stopPropagation stops the dispatch it is meant for, unless   *)
(* the event was dispatched again: binding_event.go.                       *)
THEOREM StopAndCurrentHolds == CallbacksSpec => []StopAndCurrent
<1>1. DispatchesOK => StopAndCurrent
  <2> SUFFICES ASSUME DispatchesOK, NEW d \in Range(dispatches), d.calling
               PROVE  /\ d.stoppedAt # 0 => d.at = d.stoppedAt
                      /\ ~d.againHere => event[d.ev].current = d.node
                      /\ ~d.again => event[d.ev].target = d.target
    BY DEF StopAndCurrent, StopHolds, CurrentRight
  <2>1. PICK i \in 1..Len(dispatches) : dispatches[i] = d
    BY EventsAre DEF DispatchesOK, Range
  <2>2. FrameOK(d, event[d.ev], i)
    BY <2>1 DEF DispatchesOK, FramesOK
  <2> QED
    BY <2>2 DEF FrameOK
<1> QED
  BY <1>1, ObserversInitOK, ObserversNextOK, DispatchesInitOK, DispatchesNextOK, PTL DEF CallbacksSpec

-----------------------------------------------------------------------------
(* Loops over listeners: what a loop has called is what it wants of what   *)
(* it has come to, as long as no listener of the node was removed.         *)
Here(r) == {i \in DOMAIN r.arrival : r.phase = "target" \/ r.arrival[i].capture = (r.phase = "capture")}
AsArrived(r) ==
    /\ \A i \in 1..Len(r.view) : r.view[i] = r.arrival[i]
    /\ r.called = SublistUpTo(r.arrival, Here(r))[r.next - 1]

LoopGoesWell(r) == Len(r.view) = Len(r.arrival) /\ Len(r.called) <= r.next - 1 /\ (~r.removed => AsArrived(r))

(* The array that it shares has not become shorter.                        *)
ReachOK(r, now) == ~r.removed /\ r.shared => Len(r.view) <= Len(now[r.node])

LoopsOK == \A d \in 1..Len(dispatches) : LoopGoesWell(dispatches[d]) /\ ReachOK(dispatches[d], lists)

LEMMA LoopsAddListener ==
    ASSUME DispatchesOK, LoopsOK, NEW node \in Nodes, NEW e \in Entries, AddListener(node, e)
    PROVE  LoopsOK'
<1>1. EventsOK /\ \A n \in Nodes : Len(lists[n]) <= caps[n]
  BY DEF DispatchesOK, Capacities
<1>2. /\ Len(dispatches') = Len(dispatches)
      /\ \A n \in Nodes : Len(lists'[n]) >= Len(lists[n])
      /\ \A d \in 1..Len(dispatches) :
            /\ Seen(dispatches'[d], dispatches[d]) /\ dispatches'[d].removed = dispatches[d].removed
            /\ \A i \in 1..Len(dispatches[d].view) :
                  \/ dispatches'[d].view[i] = dispatches[d].view[i]
                  \/ dispatches[d].shared /\ dispatches[d].node = node /\ i > Len(lists[node])
      /\ EventsOK'
  BY <1>1, AddListenerIs
<1>3. ASSUME NEW d \in 1..Len(dispatches) PROVE LoopGoesWell(dispatches'[d]) /\ ReachOK(dispatches'[d], lists')
  <2> DEFINE r == dispatches[d]
             q == dispatches'[d]
             len == Len(lists[node])
  <2>1. /\ Seen(q, r) /\ q.removed = r.removed
        /\ \A i \in 1..Len(r.view) : q.view[i] = r.view[i] \/ (r.shared /\ r.node = node /\ i > len)
    BY <1>2
  <2>2. r \in Frames /\ LoopGoesWell(r) /\ ReachOK(r, lists) /\ FrameOK(r, event[r.ev], d)
    BY <1>1, EventsAre DEF LoopsOK, DispatchesOK, FramesOK
  <2>3. r.shared => r.node \in Nodes
    BY <2>2 DEF FrameOK
  <2>4. len \in Nat /\ \A n \in Nodes : Len(lists'[n]) \in Nat /\ Len(lists[n]) \in Nat
    BY <1>1, <1>2 DEF EventsOK
  <2>5. Len(r.view) \in Nat
    <3>1. r.view \in Seq(Entries)
      BY <2>2 DEF Frames
    <3> QED
      BY <3>1
  <2>6. r.node = node => lists[r.node] = lists[node]
    OBVIOUS
  <2> HIDE DEF r, q
  <2>7. ~r.removed => \A i \in 1..Len(r.view) : q.view[i] = r.view[i]
    BY <2>1, <2>2, <2>4, <2>5, <2>6 DEF ReachOK
  <2>8. Here(q) = Here(r)
    BY <2>1 DEF Here, Seen, Same
  <2>9. LoopGoesWell(q)
    BY <2>1, <2>2, <2>7, <2>8 DEF LoopGoesWell, AsArrived, Seen, Same
  <2>10. ReachOK(q, lists')
    <3>1. \A n \in Nodes : Len(lists'[n]) >= Len(lists[n])
      BY <1>2
    <3> QED
      BY <2>1, <2>2, <2>3, <2>4, <2>5, <3>1 DEF ReachOK, Seen, Same
  <2> QED
    BY <2>9, <2>10 DEF q
<1> QED
  BY <1>2, <1>3 DEF LoopsOK

LEMMA LoopsRemoveListener ==
    ASSUME DispatchesOK, LoopsOK, NEW node \in Nodes, NEW e \in Entries, RemoveListener(node, e)
    PROVE  LoopsOK'
<1>1. EventsOK /\ \A n \in Nodes : Len(lists[n]) <= caps[n]
  BY DEF DispatchesOK, Capacities
<1>2. /\ Len(dispatches') = Len(dispatches)
      /\ \A n \in Nodes : n # node => lists'[n] = lists[n]
      /\ \A d \in 1..Len(dispatches) :
            /\ Seen(dispatches'[d], dispatches[d])
            /\ ~dispatches'[d].removed => dispatches[d].node # node /\ dispatches'[d].view = dispatches[d].view
  BY <1>1, RemoveListenerIs
<1>3. ASSUME NEW d \in 1..Len(dispatches) PROVE LoopGoesWell(dispatches'[d]) /\ ReachOK(dispatches'[d], lists')
  <2> DEFINE r == dispatches[d]
             q == dispatches'[d]
  <2>1. Seen(q, r) /\ (~q.removed => r.node # node /\ q.view = r.view)
    BY <1>2
  <2>2. r \in Frames /\ LoopGoesWell(r) /\ ReachOK(r, lists) /\ FrameOK(r, event[r.ev], d)
    BY <1>1, EventsAre DEF LoopsOK, DispatchesOK, FramesOK
  <2>3. r.shared => r.node \in Nodes
    BY <2>2 DEF FrameOK
  <2>4. r.shared /\ r.node # node => lists'[r.node] = lists[r.node]
    BY <1>2, <2>3
  <2> HIDE DEF r, q
  <2>5. Here(q) = Here(r)
    BY <2>1 DEF Here, Seen, Same
  <2>6. LoopGoesWell(q)
    BY <2>1, <2>2, <2>5 DEF LoopGoesWell, AsArrived, Seen, Same
  <2>7. ReachOK(q, lists')
    BY <2>1, <2>2, <2>4 DEF ReachOK, Seen, Same
  <2> QED
    BY <2>6, <2>7 DEF q
<1> QED
  BY <1>2, <1>3 DEF LoopsOK

LEMMA LoopsStopPropagation ==
    ASSUME DispatchesOK, LoopsOK, NEW ev \in EventObjects, StopPropagation(ev)
    PROVE  LoopsOK'
<1>1. EventsOK
  BY DEF DispatchesOK
<1>2. lists' = lists /\ Len(dispatches') = Len(dispatches)
  BY <1>1, StopPropagationEvents
<1>3. ASSUME NEW d \in 1..Len(dispatches) PROVE LoopGoesWell(dispatches'[d]) /\ ReachOK(dispatches'[d], lists)
  <2> DEFINE r == dispatches[d]
             q == dispatches'[d]
  <2>1. /\ q.node = r.node /\ q.phase = r.phase /\ q.view = r.view /\ q.shared = r.shared /\ q.next = r.next
        /\ q.arrival = r.arrival /\ q.called = r.called /\ q.removed = r.removed
    BY <1>1, StopPropagationIs
  <2>2. LoopGoesWell(r) /\ ReachOK(r, lists)
    BY DEF LoopsOK
  <2> HIDE DEF r, q
  <2>3. Here(q) = Here(r)
    BY <2>1 DEF Here
  <2>4. LoopGoesWell(q) /\ ReachOK(q, lists)
    BY <2>1, <2>2, <2>3 DEF LoopGoesWell, AsArrived, ReachOK
  <2> QED
    BY <2>4 DEF q
<1> QED
  BY <1>2, <1>3 DEF LoopsOK

LEMMA LoopBegins ==
    ASSUME NEW r, NEW list \in Seq(Entries), r.arrival = list, r.view = list, r.called = <<>>, r.next = 1
    PROVE  LoopGoesWell(r)
<1>1. SublistUpTo(list, Here(r))[0] = <<>> /\ Len(<<>>) = 0
  BY SublistUpToIs
<1> QED
  BY <1>1 DEF LoopGoesWell, AsArrived

LEMMA LoopsDispatch ==
    ASSUME TreeOK, DispatchesOK, LoopsOK, NEW ev \in EventObjects, NEW target \in Nodes, NEW bubbles \in BOOLEAN,
           Dispatch(ev, target, bubbles)
    PROVE  LoopsOK'
<1> DEFINE n == Len(dispatches)
           f == dispatches'[n + 1]
<1>0. EventsOK /\ n \in Nat
  BY EventsAre DEF DispatchesOK
<1>1. Len(dispatches') = n + 1 /\ lists' = lists /\ Begun(f, ev, target)
  BY <1>0, DispatchIs
<1>2. \A d \in 1..n : Marked(dispatches'[d], dispatches[d], ev)
  BY <1>0, DispatchIs
<1>3. ASSUME NEW d \in 1..n PROVE LoopGoesWell(dispatches'[d]) /\ ReachOK(dispatches'[d], lists)
  <2> DEFINE r == dispatches[d]
             q == dispatches'[d]
  <2>1. Marked(q, r, ev)
    BY <1>2
  <2>2. LoopGoesWell(r) /\ ReachOK(r, lists)
    BY DEF LoopsOK
  <2> HIDE DEF r, q
  <2>3. Here(q) = Here(r)
    BY <2>1 DEF Here, Marked
  <2>4. LoopGoesWell(q) /\ ReachOK(q, lists)
    BY <2>1, <2>2, <2>3 DEF LoopGoesWell, AsArrived, ReachOK, Marked
  <2> QED
    BY <2>4 DEF q
<1>4. LoopGoesWell(f) /\ ReachOK(f, lists)
  <2> HIDE DEF f
  <2>1. f.arrival = <<>> /\ f.view = <<>> /\ f.called = <<>> /\ f.next = 1 /\ f.shared = FALSE
    BY <1>1 DEF Begun
  <2>2. <<>> \in Seq(Entries)
    OBVIOUS
  <2>3. LoopGoesWell(f)
    BY <2>1, <2>2, LoopBegins
  <2> QED
    BY <2>1, <2>3 DEF ReachOK
<1>5. ASSUME NEW d \in 1..(n + 1) PROVE d \in 1..n \/ d = n + 1
  BY <1>0
<1> QED
  BY <1>1, <1>3, <1>4, <1>5 DEF LoopsOK

(* The steps of the innermost dispatch.                                    *)
LEMMA LoopsInnermost ==
    ASSUME EventsOK, LoopsOK, dispatches # <<>>, NEW f \in Frames, SetInnermost(f), UNCHANGED lists,
           LoopGoesWell(f), ReachOK(f, lists)
    PROVE  LoopsOK'
<1> DEFINE n == Len(dispatches)
<1>1. /\ Len(dispatches') = n /\ dispatches'[n] = f
      /\ \A d \in 1..n : d # n => dispatches'[d] = dispatches[d]
  BY SetInnermostIs
<1>2. ASSUME NEW d \in 1..n PROVE LoopGoesWell(dispatches'[d]) /\ ReachOK(dispatches'[d], lists)
  <2>1. CASE d = n
    BY <1>1, <2>1
  <2>2. CASE d # n
    BY <1>1, <2>2 DEF LoopsOK
  <2> QED
    BY <2>1, <2>2
<1> QED
  BY <1>1, <1>2 DEF LoopsOK

LEMMA LoopsVisit ==
    ASSUME DispatchesOK, LoopsOK, Visit
    PROVE  LoopsOK'
<1> DEFINE visit == NextVisit
           list == lists[visit.node]
<1>1. EventsOK /\ dispatches # <<>> /\ visit \in VisitsOf /\ UNCHANGED lists
  BY VisitIs
<1>2. PICK f : Visited(f, Innermost, visit, list) /\ SetInnermost(f)
  BY VisitIs
<1>3. list \in Seq(Entries)
  BY <1>1 DEF EventsOK, VisitsOf
<1>4. Len(list) <= Len(list)
  BY <1>3
<1> HIDE DEF visit
<1>5. f \in Frames /\ f.view = list /\ f.arrival = list /\ f.called = <<>> /\ f.next = 1 /\ f.node = visit.node
  BY <1>2 DEF Visited
<1>6. ReachOK(f, lists)
  BY <1>4, <1>5 DEF ReachOK
<1> HIDE DEF list
<1>7. LoopGoesWell(f)
  BY <1>3, <1>5, LoopBegins
<1> QED
  BY <1>1, <1>2, <1>5, <1>6, <1>7, LoopsInnermost

LEMMA LoopsListenerReturns ==
    ASSUME DispatchesOK, LoopsOK, ListenerReturns
    PROVE  LoopsOK'
<1> DEFINE n == Len(dispatches)
           r == Innermost
           f == [r EXCEPT !.calling = FALSE]
<1>1. EventsOK /\ dispatches # <<>> /\ SetInnermost(f) /\ UNCHANGED <<lists, caps, event>>
  BY DEF DispatchesOK, ListenerReturns
<1>2. r \in Frames /\ r = dispatches[n] /\ n \in Nat \ {0}
  BY <1>1, InnermostIs
<1>3. LoopGoesWell(r) /\ ReachOK(r, lists)
  BY <1>2 DEF LoopsOK
<1> HIDE DEF r
<1>4. /\ f \in Frames /\ f.node = r.node /\ f.phase = r.phase /\ f.view = r.view /\ f.shared = r.shared
      /\ f.next = r.next /\ f.arrival = r.arrival /\ f.called = r.called /\ f.removed = r.removed
  BY <1>2 DEF Frames
<1> HIDE DEF f
<1>5. Here(f) = Here(r)
  BY <1>4 DEF Here
<1>6. LoopGoesWell(f) /\ ReachOK(f, lists)
  BY <1>3, <1>4, <1>5 DEF LoopGoesWell, AsArrived, ReachOK
<1> QED
  BY <1>1, <1>4, <1>6, LoopsInnermost

LEMMA LoopsCall ==
    ASSUME DispatchesOK, LoopsOK, Call
    PROVE  LoopsOK'
<1> DEFINE n == Len(dispatches)
           r == Innermost
<1>1. EventsOK /\ dispatches # <<>> /\ r.next <= Len(r.view) /\ UNCHANGED <<lists, caps, event>>
  BY CallIs DEF DispatchesOK
<1>2. PICK f : Called(f, r) /\ SetInnermost(f)
  BY <1>1, CallIs
<1>3. r \in Frames /\ r = dispatches[n] /\ n \in Nat \ {0}
  BY <1>1, InnermostIs
<1>4. FrameOK(r, event[r.ev], n) /\ r.next >= 1 /\ LoopGoesWell(r) /\ ReachOK(r, lists)
  BY <1>3 DEF DispatchesOK, FramesOK, FrameOK, LoopsOK
<1> HIDE DEF r
<1> DEFINE entry == r.view[r.next]
<1>5. /\ f \in Frames /\ entry \in Entries /\ f.node = r.node
      /\ f.phase = r.phase /\ f.view = r.view /\ f.shared = r.shared /\ f.next = r.next + 1
      /\ f.arrival = r.arrival /\ f.removed = r.removed
      /\ f.called = IF Wanted(r.phase, entry) THEN Append(r.called, entry) ELSE r.called
  BY <1>1, <1>2, <1>3, <1>4, CalledIs
<1>6. /\ r.next \in Nat /\ r.view \in Seq(Entries) /\ r.called \in Seq(Entries) /\ r.arrival \in Seq(Entries)
      /\ r.at \in Nat
  BY <1>3 DEF Frames
<1>7. Len(r.view) \in Nat /\ Len(r.called) \in Nat /\ Len(r.arrival) \in Nat /\ DOMAIN r.arrival = 1..Len(r.arrival)
  BY <1>6
<1>8. r.phase \in Phases
  BY <1>1, <1>4, <1>6, <1>7 DEF FrameOK
<1>9. Here(f) = Here(r)
  BY <1>5 DEF Here
<1>10. Len(f.called) <= f.next - 1
  <2>1. Len(Append(r.called, entry)) = Len(r.called) + 1
    BY <1>6
  <2>2. Len(r.called) <= r.next - 1
    BY <1>4 DEF LoopGoesWell
  <2> HIDE DEF entry
  <2>3. Len(f.called) = Len(r.called) + 1 \/ Len(f.called) = Len(r.called)
    BY <1>5, <2>1
  <2> QED
    BY <1>5, <1>6, <1>7, <2>2, <2>3
<1>11. ASSUME ~f.removed PROVE AsArrived(f)
  <2> DEFINE S == Here(r)
             a == r.arrival
             k == r.next
  <2>1. /\ \A i \in 1..Len(r.view) : r.view[i] = a[i]
        /\ r.called = SublistUpTo(a, S)[k - 1] /\ Len(r.view) = Len(a)
    BY <1>4, <1>5, <1>11 DEF LoopGoesWell, AsArrived
  <2>2. k \in 1..Len(a) /\ k \in DOMAIN a /\ entry = a[k]
    BY <1>1, <1>4, <1>6, <1>7, <2>1
  <2>3. k \in S <=> Wanted(r.phase, entry)
    <3>1. k \in S <=> (r.phase = "target" \/ entry.capture = (r.phase = "capture"))
      BY <2>2 DEF Here
    <3>2. entry.capture \in BOOLEAN
      BY <1>5 DEF Entries
    <3> HIDE DEF entry, S, k
    <3> QED
      BY <1>8, <3>1, <3>2 DEF Wanted, Phases
  <2> HIDE DEF S
  <2>4. SublistUpTo(a, S)[k] = Take(a, S, SublistUpTo(a, S)[k - 1], k)
    BY <1>6, <2>2, SublistUpToIs
  <2>5. f.called = SublistUpTo(a, S)[k]
    BY <1>5, <2>1, <2>2, <2>3, <2>4 DEF Take
  <2>6. f.next - 1 = k
    BY <1>5, <1>6
  <2>7. Here(f) = S /\ f.arrival = a /\ f.view = r.view
    BY <1>5, <1>9 DEF S
  <2> QED
    BY <2>1, <2>5, <2>6, <2>7 DEF AsArrived
<1>12. Len(f.view) = Len(f.arrival)
  BY <1>4, <1>5 DEF LoopGoesWell
<1>13. LoopGoesWell(f) /\ ReachOK(f, lists)
  BY <1>4, <1>5, <1>10, <1>11, <1>12 DEF LoopGoesWell, ReachOK
<1> QED
  BY <1>1, <1>2, <1>5, <1>13, LoopsInnermost DEF r

LEMMA LoopsDispatchReturns ==
    ASSUME DispatchesOK, LoopsOK, DispatchReturns
    PROVE  LoopsOK'
<1> DEFINE n == Len(dispatches)
<1>1. /\ EventsOK /\ dispatches # <<>> /\ dispatches' = Front(dispatches) /\ lists' = lists
  BY DEF DispatchesOK, DispatchReturns, Looping
<1>2. n \in Nat \ {0} /\ dispatches \in Seq(Frames)
  BY <1>1, InnermostIs, EventsAre
<1>3. Len(dispatches') = n - 1 /\ \A d \in 1..(n - 1) : dispatches'[d] = dispatches[d]
  BY <1>1, <1>2, FrontIs
<1>4. \A d \in 1..(n - 1) : d \in 1..n
  BY <1>2
<1> QED
  BY <1>1, <1>3, <1>4 DEF LoopsOK

LEMMA LoopsInitOK == CallbacksInit => LoopsOK
<1> SUFFICES ASSUME CallbacksInit PROVE LoopsOK
  OBVIOUS
<1>1. Len(dispatches) = 0
  BY DEF CallbacksInit
<1> QED
  BY <1>1 DEF LoopsOK

LEMMA LoopsNextOK == ObserversOK /\ DispatchesOK /\ LoopsOK /\ [CallbacksNext]_callbackVars => LoopsOK'
<1> SUFFICES ASSUME ObserversOK, DispatchesOK, LoopsOK, [CallbacksNext]_callbackVars PROVE LoopsOK'
  OBVIOUS
<1>1. TreeOK /\ EventsOK
  BY DEF ObserversOK, DispatchesOK
<1>2. ASSUME UNCHANGED eventVars PROVE LoopsOK'
  BY <1>2 DEF eventVars, LoopsOK
<1>3. CASE EventCalls
  <2>1. ASSUME NEW n \in Nodes, NEW e \in Entries, AddListener(n, e) \/ RemoveListener(n, e) PROVE LoopsOK'
    BY <2>1, LoopsAddListener, LoopsRemoveListener
  <2>2. ASSUME NEW ev \in EventObjects, NEW n \in Nodes, NEW bubbles \in BOOLEAN, Dispatch(ev, n, bubbles)
        PROVE  LoopsOK'
    BY <1>1, <2>2, LoopsDispatch
  <2>3. ASSUME NEW d \in Range(dispatches), StopPropagation(d.ev) PROVE LoopsOK'
    <3>1. d \in Frames
      BY <1>1, EventsAre DEF Range
    <3>2. d.ev \in EventObjects
      BY <3>1 DEF Frames
    <3> QED
      BY <2>3, <3>2, LoopsStopPropagation
  <2> QED
    BY <1>3, <2>1, <2>2, <2>3 DEF EventCalls
<1>4. CASE DispatchGoesOn
  BY <1>4, LoopsVisit, LoopsCall, LoopsListenerReturns, LoopsDispatchReturns DEF DispatchGoesOn
<1>5. CASE ObserverCalls
  BY <1>2, <1>5 DEF ObserverCalls
<1>6. CASE Changes
  BY <1>2, <1>6 DEF Changes
<1>7. CASE FlushGoesOn
  BY <1>2, <1>7 DEF FlushGoesOn
<1>8. CASE UNCHANGED callbackVars
  BY <1>2, <1>8 DEF callbackVars
<1> QED
  BY <1>3, <1>4, <1>5, <1>6, <1>7, <1>8 DEF CallbacksNext

-----------------------------------------------------------------------------
(* The stack has the dispatches and the flushes that are under way.        *)
Places(s, y) == {i \in DOMAIN s : s[i] = y}

LEMMA PlacesFinite ==
    ASSUME NEW T, NEW s \in Seq(T), NEW y
    PROVE  IsFiniteSet(Places(s, y)) /\ Cardinality(Places(s, y)) \in Nat
<1>1. Len(s) \in Nat /\ Places(s, y) \subseteq 1..Len(s)
  BY DEF Places
<1>2. IsFiniteSet(1..Len(s))
  BY <1>1, FS_Interval
<1> QED
  BY <1>1, <1>2, FS_Subset, FS_CardinalityType

LEMMA PlacesAppend ==
    ASSUME NEW T, NEW s \in Seq(T), NEW x \in T, NEW y
    PROVE  Cardinality(Places(Append(s, x), y)) = Cardinality(Places(s, y)) + IF x = y THEN 1 ELSE 0
<1> DEFINE n == Len(s)
           more == Append(s, x)
<1>1. /\ n \in Nat /\ DOMAIN s = 1..n /\ DOMAIN more = 1..(n + 1) /\ more[n + 1] = x
      /\ \A i \in 1..n : more[i] = s[i]
  OBVIOUS
<1>2. IsFiniteSet(Places(s, y)) /\ Cardinality(Places(s, y)) \in Nat /\ n + 1 \notin Places(s, y)
  <2>1. IsFiniteSet(Places(s, y)) /\ Cardinality(Places(s, y)) \in Nat
    BY PlacesFinite
  <2>2. n + 1 \notin DOMAIN s
    BY <1>1
  <2> QED
    BY <2>1, <2>2 DEF Places
<1> HIDE DEF more
<1>3. CASE x = y
  <2>1. Places(more, y) = Places(s, y) \cup {n + 1}
    BY <1>1, <1>3 DEF Places
  <2>2. Cardinality(Places(s, y) \cup {n + 1}) = Cardinality(Places(s, y)) + 1
    BY <1>2, FS_AddElement
  <2> QED
    BY <1>3, <2>1, <2>2 DEF more
<1>4. CASE x # y
  <2>1. Places(more, y) = Places(s, y)
    BY <1>1, <1>4 DEF Places
  <2> QED
    BY <1>2, <1>4, <2>1 DEF more
<1> QED
  BY <1>3, <1>4

LEMMA PlacesFront ==
    ASSUME NEW T, NEW s \in Seq(T), s # <<>>, NEW y
    PROVE  Cardinality(Places(Front(s), y)) = Cardinality(Places(s, y)) - IF Last(s) = y THEN 1 ELSE 0
<1> DEFINE n == Len(s)
           less == Front(s)
<1>1. n \in Nat \ {0} /\ DOMAIN s = 1..n /\ Last(s) = s[n]
  BY DEF Last
<1>2. less \in Seq(T) /\ Len(less) = n - 1 /\ \A i \in 1..(n - 1) : less[i] = s[i]
  BY FrontIs
<1>3. DOMAIN less = 1..(n - 1)
  BY <1>2
<1>4. IsFiniteSet(Places(s, y)) /\ Cardinality(Places(s, y)) \in Nat
  BY PlacesFinite
<1> HIDE DEF less
<1>5. CASE Last(s) = y
  <2>1. Places(less, y) = Places(s, y) \ {n} /\ n \in Places(s, y)
    <3>1. s[n] = y /\ n \in DOMAIN s /\ n \notin DOMAIN less
      BY <1>1, <1>3, <1>5
    <3>2. DOMAIN less = DOMAIN s \ {n}
      BY <1>1, <1>3
    <3>3. \A i \in DOMAIN less : less[i] = s[i]
      BY <1>2, <1>3
    <3> HIDE DEF n
    <3> QED
      BY <3>1, <3>2, <3>3 DEF Places
  <2>2. Cardinality(Places(s, y) \ {n}) = Cardinality(Places(s, y)) - 1
    BY <1>4, <2>1, FS_RemoveElement
  <2> QED
    BY <1>5, <2>1, <2>2 DEF less
<1>6. CASE Last(s) # y
  <2>1. Places(less, y) = Places(s, y)
    BY <1>1, <1>2, <1>3, <1>6 DEF Places
  <2> QED
    BY <1>4, <1>6, <2>1 DEF less
<1> QED
  BY <1>5, <1>6

Doing == {"dispatch", "flush"}
StackOK ==
    /\ stack \in Seq(Doing)
    /\ Cardinality(Places(stack, "dispatch")) = Len(dispatches)
    /\ Cardinality(Places(stack, "flush")) = Len(flushes)

LEMMA StackGrows ==
    ASSUME StackOK, Len(dispatches) \in Nat, Len(flushes) \in Nat, NEW x \in Doing, stack' = Append(stack, x),
           Len(dispatches') = Len(dispatches) + (IF x = "dispatch" THEN 1 ELSE 0),
           Len(flushes') = Len(flushes) + (IF x = "flush" THEN 1 ELSE 0)
    PROVE  StackOK'
<1>1. stack \in Seq(Doing)
  BY DEF StackOK
<1>2. stack' \in Seq(Doing)
  BY <1>1
<1>3. Cardinality(Places(Append(stack, x), "dispatch")) = Len(dispatches')
  BY <1>1, PlacesAppend DEF StackOK
<1>4. Cardinality(Places(Append(stack, x), "flush")) = Len(flushes')
  BY <1>1, PlacesAppend DEF StackOK
<1> QED
  BY <1>2, <1>3, <1>4 DEF StackOK

LEMMA StackShrinks ==
    ASSUME StackOK, stack # <<>>, Len(dispatches) \in Nat, Len(flushes) \in Nat, stack' = Front(stack),
           Len(dispatches') = Len(dispatches) - (IF Last(stack) = "dispatch" THEN 1 ELSE 0),
           Len(flushes') = Len(flushes) - (IF Last(stack) = "flush" THEN 1 ELSE 0)
    PROVE  StackOK'
<1>1. stack \in Seq(Doing)
  BY DEF StackOK
<1>2. stack' \in Seq(Doing)
  BY <1>1, FrontIs
<1>3. Cardinality(Places(Front(stack), "dispatch")) = Len(dispatches')
  BY <1>1, PlacesFront DEF StackOK
<1>4. Cardinality(Places(Front(stack), "flush")) = Len(flushes')
  BY <1>1, PlacesFront DEF StackOK
<1> QED
  BY <1>2, <1>3, <1>4 DEF StackOK

LEMMA StackInitOK == CallbacksInit => StackOK
<1> SUFFICES ASSUME CallbacksInit PROVE StackOK
  OBVIOUS
<1>1. stack = <<>> /\ Len(dispatches) = 0 /\ Len(flushes) = 0
  BY DEF CallbacksInit, ObserversInit
<1>2. Places(stack, "dispatch") = {} /\ Places(stack, "flush") = {}
  BY <1>1 DEF Places
<1>3. Cardinality({}) = 0
  BY FS_EmptySet
<1> QED
  BY <1>1, <1>2, <1>3 DEF StackOK

LEMMA StackNextOK == ObserversOK /\ DispatchesOK /\ StackOK /\ [CallbacksNext]_callbackVars => StackOK'
<1> SUFFICES ASSUME ObserversOK, DispatchesOK, StackOK, [CallbacksNext]_callbackVars PROVE StackOK'
  OBVIOUS
<1>1. TreeOK /\ EventsOK /\ flushes \in Seq(Flushes) /\ \A n \in Nodes : Len(lists[n]) <= caps[n]
  BY DEF ObserversOK, DispatchesOK, QueuesOK, Capacities
<1>2. Len(dispatches) \in Nat /\ Len(flushes) \in Nat
  BY <1>1, EventsAre
<1>3. ASSUME UNCHANGED stack, Len(dispatches') = Len(dispatches), Len(flushes') = Len(flushes) PROVE StackOK'
  BY <1>3 DEF StackOK
<1>4. CASE EventCalls
  <2>0. UNCHANGED flushes
    BY <1>4 DEF EventCalls, observerVars
  <2>1. ASSUME NEW n \in Nodes, NEW e \in Entries, AddListener(n, e) \/ RemoveListener(n, e), UNCHANGED stack
        PROVE  StackOK'
    <3>1. Len(dispatches') = Len(dispatches)
      BY <1>1, <2>1, AddListenerIs, RemoveListenerIs
    <3> QED
      BY <1>3, <2>0, <2>1, <3>1
  <2>2. ASSUME NEW ev \in EventObjects, NEW n \in Nodes, NEW bubbles \in BOOLEAN, Dispatch(ev, n, bubbles),
               stack' = Append(stack, "dispatch")
        PROVE  StackOK'
    <3>1. Len(dispatches') = Len(dispatches) + 1
      BY <1>1, <2>2, DispatchIs
    <3> QED
      BY <1>2, <2>0, <2>2, <3>1, StackGrows DEF Doing
  <2>3. ASSUME NEW d \in Range(dispatches), StopPropagation(d.ev), UNCHANGED stack PROVE StackOK'
    <3>1. d \in Frames
      BY <1>1, EventsAre DEF Range
    <3>2. d.ev \in EventObjects
      BY <3>1 DEF Frames
    <3>3. Len(dispatches') = Len(dispatches)
      BY <1>1, <2>3, <3>2, StopPropagationEvents
    <3> QED
      BY <1>3, <2>0, <2>3, <3>3
  <2> QED
    BY <1>4, <2>1, <2>2, <2>3 DEF EventCalls
<1>5. CASE DispatchGoesOn
  <2>0. UNCHANGED flushes /\ Inner = "dispatch"
    BY <1>5 DEF DispatchGoesOn, observerVars
  <2>1. stack # <<>> /\ Last(stack) = "dispatch"
    BY <2>0 DEF Inner
  <2>2. CASE (Visit \/ Call \/ ListenerReturns) /\ UNCHANGED stack
    <3>1. dispatches # <<>> /\ \E f : SetInnermost(f)
      BY <2>2 DEF Visit, Call, ListenerReturns, Looping
    <3>2. Len(dispatches') = Len(dispatches)
      <4>1. PICK f : dispatches' = [dispatches EXCEPT ![Len(dispatches)] = f]
        BY <3>1 DEF SetInnermost
      <4>2. DOMAIN dispatches = 1..Len(dispatches) /\ Len(dispatches) \in Nat
        BY <1>1, EventsAre
      <4>3. dispatches' = [d \in 1..Len(dispatches) |-> dispatches'[d]]
        BY <4>1, <4>2
      <4> QED
        BY <4>2, <4>3
    <3> QED
      BY <1>3, <2>0, <2>2, <3>2
  <2>3. CASE DispatchReturns /\ stack' = Front(stack)
    <3>1. dispatches # <<>> /\ dispatches' = Front(dispatches) /\ dispatches \in Seq(Frames)
      BY <1>1, <2>3, EventsAre DEF DispatchReturns, Looping
    <3>2. Len(dispatches') = Len(dispatches) - 1
      BY <3>1, FrontIs
    <3> QED
      BY <1>2, <2>0, <2>1, <2>3, <3>2, StackShrinks
  <2> QED
    BY <1>5, <2>2, <2>3 DEF DispatchGoesOn
<1>6. CASE ObserverCalls
  <2>0. UNCHANGED dispatches
    BY <1>6 DEF ObserverCalls, eventVars
  <2>1. CASE Flush /\ stack' = Append(stack, "flush")
    <3>1. Len(flushes') = Len(flushes) + 1
      <4>1. flushes' = Append(flushes, [rest |-> pending, calling |-> None])
        BY <2>1 DEF Flush
      <4>2. pending \in Seq(Observers)
        BY DEF ObserversOK, QueuesOK
      <4>3. [rest |-> pending, calling |-> None] \in Flushes
        BY <4>2 DEF Flushes
      <4> QED
        BY <1>1, <4>1, <4>3, AppendProperties
    <3> QED
      BY <1>2, <2>0, <2>1, <3>1, StackGrows DEF Doing
  <2>2. CASE UNCHANGED <<flushes, stack>>
    BY <1>3, <2>0, <2>2
  <2> QED
    BY <1>6, <2>1, <2>2 DEF ObserverCalls, TakeRecords, Disconnect, Observe
<1>7. CASE Changes
  BY <1>3, <1>7 DEF Changes, Notify, eventVars
<1>8. CASE FlushGoesOn
  <2>0. UNCHANGED dispatches /\ Inner = "flush"
    BY <1>8 DEF FlushGoesOn, eventVars
  <2>1. stack # <<>> /\ Last(stack) = "flush"
    BY <2>0 DEF Inner
  <2>2. CASE (Deliver \/ CallbackReturns \/ NextBatch) /\ UNCHANGED stack
    <3>1. PICK f : flushes' = [flushes EXCEPT ![Len(flushes)] = f]
      BY <2>2 DEF Deliver, CallbackReturns, NextBatch, SetFlush
    <3>2. DOMAIN flushes = 1..Len(flushes)
      BY <1>1
    <3>3. flushes' = [d \in 1..Len(flushes) |-> flushes'[d]]
      BY <3>1, <3>2
    <3>4. Len(flushes') = Len(flushes)
      BY <1>2, <3>3
    <3> QED
      BY <1>3, <2>0, <2>2, <3>4
  <2>3. CASE FlushReturns /\ stack' = Front(stack)
    <3>1. flushes # <<>> /\ flushes' = Front(flushes)
      BY <2>3 DEF FlushReturns, Flushing
    <3>2. Len(flushes') = Len(flushes) - 1
      BY <1>1, <3>1, FrontIs
    <3> QED
      BY <1>2, <2>0, <2>1, <2>3, <3>2, StackShrinks
  <2> QED
    BY <1>8, <2>2, <2>3 DEF FlushGoesOn
<1>9. CASE UNCHANGED callbackVars
  BY <1>3, <1>9 DEF callbackVars, eventVars, observerVars
<1> QED
  BY <1>4, <1>5, <1>6, <1>7, <1>8, <1>9 DEF CallbacksNext

-----------------------------------------------------------------------------
LEMMA CallbacksTypesHold == ObserversOK /\ DispatchesOK /\ LoopsOK /\ StackOK => CallbacksTypeOK
<1> SUFFICES ASSUME ObserversOK, DispatchesOK, LoopsOK, StackOK PROVE CallbacksTypeOK
  OBVIOUS
<1>1. TreeOK /\ QueuesOK /\ EventsOK
  BY DEF ObserversOK, DispatchesOK
<1>2. parent \in [Nodes -> Nodes \cup {None}]
  BY <1>1 DEF TreeOK
<1>3. ASSUME NEW n \in Nodes PROVE Range(lists[n]) \subseteq Entries /\ Len(lists[n]) <= caps[n]
  <2>1. lists[n] \in Seq(Entries)
    BY <1>1 DEF EventsOK
  <2>2. Range(lists[n]) \subseteq Entries
    BY <2>1 DEF Range
  <2> QED
    BY <2>2 DEF DispatchesOK, Capacities
<1>4. ASSUME NEW d \in Range(dispatches)
      PROVE  /\ d.node \in Nodes \cup {None} /\ Range(d.view) \subseteq Entries
             /\ d.next \in 1..(Len(d.view) + 1) /\ d.at \in 0..Len(d.visits)
  <2>1. PICK i \in 1..Len(dispatches) : dispatches[i] = d
    BY <1>1, EventsAre DEF Range
  <2>2. d \in Frames /\ FrameOK(d, event[d.ev], i)
    BY <1>1, <2>1, EventsAre DEF DispatchesOK, FramesOK
  <2>3. /\ d.node \in Nodes \cup {None} /\ d.view \in Seq(Entries) /\ d.next \in Nat /\ d.at \in Nat
        /\ d.visits \in Seq(VisitsOf) /\ d.next >= 1 /\ d.next <= Len(d.view) + 1 /\ d.at <= Len(d.visits)
    BY <2>2 DEF Frames, FrameOK
  <2>4. Len(d.view) \in Nat /\ Len(d.visits) \in Nat /\ Range(d.view) \subseteq Entries
    BY <2>3 DEF Range
  <2> QED
    BY <2>3, <2>4
<1>5. ASSUME NEW ev \in EventObjects PROVE event[ev].stops \in 0..Len(dispatches)
  <2>1. Len(dispatches) \in Nat
    BY <1>1, EventsAre
  <2>2. event[ev].stops = 0 \/ event[ev].stops \in 1..Len(dispatches)
    BY DEF DispatchesOK, StopsOK, NoDispatch
  <2> QED
    BY <2>1, <2>2
<1>6. /\ Cardinality({i \in DOMAIN stack : stack[i] = "dispatch"}) = Len(dispatches)
      /\ Cardinality({i \in DOMAIN stack : stack[i] = "flush"}) = Len(flushes)
  BY DEF StackOK, Places
<1>7. IsInjective(pending) /\ \A mo \in Observers : Range(records[mo]) \subseteq 1..changes
  <2>1. ASSUME NEW mo \in Observers PROVE Range(records[mo]) \subseteq 1..changes
    <3>1. records[mo] \in Seq(Nat) /\ \A i \in 1..Len(records[mo]) : records[mo][i] \in 1..changes
      BY <1>1 DEF QueuesOK
    <3>2. DOMAIN records[mo] = 1..Len(records[mo])
      BY <3>1
    <3> QED
      BY <3>1, <3>2 DEF Range
  <2> QED
    BY <1>1, <2>1 DEF QueuesOK
<1> QED
  BY <1>2, <1>3, <1>4, <1>5, <1>6, <1>7 DEF CallbacksTypeOK

LEMMA LoopsAreRight ==
    ASSUME DispatchesOK, LoopsOK
    PROVE  EachOnce /\ LoopsEnd
<1>1. ASSUME NEW d \in Range(dispatches)
      PROVE  /\ ~d.removed => /\ IsPrefix(d.called, Sublist(d.arrival, Here(d)))
                              /\ d.next > Len(d.view) => d.called = Sublist(d.arrival, Here(d))
             /\ Len(d.called) <= Len(d.arrival)
  <2>1. PICK i \in 1..Len(dispatches) : dispatches[i] = d
    BY EventsAre DEF DispatchesOK, Range
  <2>2. d \in Frames /\ FrameOK(d, event[d.ev], i) /\ LoopGoesWell(d)
    BY <2>1, EventsAre DEF DispatchesOK, FramesOK, LoopsOK
  <2>3. d.next \in Nat /\ d.view \in Seq(Entries) /\ d.arrival \in Seq(Entries) /\ d.called \in Seq(Entries)
    BY <2>2 DEF Frames
  <2>4. Len(d.view) \in Nat /\ Len(d.called) \in Nat /\ Len(d.arrival) = Len(d.view)
    BY <2>2, <2>3 DEF LoopGoesWell
  <2>5. d.next - 1 \in 0..Len(d.arrival) /\ Len(d.called) <= d.next - 1
    BY <2>2, <2>3, <2>4 DEF FrameOK, LoopGoesWell
  <2>6. IsPrefix(SublistUpTo(d.arrival, Here(d))[d.next - 1], Sublist(d.arrival, Here(d)))
    BY <2>3, <2>5, SublistPrefix
  <2>7. ~d.removed => d.called = SublistUpTo(d.arrival, Here(d))[d.next - 1]
    BY <2>2 DEF LoopGoesWell, AsArrived
  <2>8. d.next > Len(d.view) => d.next - 1 = Len(d.arrival)
    BY <2>3, <2>4, <2>5
  <2>9. Len(d.called) <= Len(d.arrival)
    BY <2>3, <2>4, <2>5
  <2> QED
    BY <2>6, <2>7, <2>8, <2>9 DEF Sublist
<1>2. EachOnce
  BY <1>1 DEF EachOnce, Here
<1>3. LoopsEnd
  BY <1>1 DEF LoopsEnd
<1> QED
  BY <1>2, <1>3

(* A loop over listeners calls each that was there when it began, once and *)
(* in order, unless one is removed, and no more than there were, whatever  *)
(* listeners add: dispatchEvent in binding_event.go.                       *)
THEOREM LoopsRightHolds == CallbacksSpec => []LoopsRight
<1>1. ObserversOK /\ DispatchesOK /\ LoopsOK /\ StackOK => LoopsRight
  BY CallbacksTypesHold, LoopsAreRight DEF LoopsRight
<1> QED
  BY <1>1, ObserversInitOK, ObserversNextOK, DispatchesInitOK, DispatchesNextOK, LoopsInitOK, LoopsNextOK,
     StackInitOK, StackNextOK, PTL DEF CallbacksSpec

=============================================================================
