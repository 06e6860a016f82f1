---------------------------- MODULE OfflineProofs ----------------------------
(***************************************************************************)
(* The regime history and the backtests: for any assets, exchanges, pages, *)
(* windows, failures and kills, and for any levels, candles, funding rates *)
(* and numbers of bars.                                                    *)
(***************************************************************************)
EXTENDS RegimeHistory, Backtest, FiniteSetTheorems, WellFoundedInduction, TLAPS

(* RegimeHistory: what the tables keep of a market that moves on.          *)

(* The least and the greatest member of a bounded set of integers.         *)

\* A set of natural numbers has a least member.
LEMMA NatHasMin ==
  ASSUME NEW S \in SUBSET Nat, S # {}
  PROVE  \E m \in S : \A x \in S : m <= x
<1> DEFINE R == {ss \in Nat \X Nat : ss[1] < ss[2]}
<1>1. IsWellFoundedOn(OpToRel(<, Nat), Nat) BY NatLessThanWellFounded
<1>2. IsWellFoundedOn(R, Nat) BY <1>1 DEF OpToRel
<1>3. PICK m \in S : \A y \in S : ~(<<y, m>> \in R) BY <1>2, WFMin
<1>4. \A y \in S : ~(y < m) BY <1>3
<1> QED BY <1>4

(* Induction, with a set for what is shown: the provers instantiate a set. *)

\* What holds of 0 and of the successor of each number it holds of.
LEMMA NatSteps ==
  ASSUME NEW G, 0 \in G, \A n \in Nat : n \in G => n + 1 \in G
  PROVE  Nat \subseteq G
<1> SUFFICES ASSUME Nat \ G # {} PROVE FALSE OBVIOUS
<1>1. PICK m \in Nat \ G : \A x \in Nat \ G : m <= x BY NatHasMin, Zenon
<1>2. m # 0 /\ m - 1 \in Nat BY <1>1
<1>3. m - 1 \in G BY <1>1, <1>2
<1> QED BY <1>1, <1>2, <1>3

\* A set of one member more.
LEMMA OneMore ==
  ASSUME NEW T, IsFiniteSet(T), NEW n \in Nat, Cardinality(T) = n + 1
  PROVE  T # {} /\ \A x \in T : Cardinality(T \ {x}) = n
<1>1. Cardinality(T) # 0 BY SMT
<1>2. T # {} BY <1>1, FS_EmptySet
<1>3. ASSUME NEW x \in T PROVE Cardinality(T \ {x}) = n
  <2>1. Cardinality(T \ {x}) = Cardinality(T) - 1 BY FS_RemoveElement
  <2> QED BY <2>1
<1> QED BY <1>2, <1>3

\* What holds of the empty set and stays when one member is added.
LEMMA FiniteSteps ==
  ASSUME NEW S, IsFiniteSet(S), NEW G, {} \in G,
         \A T \in SUBSET S : \A x \in S \ T : T \in G => T \cup {x} \in G
  PROVE  S \in G
<1> DEFINE N == {n \in Nat : \A T \in SUBSET S : Cardinality(T) = n => T \in G}
<1>1. \A T \in SUBSET S : IsFiniteSet(T) /\ Cardinality(T) \in Nat BY FS_Subset, FS_CardinalityType
<1>2. 0 \in N BY <1>1, FS_EmptySet
<1>3. ASSUME NEW n \in Nat, n \in N PROVE n + 1 \in N
  <2>1. SUFFICES ASSUME NEW T \in SUBSET S, Cardinality(T) = n + 1 PROVE T \in G OBVIOUS
  <2>2. T # {} BY <1>1, <2>1, OneMore
  <2>3. PICK x \in T : TRUE BY <2>2
  <2>4. Cardinality(T \ {x}) = n BY <1>1, <2>1, OneMore
  <2>5. T \ {x} \in SUBSET S /\ T \ {x} \in G BY <1>3, <2>4
  <2> QED BY <2>5, (T \ {x}) \cup {x} = T, x \in S \ (T \ {x})
<1> HIDE DEF N
<1>4. Cardinality(S) \in N BY <1>1, <1>2, <1>3, NatSteps
<1> QED BY <1>4 DEF N

\* Min is the least member of a set that is bounded below.
LEMMA MinIs ==
  ASSUME NEW S, S # {}, NEW b \in Int, \A x \in S : x \in Int /\ b <= x
  PROVE  Min(S) \in S /\ \A x \in S : Min(S) <= x
<1> DEFINE T == {y \in Nat : b + y \in S}
<1>1. \A x \in S : x - b \in T OBVIOUS
<1>2. PICK m \in T : \A x \in T : m <= x BY <1>1, NatHasMin
<1>3. b + m \in S /\ m \in Nat OBVIOUS
<1>4. ASSUME NEW x \in S PROVE (b + m) <= x
  <2>1. m <= x - b BY <1>1, <1>2
  <2> QED BY <2>1, <1>3
<1>5. \E k \in S : \A x \in S : k <= x BY <1>3, <1>4
<1> QED BY <1>5 DEF Min

\* Max is the greatest member of a set that is bounded above.
LEMMA MaxIs ==
  ASSUME NEW S, S # {}, NEW b \in Int, \A x \in S : x \in Int /\ x <= b
  PROVE  Max(S) \in S /\ \A x \in S : x <= Max(S)
<1> DEFINE T == {y \in Nat : b - y \in S}
<1>1. \A x \in S : b - x \in T OBVIOUS
<1>2. PICK m \in T : \A x \in T : m <= x BY <1>1, NatHasMin
<1>3. b - m \in S /\ m \in Nat OBVIOUS
<1>4. ASSUME NEW x \in S PROVE x <= (b - m)
  <2>1. m <= b - x BY <1>1, <1>2
  <2> QED BY <2>1, <1>3
<1>5. \E k \in S : \A x \in S : k >= x BY <1>3, <1>4
<1> QED BY <1>5 DEF Max

\* A set of stored times, none after n.
UpTo(S, n) == n \in Nat /\ \A t \in S : t \in 1..n

LEMMA StoredExtremes ==
  ASSUME NEW S, NEW n, UpTo(S, n), S # {}
  PROVE  /\ Min(S) \in S /\ Min(S) \in 1..n /\ \A t \in S : Min(S) <= t
         /\ Max(S) \in S /\ Max(S) \in 1..n /\ \A t \in S : t <= Max(S)
<1>1. 1 \in Int /\ n \in Int /\ \A t \in S : t \in Int /\ 1 <= t /\ t <= n BY DEF UpTo
<1>2. Min(S) \in S /\ \A t \in S : Min(S) <= t BY <1>1, MinIs
<1>3. Max(S) \in S /\ \A t \in S : t <= Max(S) BY <1>1, MaxIs
<1> QED BY <1>2, <1>3 DEF UpTo

-----------------------------------------------------------------------------
(* The regimes of a set of rates, at the times in S of the market f.       *)

StartsOf(S, f) ==
  {t \in S :
     LET before == {u \in S : u < t}
     IN before # {} => f[Max(before)] # f[t]}

RunsOf(S, f) ==
  {[regime |-> f[s], start |-> s, end |-> Min({t \in StartsOf(S, f) : t > s})] :
     s \in {x \in StartsOf(S, f) : \E t \in StartsOf(S, f) : t > x}}

LEMMA StartsAre == \A p : Starts(p) = StartsOf(rates[p], regimeAt[p[1]]) /\ Runs(p) = RunsOf(rates[p], regimeAt[p[1]])
BY DEF Starts, Runs, StartsOf, RunsOf

\* A start is a time whose rate is of another regime than the rate before it.
LEMMA StartIff ==
  ASSUME NEW n, NEW S, UpTo(S, n), NEW f, NEW t \in S
  PROVE  /\ \A u \in S : u < t /\ (\A v \in S : v < t => v <= u) => (t \in StartsOf(S, f) <=> f[u] # f[t])
         /\ (\A u \in S : ~(u < t)) => t \in StartsOf(S, f)
         /\ (\E u \in S : u < t) => \E u \in S : u < t /\ \A v \in S : v < t => v <= u
<1> DEFINE before == {u \in S : u < t}
<1>0. n \in Int /\ \A x \in before : x \in Int /\ x <= n BY DEF UpTo
<1>1. before # {} => Max(before) \in before /\ \A x \in before : x <= Max(before)
  <2> HIDE DEF before
  <2> QED BY <1>0, MaxIs
<1>2. t \in StartsOf(S, f) <=> (before # {} => f[Max(before)] # f[t]) BY DEF StartsOf
<1>3. ASSUME NEW u \in S, u < t, \A v \in S : v < t => v <= u PROVE t \in StartsOf(S, f) <=> f[u] # f[t]
  <2>1. u \in before BY <1>3
  <2>2. Max(before) \in S /\ Max(before) < t BY <1>1, <2>1
  <2>3. Max(before) <= u /\ u <= Max(before) BY <1>1, <1>3, <2>1, <2>2
  <2>4. u \in Int /\ Max(before) \in Int BY <1>0, <1>1, <2>1
  <2>5. u = Max(before) BY <2>3, <2>4
  <2> QED BY <2>5, <2>1, <1>2, <1>3
<1>4. (\A u \in S : ~(u < t)) => t \in StartsOf(S, f) BY <1>2
<1>5. (\E u \in S : u < t) => \E u \in S : u < t /\ \A v \in S : v < t => v <= u BY <1>1
<1> QED BY <1>3, <1>4, <1>5

\* A run goes from one start to the next.
LEMMA RunIff ==
  ASSUME NEW n, NEW S, UpTo(S, n), NEW f, NEW r
  PROVE  r \in RunsOf(S, f) <=>
           \E s, e \in StartsOf(S, f) :
             /\ s < e /\ \A t \in StartsOf(S, f) : t > s => e <= t
             /\ r = [regime |-> f[s], start |-> s, end |-> e]
<1> DEFINE T == StartsOf(S, f)
<1> DEFINE N(s) == {t \in T : t > s}
<1>0. T \subseteq S BY DEF StartsOf
<1> HIDE DEF T
<1>1. \A t \in T : t \in S /\ t \in Int /\ 1 <= t BY <1>0 DEF UpTo
<1>2. \A s \in T : (\E t \in T : t > s) => Min(N(s)) \in N(s) /\ \A x \in N(s) : Min(N(s)) <= x
  <2> SUFFICES ASSUME NEW s \in T, \E t \in T : t > s PROVE Min(N(s)) \in N(s) /\ \A x \in N(s) : Min(N(s)) <= x OBVIOUS
  <2>1. \A x \in N(s) : x \in Int /\ 1 <= x BY <1>1
  <2>2. N(s) # {} OBVIOUS
  <2> HIDE DEF N
  <2> QED BY <2>1, <2>2, MinIs
<1>3. r \in RunsOf(S, f) <=> \E s \in T : (\E t \in T : t > s) /\ r = [regime |-> f[s], start |-> s, end |-> Min(N(s))]
  BY DEF RunsOf, T
<1>4. ASSUME NEW s \in T, NEW e \in T, s < e, \A t \in T : t > s => e <= t PROVE e = Min(N(s))
  <2>1. Min(N(s)) \in N(s) /\ \A x \in N(s) : Min(N(s)) <= x BY <1>2, <1>4
  <2>2. e \in N(s) BY <1>4, <1>1
  <2>3. Min(N(s)) \in T /\ Min(N(s)) > s BY <2>1
  <2>4. Min(N(s)) <= e /\ e <= Min(N(s)) BY <2>1, <2>2, <2>3, <1>4
  <2>5. e \in Int /\ Min(N(s)) \in Int BY <2>3, <1>1
  <2> QED BY <2>4, <2>5
<1>5. ASSUME NEW s \in T, \E t \in T : t > s, r = [regime |-> f[s], start |-> s, end |-> Min(N(s))]
      PROVE  \E e \in T : s < e /\ (\A t \in T : t > s => e <= t) /\ r = [regime |-> f[s], start |-> s, end |-> e]
  <2>1. Min(N(s)) \in N(s) /\ \A x \in N(s) : Min(N(s)) <= x BY <1>2, <1>5
  <2>2. Min(N(s)) \in T /\ s < Min(N(s)) BY <2>1, <1>1
  <2> QED BY <2>1, <2>2, <1>5
<1>6. ASSUME NEW s \in T, NEW e \in T, s < e, \A t \in T : t > s => e <= t, r = [regime |-> f[s], start |-> s, end |-> e]
      PROVE  (\E t \in T : t > s) /\ r = [regime |-> f[s], start |-> s, end |-> Min(N(s))]
  <2>1. e > s BY <1>6, <1>1
  <2> QED BY <1>4, <1>6, <2>1
<1> QED BY <1>3, <1>5, <1>6 DEF T

\* Rates stored after all others leave the regimes that have ended alone.
LEMMA LaterRatesKeepRuns ==
  ASSUME NEW n, NEW S, UpTo(S, n), NEW G, UpTo(G, n), NEW f,
         \A s \in S, g \in G : s < g
  PROVE  RunsOf(S, f) \subseteq RunsOf(S \cup G, f)
<1>1. \A t \in StartsOf(S, f) : t \in S BY DEF StartsOf
<1>2. \A t \in StartsOf(S \cup G, f) : t \in S \cup G BY DEF StartsOf
<1>3. UpTo(S \cup G, n) BY DEF UpTo
<1>4. ASSUME NEW t \in S PROVE t \in StartsOf(S, f) <=> t \in StartsOf(S \cup G, f)
  <2>1. CASE \E u \in S : u < t
    <3>1. PICK u \in S : u < t /\ \A v \in S : v < t => v <= u BY <2>1, StartIff
    <3>2. \A v \in S \cup G : v < t => v <= u BY <3>1 DEF UpTo
    <3>3. t \in StartsOf(S, f) <=> f[u] # f[t] BY <3>1, StartIff
    <3>4. t \in S \cup G /\ u \in S \cup G OBVIOUS
    <3>5. t \in StartsOf(S \cup G, f) <=> f[u] # f[t] BY <3>1, <3>2, <3>4, <1>3, StartIff
    <3> QED BY <3>3, <3>5
  <2>2. CASE ~\E u \in S : u < t
    <3>1. \A u \in S \cup G : ~(u < t) BY <2>2 DEF UpTo
    <3>2. t \in S \cup G OBVIOUS
    <3>3. t \in StartsOf(S \cup G, f) BY <3>1, <3>2, <1>3, StartIff
    <3>4. t \in StartsOf(S, f) BY <2>2, StartIff
    <3> QED BY <3>3, <3>4
  <2> QED BY <2>1, <2>2
<1>5. ASSUME NEW r \in RunsOf(S, f) PROVE r \in RunsOf(S \cup G, f)
  <2>1. PICK s \in StartsOf(S, f), e \in StartsOf(S, f) :
          /\ s < e /\ \A t \in StartsOf(S, f) : t > s => e <= t
          /\ r = [regime |-> f[s], start |-> s, end |-> e]
    BY RunIff
  <2>2. s \in StartsOf(S \cup G, f) /\ e \in StartsOf(S \cup G, f) BY <1>1, <1>4
  <2>3. ASSUME NEW t \in StartsOf(S \cup G, f), t > s PROVE e <= t
    <3>1. CASE t \in S BY <3>1, <1>4, <2>1, <2>3
    <3>2. CASE t \in G BY <3>2, <1>1 DEF UpTo
    <3> QED BY <3>1, <3>2, <1>2
  <2> QED BY <2>1, <2>2, <2>3, <1>3, RunIff
<1> QED BY <1>5

\* The regimes depend on the market at the stored times only.
LEMMA SameMarketSameRuns ==
  ASSUME NEW n, NEW S, UpTo(S, n), NEW f, NEW g, \A t \in S : f[t] = g[t]
  PROVE  RunsOf(S, f) \subseteq RunsOf(S, g)
<1>1. \A t \in StartsOf(S, f) : t \in S BY DEF StartsOf
<1>2. \A t \in StartsOf(S, g) : t \in S BY DEF StartsOf
<1>3. ASSUME NEW t \in S PROVE t \in StartsOf(S, f) <=> t \in StartsOf(S, g)
  <2>1. CASE \E u \in S : u < t
    <3>1. PICK u \in S : u < t /\ \A v \in S : v < t => v <= u BY <2>1, StartIff
    <3>2. t \in StartsOf(S, f) <=> f[u] # f[t] BY <3>1, StartIff
    <3>3. t \in StartsOf(S, g) <=> g[u] # g[t] BY <3>1, StartIff
    <3> QED BY <3>2, <3>3
  <2>2. CASE ~\E u \in S : u < t
    <3>1. t \in StartsOf(S, f) BY <2>2, StartIff
    <3>2. t \in StartsOf(S, g) BY <2>2, StartIff
    <3> QED BY <3>1, <3>2
  <2> QED BY <2>1, <2>2
<1>4. ASSUME NEW r \in RunsOf(S, f) PROVE r \in RunsOf(S, g)
  <2>1. PICK s \in StartsOf(S, f), e \in StartsOf(S, f) :
          /\ s < e /\ \A t \in StartsOf(S, f) : t > s => e <= t
          /\ r = [regime |-> f[s], start |-> s, end |-> e]
    BY RunIff
  <2>2. s \in StartsOf(S, g) /\ e \in StartsOf(S, g) /\ f[s] = g[s] BY <1>1, <1>3
  <2>3. \A t \in StartsOf(S, g) : t > s => e <= t BY <2>1, <1>2, <1>3
  <2> QED BY <2>1, <2>2, <2>3, RunIff
<1> QED BY <1>4

Convex(S) == \A t, u \in S : \A v \in t..u : v \in S

\* Without a hole in the rates, a run is a regime of the market from its first
\* to its last rate.
LEMMA RunIsReal ==
  ASSUME NEW n, NEW S, UpTo(S, n), Convex(S), NEW f, NEW r \in RunsOf(S, f)
  PROVE  /\ \A t \in r.start..r.end - 1 : f[t] = r.regime
         /\ f[r.end] # r.regime
         /\ r.start = Min(S) \/ f[r.start - 1] # r.regime
<1>1. PICK s \in StartsOf(S, f), e \in StartsOf(S, f) :
        /\ s < e /\ \A t \in StartsOf(S, f) : t > s => e <= t
        /\ r = [regime |-> f[s], start |-> s, end |-> e]
  BY RunIff
<1>2. s \in S /\ e \in S /\ s \in 1..n /\ e \in 1..n BY DEF StartsOf, UpTo
<1>3. \A v \in s..e : v \in S BY <1>2 DEF Convex
\* The rate before t is the one an interval earlier.
<1>4. ASSUME NEW t \in S, t - 1 \in S PROVE t \in StartsOf(S, f) <=> f[t - 1] # f[t]
  <2>1. t - 1 < t /\ \A v \in S : v < t => v <= t - 1 BY DEF UpTo
  <2> QED BY <2>1, <1>4, StartIff
<1>5. ASSUME NEW w \in s..e - 1, f[w] # f[s] PROVE FALSE
  <2> DEFINE D == {t \in s..e - 1 : f[t] # f[s]}
  <2>1. D # {} /\ \A t \in D : t \in Int /\ s <= t BY <1>5
  <2>2. Min(D) \in D /\ \A t \in D : Min(D) <= t
    <3> HIDE DEF D
    <3> QED BY <2>1, <1>2, MinIs
  <2>3. PICK m \in s..e - 1 : m = Min(D) /\ f[m] # f[s] BY <2>2
  <2>4. m > s /\ m \in s..e /\ m - 1 \in s..e /\ m - 1 \in s..e - 1 BY <2>3, <1>2
  <2>5. m - 1 \notin D BY <2>2, <2>3, <2>4
  <2>6. f[m - 1] = f[s] BY <2>4, <2>5
  <2>7. m \in StartsOf(S, f) BY <2>3, <2>4, <2>6, <1>3, <1>4
  <2> QED BY <2>3, <2>4, <2>7, <1>1, <1>2
<1>6. f[e] # f[s]
  <2>1. e - 1 \in s..e /\ e - 1 \in s..e - 1 BY <1>1, <1>2
  <2>2. f[e - 1] # f[e] BY <2>1, <1>2, <1>3, <1>4
  <2> QED BY <2>1, <2>2, <1>5
<1>7. s = Min(S) \/ f[s - 1] # f[s]
  <2>1. Min(S) \in S /\ Min(S) \in 1..n /\ Min(S) <= s
    <3>1. S # {} BY <1>2
    <3> QED BY <3>1, <1>2, StoredExtremes
  <2>2. CASE Min(S) < s
    <3>1. s - 1 \in Min(S)..s
      <4> DEFINE m == Min(S)
      <4>1. m \in 1..n BY <2>1
      <4> HIDE DEF m
      <4>2. m < s => s - 1 \in m..s BY <4>1, <1>2
      <4> QED BY <4>2, <2>2 DEF m
    <3>2. s - 1 \in S BY <3>1, <2>1, <1>2 DEF Convex
    <3> QED BY <3>2, <1>2, <1>4
  <2>3. CASE ~(Min(S) < s)
    <3>1. Min(S) = s BY <2>1, <2>3, <1>2
    <3> QED BY <3>1
  <2> QED BY <2>2, <2>3
<1> QED BY <1>1, <1>5, <1>6, <1>7

-----------------------------------------------------------------------------
(* Paging.                                                                 *)

\* A page read forward has no hole.
LEMMA FirstOfIs ==
  ASSUME NEW a \in Nat, NEW b \in Nat, NEW n \in Nat, NEW t \in FirstOf(n, a..b)
  PROVE  t \in a..b /\ \A u \in a..t : u \in FirstOf(n, a..b)
<1>1. t \in a..b /\ Cardinality({v \in a..b : v < t}) < n BY DEF FirstOf
<1>2. ASSUME NEW u \in a..t PROVE u \in FirstOf(n, a..b)
  <2>1. u \in a..b /\ {v \in a..b : v < u} \subseteq {v \in a..b : v < t} BY <1>1
  <2>2. IsFiniteSet(a..b) BY FS_Interval
  <2>3. IsFiniteSet({v \in a..b : v < t}) BY <2>2, FS_Subset
  <2>4. /\ Cardinality({v \in a..b : v < u}) <= Cardinality({v \in a..b : v < t})
        /\ IsFiniteSet({v \in a..b : v < u})
    BY <2>1, <2>3, FS_Subset
  <2>5. Cardinality({v \in a..b : v < u}) \in Nat /\ Cardinality({v \in a..b : v < t}) \in Nat
    BY <2>3, <2>4, FS_CardinalityType
  <2>6. Cardinality({v \in a..b : v < u}) < n BY <1>1, <2>4, <2>5
  <2> QED BY <2>1, <2>6 DEF FirstOf
<1> QED BY <1>1, <1>2

-----------------------------------------------------------------------------
(* The inductive invariant.                                                *)

JobType ==
  /\ job \in [pairs: SUBSET Pairs, from: Nat \ {0}, cursor: Nat, got: SUBSET Nat, complete: BOOLEAN]
  /\ \A p, q \in job.pairs : p = q

\* A fetch asks for rates that are later than all stored ones, ...
Ahead ==
  /\ Running => \A p \in Pairs : UpTo(rates[p], until)
  /\ \A p \in job.pairs :
       /\ \A t \in rates[p] : t < job.from
       /\ IF p[2] \in Backward THEN job.cursor <= until ELSE job.from <= job.cursor

\* ... and an exchange that pages forward is asked for those that follow.
Fetched ==
  \A p \in job.pairs :
    p[2] \notin Backward =>
      /\ \A t \in job.got : \A u \in job.from..t : u \in job.got
      /\ ~job.complete => \A u \in job.from..job.cursor - 1 : u \in job.got
      /\ ~lapsed[p] /\ rates[p] # {} => job.from - 1 \in rates[p]

NoGaps == \A p \in Pairs : p[2] \notin Backward /\ ~lapsed[p] => Convex(rates[p])

IInv == HistoryTypeOK /\ JobType /\ Ahead /\ Fetched /\ NoGaps /\ TransitionsStayTrue

\* Where a fetch begins.
LEMMA StartIs ==
  ASSUME IInv, Running, NEW p \in Pairs
  PROVE  /\ EffectiveStart(p) \in Nat \ {0} /\ EffectiveStart(p) <= until + 1
         /\ \A t \in rates[p] : t < EffectiveStart(p)
         /\ rates[p] # {} /\ ~(Max(rates[p]) < until - Window) => EffectiveStart(p) - 1 \in rates[p]
<1> USE HistoryAssumption
<1> DEFINE S == {until - Window + 1, 1} \cup {t + 1 : t \in rates[p]}
<1>1. until \in Nat /\ Window \in Nat /\ UpTo(rates[p], until)
  BY DEF IInv, HistoryTypeOK, Ahead
<1>2. \A t \in rates[p] : t \in 1..until BY <1>1 DEF UpTo
<1>3. \A x \in S : x \in Int /\ x <= until + 1 BY <1>1, <1>2
<1>4. Max(S) \in S /\ \A x \in S : x <= Max(S)
  <2>1. S # {} /\ until + 1 \in Int BY <1>1
  <2> HIDE DEF S
  <2> QED BY <2>1, <1>3, MaxIs
<1>5. EffectiveStart(p) = Max(S) BY DEF EffectiveStart
<1> DEFINE m == Max(S)
<1>6. m \in Int /\ m <= until + 1 BY <1>3, <1>4
<1>7. 1 <= m /\ until - Window + 1 <= m BY <1>4
<1>8. \A t \in rates[p] : t + 1 <= m BY <1>4
<1>9. m = until - Window + 1 \/ m = 1 \/ \E t \in rates[p] : m = t + 1 BY <1>4
<1> HIDE DEF m, S
<1>10. ASSUME rates[p] # {}, ~(Max(rates[p]) < until - Window) PROVE m - 1 \in rates[p]
  <2>1. Max(rates[p]) \in rates[p] /\ Max(rates[p]) \in 1..until BY <1>1, <1>10, StoredExtremes
  <2> DEFINE k == Max(rates[p])
  <2>2. k \in 1..until /\ k \in rates[p] /\ ~(k < until - Window) /\ k + 1 <= m BY <2>1, <1>8, <1>10
  <2> HIDE DEF k
  <2>3. CASE m = until - Window + 1 BY <2>2, <2>3, <1>1
  <2>4. CASE m = 1 BY <2>2, <2>4
  <2>5. CASE \E t \in rates[p] : m = t + 1 BY <2>5, <1>2
  <2> QED BY <2>3, <2>4, <2>5, <1>9
<1>11. \A t \in rates[p] : t < m BY <1>8, <1>6, <1>2
<1>12. m \in Nat \ {0} BY <1>6, <1>7
<1> QED BY <1>5, <1>6, <1>10, <1>11, <1>12 DEF m

-----------------------------------------------------------------------------
(* Each step preserves it.                                                 *)

\* Steps that leave the tables and the market alone keep what they say.
LEMMA TablesKept ==
  ASSUME IInv, UNCHANGED <<now, regimeAt, tables>>
  PROVE  TransitionsStayTrue'
<1>1. \A p \in Pairs : transitions[p] \subseteq RunsOf(rates[p], regimeAt[p[1]])
  BY StartsAre DEF IInv, TransitionsStayTrue
<1>2. \A p : Runs(p)' = RunsOf(rates'[p], regimeAt'[p[1]])
  BY DEF Starts, Runs, StartsOf, RunsOf
<1> QED BY <1>1, <1>2 DEF TransitionsStayTrue, tables

LEMMA StartBackfillKeeps == ASSUME IInv, StartBackfill PROVE IInv'
<1> USE DEF IInv, StartBackfill, Running
<1>1. HistoryTypeOK' BY DEF HistoryTypeOK, tables
<1>2. JobType' BY DEF JobType
<1>3. Ahead' BY DEF Ahead, HistoryTypeOK, JobType, UpTo, tables
<1>4. Fetched' BY DEF Fetched, tables
<1>5. NoGaps' BY DEF NoGaps, tables
<1>6. TransitionsStayTrue' BY TablesKept
<1> QED BY <1>1, <1>2, <1>3, <1>4, <1>5, <1>6

LEMMA StartFetchKeeps == ASSUME IInv, NEW p \in Pairs, StartFetch(p) PROVE IInv'
<1> DEFINE start == EffectiveStart(p)
<1>0. Running BY DEF StartFetch, IInv, HistoryTypeOK, Running
<1>1. /\ start \in Nat \ {0} /\ start <= until + 1
      /\ \A t \in rates[p] : t < start
      /\ rates[p] # {} /\ ~(Max(rates[p]) < until - Window) => start - 1 \in rates[p]
  BY <1>0, StartIs
<1> HIDE DEF start
<1>2. /\ p \in due /\ due' = due \ {p} /\ building' = building /\ until' = until
      /\ now' = now /\ regimeAt' = regimeAt /\ rates' = rates /\ transitions' = transitions
  BY DEF StartFetch, tables
<1>3. \E cursor \in {until, start} :
        job' = [pairs |-> {p}, from |-> start, cursor |-> cursor, got |-> {}, complete |-> FALSE]
        /\ cursor = IF p[2] \in Backward THEN until ELSE start
  BY DEF StartFetch, NoJob, start
<1>4. until \in Nat BY DEF IInv, HistoryTypeOK
<1>5. /\ lapsed' \in [Pairs -> BOOLEAN] /\ \A q \in Pairs : lapsed[q] => lapsed'[q]
      /\ ~lapsed'[p] /\ rates[p] # {} => ~(Max(rates[p]) < until - Window)
  BY DEF StartFetch, IInv, HistoryTypeOK
<1>6. HistoryTypeOK' BY <1>1, <1>2, <1>3, <1>4, <1>5 DEF IInv, HistoryTypeOK
<1>7. JobType' BY <1>1, <1>3, <1>4 DEF JobType
<1>8. Ahead'
  <2>1. /\ job'.pairs = {p} /\ job'.from = start
        /\ IF p[2] \in Backward THEN job'.cursor = until ELSE job'.cursor = start
    BY <1>3
  <2>2. job'.cursor \in Nat /\ (p[2] \in Backward => job'.cursor <= until) /\ (p[2] \notin Backward => start <= job'.cursor)
    BY <2>1, <1>1, <1>4
  <2>3. Running' => \A q \in Pairs : UpTo(rates'[q], until') BY <1>0, <1>2 DEF IInv, Ahead
  <2> QED BY <1>1, <1>2, <2>1, <2>2, <2>3 DEF Ahead
<1>9. Fetched' BY <1>1, <1>2, <1>3, <1>5 DEF Fetched
<1>10. NoGaps' BY <1>2, <1>5 DEF IInv, NoGaps
<1>11. TransitionsStayTrue' BY <1>2, TablesKept DEF tables
<1> QED BY <1>6, <1>7, <1>8, <1>9, <1>10, <1>11 DEF IInv

LEMMA FetchPageKeeps == ASSUME IInv, NEW p \in Pairs, FetchPage(p) PROVE IInv'
<1> USE HistoryAssumption
<1> DEFINE page == Page(p)
<1>0. /\ p \in job.pairs /\ ~job.complete /\ \A q \in job.pairs : q = p
      /\ now' = now /\ regimeAt' = regimeAt /\ rates' = rates /\ transitions' = transitions
      /\ until' = until /\ due' = due /\ building' = building /\ lapsed' = lapsed
  BY DEF FetchPage, tables, IInv, JobType
<1>1. /\ job.from \in Nat \ {0} /\ job.cursor \in Nat /\ until \in Nat /\ now \in Nat /\ PageSize \in Nat
      /\ until <= now /\ job.cursor <= until + 1 /\ job.got \subseteq job.from..until
      /\ IF p[2] \in Backward THEN job.cursor <= until ELSE job.from <= job.cursor
  BY <1>0 DEF IInv, JobType, HistoryTypeOK, Ahead
<1>2. page \subseteq job.from..until
  <2>1. CASE p[2] \in Backward
    <3>1. page \subseteq job.from..job.cursor BY <2>1 DEF Page, LastOf
    <3> QED BY <3>1, <1>1, <2>1
  <2>2. CASE p[2] \notin Backward
    <3>1. page \subseteq job.cursor..until BY <2>2 DEF Page, FirstOf
    <3> QED BY <3>1, <1>1, <2>2
  <2> QED BY <2>1, <2>2
<1>3. ASSUME p[2] \notin Backward, NEW t \in page PROVE t \in job.cursor..until /\ \A u \in job.cursor..t : u \in page
  BY <1>1, <1>3, FirstOfIs DEF Page
<1>4. page # {} => /\ Min(page) \in page /\ Min(page) \in 1..until
                   /\ Max(page) \in page /\ Max(page) \in 1..until /\ \A t \in page : t <= Max(page)
  <2>1. UpTo(page, until) BY <1>1, <1>2 DEF UpTo
  <2> HIDE DEF page
  <2> QED BY <2>1, StoredExtremes
<1> DEFINE next == NextCursor(p, page)
<1>5. page # {} => /\ next \in Nat
                   /\ IF p[2] \in Backward THEN next <= until /\ next = Min(page) - 1
                                           ELSE next = Max(page) + 1 /\ job.from <= next /\ next <= until + 1
  BY <1>1, <1>2, <1>4 DEF NextCursor
<1>6. \/ job' = [job EXCEPT !.complete = TRUE]
      \/ page # {} /\ job' = [job EXCEPT !.complete = TRUE, !.got = @ \cup page]
      \/ page # {} /\ job' = [job EXCEPT !.cursor = next, !.got = @ \cup page]
  BY DEF FetchPage
<1> HIDE DEF page, next
<1>7. /\ job'.pairs = job.pairs /\ job'.from = job.from /\ job'.complete \in BOOLEAN
      /\ job'.got \in {job.got, job.got \cup page}
      /\ \/ job'.complete /\ job'.cursor = job.cursor
         \/ page # {} /\ job'.cursor = next /\ job'.got = job.got \cup page
      /\ job' \in [pairs: SUBSET Pairs, from: Nat \ {0}, cursor: Nat, got: SUBSET Nat, complete: BOOLEAN]
  <2>1. job \in [pairs: SUBSET Pairs, from: Nat \ {0}, cursor: Nat, got: SUBSET Nat, complete: BOOLEAN]
    BY DEF IInv, JobType
  <2>2. page \subseteq Nat BY <1>1, <1>2
  <2> QED BY <1>5, <1>6, <2>1, <2>2
<1>8. job'.cursor \in 0..until + 1 BY <1>1, <1>5, <1>7
<1>9. HistoryTypeOK'
  <2>1. job'.got \subseteq job.from..until BY <1>1, <1>2, <1>7
  <2> QED BY <1>0, <1>7, <1>8, <2>1 DEF IInv, HistoryTypeOK
<1>10. JobType' BY <1>0, <1>7 DEF IInv, JobType
<1>11. Ahead' BY <1>0, <1>1, <1>5, <1>7 DEF IInv, Ahead, Running
<1>12. Fetched'
  <2> SUFFICES ASSUME p[2] \notin Backward
               PROVE  /\ \A t \in job'.got : \A u \in job.from..t : u \in job'.got
                      /\ ~job'.complete => \A u \in job.from..job'.cursor - 1 : u \in job'.got
                      /\ ~lapsed[p] /\ rates[p] # {} => job.from - 1 \in rates[p]
    BY <1>0, <1>7 DEF Fetched
  <2>1. /\ \A t \in job.got : \A u \in job.from..t : u \in job.got
        /\ \A u \in job.from..job.cursor - 1 : u \in job.got
        /\ ~lapsed[p] /\ rates[p] # {} => job.from - 1 \in rates[p]
    BY <1>0 DEF IInv, Fetched
  <2>2. ASSUME NEW t \in page, NEW u \in job.from..t PROVE u \in job.got \cup page
    <3>1. t \in job.cursor..until BY <1>3
    <3>2. CASE u < job.cursor
      <4>1. u \in job.from..job.cursor - 1 BY <3>2, <1>1, <3>1
      <4> QED BY <4>1, <2>1
    <3>3. CASE ~(u < job.cursor)
      <4>1. u \in job.cursor..t BY <3>3, <1>1, <3>1
      <4> QED BY <4>1, <1>3
    <3> QED BY <3>2, <3>3
  <2>3. \A t \in job'.got : \A u \in job.from..t : u \in job'.got BY <2>1, <2>2, <1>7
  <2>4. ASSUME ~job'.complete, NEW u \in job.from..job'.cursor - 1 PROVE u \in job'.got
    <3>1. page # {} /\ job'.cursor = Max(page) + 1 /\ job'.got = job.got \cup page BY <2>4, <1>5, <1>7
    <3>2. Max(page) \in page /\ Max(page) \in 1..until BY <3>1, <1>4
    <3>3. u \in job.from..Max(page) BY <3>1, <3>2, <2>4
    <3> QED BY <3>1, <3>2, <3>3, <2>2
  <2> QED BY <2>1, <2>3, <2>4
<1>13. NoGaps' BY <1>0 DEF IInv, NoGaps
<1>14. TransitionsStayTrue' BY <1>0, TablesKept DEF tables
<1> QED BY <1>9, <1>10, <1>11, <1>12, <1>13, <1>14 DEF IInv

LEMMA FetchFailsKeeps == ASSUME IInv, NEW p \in Pairs, FetchFails(p) PROVE IInv'
<1>1. /\ job' = [job EXCEPT !.complete = TRUE]
      /\ now' = now /\ regimeAt' = regimeAt /\ rates' = rates /\ transitions' = transitions
      /\ until' = until /\ due' = due /\ building' = building /\ lapsed' = lapsed
  BY DEF FetchFails, tables
<1>2. /\ job'.pairs = job.pairs /\ job'.from = job.from /\ job'.cursor = job.cursor /\ job'.got = job.got
      /\ job'.complete /\ job'.complete \in BOOLEAN
  BY <1>1 DEF IInv, JobType
<1>3. HistoryTypeOK' BY <1>1, <1>2 DEF IInv, HistoryTypeOK
<1>4. JobType' BY <1>1, <1>2 DEF IInv, JobType
<1>5. Ahead' BY <1>1, <1>2 DEF IInv, Ahead, Running
<1>6. Fetched' BY <1>1, <1>2 DEF IInv, Fetched
<1>7. NoGaps' BY <1>1 DEF IInv, NoGaps
<1>8. TransitionsStayTrue' BY <1>1, TablesKept DEF tables
<1> QED BY <1>3, <1>4, <1>5, <1>6, <1>7, <1>8 DEF IInv

LEMMA StoreKeeps == ASSUME IInv, NEW p \in Pairs, NEW written \in BOOLEAN, Store(p, written) PROVE IInv'
<1>1. /\ p \in job.pairs /\ job.complete /\ job' = NoJob
      /\ now' = now /\ regimeAt' = regimeAt /\ transitions' = transitions
      /\ until' = until /\ due' = due /\ building' = building /\ lapsed' = lapsed
  BY DEF Store
<1>2. /\ rates \in [Pairs -> SUBSET (1..now)] /\ now \in Nat /\ until \in Nat /\ until <= now
      /\ job.got \subseteq job.from..until /\ job.from \in Nat \ {0} /\ Running
      /\ UpTo(rates[p], until) /\ \A t \in rates[p] : t < job.from
  BY <1>1 DEF IInv, HistoryTypeOK, JobType, Ahead, Running
<1> DEFINE G == IF written THEN job.got ELSE {}
<1>3. /\ rates' = [rates EXCEPT ![p] = rates[p] \cup G]
      /\ rates'[p] = rates[p] \cup G /\ \A q \in Pairs \ {p} : rates'[q] = rates[q]
  BY <1>2 DEF Store
<1>4. UpTo(G, until) /\ (\A t \in G : t >= job.from) /\ (\A s \in rates[p], g \in G : s < g) BY <1>2 DEF UpTo
<1>5. HistoryTypeOK'
  <2>1. G \subseteq 1..now BY <1>2
  <2>2. rates' \in [Pairs -> SUBSET (1..now)] BY <1>2, <1>3, <2>1
  <2> QED BY <1>1, <1>2, <2>2 DEF IInv, HistoryTypeOK, NoJob
<1>6. JobType' BY <1>1 DEF JobType, NoJob
<1>7. Ahead'
  <2>1. \A q \in Pairs : UpTo(rates'[q], until) BY <1>2, <1>3, <1>4 DEF UpTo, IInv, Ahead
  <2> QED BY <1>1, <2>1 DEF Ahead, NoJob
<1>8. Fetched' BY <1>1 DEF Fetched, NoJob
<1>9. NoGaps'
  <2> SUFFICES ASSUME p[2] \notin Backward, ~lapsed[p] PROVE Convex(rates[p] \cup G)
    BY <1>1, <1>3 DEF IInv, NoGaps
  <2>1. Convex(rates[p]) BY DEF IInv, NoGaps
  <2>2. /\ \A t \in job.got : \A u \in job.from..t : u \in job.got
        /\ rates[p] # {} => job.from - 1 \in rates[p]
    BY <1>1 DEF IInv, Fetched
  <2>3. \A t \in rates[p] \cup G : t \in 1..until BY <1>2, <1>4 DEF UpTo
  <2> SUFFICES ASSUME NEW t \in rates[p] \cup G, NEW u \in rates[p] \cup G, NEW v \in t..u
               PROVE  v \in rates[p] \cup G
    BY DEF Convex
  <2>4. CASE u \in rates[p]
    <3>1. u < job.from /\ t <= u BY <1>2, <2>3, <2>4
    <3>2. t \in rates[p] BY <3>1, <1>2, <1>4, <2>3
    <3> QED BY <3>2, <2>1, <2>4 DEF Convex
  <2>5. CASE u \in G /\ v >= job.from
    <3>1. v \in job.from..u BY <2>5, <2>3, <1>2
    <3> QED BY <3>1, <2>2, <2>5
  <2>6. CASE u \in G /\ ~(v >= job.from)
    <3>1. v < job.from /\ v \in Int /\ t \in Int /\ t <= v BY <2>6, <2>3, <1>2
    <3>2. t \in rates[p] BY <3>1, <1>2, <1>4
    <3>3. job.from - 1 \in rates[p] /\ v \in t..job.from - 1 BY <3>1, <3>2, <2>2, <1>2
    <3> QED BY <3>2, <3>3, <2>1 DEF Convex
  <2> QED BY <2>4, <2>5, <2>6
<1>10. TransitionsStayTrue'
  <2>1. \A q \in Pairs : transitions[q] \subseteq RunsOf(rates[q], regimeAt[q[1]])
    BY StartsAre DEF IInv, TransitionsStayTrue
  <2>2. \A q : Runs(q)' = RunsOf(rates'[q], regimeAt'[q[1]])
    BY DEF Starts, Runs, StartsOf, RunsOf
  <2>3. RunsOf(rates[p], regimeAt[p[1]]) \subseteq RunsOf(rates[p] \cup G, regimeAt[p[1]])
    <3> HIDE DEF G
    <3> QED BY <1>2, <1>4, LaterRatesKeepRuns
  <2>4. \A q \in Pairs : transitions[q] \subseteq RunsOf(rates'[q], regimeAt[q[1]]) BY <1>3, <2>1, <2>3
  <2> QED BY <1>1, <2>2, <2>4 DEF TransitionsStayTrue
<1> QED BY <1>5, <1>6, <1>7, <1>8, <1>9, <1>10 DEF IInv

LEMMA BuildTransitionsKeeps == ASSUME IInv, NEW p \in Pairs, BuildTransitions(p) PROVE IInv'
<1>1. /\ p \in building /\ due = {} /\ job = NoJob /\ job' = job /\ due' = due
      /\ now' = now /\ regimeAt' = regimeAt /\ rates' = rates /\ lapsed' = lapsed
      /\ building' = building \ {p} /\ until' = IF building = {p} THEN 0 ELSE until
      /\ transitions' = [transitions EXCEPT ![p] = @ \cup {r \in Runs(p) : \A t \in transitions[p] : t.start # r.start}]
  BY DEF BuildTransitions
<1>2. Runs(p) \subseteq Transition
  <2>1. /\ UpTo(rates[p], now) /\ now <= MaxNow /\ now \in Nat
        /\ regimeAt[p[1]] \in Seq(Regimes) /\ Len(regimeAt[p[1]]) = now
    BY DEF IInv, HistoryTypeOK, UpTo, Pairs
  <2> SUFFICES ASSUME NEW r \in RunsOf(rates[p], regimeAt[p[1]]) PROVE r \in Transition BY StartsAre
  <2>2. PICK s \in StartsOf(rates[p], regimeAt[p[1]]), e \in StartsOf(rates[p], regimeAt[p[1]]) :
          r = [regime |-> regimeAt[p[1]][s], start |-> s, end |-> e]
    BY <2>1, RunIff
  <2>3. s \in 1..now /\ e \in 1..now BY <2>1 DEF StartsOf, UpTo
  <2> QED BY <2>1, <2>2, <2>3, HistoryAssumption DEF Transition, Times, HistoryAssumption
<1>3. HistoryTypeOK'
  <2>1. transitions' \in [Pairs -> SUBSET Transition] BY <1>1, <1>2 DEF IInv, HistoryTypeOK
  <2> QED BY <1>1, <2>1 DEF IInv, HistoryTypeOK, NoJob
<1>4. JobType' BY <1>1 DEF IInv, JobType
<1>5. Ahead' BY <1>1 DEF IInv, Ahead, Running, NoJob
<1>6. Fetched' BY <1>1 DEF IInv, Fetched
<1>7. NoGaps' BY <1>1 DEF IInv, NoGaps
<1>8. TransitionsStayTrue'
  <2>1. \A q \in Pairs : transitions'[q] \subseteq RunsOf(rates[q], regimeAt[q[1]])
    BY <1>1, StartsAre DEF IInv, TransitionsStayTrue, HistoryTypeOK
  <2>2. \A q : Runs(q)' = RunsOf(rates'[q], regimeAt'[q[1]])
    BY DEF Starts, Runs, StartsOf, RunsOf
  <2> QED BY <1>1, <2>1, <2>2 DEF TransitionsStayTrue
<1> QED BY <1>3, <1>4, <1>5, <1>6, <1>7, <1>8 DEF IInv

LEMMA EndBackfillKeeps == ASSUME IInv, EndBackfill PROVE IInv'
<1>1. /\ until' = 0 /\ building' = {} /\ due' = {} /\ job' = NoJob
      /\ now' = now /\ regimeAt' = regimeAt /\ rates' = rates /\ transitions' = transitions /\ lapsed' = lapsed
  BY DEF EndBackfill, tables
<1>2. HistoryTypeOK' BY <1>1 DEF IInv, HistoryTypeOK, NoJob
<1>3. JobType' BY <1>1 DEF JobType, NoJob
<1>4. Ahead' BY <1>1 DEF Ahead, Running, NoJob
<1>5. Fetched' BY <1>1 DEF Fetched, NoJob
<1>6. NoGaps' BY <1>1 DEF IInv, NoGaps
<1>7. TransitionsStayTrue' BY <1>1, TablesKept DEF tables
<1> QED BY <1>2, <1>3, <1>4, <1>5, <1>6, <1>7 DEF IInv

LEMMA PublishKeeps == ASSUME IInv, NEW published \in [Assets -> Regimes], Publish(published) PROVE IInv'
<1>1. /\ now < MaxNow /\ now' = now + 1 /\ regimeAt' = [a \in Assets |-> Append(regimeAt[a], published[a])]
      /\ rates' = rates /\ transitions' = transitions
      /\ until' = until /\ due' = due /\ job' = job /\ building' = building /\ lapsed' = lapsed
  BY DEF Publish, tables
<1>2. /\ now \in Nat /\ now <= MaxNow /\ regimeAt \in [Assets -> Seq(Regimes)] /\ \A a \in Assets : Len(regimeAt[a]) = now
      /\ rates \in [Pairs -> SUBSET (1..now)] /\ MaxNow \in Nat
  BY HistoryAssumption DEF IInv, HistoryTypeOK, HistoryAssumption
<1>3. \A a \in Assets : /\ regimeAt'[a] \in Seq(Regimes) /\ Len(regimeAt'[a]) = now + 1
                        /\ \A t \in 1..now : regimeAt'[a][t] = regimeAt[a][t]
  BY <1>1, <1>2
<1>4. HistoryTypeOK'
  <2>1. rates' \in [Pairs -> SUBSET (1..now')] BY <1>1, <1>2
  <2>2. regimeAt' \in [Assets -> Seq(Regimes)] /\ \A a \in Assets : Len(regimeAt'[a]) = now' BY <1>1, <1>3
  <2>3. now' \in 0..MaxNow BY <1>1, <1>2
  <2> QED BY <1>1, <1>2, <2>1, <2>2, <2>3 DEF IInv, HistoryTypeOK
<1>5. JobType' BY <1>1 DEF IInv, JobType
<1>6. Ahead' BY <1>1 DEF IInv, Ahead, Running
<1>7. Fetched' BY <1>1 DEF IInv, Fetched
<1>8. NoGaps' BY <1>1 DEF IInv, NoGaps
<1>9. TransitionsStayTrue'
  <2>1. \A q : Runs(q)' = RunsOf(rates'[q], regimeAt'[q[1]])
    BY DEF Starts, Runs, StartsOf, RunsOf
  <2>2. ASSUME NEW q \in Pairs PROVE transitions[q] \subseteq RunsOf(rates[q], regimeAt'[q[1]])
    <3>1. transitions[q] \subseteq RunsOf(rates[q], regimeAt[q[1]]) BY StartsAre DEF IInv, TransitionsStayTrue
    <3>2. UpTo(rates[q], now) /\ q[1] \in Assets BY <1>2 DEF UpTo, Pairs
    <3>3. \A t \in rates[q] : regimeAt[q[1]][t] = regimeAt'[q[1]][t] BY <1>3, <3>2 DEF UpTo
    <3>4. RunsOf(rates[q], regimeAt[q[1]]) \subseteq RunsOf(rates[q], regimeAt'[q[1]])
      BY <3>2, <3>3, SameMarketSameRuns
    <3> QED BY <3>1, <3>4
  <2> QED BY <1>1, <2>1, <2>2 DEF TransitionsStayTrue
<1> QED BY <1>4, <1>5, <1>6, <1>7, <1>8, <1>9 DEF IInv

-----------------------------------------------------------------------------
LEMMA InitIInv == HistoryInit => IInv
<1> SUFFICES ASSUME HistoryInit PROVE IInv OBVIOUS
<1> USE HistoryAssumption DEF HistoryInit
<1>1. HistoryTypeOK BY DEF HistoryTypeOK, NoJob, HistoryAssumption
<1>2. JobType BY DEF JobType, NoJob
<1>3. Ahead BY DEF Ahead, Running, NoJob
<1>4. Fetched BY DEF Fetched, NoJob
<1>5. NoGaps BY DEF NoGaps, Convex
<1>6. TransitionsStayTrue BY DEF TransitionsStayTrue
<1> QED BY <1>1, <1>2, <1>3, <1>4, <1>5, <1>6 DEF IInv

LEMMA NextKeeps == IInv /\ [HistoryNext]_historyVars => IInv'
<1> SUFFICES ASSUME IInv, [HistoryNext]_historyVars PROVE IInv' OBVIOUS
<1>1. CASE StartBackfill BY <1>1, StartBackfillKeeps
<1>2. CASE \E p \in Pairs : StartFetch(p) BY <1>2, StartFetchKeeps
<1>3. CASE \E p \in Pairs : FetchPage(p) BY <1>3, FetchPageKeeps
<1>4. CASE \E p \in Pairs : BuildTransitions(p) BY <1>4, BuildTransitionsKeeps
<1>5. CASE \E p \in Pairs, written \in BOOLEAN : Store(p, written) BY <1>5, StoreKeeps
<1>6. CASE \E p \in Pairs : FetchFails(p) BY <1>6, FetchFailsKeeps
<1>7. CASE EndBackfill BY <1>7, EndBackfillKeeps
<1>8. CASE \E published \in [Assets -> Regimes] : Publish(published) BY <1>8, PublishKeeps
<1>9. CASE UNCHANGED historyVars
  <2>1. /\ now' = now /\ regimeAt' = regimeAt /\ rates' = rates /\ transitions' = transitions
        /\ until' = until /\ due' = due /\ job' = job /\ building' = building /\ lapsed' = lapsed
    BY <1>9 DEF historyVars, tables
  <2>2. HistoryTypeOK' BY <2>1 DEF IInv, HistoryTypeOK
  <2>3. JobType' BY <2>1 DEF IInv, JobType
  <2>4. Ahead' BY <2>1 DEF IInv, Ahead, Running
  <2>5. Fetched' BY <2>1 DEF IInv, Fetched
  <2>6. NoGaps' BY <2>1 DEF IInv, NoGaps
  <2>7. TransitionsStayTrue' BY <2>1, TablesKept DEF tables
  <2> QED BY <2>2, <2>3, <2>4, <2>5, <2>6, <2>7 DEF IInv
<1> QED BY <1>1, <1>2, <1>3, <1>4, <1>5, <1>6, <1>7, <1>8, <1>9 DEF HistoryNext, BackfillStep

LEMMA Inductive == HistorySpec => []IInv
BY InitIInv, NextKeeps, PTL DEF HistorySpec

\* The tables hold times that were published and regimes with a start and an
\* end, and the range of a fetch stays inside what its backfill asks for.
THEOREM HistoryTypes == HistorySpec => []HistoryTypeOK
<1>1. IInv => HistoryTypeOK BY DEF IInv
<1> QED BY <1>1, Inductive, PTL

\* What regime_transitions records stays what the stored rates show, although
\* _build_regime_transitions never corrects a row.
THEOREM TransitionsStayTrueAlways == HistorySpec => []TransitionsStayTrue
<1>1. IInv => TransitionsStayTrue BY DEF IInv
<1> QED BY <1>1, Inductive, PTL

\* Whatever pages and stores fail and whenever the process is killed, the rates
\* of an exchange that pages forward have no hole within the window.
THEOREM ForwardHasNoHoleAlways == HistorySpec => []ForwardHasNoHole
<1>1. IInv => ForwardHasNoHole
  <2> SUFFICES ASSUME IInv, NEW p \in Pairs, p[2] \notin Backward, ~lapsed[p], rates[p] # {}
               PROVE  rates[p] = Min(rates[p])..Max(rates[p])
    BY DEF ForwardHasNoHole
  <2>1. Convex(rates[p]) BY DEF IInv, NoGaps
  <2>2. UpTo(rates[p], now) BY DEF IInv, HistoryTypeOK, UpTo
  <2>3. /\ Min(rates[p]) \in rates[p] /\ Min(rates[p]) \in 1..now /\ \A t \in rates[p] : Min(rates[p]) <= t
        /\ Max(rates[p]) \in rates[p] /\ Max(rates[p]) \in 1..now /\ \A t \in rates[p] : t <= Max(rates[p])
    BY <2>2, StoredExtremes
  <2>4. \A t \in Min(rates[p])..Max(rates[p]) : t \in rates[p] BY <2>1, <2>3 DEF Convex
  <2>5. \A t \in rates[p] : t \in Int BY <2>2 DEF UpTo
  <2>6. \A t \in rates[p] : t \in Min(rates[p])..Max(rates[p])
    <3> DEFINE lo == Min(rates[p])  hi == Max(rates[p])
    <3>1. lo \in Int /\ hi \in Int /\ \A t \in rates[p] : t \in Int /\ lo <= t /\ t <= hi BY <2>3, <2>5
    <3> HIDE DEF lo, hi
    <3>2. \A t \in rates[p] : t \in lo..hi BY <3>1
    <3> QED BY <3>2 DEF lo, hi
  <2> QED BY <2>4, <2>6
<1> QED BY <1>1, Inductive, PTL

\* The durations the predictor is fitted to are those of the market.
THEOREM DurationsAreRealAlways == HistorySpec => []DurationsAreReal
<1>1. IInv => DurationsAreReal
  <2> SUFFICES ASSUME IInv, NEW p \in Pairs, NEW r \in transitions[p], p[2] \notin Backward, ~lapsed[p]
               PROVE  /\ \A t \in r.start..r.end - 1 : regimeAt[p[1]][t] = r.regime
                      /\ regimeAt[p[1]][r.end] # r.regime
                      /\ r.start = Min(rates[p]) \/ regimeAt[p[1]][r.start - 1] # r.regime
    BY DEF DurationsAreReal
  <2>1. Convex(rates[p]) BY DEF IInv, NoGaps
  <2>2. UpTo(rates[p], now) BY DEF IInv, HistoryTypeOK, UpTo
  <2>3. r \in RunsOf(rates[p], regimeAt[p[1]]) BY StartsAre DEF IInv, TransitionsStayTrue
  <2> QED BY <2>1, <2>2, <2>3, RunIsReal
<1> QED BY <1>1, Inductive, PTL

-----------------------------------------------------------------------------
-----------------------------------------------------------------------------
(* Sums over finite sets.                                                  *)

Pick(T) == CHOOSE x \in T : TRUE

\* What the fold defines: the sum of each of the subsets.
Sums(g, f, D) == g = [T \in D |-> IF T = {} THEN 0 ELSE f[Pick(T)] + g[T \ {Pick(T)}]]

LEMMA SumIs ==
  ASSUME NEW f, NEW S
  PROVE  SumFunctionOnSet(f, S) = (CHOOSE g : Sums(g, f, SUBSET S))[S]
BY DEF SumFunctionOnSet, FoldFunctionOnSet, MapThenFoldSet, Sums, Pick

LEMMA SumsExist ==
  ASSUME NEW f, NEW S, IsFiniteSet(S)
  PROVE  \E g : Sums(g, f, SUBSET S)
<1> DEFINE D(n) == {T \in SUBSET S : Cardinality(T) <= n}
           N == {n \in Nat : \E g : Sums(g, f, D(n))}
<1>1. \A T \in SUBSET S : IsFiniteSet(T) /\ Cardinality(T) \in Nat /\ Cardinality(T) <= Cardinality(S)
  BY FS_Subset, FS_CardinalityType
<1>2. 0 \in N
  <2>1. \A T \in D(0) : T = {} BY <1>1, FS_EmptySet
  <2>2. Sums([T \in D(0) |-> 0], f, D(0)) BY <2>1 DEF Sums
  <2> QED BY <2>2
<1>3. ASSUME NEW n \in Nat, n \in N PROVE n + 1 \in N
  <2>1. PICK g : Sums(g, f, D(n)) BY <1>3
  <2> DEFINE h == [T \in D(n + 1) |-> IF T = {} THEN 0 ELSE f[Pick(T)] + g[T \ {Pick(T)}]]
  <2>2. ASSUME NEW T \in D(n) PROVE h[T] = g[T]
    <3>1. T \in D(n + 1) BY <1>1
    <3> QED BY <2>1, <3>1 DEF Sums
  <2>3. ASSUME NEW T \in D(n + 1), T # {} PROVE T \ {Pick(T)} \in D(n)
    <3>1. Pick(T) \in T BY <2>3 DEF Pick
    <3>2. Cardinality(T \ {Pick(T)}) = Cardinality(T) - 1 BY <1>1, <3>1, FS_RemoveElement
    <3> QED BY <1>1, <3>2
  <2> HIDE DEF D
  <2>4. \A T \in D(n + 1) : h[T] = IF T = {} THEN 0 ELSE f[Pick(T)] + h[T \ {Pick(T)}]
    BY <2>2, <2>3
  <2>5. Sums(h, f, D(n + 1)) BY <2>4 DEF Sums
  <2> QED BY <2>5
<1> HIDE DEF N
<1>4. Cardinality(S) \in N BY <1>1, <1>2, <1>3, NatSteps
<1>5. D(Cardinality(S)) = SUBSET S BY <1>1
<1> QED BY <1>4, <1>5 DEF N

LEMMA SumsHold ==
  ASSUME NEW f, NEW S, IsFiniteSet(S)
  PROVE  Sums(CHOOSE g : Sums(g, f, SUBSET S), f, SUBSET S)
BY SumsExist

\* Sums over larger and over smaller sets agree.
LEMMA SumsAgree ==
  ASSUME NEW f, NEW S, NEW V \in SUBSET S, IsFiniteSet(S), NEW g, NEW h,
         Sums(g, f, SUBSET S), Sums(h, f, SUBSET V)
  PROVE  \A T \in SUBSET V : g[T] = h[T]
<1> DEFINE N == {n \in Nat : \A T \in SUBSET V : Cardinality(T) = n => g[T] = h[T]}
<1>1. \A T \in SUBSET V : IsFiniteSet(T) /\ Cardinality(T) \in Nat BY FS_Subset, FS_CardinalityType
<1>2. \A T \in SUBSET V : T = {} => g[T] = h[T] BY DEF Sums
<1>3. 0 \in N BY <1>1, <1>2, FS_EmptySet
<1>4. ASSUME NEW n \in Nat, n \in N PROVE n + 1 \in N
  <2>1. SUFFICES ASSUME NEW T \in SUBSET V, Cardinality(T) = n + 1, T # {} PROVE g[T] = h[T]
    BY <1>2
  <2>2. Pick(T) \in T BY <2>1 DEF Pick
  <2>3. Cardinality(T \ {Pick(T)}) = n BY <1>1, <2>1, <2>2, OneMore
  <2>4. g[T \ {Pick(T)}] = h[T \ {Pick(T)}] BY <1>4, <2>3
  <2> QED BY <2>1, <2>4 DEF Sums
<1> HIDE DEF N
<1>5. Nat \subseteq N BY <1>3, <1>4, NatSteps
<1> QED BY <1>1, <1>5 DEF N

LEMMA SumEmpty == \A f : SumFunctionOnSet(f, {}) = 0
BY SumIs, SumsHold, FS_EmptySet DEF Sums

LEMMA SumStep ==
  ASSUME NEW f, NEW S, IsFiniteSet(S), S # {}
  PROVE  Pick(S) \in S /\ SumFunctionOnSet(f, S) = f[Pick(S)] + SumFunctionOnSet(f, S \ {Pick(S)})
<1> DEFINE V == S \ {Pick(S)}
<1>1. V \in SUBSET S /\ IsFiniteSet(V) BY FS_Subset
<1>2. PICK g : Sums(g, f, SUBSET S) /\ SumFunctionOnSet(f, S) = g[S] BY SumIs, SumsHold
<1>3. PICK h : Sums(h, f, SUBSET V) /\ SumFunctionOnSet(f, V) = h[V] BY <1>1, SumIs, SumsHold
<1>4. g[V] = h[V]
  <2> HIDE DEF V
  <2>1. \A T \in SUBSET V : g[T] = h[T] BY <1>1, <1>2, <1>3, SumsAgree
  <2> QED BY <2>1
<1>5. g[S] = f[Pick(S)] + g[V] BY <1>2 DEF Sums
<1> QED BY <1>2, <1>3, <1>4, <1>5 DEF Pick

\* A sum of integers is one.
LEMMA SumInt ==
  ASSUME NEW S, IsFiniteSet(S), NEW f, \A x \in S : f[x] \in Int
  PROVE  SumFunctionOnSet(f, S) \in Int
<1> DEFINE N == {n \in Nat : \A T \in SUBSET S : Cardinality(T) = n => SumFunctionOnSet(f, T) \in Int}
<1>1. \A T \in SUBSET S : IsFiniteSet(T) /\ Cardinality(T) \in Nat BY FS_Subset, FS_CardinalityType
<1>2. 0 \in N BY <1>1, FS_EmptySet, SumEmpty
<1>3. ASSUME NEW n \in Nat, n \in N PROVE n + 1 \in N
  <2>1. SUFFICES ASSUME NEW T \in SUBSET S, Cardinality(T) = n + 1 PROVE SumFunctionOnSet(f, T) \in Int
    OBVIOUS
  <2>2. T # {} BY <1>1, <2>1, OneMore
  <2>3. Pick(T) \in T /\ SumFunctionOnSet(f, T) = f[Pick(T)] + SumFunctionOnSet(f, T \ {Pick(T)})
    BY <1>1, <2>2, SumStep
  <2>4. Cardinality(T \ {Pick(T)}) = n BY <1>1, <2>1, <2>3, OneMore
  <2>5. SumFunctionOnSet(f, T \ {Pick(T)}) \in Int BY <1>3, <2>4
  <2> QED BY <2>3, <2>5
<1> HIDE DEF N
<1>4. Nat \subseteq N BY <1>2, <1>3, NatSteps
<1> QED BY <1>1, <1>4 DEF N

\* Any member can be taken out of a sum.
LEMMA SumAdd ==
  ASSUME NEW S, IsFiniteSet(S), NEW f, \A x \in S : f[x] \in Int, NEW x \in S
  PROVE  SumFunctionOnSet(f, S) = SumFunctionOnSet(f, S \ {x}) + f[x]
<1> DEFINE Of(T) == SumFunctionOnSet(f, T)
           N == {n \in Nat : \A T \in SUBSET S : Cardinality(T) = n => \A y \in T : Of(T) = Of(T \ {y}) + f[y]}
<1>1. \A T \in SUBSET S : IsFiniteSet(T) /\ Cardinality(T) \in Nat /\ Of(T) \in Int
  BY FS_Subset, FS_CardinalityType, SumInt
<1>2. 0 \in N BY <1>1, FS_EmptySet
<1>3. ASSUME NEW n \in Nat, n \in N PROVE n + 1 \in N
  <2>1. SUFFICES ASSUME NEW T \in SUBSET S, Cardinality(T) = n + 1, NEW y \in T PROVE Of(T) = Of(T \ {y}) + f[y]
    OBVIOUS
  <2> DEFINE p == Pick(T)
  <2>2. p \in T /\ Of(T) = f[p] + Of(T \ {p}) BY <1>1, <2>1, SumStep
  <2> HIDE DEF p
  <2>3. CASE p = y BY <1>1, <2>2, <2>3
  <2>4. CASE p # y
    <3>1. Cardinality(T \ {p}) = n /\ Cardinality(T \ {y}) = n BY <1>1, <2>1, <2>2, OneMore
    <3>2. Of(T \ {p}) = Of((T \ {p}) \ {y}) + f[y] BY <1>3, <2>4, <3>1
    <3>3. Of(T \ {y}) = Of((T \ {y}) \ {p}) + f[p] BY <1>3, <2>2, <2>4, <3>1
    <3>4. (T \ {y}) \ {p} = (T \ {p}) \ {y} OBVIOUS
    <3>5. Of(T \ {y}) = Of((T \ {p}) \ {y}) + f[p] BY <3>3, <3>4
    <3>6. Of((T \ {p}) \ {y}) \in Int /\ f[p] \in Int /\ f[y] \in Int BY <1>1, <2>2
    <3>7. Of(T) = f[p] + (Of((T \ {p}) \ {y}) + f[y]) BY <2>2, <3>2
    <3> HIDE DEF Of
    <3> QED BY <3>5, <3>6, <3>7
  <2> QED BY <2>3, <2>4
<1> HIDE DEF N
<1>4. Nat \subseteq N BY <1>2, <1>3, NatSteps
<1> QED BY <1>1, <1>4 DEF N

LEMMA SumSame ==
  ASSUME NEW S, IsFiniteSet(S), NEW f, NEW g, \A x \in S : f[x] = g[x] /\ f[x] \in Int
  PROVE  SumFunctionOnSet(f, S) = SumFunctionOnSet(g, S)
<1> DEFINE G == {T \in SUBSET S : SumFunctionOnSet(f, T) = SumFunctionOnSet(g, T)}
<1>1. {} \in G BY SumEmpty
<1>2. ASSUME NEW T \in SUBSET S, NEW x \in S \ T, T \in G PROVE T \cup {x} \in G
  <2>1. IsFiniteSet(T \cup {x}) BY FS_Subset
  <2>2. (T \cup {x}) \ {x} = T BY <1>2
  <2>3. /\ SumFunctionOnSet(f, T \cup {x}) = SumFunctionOnSet(f, T) + f[x]
        /\ SumFunctionOnSet(g, T \cup {x}) = SumFunctionOnSet(g, T) + g[x]
    <3> DEFINE U == T \cup {x}
    <3>1. U \subseteq S /\ x \in U OBVIOUS
    <3>2. \A y \in U : f[y] \in Int /\ g[y] \in Int BY <3>1
    <3> HIDE DEF U
    <3>3. /\ SumFunctionOnSet(f, U) = SumFunctionOnSet(f, U \ {x}) + f[x]
          /\ SumFunctionOnSet(g, U) = SumFunctionOnSet(g, U \ {x}) + g[x]
      BY <2>1, <3>1, <3>2, SumAdd DEF U
    <3> QED BY <2>2, <3>3 DEF U
  <2> QED BY <1>2, <2>3
<1> HIDE DEF G
<1>3. S \in G BY <1>1, <1>2, FiniteSteps
<1> QED BY <1>3 DEF G

\* One member more.
LEMMA SumMore ==
  ASSUME NEW S, IsFiniteSet(S), NEW f, NEW x, x \notin S, \A y \in S : f[y] \in Int, f[x] \in Int
  PROVE  SumFunctionOnSet(f, S \cup {x}) = SumFunctionOnSet(f, S) + f[x]
<1> DEFINE U == S \cup {x}
<1>1. IsFiniteSet(U) /\ x \in U /\ \A y \in U : f[y] \in Int BY FS_AddElement
<1>2. U \ {x} = S OBVIOUS
<1> HIDE DEF U
<1>3. SumFunctionOnSet(f, U) = SumFunctionOnSet(f, U \ {x}) + f[x] BY <1>1, SumAdd
<1> QED BY <1>2, <1>3 DEF U

\* The sum over a union of disjoint sets.
LEMMA SumUnion ==
  ASSUME NEW S, IsFiniteSet(S), NEW V, IsFiniteSet(V), S \cap V = {}, NEW f, \A x \in S \cup V : f[x] \in Int
  PROVE  SumFunctionOnSet(f, S \cup V) = SumFunctionOnSet(f, S) + SumFunctionOnSet(f, V)
<1> DEFINE G == {T \in SUBSET V : SumFunctionOnSet(f, S \cup T) = SumFunctionOnSet(f, S) + SumFunctionOnSet(f, T)}
<1>1. {} \in G
  <2>1. SumFunctionOnSet(f, S) \in Int BY SumInt
  <2>2. S \cup {} = S OBVIOUS
  <2> QED BY <2>1, <2>2, SumEmpty
<1>2. ASSUME NEW T \in SUBSET V, NEW x \in V \ T, T \in G PROVE T \cup {x} \in G
  <2>1. IsFiniteSet(T) /\ IsFiniteSet(S \cup T) BY FS_Subset, FS_Union
  <2>2. x \notin S \cup T /\ (\A y \in S \cup T : f[y] \in Int) /\ f[x] \in Int BY <1>2
  <2>3. SumFunctionOnSet(f, (S \cup T) \cup {x}) = SumFunctionOnSet(f, S \cup T) + f[x] BY <2>1, <2>2, SumMore
  <2>4. SumFunctionOnSet(f, T \cup {x}) = SumFunctionOnSet(f, T) + f[x] BY <2>1, <2>2, SumMore
  <2>5. SumFunctionOnSet(f, S) \in Int /\ SumFunctionOnSet(f, T) \in Int /\ f[x] \in Int BY <2>1, SumInt
  <2>6. (S \cup T) \cup {x} = S \cup (T \cup {x}) OBVIOUS
  <2>7. SumFunctionOnSet(f, S \cup T) = SumFunctionOnSet(f, S) + SumFunctionOnSet(f, T) BY <1>2
  <2>8. SumFunctionOnSet(f, S \cup (T \cup {x})) = SumFunctionOnSet(f, S) + SumFunctionOnSet(f, T) + f[x]
    BY <2>3, <2>6, <2>7
  <2> QED BY <2>4, <2>5, <2>8
<1> HIDE DEF G
<1>3. V \in G BY <1>1, <1>2, FiniteSteps
<1> QED BY <1>3 DEF G

\* The sum of two functions.
LEMMA SumBoth ==
  ASSUME NEW S, IsFiniteSet(S), NEW f, NEW g, NEW h,
         \A x \in S : f[x] \in Int /\ g[x] \in Int /\ h[x] = f[x] + g[x]
  PROVE  SumFunctionOnSet(h, S) = SumFunctionOnSet(f, S) + SumFunctionOnSet(g, S)
<1> DEFINE G == {T \in SUBSET S : SumFunctionOnSet(h, T) = SumFunctionOnSet(f, T) + SumFunctionOnSet(g, T)}
<1>1. {} \in G BY SumEmpty
<1>2. ASSUME NEW T \in SUBSET S, NEW x \in S \ T, T \in G PROVE T \cup {x} \in G
  <2>1. IsFiniteSet(T) /\ x \notin T BY FS_Subset
  <2>2. /\ \A y \in T : f[y] \in Int /\ g[y] \in Int
        /\ f[x] \in Int /\ g[x] \in Int
    OBVIOUS
  <2>0. (\A y \in T : h[y] \in Int) /\ h[x] \in Int OBVIOUS
  <2>3. SumFunctionOnSet(f, T \cup {x}) = SumFunctionOnSet(f, T) + f[x] BY <2>1, <2>2, SumMore
  <2>4. SumFunctionOnSet(g, T \cup {x}) = SumFunctionOnSet(g, T) + g[x] BY <2>1, <2>2, SumMore
  <2>5. SumFunctionOnSet(h, T \cup {x}) = SumFunctionOnSet(h, T) + h[x] BY <2>0, <2>1, SumMore
  <2>6. SumFunctionOnSet(f, T) \in Int /\ SumFunctionOnSet(g, T) \in Int BY <2>1, SumInt
  <2>7. h[x] = f[x] + g[x] /\ f[x] \in Int /\ g[x] \in Int OBVIOUS
  <2>8. SumFunctionOnSet(h, T) = SumFunctionOnSet(f, T) + SumFunctionOnSet(g, T) BY <1>2
  <2> QED BY <2>3, <2>4, <2>5, <2>6, <2>7, <2>8
<1> HIDE DEF G
<1>3. S \in G BY <1>1, <1>2, FiniteSteps
<1> QED BY <1>3 DEF G

\* Eight times a function.
LEMMA SumEightfold ==
  ASSUME NEW S, IsFiniteSet(S), NEW f, NEW h, \A x \in S : f[x] \in Int /\ h[x] = 8 * f[x]
  PROVE  SumFunctionOnSet(f, S) \in Int /\ SumFunctionOnSet(h, S) = 8 * SumFunctionOnSet(f, S)
<1> DEFINE two == [x \in S |-> 2 * f[x]]
           four == [x \in S |-> 4 * f[x]]
<1>1. \A x \in S : f[x] \in Int /\ two[x] = f[x] + f[x] OBVIOUS
<1>2. \A x \in S : two[x] \in Int /\ four[x] = two[x] + two[x] OBVIOUS
<1>3. \A x \in S : four[x] \in Int /\ h[x] = four[x] + four[x] OBVIOUS
<1> HIDE DEF two, four
<1>4. SumFunctionOnSet(two, S) = SumFunctionOnSet(f, S) + SumFunctionOnSet(f, S) BY <1>1, SumBoth
<1>5. SumFunctionOnSet(four, S) = SumFunctionOnSet(two, S) + SumFunctionOnSet(two, S) BY <1>2, SumBoth
<1>6. SumFunctionOnSet(h, S) = SumFunctionOnSet(four, S) + SumFunctionOnSet(four, S) BY <1>3, SumBoth
<1>7. SumFunctionOnSet(f, S) \in Int BY <1>1, SumInt
<1> QED BY <1>4, <1>5, <1>6, <1>7

\* A sum over what the members of a set are mapped to one by one.
LEMMA SumImage ==
  ASSUME NEW S, IsFiniteSet(S), NEW f, NEW h, NEW m,
         \A x, y \in S : m[x] = m[y] => x = y,
         \A x \in S : f[x] \in Int /\ h[m[x]] = f[x]
  PROVE  /\ IsFiniteSet({m[x] : x \in S})
         /\ SumFunctionOnSet(h, {m[x] : x \in S}) = SumFunctionOnSet(f, S)
<1> DEFINE G == {T \in SUBSET S : /\ IsFiniteSet({m[x] : x \in T})
                                  /\ SumFunctionOnSet(h, {m[x] : x \in T}) = SumFunctionOnSet(f, T)}
<1>1. {} \in G
  <2>1. {m[x] : x \in {}} = {} OBVIOUS
  <2> QED BY <2>1, SumEmpty, FS_EmptySet
<1>2. ASSUME NEW T \in SUBSET S, NEW z \in S \ T, T \in G PROVE T \cup {z} \in G
  <2> DEFINE J == {m[x] : x \in T}
             mz == m[z]
  <2>1. IsFiniteSet(T) /\ z \notin T /\ f[z] \in Int /\ \A y \in T : f[y] \in Int BY FS_Subset
  <2>2. {m[x] : x \in T \cup {z}} = J \cup {mz} OBVIOUS
  <2>3. mz \notin J OBVIOUS
  <2>4. (\A y \in J : h[y] \in Int) /\ h[mz] \in Int OBVIOUS
  <2>5. IsFiniteSet(J) /\ SumFunctionOnSet(h, J) = SumFunctionOnSet(f, T) BY <1>2
  <2>6. h[mz] = f[z] OBVIOUS
  <2> HIDE DEF J, mz
  <2>7. IsFiniteSet(J \cup {mz}) BY <2>5, FS_AddElement
  <2>8. SumFunctionOnSet(h, J \cup {mz}) = SumFunctionOnSet(h, J) + h[mz] BY <2>3, <2>4, <2>5, SumMore
  <2>9. SumFunctionOnSet(f, T \cup {z}) = SumFunctionOnSet(f, T) + f[z] BY <2>1, SumMore
  <2>10. SumFunctionOnSet(h, J \cup {mz}) = SumFunctionOnSet(f, T \cup {z}) BY <2>5, <2>6, <2>8, <2>9
  <2> QED BY <2>2, <2>7, <2>10
<1> HIDE DEF G
<1>3. S \in G BY <1>1, <1>2, FiniteSteps
<1> QED BY <1>3 DEF G

-----------------------------------------------------------------------------
-----------------------------------------------------------------------------
(* Backtest: the trades of both engines.                                   *)

\* The parts of the state the properties below are about.
Typed ==
  /\ phase \in {"read", "regime", "exits", "entries", "done"} /\ bar \in Nat
  /\ prices = [c \in Priced |-> prices[c]] /\ \A c \in Priced : prices[c] \in Candles
  /\ positions = [c \in Held |-> positions[c]] /\ \A c \in Held : positions[c] \in Positions
  /\ regime \in {"HIGH_FUNDING", "BELOW_HIGH"} /\ (phase = "regime" => engine = "regime")

\* What is open after the exits of a bar is above its stop at the close.
AboveStop ==
  phase \in {"entries", "read"} => \A c \in Held \cap Priced : Roe(positions[c], prices[c].close) >= StopLoss

\* Trades and positions in the order of time.
InTime ==
  /\ \A c \in Held : positions[c].entered <= bar
  /\ \A t \in closed : t.entered \in Nat /\ t.exited \in Nat /\ t.exited <= bar

\* From the regime exit to the entries nothing that has a candle is held.
FlatBelowHigh ==
  engine = "regime" /\ regime = "BELOW_HIGH" /\ phase \in {"exits", "entries"} => Held \cap Priced = {}

BacktestIInv ==
  /\ Typed /\ AboveStop /\ InTime /\ FlatBelowHigh
  /\ StopBoundsLoss /\ OneAtATime /\ NoOverstay /\ BelowHighIsFlat

-----------------------------------------------------------------------------
\* Whatever rule ends a position, its trade loses at most the stop; a position
\* no rule ends is above the stop at the worst price of the bar.
LEMMA ExitAboveStop ==
  ASSUME NEW p \in Positions, NEW k \in Candles, bar \in Nat
  PROVE  /\ ExitReason(p, k) # "HOLD" => ExitRoe(p, k, ExitReason(p, k)) >= StopLoss
         /\ ExitReason(p, k) = "HOLD" => Roe(p, k.close) >= StopLoss /\ ~Expired(p)
         /\ ExitRoe(p, k, "REGIME_EXIT") = Roe(p, k.close)
         /\ Roe(p, k.close) \in Int
         /\ ExitReason(p, k) # "REGIME_EXIT"
<1>1. /\ k.low \in Int /\ k.close \in Int /\ k.high \in Int /\ k.low <= k.close /\ k.close <= k.high
      /\ p.entry \in Int /\ p.peak \in Int /\ p.entered \in Nat /\ p.direction \in {"long", "short"}
      /\ StopLoss \in Int /\ StopLoss < 0 /\ TakeProfit \in Int /\ TakeProfit > 0 /\ TimeoutHours \in Nat
      /\ TrailDistance \in Int /\ TrailActivate \in Int
  BY BacktestAssumption DEF Positions
<1>2. WorstRoe(p, k) \in Int /\ BestRoe(p, k) \in Int /\ Roe(p, k.close) \in Int
      /\ WorstRoe(p, k) <= Roe(p, k.close)
  BY <1>1 DEF WorstRoe, BestRoe, Roe
<1>3. Threshold(p, k) \in Int
  BY <1>1, <1>2 DEF Threshold, Peak
<1>4. CASE Stopped(p, k)
  BY <1>1, <1>2, <1>4 DEF ExitReason, ExitRoe
<1>5. CASE ~Stopped(p, k)
  <2>1. WorstRoe(p, k) > StopLoss
    BY <1>1, <1>2, <1>5 DEF Stopped
  <2>2. CASE Expired(p)
    BY <1>1, <1>2, <1>5, <2>1, <2>2 DEF ExitReason, ExitRoe
  <2>3. CASE ~Expired(p) /\ Profits(p, k)
    BY <1>1, <1>2, <1>5, <2>1, <2>3 DEF ExitReason, ExitRoe
  <2>4. CASE ~Expired(p) /\ ~Profits(p, k) /\ Trails(p, k)
    <3>1. WorstRoe(p, k) <= Threshold(p, k)
      BY <2>4 DEF Trails
    <3>2. ExitReason(p, k) = "TRAILING_STOP" /\ ExitRoe(p, k, "TRAILING_STOP") = Threshold(p, k)
      BY <1>5, <2>4 DEF ExitReason, ExitRoe
    <3> QED BY <1>1, <1>2, <1>3, <2>1, <3>1, <3>2 DEF ExitRoe
  <2>5. CASE ~Expired(p) /\ ~Profits(p, k) /\ ~Trails(p, k)
    BY <1>1, <1>2, <1>5, <2>1, <2>5 DEF ExitReason, ExitRoe
  <2> QED BY <2>2, <2>3, <2>4, <2>5
<1> QED BY <1>4, <1>5

\* What _close_position removes and what it keeps.
LEMMA StillOpenIs ==
  ASSUME NEW trades, Typed
  PROVE  /\ DOMAIN StillOpen(trades) = Held \ {t.asset : t \in trades}
         /\ \A c \in Held \ {t.asset : t \in trades} : StillOpen(trades)[c] = positions[c]
         /\ StillOpen(trades) = [c \in DOMAIN StillOpen(trades) |-> StillOpen(trades)[c]]
BY DEF StillOpen, Restrict

\* One trade for each position closed, made now, keeps the order of time.
LEMMA ClosingKeepsOrder ==
  ASSUME BacktestIInv, NEW trades,
         \A t \in trades : /\ t.asset \in Held /\ t.entered = positions[t.asset].entered /\ t.exited = bar
                          /\ \A u \in trades : t.asset = u.asset => t = u,
         closed' = closed \cup trades,
         DOMAIN positions' = Held \ {t.asset : t \in trades},
         \A c \in DOMAIN positions' : positions'[c].entered = positions[c].entered,
         bar' = bar
  PROVE  InTime' /\ OneAtATime'
<1>1. \A c \in Held : positions[c].entered \in Nat /\ positions[c].entered <= bar
  BY DEF BacktestIInv, Typed, InTime, Positions
<1>2. InTime'
  BY <1>1 DEF BacktestIInv, Typed, InTime, Held
<1>3. ASSUME NEW t \in closed', NEW u \in closed', t.asset = u.asset, t # u
      PROVE  t.exited <= u.entered \/ u.exited <= t.entered
  <2>1. CASE t \in closed /\ u \in closed
    BY <1>3, <2>1 DEF BacktestIInv, OneAtATime
  <2>2. CASE t \in closed /\ u \in trades
    BY <1>3, <2>2 DEF BacktestIInv, OneAtATime
  <2>3. CASE t \in trades /\ u \in closed
    BY <1>3, <2>3 DEF BacktestIInv, OneAtATime
  <2>4. CASE t \in trades /\ u \in trades
    BY <1>3, <2>4
  <2> QED BY <1>3, <2>1, <2>2, <2>3, <2>4
<1>4. ASSUME NEW t \in closed', t.asset \in DOMAIN positions'
      PROVE  t.exited <= positions'[t.asset].entered
  <2>1. CASE t \in closed
    BY <1>4, <2>1 DEF BacktestIInv, OneAtATime
  <2>2. CASE t \in trades
    BY <1>4, <2>2
  <2> QED BY <1>4, <2>1, <2>2
<1> QED BY <1>2, <1>3, <1>4 DEF OneAtATime, Held

LEMMA BacktestInitIInv == Init => BacktestIInv
BY BacktestAssumption DEF Init, BacktestIInv, Typed, AboveStop, InTime, FlatBelowHigh, StopBoundsLoss, OneAtATime, NoOverstay, BelowHighIsFlat, Held, Priced

LEMMA ReadBarKeeps == BacktestIInv /\ ReadBar => BacktestIInv'
<1> SUFFICES ASSUME BacktestIInv, ReadBar PROVE BacktestIInv'
  OBVIOUS
<1>1. prices' = [c \in DOMAIN prices' |-> prices'[c]] /\ \A c \in DOMAIN prices' : prices'[c] \in Candles
  BY DEF ReadBar, PricesAt
<1>2. bar' = bar + 1 /\ bar \in Nat /\ phase' \in {"regime", "exits"} /\ (phase' = "regime" <=> engine = "regime")
  BY DEF ReadBar, BacktestIInv, Typed
<1>3. Typed'
  BY <1>1, <1>2 DEF ReadBar, BacktestIInv, Typed, Priced, Held, book
<1>4. InTime'
  BY <1>2 DEF ReadBar, BacktestIInv, Typed, InTime, Held, book, Positions
<1>5. (AboveStop /\ NoOverstay /\ BelowHighIsFlat)'
  BY <1>2 DEF AboveStop, NoOverstay, BelowHighIsFlat
<1>6. (StopBoundsLoss /\ OneAtATime)'
  BY DEF ReadBar, BacktestIInv, StopBoundsLoss, OneAtATime, Held, book
<1>7. FlatBelowHigh'
  BY <1>2 DEF ReadBar, FlatBelowHigh
<1> QED BY <1>3, <1>4, <1>5, <1>6, <1>7 DEF BacktestIInv

LEMMA CheckRegimeExitKeeps == BacktestIInv /\ CheckRegimeExit => BacktestIInv'
<1> SUFFICES ASSUME BacktestIInv, CheckRegimeExit PROVE BacktestIInv'
  OBVIOUS
<1> DEFINE trade(c) == Trade(c, positions[c], "REGIME_EXIT", Roe(positions[c], prices[c].close), HourFunding(c))
           trades == {trade(c) : c \in RegimeCloses}
<1>1. /\ phase = "regime" /\ phase' = "exits" /\ regime' = Updated /\ bar' = bar /\ prices' = prices
      /\ engine' = engine /\ closed' = closed \cup trades /\ positions' = StillOpen(trades)
  BY DEF CheckRegimeExit, Close, market
<1>2. RegimeCloses \subseteq Held /\ {t.asset : t \in trades} = RegimeCloses
  <2>1. \A c : trade(c).asset = c
    BY DEF Trade
  <2> HIDE DEF trade
  <2> QED BY <2>1 DEF RegimeCloses
<1>3. DOMAIN positions' = Held \ RegimeCloses /\ (\A c \in DOMAIN positions' : positions'[c] = positions[c])
      /\ positions' = [c \in DOMAIN positions' |-> positions'[c]]
  BY <1>1, <1>2, StillOpenIs DEF BacktestIInv
<1>4. Updated \in {"HIGH_FUNDING", "BELOW_HIGH"}
  BY DEF Updated, BacktestIInv, Typed
<1>5. Typed'
  BY <1>1, <1>3, <1>4 DEF BacktestIInv, Typed, Held, Priced
<1>6. \A t \in trades : /\ t.asset \in Held /\ t.entered = positions[t.asset].entered /\ t.exited = bar
                        /\ \A u \in trades : t.asset = u.asset => t = u
  BY <1>2 DEF Trade
<1>7. (InTime /\ OneAtATime)'
  <2> HIDE DEF trades
  <2> QED BY <1>1, <1>2, <1>3, <1>6, ClosingKeepsOrder
<1>8. StopBoundsLoss'
  BY <1>1 DEF BacktestIInv, StopBoundsLoss, Trade
<1>9. FlatBelowHigh'
  BY <1>1, <1>3 DEF FlatBelowHigh, RegimeCloses, Held, Priced
<1>10. (AboveStop /\ NoOverstay /\ BelowHighIsFlat)'
  BY <1>1 DEF AboveStop, NoOverstay, BelowHighIsFlat
<1> QED BY <1>5, <1>7, <1>8, <1>9, <1>10 DEF BacktestIInv

LEMMA CheckExitsKeeps == BacktestIInv /\ CheckExits => BacktestIInv'
<1> SUFFICES ASSUME BacktestIInv, CheckExits PROVE BacktestIInv'
  OBVIOUS
<1> DEFINE trades == {ExitTrade(c) : c \in Exiting}
<1>1. /\ phase = "exits" /\ phase' = "entries" /\ regime' = regime /\ bar' = bar /\ prices' = prices
      /\ engine' = engine /\ closed' = closed \cup trades /\ positions' = WithPeaks(StillOpen(trades))
  BY DEF CheckExits, market
<1>2. Exiting \subseteq Held \cap Priced /\ {t.asset : t \in trades} = Exiting
  <2>1. \A c : ExitTrade(c).asset = c
    BY DEF ExitTrade, Trade
  <2> QED BY <2>1 DEF Exiting, Reason
<1>3. /\ DOMAIN positions' = Held \ Exiting
      /\ positions' = [c \in DOMAIN positions' |-> positions'[c]]
      /\ \A c \in Held \ Exiting :
           positions'[c] = IF c \in Priced THEN [positions[c] EXCEPT !.peak = Peak(positions[c], prices[c])]
                                          ELSE positions[c]
  BY <1>1, <1>2, StillOpenIs DEF BacktestIInv, WithPeaks
<1>4. \A c \in Held \cap Priced : positions[c] \in Positions /\ prices[c] \in Candles /\ bar \in Nat
                                 /\ Peak(positions[c], prices[c]) \in Int
  BY BacktestAssumption DEF BacktestIInv, Typed, Positions, Peak, BestRoe, Roe
<1>5. \A c \in DOMAIN positions' :
        /\ positions'[c] \in Positions /\ positions'[c].entered = positions[c].entered
        /\ \A price : Roe(positions'[c], price) = Roe(positions[c], price)
  BY <1>3, <1>4 DEF BacktestIInv, Typed, Positions, Roe
<1>6. Typed'
  BY <1>1, <1>3, <1>5 DEF BacktestIInv, Typed, Held, Priced
<1>7. \A t \in trades : /\ t.asset \in Held /\ t.entered = positions[t.asset].entered /\ t.exited = bar
                        /\ \A u \in trades : t.asset = u.asset => t = u
  BY <1>2 DEF ExitTrade, Trade
<1>8. (InTime /\ OneAtATime)'
  <2> HIDE DEF trades
  <2> QED BY <1>1, <1>2, <1>3, <1>5, <1>7, ClosingKeepsOrder
<1>9. StopBoundsLoss'
  <2>1. \A c \in Exiting : ExitTrade(c).gross >= StopLoss
    <3> TAKE c \in Exiting
    <3>1. Reason(c) = ExitReason(positions[c], prices[c]) /\ Reason(c) # "HOLD"
      BY <1>2 DEF Exiting, Reason
    <3>2. ExitRoe(positions[c], prices[c], Reason(c)) >= StopLoss
      BY <1>2, <1>4, <3>1, ExitAboveStop
    <3> QED BY <3>2 DEF ExitTrade, Trade
  <2> QED BY <1>1, <2>1 DEF BacktestIInv, StopBoundsLoss
<1>10. \A c \in (Held \cap Priced) \ Exiting :
         Roe(positions[c], prices[c].close) >= StopLoss /\ bar - positions[c].entered < TimeoutHours
  <2> TAKE c \in (Held \cap Priced) \ Exiting
  <2>1. ExitReason(positions[c], prices[c]) = "HOLD"
    BY DEF Exiting, Reason
  <2>2. Roe(positions[c], prices[c].close) >= StopLoss /\ ~Expired(positions[c])
    BY <1>4, <2>1, ExitAboveStop
  <2> QED BY <1>4, <2>2, BacktestAssumption DEF Expired, Positions
<1>11. (AboveStop /\ NoOverstay /\ BelowHighIsFlat)'
  BY <1>1, <1>3, <1>5, <1>10 DEF AboveStop, NoOverstay, BelowHighIsFlat, Held, Priced
<1>12. FlatBelowHigh'
  BY <1>1, <1>3 DEF BacktestIInv, FlatBelowHigh, Held, Priced
<1> QED BY <1>6, <1>8, <1>9, <1>11, <1>12 DEF BacktestIInv

LEMMA OpenPositionKeeps == BacktestIInv /\ OpenPosition => BacktestIInv'
<1> SUFFICES ASSUME BacktestIInv, NEW c \in Candidates, phase = "entries", phase' = "read",
                    positions' = [d \in Held \cup {c} |-> IF d = c THEN Opened(c) ELSE positions[d]],
                    UNCHANGED <<engine, bar, market, closed, regime>>
             PROVE  BacktestIInv'
  BY DEF OpenPosition
<1>1. c \in Priced /\ c \notin Held /\ bar \in Nat /\ prices[c] \in Candles
  BY DEF Candidates, BacktestIInv, Typed
<1>2. prices[c].close \in Int
  BY <1>1, BacktestAssumption
<1>3. /\ Opened(c) \in Positions /\ Opened(c).entered = bar
      /\ Roe(Opened(c), prices[c].close) = 0
  BY <1>1, <1>2 DEF Opened, Positions, Roe
<1>4. Typed'
  BY <1>3 DEF BacktestIInv, Typed, Held, Priced, market
<1>5. (InTime /\ OneAtATime)'
  BY <1>1, <1>3 DEF BacktestIInv, InTime, OneAtATime, Held
<1>6. AboveStop'
  BY <1>1, <1>3, BacktestAssumption DEF BacktestIInv, AboveStop, Held, Priced, market
<1>7. (StopBoundsLoss /\ FlatBelowHigh /\ NoOverstay)'
  BY DEF BacktestIInv, StopBoundsLoss, FlatBelowHigh, NoOverstay
<1>8. BelowHighIsFlat'
  BY <1>3 DEF BacktestIInv, FlatBelowHigh, BelowHighIsFlat, Held, Priced, market
<1> QED BY <1>4, <1>5, <1>6, <1>7, <1>8 DEF BacktestIInv

LEMMA NoEntryKeeps == BacktestIInv /\ NoEntry => BacktestIInv'
BY DEF NoEntry, BacktestIInv, Typed, AboveStop, InTime, FlatBelowHigh, StopBoundsLoss, OneAtATime, NoOverstay,
       BelowHighIsFlat, Held, Priced, market, book

LEMMA ForceCloseKeeps == BacktestIInv /\ ForceClose => BacktestIInv'
<1> SUFFICES ASSUME BacktestIInv, ForceClose PROVE BacktestIInv'
  OBVIOUS
<1> DEFINE trade(c) == Trade(c, positions[c], "END_OF_BACKTEST", Roe(positions[c], prices[c].close), 0)
           trades == {trade(c) : c \in Held \cap Priced}
<1>1. /\ phase = "read" /\ phase' = "done" /\ regime' = regime /\ bar' = bar /\ prices' = prices
      /\ engine' = engine /\ closed' = closed \cup trades /\ positions' = StillOpen(trades)
  BY DEF ForceClose, Close, market
<1>2. {t.asset : t \in trades} = Held \cap Priced
  <2>1. \A c : trade(c).asset = c
    BY DEF Trade
  <2> HIDE DEF trade
  <2> QED BY <2>1
<1>3. DOMAIN positions' = Held \ (Held \cap Priced) /\ (\A c \in DOMAIN positions' : positions'[c] = positions[c])
      /\ positions' = [c \in DOMAIN positions' |-> positions'[c]]
  BY <1>1, <1>2, StillOpenIs DEF BacktestIInv
<1>4. Typed'
  BY <1>1, <1>3 DEF BacktestIInv, Typed, Held, Priced
<1>5. \A t \in trades : /\ t.asset \in Held /\ t.entered = positions[t.asset].entered /\ t.exited = bar
                        /\ \A u \in trades : t.asset = u.asset => t = u
  BY DEF Trade
<1>6. (InTime /\ OneAtATime)'
  <2> HIDE DEF trades
  <2> QED BY <1>1, <1>2, <1>3, <1>5, ClosingKeepsOrder
<1>7. StopBoundsLoss'
  BY <1>1 DEF BacktestIInv, StopBoundsLoss, AboveStop, Trade
<1>8. (AboveStop /\ NoOverstay /\ BelowHighIsFlat /\ FlatBelowHigh)'
  BY <1>1 DEF AboveStop, NoOverstay, BelowHighIsFlat, FlatBelowHigh
<1> QED BY <1>4, <1>6, <1>7, <1>8 DEF BacktestIInv

LEMMA BacktestNextKeeps == BacktestIInv /\ [Next]_vars => BacktestIInv'
<1>1. BacktestIInv /\ UNCHANGED vars => BacktestIInv'
  BY DEF vars, BacktestIInv, Typed, AboveStop, InTime, FlatBelowHigh, StopBoundsLoss, OneAtATime, NoOverstay,
         BelowHighIsFlat, Held, Priced, market, book
<1> QED BY <1>1, ReadBarKeeps, CheckRegimeExitKeeps, CheckExitsKeeps, OpenPositionKeeps, NoEntryKeeps, ForceCloseKeeps
       DEF Next

LEMMA BacktestInductive == Spec => []BacktestIInv
BY BacktestInitIInv, BacktestNextKeeps, PTL DEF Spec

-----------------------------------------------------------------------------
(* A bar of one price.                                                     *)

\* What the rules of a bar look at was entered before it.
EnteredBefore == phase \in {"regime", "exits"} => \A c \in Held : positions[c].entered < bar

LEMMA EnteredBeforeKept == BacktestIInv /\ EnteredBefore /\ [Next]_vars => EnteredBefore'
<1> SUFFICES ASSUME BacktestIInv, EnteredBefore, [Next]_vars PROVE EnteredBefore'
  OBVIOUS
<1>1. CASE ReadBar
  <2>1. bar' = bar + 1 /\ bar \in Nat /\ positions' = positions
    BY <1>1 DEF ReadBar, book, BacktestIInv, Typed
  <2>2. \A c \in Held : positions[c].entered \in Nat /\ positions[c].entered <= bar
    BY DEF BacktestIInv, Typed, Positions, InTime
  <2> QED BY <2>1, <2>2 DEF EnteredBefore, Held
<1>2. CASE CheckRegimeExit
  <2> DEFINE trades == {Trade(c, positions[c], "REGIME_EXIT", Roe(positions[c], prices[c].close), HourFunding(c))
                        : c \in RegimeCloses}
  <2>1. phase = "regime" /\ bar' = bar /\ positions' = StillOpen(trades)
    BY <1>2 DEF CheckRegimeExit
  <2>2. /\ DOMAIN StillOpen(trades) \subseteq Held
        /\ \A c \in DOMAIN StillOpen(trades) : StillOpen(trades)[c] = positions[c]
    <3> HIDE DEF trades
    <3> QED BY StillOpenIs DEF BacktestIInv
  <2> QED BY <2>1, <2>2 DEF EnteredBefore, Held
<1>3. CASE CheckExits \/ OpenPosition \/ NoEntry \/ ForceClose
  BY <1>3 DEF CheckExits, OpenPosition, NoEntry, ForceClose, EnteredBefore
<1>4. CASE UNCHANGED vars BY <1>4 DEF vars, book, EnteredBefore, Held
<1> QED BY <1>1, <1>2, <1>3, <1>4 DEF Next

\* The rules of the backtester on a bar of one price are the triggers of the
\* live engine.
LEMMA OnePriceIsLive ==
  ASSUME NEW p \in Positions, NEW k \in Candles, k.low = k.high, bar \in Nat
  PROVE  LET roe == Roe(p, k.close)
         IN  ExitReason(p, k) = LiveTrigger(roe, IF roe > p.peak THEN roe ELSE p.peak, bar - p.entered)
<1>1. k.low = k.close /\ k.high = k.close
  BY BacktestAssumption
<1>2. BestRoe(p, k) = Roe(p, k.close) /\ WorstRoe(p, k) = Roe(p, k.close)
  BY <1>1 DEF BestRoe, WorstRoe
<1> QED BY <1>2 DEF ExitReason, LiveTrigger, Stopped, Expired, Profits, Trails, Threshold, Peak

-----------------------------------------------------------------------------
(* Backtest: the books balance.                                            *)

\* The funding of the hour read that the exits of the bar have yet to pay.
Unpaid ==
  IF phase \in {"regime", "exits"} THEN SumFunction([c \in Held \cap Priced |-> HourFunding(c)]) ELSE 0

\* What trades earn with their two costs, and with the funding they were paid.
Gain(trades) == SumFunction([t \in trades |-> t.gross - 2 * Cost])
Net(trades) == SumFunction([t \in trades |-> t.net])

\* What is paid for the hours that can be: an eighth of their rates.
Paid == (earned - missed) \div 8

Balanced == earned - missed = 8 * Paid /\ capital + Unpaid = Gain(closed) - opened * Cost + Paid

\* Only the last step closes by force.
NotEnded == phase # "done" => \A t \in closed : t.reason # "END_OF_BACKTEST"

BooksIInv == TypeOK /\ IsFiniteSet(closed) /\ NotEnded /\ Balanced

\* What one trade for each of some assets adds to capital.
LEMMA TradesPay ==
  ASSUME NEW S, IsFiniteSet(S), NEW tr, NEW fund,
         \A x, y \in S : tr[x] = tr[y] => x = y,
         \A x \in S : tr[x].gross \in Int /\ fund[x] \in Int /\ tr[x].net = tr[x].gross - 2 * Cost + fund[x],
         NEW T, T = {tr[x] : x \in S}
  PROVE  IsFiniteSet(T) /\ Gain(T) \in Int /\ Net(T) = Gain(T) + SumFunctionOnSet(fund, S)
<1> DEFINE net == [t \in T |-> t.net]
           gain == [t \in T |-> t.gross - 2 * Cost]
           gained == [x \in S |-> tr[x].gross - 2 * Cost]
           both == [x \in S |-> tr[x].net]
<1>1. Cost \in Int BY BacktestAssumption
<1>2. \A x \in S : tr[x] \in T /\ gain[tr[x]] = gained[x] /\ net[tr[x]] = both[x] OBVIOUS
<1>3. \A x \in S : gained[x] \in Int /\ fund[x] \in Int /\ both[x] = gained[x] + fund[x] BY <1>1
<1>4. DOMAIN net = T /\ DOMAIN gain = T OBVIOUS
<1>5. \A x \in S : both[x] \in Int BY <1>3
<1> HIDE DEF net, gain, gained, both
<1>6. IsFiniteSet(T) /\ SumFunctionOnSet(net, T) = SumFunctionOnSet(both, S) BY <1>2, <1>5, SumImage
<1>7. SumFunctionOnSet(gain, T) = SumFunctionOnSet(gained, S) BY <1>2, <1>3, SumImage
<1>8. SumFunctionOnSet(both, S) = SumFunctionOnSet(gained, S) + SumFunctionOnSet(fund, S) BY <1>3, SumBoth
<1>9. SumFunctionOnSet(gained, S) \in Int BY <1>3, SumInt
<1>10. IsFiniteSet(T) /\ SumFunction(gain) \in Int /\ SumFunction(net) = SumFunction(gain) + SumFunctionOnSet(fund, S)
  BY <1>4, <1>6, <1>7, <1>8, <1>9 DEF SumFunction
<1> QED BY <1>10 DEF net, gain, Net, Gain

\* What new trades add to the gains of all.
LEMMA GainsGrow ==
  ASSUME NEW S, IsFiniteSet(S), NEW T, IsFiniteSet(T), S \cap T = {}, \A t \in S \cup T : t.gross \in Int
  PROVE  /\ IsFiniteSet(S \cup T)
         /\ Gain(S) \in Int /\ Gain(S \cup T) = Gain(S) + Gain(T)
<1> DEFINE g(V) == [t \in V |-> t.gross - 2 * Cost]
           G == g(S \cup T)
           GS == g(S)
           GT == g(T)
<1>1. Cost \in Int BY BacktestAssumption
<1>2. \A t \in S \cup T : G[t] \in Int BY <1>1
<1>3. (\A t \in S : GS[t] \in Int /\ GS[t] = G[t]) /\ (\A t \in T : GT[t] \in Int /\ GT[t] = G[t]) BY <1>2
<1>4. DOMAIN G = S \cup T /\ DOMAIN GS = S /\ DOMAIN GT = T OBVIOUS
<1> HIDE DEF G, GS, GT
<1>5. SumFunctionOnSet(G, S \cup T) = SumFunctionOnSet(G, S) + SumFunctionOnSet(G, T) BY <1>2, SumUnion
<1>6. SumFunctionOnSet(GS, S) = SumFunctionOnSet(G, S) /\ SumFunctionOnSet(GS, S) \in Int BY <1>3, SumSame, SumInt
<1>7. SumFunctionOnSet(GT, T) = SumFunctionOnSet(G, T) BY <1>3, SumSame
<1>8. SumFunction(GS) \in Int /\ SumFunction(G) = SumFunction(GS) + SumFunction(GT)
  BY <1>4, <1>5, <1>6, <1>7 DEF SumFunction
<1> QED BY <1>8, FS_Union DEF G, GS, GT, Gain

\* Funding is an integer and an eighth of its rate, of a known rate and of none.
LEMMA FundingInt ==
  ASSUME NEW p, NEW r, r \in Partial(Rates) \/ r \in RatesAt, NEW c
  PROVE  /\ Funding(p, RateOf(r, c)) \in Int
         /\ Signed(p, RateOf(r, c)) = 8 * Funding(p, RateOf(r, c))
<1>1. \A d \in DOMAIN r : r[d] \in Rates BY DEF Partial, RatesAt
<1>2. RateOf(r, c) \in Int /\ RateOf(r, c) % 8 = 0
  <2>1. \A rate \in Rates : rate \in Int /\ rate % 8 = 0 BY BacktestAssumption
  <2> QED BY <1>1, <2>1 DEF RateOf
<1>3. \A n \in Int : n % 8 = 0 => n = 8 * (n \div 8) /\ -n = 8 * ((-n) \div 8) /\ n \div 8 \in Int /\ (-n) \div 8 \in Int
  OBVIOUS
<1>4. \A n \in Int : n * 1 = n OBVIOUS
<1> DEFINE n == RateOf(r, c)
<1>5. n \in Int /\ -n \in Int /\ n % 8 = 0 BY <1>2
<1> HIDE DEF n
<1>6. FundingEarned(n, 1) = n \div 8 /\ FundingEarned(-n, 1) = (-n) \div 8 BY <1>4, <1>5 DEF FundingEarned
<1>7. CASE p.direction = "short" BY <1>3, <1>5, <1>6, <1>7 DEF Funding, Signed, n
<1>8. CASE p.direction # "short" BY <1>3, <1>5, <1>6, <1>8 DEF Funding, Signed, n
<1> QED BY <1>7, <1>8

\* What the steps below compute with.
LEMMA BooksAreInt ==
  ASSUME BooksIInv
  PROVE  /\ capital \in Int /\ earned \in Int /\ missed \in Int /\ Paid \in Int
         /\ opened \in Nat /\ Cost \in Int /\ opened * Cost \in Int
         /\ Gain(closed) \in Int
         /\ IsFiniteSet(Held) /\ IsFiniteSet(Held \cap Priced)
         /\ \A c : HourFunding(c) \in Int
         /\ \A t \in closed : t.gross \in Int
<1>1. capital \in Int /\ earned \in Int /\ missed \in Int /\ opened \in Nat /\ Cost \in Int
  BY BacktestAssumption DEF BooksIInv, TypeOK
<1>0. Paid \in Int BY <1>1 DEF Paid
<1>2. opened * Cost \in Int BY <1>1
<1>3. \A t \in closed : t.gross \in Int BY DEF BooksIInv, TypeOK, Trades
<1>4. Gain(closed) \in Int
  <2> DEFINE g == [t \in closed |-> t.gross - 2 * Cost]
  <2>1. DOMAIN g = closed /\ \A t \in closed : g[t] \in Int BY <1>1, <1>3
  <2> HIDE DEF g
  <2>2. SumFunction(g) \in Int BY <2>1, SumInt DEF SumFunction, BooksIInv
  <2> QED BY <2>2 DEF g, Gain
<1>5. Held \subseteq Coins BY DEF BooksIInv, TypeOK
<1>6. IsFiniteSet(Held) /\ IsFiniteSet(Held \cap Priced) BY <1>5, BacktestAssumption, FS_Subset
<1>7. \A c : HourFunding(c) \in Int BY FundingInt DEF HourFunding, BooksIInv, TypeOK
<1> QED BY <1>0, <1>1, <1>2, <1>3, <1>4, <1>6, <1>7

\* New trades, F the funding they were paid.
LEMMA CloseBooks ==
  ASSUME BooksIInv, NEW T, IsFiniteSet(T), closed \cap T = {}, \A t \in T : t.gross \in Int,
         NEW F \in Int, Gain(T) \in Int, Net(T) = Gain(T) + F
  PROVE  /\ IsFiniteSet(closed \cup T) /\ Gain(closed \cup T) \in Int /\ Net(T) \in Int
         /\ Gain(closed \cup T) + F = Gain(closed) + Net(T)
<1>1. IsFiniteSet(closed) /\ \A t \in closed \cup T : t.gross \in Int BY BooksAreInt DEF BooksIInv
<1>2. IsFiniteSet(closed \cup T) /\ Gain(closed) \in Int /\ Gain(closed \cup T) = Gain(closed) + Gain(T)
  BY <1>1, GainsGrow
<1> QED BY <1>2

\* With n the net of the trades, f the funding in it, r what is still unpaid.
LEMMA BalanceKept ==
  ASSUME NEW k \in Int, NEW g \in Int, NEW paid \in Int, NEW e \in Int, NEW n \in Int, NEW f \in Int, NEW r \in Int,
         NEW u, u = f + r, k + u = g - paid + e, NEW h \in Int, h + f = g + n
  PROVE  (k + n) + r = h - paid + e
OBVIOUS

LEMMA BooksInit == Init => BooksIInv
<1> SUFFICES ASSUME Init PROVE BooksIInv OBVIOUS
<1>1. TypeOK
  <2>1. [c \in {} |-> 0] \in Partial(Candles) /\ [c \in {} |-> 0] \in Partial(Rates) BY DEF Partial
  <2>2. Held = {} /\ bar \in 0..Bars BY BacktestAssumption DEF Init, Held
  <2> QED BY <2>1, <2>2 DEF Init, TypeOK
<1>2. closed = {} /\ IsFiniteSet(closed) BY FS_EmptySet DEF Init
<1>3. Gain({}) = 0 BY SumEmpty DEF SumFunction, Gain
<1>4. Balanced
  <2>1. Paid = 0 /\ Unpaid = 0 /\ 0 * Cost = 0 BY BacktestAssumption DEF Init, Paid, Unpaid
  <2> QED BY <1>2, <1>3, <2>1 DEF Init, Balanced
<1> QED BY <1>1, <1>2, <1>4 DEF BooksIInv, NotEnded

\* With e and m the rates so far, a and b those of the hour.
LEMMA DueGrows ==
  ASSUME NEW e \in Int, NEW m \in Int, NEW p \in Int, NEW a \in Int, NEW b \in Int, NEW h \in Int,
         e - m = 8 * p, a - b = 8 * h
  PROVE  (e + a) - (m + b) = 8 * (p + h)
OBVIOUS

\* The rates of an hour, over what is held, are those of the hours that cannot be
\* paid and eight times what the others pay.
LEMMA RatesOfHour ==
  ASSUME BooksIInv, fundingRates' \in RatesAt
  PROVE  LET H == [c \in Held \cap DOMAIN prices' |-> Funding(positions[c], RateOf(fundingRates', c))]
         IN  /\ SumFunction(H) \in Int /\ Accruing(Held) \in Int /\ Accruing(Held \ DOMAIN prices') \in Int
             /\ Accruing(Held) - Accruing(Held \ DOMAIN prices') = 8 * SumFunction(H)
<1> DEFINE A == Held \cap DOMAIN prices'
           B == Held \ DOMAIN prices'
           H == [c \in A |-> Funding(positions[c], RateOf(fundingRates', c))]
           R(S) == [c \in S |-> Signed(positions[c], RateOf(fundingRates', c))]
           all == R(Held)
           part == R(B)
<1>1. IsFiniteSet(Held) /\ IsFiniteSet(A) /\ IsFiniteSet(B) BY BooksAreInt, FS_Subset
<1>2. \A c \in Held : /\ Funding(positions[c], RateOf(fundingRates', c)) \in Int
                       /\ Signed(positions[c], RateOf(fundingRates', c)) = 8 * Funding(positions[c], RateOf(fundingRates', c))
  BY FundingInt
<1>3. /\ Accruing(Held) = SumFunction(all) /\ Accruing(B) = SumFunction(part)
      /\ DOMAIN all = Held /\ DOMAIN part = B /\ DOMAIN H = A
  BY DEF Accruing
<1>4. A \cap B = {} /\ A \cup B = Held OBVIOUS
<1>5. /\ \A c \in Held : all[c] \in Int
      /\ \A c \in B : part[c] = all[c] /\ part[c] \in Int
      /\ \A c \in A : H[c] \in Int /\ all[c] = 8 * H[c]
  BY <1>2
<1> HIDE DEF A, B, H, R, all, part
<1>6. SumFunctionOnSet(all, A \cup B) = SumFunctionOnSet(all, A) + SumFunctionOnSet(all, B) BY <1>1, <1>4, <1>5, SumUnion
<1>7. SumFunctionOnSet(part, B) = SumFunctionOnSet(all, B) /\ SumFunctionOnSet(part, B) \in Int
  BY <1>1, <1>5, SumSame, SumInt
<1>8. SumFunctionOnSet(H, A) \in Int /\ SumFunctionOnSet(all, A) = 8 * SumFunctionOnSet(H, A)
  BY <1>1, <1>5, SumEightfold
<1>9. /\ Accruing(Held) = SumFunctionOnSet(all, A \cup B) /\ Accruing(B) = SumFunctionOnSet(part, B)
      /\ SumFunction(H) = SumFunctionOnSet(H, A)
  BY <1>3, <1>4 DEF SumFunction
<1>10. /\ SumFunction(H) \in Int /\ Accruing(Held) \in Int /\ Accruing(B) \in Int
       /\ Accruing(Held) = 8 * SumFunction(H) + Accruing(B)
  BY <1>6, <1>7, <1>8, <1>9
<1>11. Accruing(Held) - Accruing(B) = 8 * SumFunction(H) BY <1>10
<1> QED BY <1>10, <1>11 DEF A, B, H

LEMMA ReadBarBooks == BooksIInv /\ ReadBar => BooksIInv'
<1> SUFFICES ASSUME BooksIInv, ReadBar PROVE BooksIInv' OBVIOUS
<1>1. /\ phase = "read" /\ phase' \in {"regime", "exits"} /\ bar < Bars /\ bar' = bar + 1
      /\ prices' \in PricesAt /\ fundingRates' \in RatesAt
      /\ UNCHANGED <<engine, positions, closed, capital, regime, opened>>
  BY DEF ReadBar, book
<1> DEFINE H == [c \in Held \cap DOMAIN prices' |-> Funding(positions[c], RateOf(fundingRates', c))]
<1>2. /\ earned' = earned + Accruing(Held) /\ missed' = missed + Accruing(Held \ DOMAIN prices')
  BY DEF ReadBar
<1>3. Unpaid' = SumFunction(H) BY <1>1 DEF Unpaid, Held, Priced, HourFunding
<1>4. /\ SumFunction(H) \in Int /\ Accruing(Held) \in Int /\ Accruing(Held \ DOMAIN prices') \in Int
      /\ Accruing(Held) - Accruing(Held \ DOMAIN prices') = 8 * SumFunction(H)
  BY <1>1, RatesOfHour
<1> HIDE DEF H
<1>5. TypeOK'
  <2>1. prices' \in Partial(Candles) /\ fundingRates' \in Partial(Rates) BY <1>1 DEF PricesAt, RatesAt, Partial
  <2>2. bar' \in 0..Bars /\ \A n : n <= bar /\ n \in Nat => n <= bar'
    BY <1>1, BacktestAssumption DEF BooksIInv, TypeOK
  <2>3. earned' \in Int /\ missed' \in Int BY <1>2, <1>4, BooksAreInt
  <2>4. \A c \in Held : positions[c].entered \in Nat BY DEF BooksIInv, TypeOK, Positions
  <2> QED BY <1>1, <2>1, <2>2, <2>3, <2>4 DEF BooksIInv, TypeOK, Held
<1>6. Balanced'
  <2>1. Unpaid = 0 BY <1>1 DEF Unpaid
  <2>2. earned - missed = 8 * Paid /\ capital + Unpaid = Gain(closed) - opened * Cost + Paid
    BY DEF BooksIInv, Balanced
  <2>3. earned' - missed' = 8 * (Paid + SumFunction(H))
    <3>1. earned \in Int /\ missed \in Int /\ Paid \in Int BY BooksAreInt
    <3> QED BY <1>2, <1>4, <2>2, <3>1, DueGrows
  <2>4. Paid' = Paid + SumFunction(H)
    <3>1. Paid + SumFunction(H) \in Int BY <1>4, BooksAreInt
    <3>2. \A n \in Int : (8 * n) \div 8 = n OBVIOUS
    <3> QED BY <2>3, <3>1, <3>2 DEF Paid
  <2>5. PICK paid \in Int : paid = opened * Cost /\ paid = opened' * Cost BY <1>1, BooksAreInt
  <2>6. capital + Unpaid' = Gain(closed) - paid + Paid' BY <1>3, <1>4, <2>1, <2>2, <2>4, <2>5, BooksAreInt
  <2> QED BY <1>1, <2>3, <2>4, <2>5, <2>6 DEF Balanced
<1>7. NotEnded' BY <1>1 DEF BooksIInv, NotEnded
<1> QED BY <1>1, <1>5, <1>6, <1>7 DEF BooksIInv

\* The funding of the hour for what is held.
Hours == [c \in Held |-> HourFunding(c)]

LEMMA HoursOf ==
  ASSUME BooksIInv, NEW Q \in SUBSET Held
  PROVE  /\ SumFunction([c \in Q |-> HourFunding(c)]) = SumFunctionOnSet(Hours, Q)
         /\ SumFunctionOnSet(Hours, Q) \in Int
         /\ \A S \in SUBSET Q : SumFunctionOnSet(Hours, Q) = SumFunctionOnSet(Hours, S) + SumFunctionOnSet(Hours, Q \ S)
<1> DEFINE H == [c \in Q |-> HourFunding(c)]
<1>1. IsFiniteSet(Q) BY BooksAreInt, FS_Subset
<1>2. DOMAIN H = Q /\ \A c \in Q : H[c] = Hours[c] /\ H[c] \in Int /\ Hours[c] \in Int
  BY BooksAreInt DEF Hours
<1> HIDE DEF H
<1>3. SumFunction(H) = SumFunctionOnSet(Hours, Q) BY <1>1, <1>2, SumSame DEF SumFunction
<1>4. SumFunctionOnSet(Hours, Q) \in Int BY <1>1, <1>2, SumInt
<1>5. ASSUME NEW S \in SUBSET Q
      PROVE  SumFunctionOnSet(Hours, Q) = SumFunctionOnSet(Hours, S) + SumFunctionOnSet(Hours, Q \ S)
  <2> DEFINE R == Q \ S
  <2>1. IsFiniteSet(S) /\ IsFiniteSet(R) BY <1>1, FS_Subset
  <2>2. S \cap R = {} /\ S \cup R = Q /\ \A c \in S \cup R : Hours[c] \in Int BY <1>2
  <2> HIDE DEF R
  <2>3. SumFunctionOnSet(Hours, S \cup R) = SumFunctionOnSet(Hours, S) + SumFunctionOnSet(Hours, R)
    BY <2>1, <2>2, SumUnion
  <2> QED BY <2>2, <2>3 DEF R
<1> QED BY <1>3, <1>4, <1>5 DEF H

\* A trade of a position that is held is well typed, and none of those made before.
LEMMA TradeIsNew ==
  ASSUME BooksIInv, BacktestIInv, EnteredBefore, phase # "done", phase # "entries",
         NEW c \in Held, NEW reason \in Reasons, NEW gross \in Int, NEW funding \in Int,
         phase # "read" \/ reason = "END_OF_BACKTEST"
  PROVE  LET t == Trade(c, positions[c], reason, gross, funding)
         IN  /\ t \in Trades /\ t \notin closed
             /\ t.entered < t.exited \/ t.reason = "END_OF_BACKTEST"
             /\ t.asset = c /\ t.reason = reason /\ t.gross = gross /\ t.net = gross - 2 * Cost + funding
<1> DEFINE t == Trade(c, positions[c], reason, gross, funding)
<1>1. c \in Coins /\ positions[c].entered \in Nat /\ bar \in Nat /\ Cost \in Int
      /\ positions[c].entered <= bar
  BY BooksAreInt DEF BooksIInv, TypeOK, Positions, BacktestIInv, Typed
<1>2. t = [asset |-> c, entered |-> positions[c].entered, exited |-> bar, reason |-> reason, gross |-> gross,
           net |-> gross - 2 * Cost + funding]
  BY DEF Trade
<1>3. t \in Trades BY <1>1, <1>2 DEF Trades
<1>4. phase # "read" => positions[c].entered < bar
  BY DEF EnteredBefore, BacktestIInv, Typed
<1>5. t \notin closed
  <2> SUFFICES ASSUME t \in closed PROVE FALSE OBVIOUS
  <2>1. bar <= positions[c].entered BY <1>2 DEF BacktestIInv, OneAtATime
  <2>2. phase = "read" BY <1>1, <1>4, <2>1
  <2>3. t.reason = "END_OF_BACKTEST" BY <1>2, <2>2
  <2> QED BY <2>3 DEF BooksIInv, NotEnded
<1>6. t.entered < t.exited \/ t.reason = "END_OF_BACKTEST" BY <1>2, <1>4
<1> HIDE DEF t
<1>7. t.asset = c /\ t.reason = reason /\ t.gross = gross /\ t.net = gross - 2 * Cost + funding BY <1>2
<1> QED BY <1>3, <1>5, <1>6, <1>7 DEF t

\* What closing leaves well typed.
LEMMA ClosedTypes ==
  ASSUME TypeOK, BacktestIInv', phase' \in {"read", "regime", "exits", "entries", "done"},
         UNCHANGED <<engine, bar, prices, fundingRates, earned, missed, opened>>,
         Held' \subseteq Held, capital' \in Int, NEW T, closed' = closed \cup T,
         \A t \in T : t \in Trades /\ (t.entered < t.exited \/ t.reason = "END_OF_BACKTEST")
  PROVE  TypeOK'
<1>1. /\ \A c \in Held' : positions'[c] \in Positions /\ positions'[c].entered <= bar'
      /\ regime' \in {"HIGH_FUNDING", "BELOW_HIGH"}
  BY DEF BacktestIInv, Typed, InTime
<1> QED BY <1>1 DEF TypeOK

LEMMA CheckRegimeExitBooks == BooksIInv /\ BacktestIInv /\ EnteredBefore /\ CheckRegimeExit => BooksIInv'
<1> SUFFICES ASSUME BooksIInv, BacktestIInv, EnteredBefore, CheckRegimeExit PROVE BooksIInv' OBVIOUS
<1> DEFINE trade(c) == Trade(c, positions[c], "REGIME_EXIT", Roe(positions[c], prices[c].close), HourFunding(c))
           S == RegimeCloses
           tr == [c \in S |-> trade(c)]
           T == {tr[c] : c \in S}
           open == Held \cap Priced
<1>1. {trade(c) : c \in S} = T OBVIOUS
<1>2. /\ phase = "regime" /\ phase' = "exits" /\ UNCHANGED <<engine, bar, prices, fundingRates, earned, missed, opened>>
      /\ closed' = closed \cup T /\ positions' = StillOpen(T) /\ capital' = capital + Net(T)
  BY <1>1 DEF CheckRegimeExit, Close, market, history, Net
<1>3. S \subseteq open /\ S \in SUBSET Held BY DEF RegimeCloses
<1>4. \A c \in S : /\ tr[c] \in Trades /\ tr[c] \notin closed /\ tr[c].asset = c /\ tr[c].reason = "REGIME_EXIT"
                   /\ tr[c].entered < tr[c].exited \/ tr[c].reason = "END_OF_BACKTEST"
                   /\ tr[c].gross \in Int /\ Hours[c] \in Int
                   /\ tr[c].net = tr[c].gross - 2 * Cost + Hours[c]
  <2> TAKE c \in S
  <2>1. positions[c] \in Positions /\ prices[c] \in Candles BY <1>3 DEF BacktestIInv, Typed
  <2>2. Roe(positions[c], prices[c].close) \in Int BY <2>1, BacktestAssumption DEF Roe, Positions
  <2>3. Hours[c] = HourFunding(c) /\ HourFunding(c) \in Int BY <1>3, BooksAreInt DEF Hours
  <2>4. "REGIME_EXIT" \in Reasons BY DEF Reasons
  <2> QED BY <1>2, <1>3, <2>2, <2>3, <2>4, TradeIsNew
<1>5. {t.asset : t \in T} = S BY <1>4
<1> HIDE DEF T, tr
<1>6. /\ Held' = Held \ S
      /\ \A c \in Held' : positions'[c] = positions[c]
  BY <1>2, <1>5, StillOpenIs DEF BacktestIInv, Held
<1>7. /\ IsFiniteSet(closed') /\ SumFunctionOnSet(Hours, S) \in Int /\ Net(T) \in Int /\ Gain(closed') \in Int
      /\ Gain(closed') + SumFunctionOnSet(Hours, S) = Gain(closed) + Net(T)
  <2>1. T = {tr[c] : c \in S} BY DEF T
  <2>2. \A x, y \in S : tr[x] = tr[y] => x = y BY <1>4
  <2>3. \A x \in S : /\ tr[x].gross \in Int /\ Hours[x] \in Int
                     /\ tr[x].net = tr[x].gross - 2 * Cost + Hours[x] BY <1>4
  <2>4. IsFiniteSet(S) BY <1>3, BooksAreInt, FS_Subset
  <2>5. closed \cap T = {} /\ \A t \in T : t.gross \in Int BY <1>4 DEF T
  <2>6. closed' = closed \cup T BY <1>2
  <2> HIDE DEF S
  <2>7. IsFiniteSet(T) /\ Gain(T) \in Int /\ Net(T) = Gain(T) + SumFunctionOnSet(Hours, S)
    BY <2>1, <2>2, <2>3, <2>4, TradesPay
  <2>8. SumFunctionOnSet(Hours, S) \in Int BY <2>3, <2>4, SumInt
  <2> QED BY <2>5, <2>6, <2>7, <2>8, CloseBooks
<1>8. Unpaid = SumFunctionOnSet(Hours, S) + SumFunctionOnSet(Hours, open \ S)
  BY <1>2, <1>3, HoursOf DEF Unpaid
<1>9. Unpaid' = SumFunctionOnSet(Hours, open \ S)
  <2>1. Held' \cap Priced' = open \ S BY <1>2, <1>6 DEF Priced
  <2>2. \A c \in Held' : HourFunding(c)' = HourFunding(c) BY <1>2, <1>6 DEF HourFunding
  <2>3. Unpaid' = SumFunction([c \in open \ S |-> HourFunding(c)]) BY <1>2, <2>1, <2>2 DEF Unpaid
  <2> QED BY <2>3, HoursOf
<1>10. SumFunctionOnSet(Hours, open \ S) \in Int BY HoursOf
<1>11. Balanced'
  <2>0. earned' - missed' = 8 * Paid' BY <1>2 DEF BooksIInv, Balanced, Paid
  <2>1. PICK paid \in Int : paid = opened * Cost /\ paid = opened' * Cost BY <1>2, BooksAreInt
  <2>2. capital + Unpaid = Gain(closed) - paid + Paid BY <2>1 DEF BooksIInv, Balanced
  <2>3. capital' = capital + Net(T) /\ Paid' = Paid BY <1>2 DEF Paid
  <2>4. capital \in Int /\ Paid \in Int /\ Gain(closed) \in Int BY BooksAreInt
  <2>5. capital' + Unpaid' = Gain(closed') - paid + Paid'
    BY <1>7, <1>8, <1>9, <1>10, <2>1, <2>2, <2>3, <2>4, BalanceKept
  <2> QED BY <2>0, <2>1, <2>5 DEF Balanced
<1>12. TypeOK'
  <2>1. capital' \in Int BY <1>2, <1>7, BooksAreInt
  <2>2. \A t \in T : t \in Trades /\ (t.entered < t.exited \/ t.reason = "END_OF_BACKTEST") BY <1>4 DEF T
  <2> QED BY <1>2, <1>6, <2>1, <2>2, CheckRegimeExitKeeps, ClosedTypes DEF BooksIInv
<1>13. NotEnded' BY <1>2, <1>4 DEF BooksIInv, NotEnded, T
<1> QED BY <1>7, <1>11, <1>12, <1>13 DEF BooksIInv

LEMMA CheckExitsBooks == BooksIInv /\ BacktestIInv /\ EnteredBefore /\ CheckExits => BooksIInv'
<1> SUFFICES ASSUME BooksIInv, BacktestIInv, EnteredBefore, CheckExits PROVE BooksIInv' OBVIOUS
<1> DEFINE S == Exiting
           tr == [c \in S |-> ExitTrade(c)]
           T == {tr[c] : c \in S}
           open == Held \cap Priced
<1>1. {ExitTrade(c) : c \in S} = T OBVIOUS
<1>2. /\ phase = "exits" /\ phase' = "entries" /\ UNCHANGED <<engine, bar, prices, fundingRates, earned, missed, opened>>
      /\ closed' = closed \cup T /\ positions' = WithPeaks(StillOpen(T)) /\ capital' = (capital + Net(T)) + Accrued
  BY <1>1 DEF CheckExits, market, history, Net
<1>3. S \subseteq open /\ S \in SUBSET Held BY DEF Exiting, Reason
<1>4. \A c \in S : /\ tr[c] \in Trades /\ tr[c] \notin closed /\ tr[c].asset = c /\ tr[c].reason # "END_OF_BACKTEST"
                   /\ tr[c].entered < tr[c].exited \/ tr[c].reason = "END_OF_BACKTEST"
                   /\ tr[c].gross \in Int /\ Hours[c] \in Int
                   /\ tr[c].net = tr[c].gross - 2 * Cost + Hours[c]
  <2> TAKE c \in S
  <2> DEFINE p == positions[c]
             k == prices[c]
  <2>1. p \in Positions /\ k \in Candles /\ bar \in Nat BY <1>3 DEF BacktestIInv, Typed
  <2>2. Reason(c) \in Reasons /\ Reason(c) # "END_OF_BACKTEST" BY <1>3 DEF Reason, ExitReason, Exiting, Reasons
  <2>3. ExitRoe(p, k, Reason(c)) \in Int
    BY <2>1, BacktestAssumption DEF ExitRoe, Threshold, Peak, BestRoe, Roe, Positions
  <2>4. Hours[c] = HourFunding(c) /\ HourFunding(c) \in Int BY <1>3, BooksAreInt DEF Hours
  <2> QED BY <1>2, <1>3, <2>2, <2>3, <2>4, TradeIsNew DEF ExitTrade
<1>5. {t.asset : t \in T} = S BY <1>4
<1> HIDE DEF T, tr
<1>6. Held' \subseteq Held
  BY <1>2, StillOpenIs DEF BacktestIInv, Held, WithPeaks
<1>7. /\ IsFiniteSet(closed') /\ SumFunctionOnSet(Hours, S) \in Int /\ Net(T) \in Int /\ Gain(closed') \in Int
      /\ Gain(closed') + SumFunctionOnSet(Hours, S) = Gain(closed) + Net(T)
  <2>1. T = {tr[c] : c \in S} BY DEF T
  <2>2. \A x, y \in S : tr[x] = tr[y] => x = y BY <1>4
  <2>3. \A x \in S : /\ tr[x].gross \in Int /\ Hours[x] \in Int
                     /\ tr[x].net = tr[x].gross - 2 * Cost + Hours[x] BY <1>4
  <2>4. IsFiniteSet(S) BY <1>3, BooksAreInt, FS_Subset
  <2>5. closed \cap T = {} /\ \A t \in T : t.gross \in Int BY <1>4 DEF T
  <2>6. closed' = closed \cup T BY <1>2
  <2> HIDE DEF S
  <2>7. IsFiniteSet(T) /\ Gain(T) \in Int /\ Net(T) = Gain(T) + SumFunctionOnSet(Hours, S)
    BY <2>1, <2>2, <2>3, <2>4, TradesPay
  <2>8. SumFunctionOnSet(Hours, S) \in Int BY <2>3, <2>4, SumInt
  <2> QED BY <2>5, <2>6, <2>7, <2>8, CloseBooks
<1>8. Unpaid = SumFunctionOnSet(Hours, S) + SumFunctionOnSet(Hours, open \ S)
  BY <1>2, <1>3, HoursOf DEF Unpaid
<1>9. Unpaid' = 0 /\ Accrued = SumFunctionOnSet(Hours, open \ S)
  BY <1>2, HoursOf DEF Unpaid, Accrued
<1>10. SumFunctionOnSet(Hours, open \ S) \in Int BY HoursOf
<1>11. Balanced'
  <2>0. earned' - missed' = 8 * Paid' BY <1>2 DEF BooksIInv, Balanced, Paid
  <2>1. PICK paid \in Int : paid = opened * Cost /\ paid = opened' * Cost BY <1>2, BooksAreInt
  <2>2. capital + Unpaid = Gain(closed) - paid + Paid BY <2>1 DEF BooksIInv, Balanced
  <2>3. capital' = (capital + Net(T)) + SumFunctionOnSet(Hours, open \ S) /\ Paid' = Paid BY <1>2, <1>9 DEF Paid
  <2>4. capital \in Int /\ Paid \in Int /\ Gain(closed) \in Int BY BooksAreInt
  <2> DEFINE f == SumFunctionOnSet(Hours, S)
             r == SumFunctionOnSet(Hours, open \ S)
  <2>7. f \in Int /\ r \in Int /\ Unpaid = f + r /\ Gain(closed') + f = Gain(closed) + Net(T)
    BY <1>7, <1>8, <1>10
  <2>8. Net(T) \in Int /\ Gain(closed') \in Int /\ capital' = (capital + Net(T)) + r BY <1>7, <2>3
  <2> HIDE DEF f, r
  <2>5. capital' = Gain(closed') - paid + Paid'
    BY <2>1, <2>2, <2>3, <2>4, <2>7, <2>8, BalanceKept
  <2>6. capital' \in Int BY <2>4, <2>7, <2>8
  <2> QED BY <1>9, <2>0, <2>1, <2>5, <2>6 DEF Balanced
<1>12. TypeOK'
  <2>1. capital' \in Int BY <1>2, <1>7, <1>9, <1>10, BooksAreInt
  <2>2. \A t \in T : t \in Trades /\ (t.entered < t.exited \/ t.reason = "END_OF_BACKTEST") BY <1>4 DEF T
  <2> QED BY <1>2, <1>6, <2>1, <2>2, CheckExitsKeeps, ClosedTypes DEF BooksIInv
<1>13. NotEnded' BY <1>2, <1>4 DEF BooksIInv, NotEnded, T
<1> QED BY <1>7, <1>11, <1>12, <1>13 DEF BooksIInv

LEMMA OpenPositionBooks == BooksIInv /\ BacktestIInv /\ OpenPosition => BooksIInv'
<1> SUFFICES ASSUME BooksIInv, BacktestIInv, OpenPosition PROVE BooksIInv' OBVIOUS
<1>1. PICK c \in Candidates :
        /\ positions' = [d \in Held \cup {c} |-> IF d = c THEN Opened(c) ELSE positions[d]]
        /\ phase = "entries" /\ phase' = "read" /\ capital' = capital - Cost /\ opened' = opened + 1
        /\ UNCHANGED <<engine, bar, prices, fundingRates, closed, regime, earned, missed>>
  BY DEF OpenPosition, market
<1>2. Unpaid = 0 /\ Unpaid' = 0 BY <1>1 DEF Unpaid
<1>3. Balanced'
  <2>0. earned' - missed' = 8 * Paid' BY <1>1 DEF BooksIInv, Balanced, Paid
  <2>1. PICK paid \in Int : paid = opened * Cost BY BooksAreInt
  <2>2. (opened + 1) * Cost = paid + Cost BY <2>1, BooksAreInt
  <2>3. capital = Gain(closed) - paid + Paid BY <1>2, <2>1, BooksAreInt DEF BooksIInv, Balanced
  <2>4. capital - Cost = Gain(closed) - (paid + Cost) + Paid BY <2>3, BooksAreInt
  <2>5. capital - Cost \in Int BY BooksAreInt
  <2>6. capital' = Gain(closed') - opened' * Cost + Paid' BY <1>1, <2>2, <2>4 DEF Paid
  <2> QED BY <1>1, <1>2, <2>0, <2>5, <2>6 DEF Balanced
<1>4. TypeOK'
  <2>1. Held' \subseteq Coins
    <3>1. Rated \subseteq Coins BY DEF BooksIInv, TypeOK, Partial, Rated
    <3> QED BY <1>1, <3>1 DEF Candidates, Held, BooksIInv, TypeOK
  <2>2. \A d \in Held' : positions'[d] \in Positions /\ positions'[d].entered <= bar'
    BY OpenPositionKeeps DEF BacktestIInv, Typed, InTime
  <2>3. capital' \in Int /\ opened' \in Nat BY <1>1, BooksAreInt
  <2> QED BY <1>1, <2>1, <2>2, <2>3 DEF BooksIInv, TypeOK
<1>5. NotEnded' BY <1>1 DEF BooksIInv, NotEnded
<1> QED BY <1>1, <1>3, <1>4, <1>5 DEF BooksIInv

LEMMA NoEntryBooks == BooksIInv /\ NoEntry => BooksIInv'
<1> SUFFICES ASSUME BooksIInv, NoEntry PROVE BooksIInv' OBVIOUS
<1>1. /\ phase = "entries" /\ phase' = "read"
      /\ UNCHANGED <<engine, bar, prices, fundingRates, positions, closed, capital, regime, earned, missed, opened>>
  BY DEF NoEntry, market, book, history
<1>2. Unpaid = 0 /\ Unpaid' = 0 BY <1>1 DEF Unpaid
<1>3. TypeOK' BY <1>1 DEF BooksIInv, TypeOK, Held
<1> QED BY <1>1, <1>2, <1>3 DEF BooksIInv, Balanced, Paid, NotEnded

LEMMA ForceCloseBooks == BooksIInv /\ BacktestIInv /\ EnteredBefore /\ ForceClose => BooksIInv'
<1> SUFFICES ASSUME BooksIInv, BacktestIInv, EnteredBefore, ForceClose PROVE BooksIInv' OBVIOUS
<1> DEFINE trade(c) == Trade(c, positions[c], "END_OF_BACKTEST", Roe(positions[c], prices[c].close), 0)
           S == Held \cap Priced
           tr == [c \in S |-> trade(c)]
           T == {tr[c] : c \in S}
           none == [c \in S |-> 0]
<1>1. {trade(c) : c \in S} = T OBVIOUS
<1>2. /\ phase = "read" /\ phase' = "done" /\ UNCHANGED <<engine, bar, prices, fundingRates, earned, missed, opened>>
      /\ closed' = closed \cup T /\ positions' = StillOpen(T) /\ capital' = capital + Net(T)
  BY <1>1 DEF ForceClose, Close, market, history, Net
<1>3. \A c \in S : /\ tr[c] \in Trades /\ tr[c] \notin closed /\ tr[c].asset = c
                   /\ tr[c].entered < tr[c].exited \/ tr[c].reason = "END_OF_BACKTEST"
                   /\ tr[c].gross \in Int /\ none[c] \in Int
                   /\ tr[c].net = tr[c].gross - 2 * Cost + none[c]
  <2> TAKE c \in S
  <2>1. positions[c] \in Positions /\ prices[c] \in Candles BY DEF BacktestIInv, Typed
  <2>2. Roe(positions[c], prices[c].close) \in Int BY <2>1, BacktestAssumption DEF Roe, Positions
  <2>3. "END_OF_BACKTEST" \in Reasons BY DEF Reasons
  <2>4. tr[c] = trade(c) /\ none[c] = 0 /\ c \in Held OBVIOUS
  <2> HIDE DEF tr, none
  <2>5. /\ tr[c] \in Trades /\ tr[c] \notin closed /\ tr[c].asset = c
        /\ tr[c].entered < tr[c].exited \/ tr[c].reason = "END_OF_BACKTEST"
        /\ tr[c].gross = Roe(positions[c], prices[c].close)
        /\ tr[c].net = Roe(positions[c], prices[c].close) - 2 * Cost + 0
    BY <1>2, <2>2, <2>3, <2>4, TradeIsNew
  <2> QED BY <2>2, <2>4, <2>5
<1>4. \A c \in S : none[c] = 0 OBVIOUS
<1> HIDE DEF T, tr, none
<1>5. Held' \subseteq Held
  BY <1>2, StillOpenIs DEF BacktestIInv, Held
<1>6. SumFunctionOnSet(none, S) = 0
  <2>1. none \in [S -> {0}] BY <1>4 DEF none
  <2>2. SumFunctionOnSet(none, S) + SumFunctionOnSet(none, S) = SumFunctionOnSet(none, S)
    <3>1. IsFiniteSet(S) /\ \A c \in S : none[c] \in Int /\ none[c] = none[c] + none[c] BY <1>4, BooksAreInt
    <3> HIDE DEF S
    <3> QED BY <3>1, SumBoth
  <2>3. SumFunctionOnSet(none, S) \in Int BY <1>4, BooksAreInt, SumInt
  <2> DEFINE sum == SumFunctionOnSet(none, S)
  <2>4. sum \in Int /\ sum + sum = sum BY <2>2, <2>3
  <2> HIDE DEF sum
  <2>5. sum = 0 BY <2>4
  <2> QED BY <2>5 DEF sum
<1>7. /\ IsFiniteSet(closed') /\ Net(T) \in Int /\ Gain(closed') \in Int
      /\ Gain(closed') + 0 = Gain(closed) + Net(T)
  <2>1. T = {tr[c] : c \in S} BY DEF T
  <2>2. \A x, y \in S : tr[x] = tr[y] => x = y BY <1>3
  <2>3. \A x \in S : /\ tr[x].gross \in Int /\ none[x] \in Int
                     /\ tr[x].net = tr[x].gross - 2 * Cost + none[x] BY <1>3
  <2>4. IsFiniteSet(S) BY BooksAreInt
  <2>5. closed \cap T = {} /\ \A t \in T : t.gross \in Int BY <1>3 DEF T
  <2>6. closed' = closed \cup T BY <1>2
  <2> HIDE DEF S
  <2>7. IsFiniteSet(T) /\ Gain(T) \in Int /\ Net(T) = Gain(T) + SumFunctionOnSet(none, S)
    BY <2>1, <2>2, <2>3, <2>4, TradesPay
  <2>8. SumFunctionOnSet(none, S) \in Int BY <1>6
  <2>9. Gain(closed') + SumFunctionOnSet(none, S) = Gain(closed) + Net(T)
    BY <2>5, <2>6, <2>7, <2>8, CloseBooks
  <2>10. IsFiniteSet(closed') /\ Net(T) \in Int /\ Gain(closed') \in Int
    BY <2>5, <2>6, <2>7, <2>8, CloseBooks
  <2> QED BY <1>6, <2>9, <2>10
<1>8. Unpaid = 0 /\ Unpaid' = 0 BY <1>2 DEF Unpaid
<1>9. Balanced'
  <2>0. earned' - missed' = 8 * Paid' BY <1>2 DEF BooksIInv, Balanced, Paid
  <2>1. PICK paid \in Int : paid = opened * Cost /\ paid = opened' * Cost BY <1>2, BooksAreInt
  <2>2. capital + Unpaid = Gain(closed) - paid + Paid BY <2>1 DEF BooksIInv, Balanced
  <2>3. capital' = capital + Net(T) /\ Paid' = Paid BY <1>2 DEF Paid
  <2>4. capital \in Int /\ Paid \in Int /\ Gain(closed) \in Int BY BooksAreInt
  <2>5. capital' + Unpaid' = Gain(closed') - paid + Paid'
    BY <1>7, <1>8, <2>1, <2>2, <2>3, <2>4
  <2> QED BY <2>0, <2>1, <2>5 DEF Balanced
<1>10. TypeOK'
  <2>1. capital' \in Int BY <1>2, <1>7, BooksAreInt
  <2>2. \A t \in T : t \in Trades /\ (t.entered < t.exited \/ t.reason = "END_OF_BACKTEST") BY <1>3 DEF T
  <2> QED BY <1>2, <1>5, <2>1, <2>2, ForceCloseKeeps, ClosedTypes DEF BooksIInv
<1>11. NotEnded' BY <1>2 DEF NotEnded
<1> QED BY <1>7, <1>9, <1>10, <1>11 DEF BooksIInv

LEMMA BooksNextKeep == BooksIInv /\ BacktestIInv /\ EnteredBefore /\ [Next]_vars => BooksIInv'
<1>1. BooksIInv /\ UNCHANGED vars => BooksIInv'
  BY DEF vars, market, book, history, BooksIInv, TypeOK, Held, NotEnded, Balanced, Paid, Unpaid, Priced,
         HourFunding
<1> QED BY <1>1, ReadBarBooks, CheckRegimeExitBooks, CheckExitsBooks, OpenPositionBooks, NoEntryBooks, ForceCloseBooks
       DEF Next

LEMMA BooksInductive == Spec => []BooksIInv
<1>1. Init => EnteredBefore BY DEF Init, EnteredBefore
<1> QED BY <1>1, BooksInit, BooksNextKeep, EnteredBeforeKept, BacktestInductive, PTL DEF Spec

-----------------------------------------------------------------------------
\* For all levels and candles: a trade that a rule ends, however many rules its
\* bar triggers, loses at most the stop.
THEOREM StopBoundsLossAlways == Spec => []StopBoundsLoss
BY BacktestInductive, PTL DEF BacktestIInv

\* For any number of assets and bars: the trades of an asset never overlap.
THEOREM OneAtATimeAlways == Spec => []OneAtATime
BY BacktestInductive, PTL DEF BacktestIInv

\* Only a position without a candle outlives the timeout.
THEOREM NoOverstayAlways == Spec => []NoOverstay
BY BacktestInductive, PTL DEF BacktestIInv

\* For all thresholds: below HIGH_FUNDING only what the bar itself opened is held.
THEOREM BelowHighIsFlatAlways == Spec => []BelowHighIsFlat
BY BacktestInductive, PTL DEF BacktestIInv

\* For any market, costs and number of bars: whatever closes a position, every
\* entry is paid once, an hour in which a held asset has a candle pays an eighth
\* of its rate once, and an hour without a candle pays nothing.
THEOREM FundingOnceAlways == Spec => []FundingOnce
<1>1. BooksIInv => FundingOnce
  <2> SUFFICES ASSUME BooksIInv, phase \in {"entries", "read", "done"}
               PROVE  8 * (capital - Gain(closed) + opened * Cost) = earned - missed
    BY DEF FundingOnce, FundingPaid, Settled, Gain
  <2>1. Unpaid = 0 BY DEF Unpaid
  <2>2. PICK paid \in Int : paid = opened * Cost BY BooksAreInt
  <2>3. earned - missed = 8 * Paid /\ capital = Gain(closed) - paid + Paid
    BY <2>1, <2>2, BooksAreInt DEF BooksIInv, Balanced
  <2>4. capital - Gain(closed) + paid = Paid BY <2>2, <2>3, BooksAreInt
  <2> QED BY <2>2, <2>3, <2>4
<1> QED BY <1>1, BooksInductive, PTL

\* The backtester keeps its books well typed; every trade ends after it began,
\* but for one opened and closed by force at the last bar.
THEOREM BacktestTypes == Spec => []TypeOK
BY BooksInductive, PTL DEF BooksIInv

\* For all levels and candles: where a bar is a single price, both engines close
\* what the live engine would close there, for the same reason, and keep the
\* rest (engine.py: "Exit checks (matching live engine priority)").
THEOREM PointBarAsLiveAlways == Spec => PointBarAsLive
<1>1. BacktestIInv /\ EnteredBefore /\ [Next]_vars =>
        [phase = "exits" =>
           \A c \in Held \cap Priced :
             LET p == positions[c]  k == prices[c]  roe == Roe(p, k.close)
                 live == LiveTrigger(roe, IF roe > p.peak THEN roe ELSE p.peak, bar - p.entered)
             IN  k.low = k.high =>
                   IF live = "HOLD" THEN c \in DOMAIN positions'
                   ELSE \E t \in closed' \ closed : t.asset = c /\ t.reason = live]_vars
  <2> DEFINE Live(c) == LiveTrigger(Roe(positions[c], prices[c].close),
                                    IF Roe(positions[c], prices[c].close) > positions[c].peak
                                    THEN Roe(positions[c], prices[c].close) ELSE positions[c].peak,
                                    bar - positions[c].entered)
  <2> SUFFICES ASSUME BacktestIInv, EnteredBefore, Next, phase = "exits",
                      NEW c \in Held \cap Priced, prices[c].low = prices[c].high
               PROVE  IF Live(c) = "HOLD" THEN c \in DOMAIN positions'
                      ELSE \E t \in closed' \ closed : t.asset = c /\ t.reason = Live(c)
    BY Zenon
  <2>1. Reason(c) = Live(c)
    <3>1. positions[c] \in Positions /\ prices[c] \in Candles /\ bar \in Nat
      BY DEF BacktestIInv, Typed
    <3> QED BY <3>1, OnePriceIsLive DEF Reason
  <2> HIDE DEF Live
  <2> DEFINE trades == {ExitTrade(d) : d \in Exiting}
  <2>2. CheckExits
    BY DEF Next, ReadBar, CheckRegimeExit, OpenPosition, NoEntry, ForceClose
  <2>3. closed' = closed \cup trades /\ positions' = WithPeaks(StillOpen(trades))
    BY <2>2 DEF CheckExits
  <2>4. {t.asset : t \in trades} = Exiting
    <3>1. \A d : ExitTrade(d).asset = d BY DEF ExitTrade, Trade
    <3> QED BY <3>1
  <2>5. CASE Reason(c) = "HOLD"
    <3>1. c \in DOMAIN StillOpen(trades) BY <2>4, <2>5, StillOpenIs DEF BacktestIInv, Exiting
    <3> QED BY <2>1, <2>3, <2>5, <3>1 DEF WithPeaks
  <2>6. CASE Reason(c) # "HOLD"
    <3>1. ExitTrade(c) \in trades /\ ExitTrade(c).asset = c /\ ExitTrade(c).reason = Reason(c)
          /\ ExitTrade(c).exited = bar
      BY <2>6 DEF Exiting, ExitTrade, Trade
    <3>2. positions[c].entered < bar /\ positions[c].entered \in Nat /\ bar \in Nat
      BY DEF EnteredBefore, BacktestIInv, Typed, Positions
    <3>3. ExitTrade(c) \notin closed
      BY <3>1, <3>2 DEF BacktestIInv, OneAtATime
    <3> QED BY <2>1, <2>3, <2>6, <3>1, <3>3
  <2> QED BY <2>5, <2>6
<1>2. Init => EnteredBefore BY DEF Init, EnteredBefore
<1> QED BY <1>1, <1>2, EnteredBeforeKept, BacktestInductive, PTL DEF Spec, PointBarAsLive
=============================================================================
