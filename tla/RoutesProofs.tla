----------------------------- MODULE RoutesProofs -----------------------------
(***************************************************************************)
(* Proofs about Routes for every finite set of nodes, all costs and all    *)
(* interfaces: the types; a run of the SPF finds the shortest paths; the   *)
(* kernel follows the RIB although it refused requests and interfaces      *)
(* failed; and no route is left behind at the end.                         *)
(***************************************************************************)
EXTENDS Routes, NumberFacts, FiniteSetTheorems, SequenceTheorems, TLAPS

-----------------------------------------------------------------------------
(* The SPF run                                                             *)

N == Cardinality(Nodes)

EdgeCosts == {NoEdge, 0, LINK_COST_BROKEN} \cup Costs
EdgeMaps == [Pairs -> EdgeCosts]

SpfStates ==
    [cost : [Nodes -> Nat], cand : SUBSET Nodes, since : [Nodes -> Nat],
     hop : [Nodes -> Wires \cup {None}], hops : [Nodes -> Nat]]

\* There are finitely many nodes.
LEMMA NodeCount == N \in Nat
BY RoutesAssumption, FS_CardinalityType DEF N

\* Edge costs are integers; only a missing edge has a negative one.
LEMMA EdgeCostsInt == \A c \in EdgeCosts : c \in Int /\ (c # NoEdge => c \in Nat)
BY RoutesAssumption DEF EdgeCosts, NoEdge

\* The components of the run's state, node by node.
LEMMA SpfTypes ==
    ASSUME NEW s \in SpfStates
    PROVE  /\ s.cand \subseteq Nodes
           /\ \A n \in Nodes : /\ s.cost[n] \in Nat /\ s.since[n] \in Nat /\ s.hops[n] \in Nat
                               /\ s.hop[n] \in Wires \cup {None}
BY DEF SpfStates

\* The candidate that is extracted is one, and none is ahead of it.
LEMMA BestExtracted ==
    ASSUME NEW s \in SpfStates, s.cand # {}
    PROVE  /\ olsr_spf_extract_best(s) \in s.cand
           /\ \A m \in s.cand \ {olsr_spf_extract_best(s)} : Ahead(s, olsr_spf_extract_best(s), m)
<1>1. s.cand \in SUBSET Nat /\ s.cand \subseteq Nodes
  BY RoutesAssumption DEF SpfStates
<1> DEFINE f == [n \in s.cand |-> s.cost[n]]
           g == [n \in s.cand |-> s.since[n]]
<1>2. f \in [s.cand -> Nat] /\ g \in [s.cand -> Nat]
  BY <1>1 DEF SpfStates
<1>3. \A n \in s.cand : f[n] = s.cost[n] /\ g[n] = s.since[n]
  OBVIOUS
<1> HIDE DEF f, g
<1>4. PICK n \in s.cand : \A m \in s.cand \ {n} :
              \/ f[n] < f[m]
              \/ f[n] = f[m] /\ (g[n] < g[m] \/ (g[n] = g[m] /\ n < m))
  BY <1>1, <1>2, FirstOf
<1>5. \A m \in s.cand \ {n} : Ahead(s, n, m)
  BY <1>3, <1>4 DEF Ahead
<1> QED BY <1>5 DEF olsr_spf_extract_best

\* A pass keeps the type of the run's state.
LEMMA PassType ==
    ASSUME NEW s \in SpfStates, NEW e \in EdgeMaps, NEW k \in Nat
    PROVE  SpfPass(e, s, k) \in SpfStates
<1>1. CASE s.cand = {}
  BY <1>1 DEF SpfPass
<1>2. CASE s.cand # {}
  <2> DEFINE a == olsr_spf_extract_best(s)
             r == olsr_spf_relax(e, s, a, k)
             better == Better(e, s, a)
  <2>1. a \in Nodes
    BY <1>2, BestExtracted DEF SpfStates
  <2> HIDE DEF a
  <2>2. better \subseteq Nodes /\ \A n \in better : e[<<a, n>>] \in Nat
    BY <2>1, EdgeCostsInt DEF Better, Usable, EdgeMaps, Pairs
  <2>3. SpfPass(e, s, k) = [r EXCEPT !.cand = r.cand \ {a}]
    BY <1>2 DEF SpfPass, a
  <2>4. r.cost \in [Nodes -> Nat] /\ r.since \in [Nodes -> Nat] /\ r.hops \in [Nodes -> Nat]
    <3> HIDE DEF better
    <3>1. s.cost \in [Nodes -> Nat] /\ s.since \in [Nodes -> Nat] /\ s.hops \in [Nodes -> Nat]
      BY DEF SpfStates
    <3>2. /\ r.cost = [n \in Nodes |-> IF n \in better THEN s.cost[a] + e[<<a, n>>] ELSE s.cost[n]]
          /\ r.since = [n \in Nodes |-> IF n \in better THEN k ELSE s.since[n]]
          /\ r.hops = [n \in Nodes |-> IF n \in better THEN s.hops[a] + 1 ELSE s.hops[n]]
      BY DEF olsr_spf_relax, better
    <3> HIDE DEF r
    <3> QED BY <2>1, <2>2, <3>1, <3>2
  <2>5. r.cand \in SUBSET Nodes /\ r.hop \in [Nodes -> Wires \cup {None}]
    BY <2>1, <2>2 DEF olsr_spf_relax, SpfStates
  <2>6. r = [cost |-> r.cost, cand |-> r.cand, since |-> r.since, hop |-> r.hop, hops |-> r.hops]
    BY DEF olsr_spf_relax
  <2> HIDE DEF r
  <2> QED BY <2>3, <2>4, <2>5, <2>6 DEF SpfStates
<1> QED BY <1>1, <1>2

\* The states of a run, pass by pass.
Passes(f, e) ==
    /\ f \in [0..N -> SpfStates]
    /\ f[0] = SpfStart(e)
    /\ \A k \in 1..N : f[k] = SpfPass(e, f[k - 1], k)

\* A run is what its passes make of the start.
LEMMA RunDefined ==
    ASSUME NEW e \in EdgeMaps, SpfStart(e) \in SpfStates
    PROVE  \E f : Passes(f, e) /\ olsr_spf_run_full(e) = f[N]
<1> DEFINE step == [x \in (1..N) \X SpfStates |-> SpfPass(e, x[2], x[1])]
           Q(g) == g = [k \in 0..N |-> IF k = 0 THEN SpfStart(e) ELSE SpfPass(e, g[k - 1], k)]
<1>1. N \in Nat
  BY NodeCount
<1>2. step \in [(1..N) \X SpfStates -> SpfStates]
  BY <1>1, PassType
<1>3. PICK f \in [0..N -> SpfStates] : Recursion(f, N, SpfStart(e), step)
  <2> HIDE DEF step
  <2> QED BY <1>1, <1>2, RecursionExists
<1>4. ASSUME NEW k \in 1..N, NEW g \in [0..N -> SpfStates]
      PROVE  step[<<k, g[k - 1]>>] = SpfPass(e, g[k - 1], k)
  BY <1>1
<1>5. \A k \in 1..N : f[k] = SpfPass(e, f[k - 1], k)
  BY <1>3, <1>4 DEF Recursion
<1>6. f[0] = SpfStart(e)
  BY <1>3 DEF Recursion
<1>7. Q(f)
  BY <1>1, <1>5, <1>6
<1>8. Q(CHOOSE g : Q(g))
  BY <1>7
<1> DEFINE h == CHOOSE g : Q(g)
<1>9. olsr_spf_run_full(e) = h[N]
  BY DEF olsr_spf_run_full, N
<1>10. Q(h)
  BY <1>8
<1> HIDE DEF h
<1>11. DOMAIN h = 0..N /\ h[0] = SpfStart(e) /\ \A k \in 1..N : h[k] = SpfPass(e, h[k - 1], k)
  BY <1>1, <1>10
<1>12. \A k \in 0..N : h[k] = f[k]
  <2> DEFINE S == {k \in 0..N : h[k] = f[k]}
  <2>1. 0 \in S
    BY <1>1, <1>6, <1>11
  <2>2. \A k \in 1..N : k - 1 \in S => k \in S
    BY <1>1, <1>5, <1>11
  <2> HIDE DEF S
  <2>3. 0..N \subseteq S
    BY <1>1, <2>1, <2>2, IntervalInduction
  <2> QED BY <2>3 DEF S
<1> QED BY <1>1, <1>3, <1>5, <1>6, <1>9, <1>12 DEF Passes

\* A pass that takes a out of the candidates, node by node.
Relaxed(e, s, t, a, k) ==
    LET better == Better(e, s, a)
    IN  /\ a \in s.cand /\ a \in Nodes /\ a \notin better
        /\ \A m \in s.cand \ {a} : Ahead(s, a, m)
        /\ t.cand = (s.cand \cup better) \ {a}
        /\ \A n \in better :
              /\ n \in Nodes /\ e[<<a, n>>] \in Nat
              /\ t.cost[n] = s.cost[a] + e[<<a, n>>] /\ t.cost[n] < s.cost[n]
              /\ t.since[n] = k
              /\ t.hop[n] = (IF s.hop[a] # None THEN s.hop[a] ELSE s.hop[n])
              /\ t.hops[n] = s.hops[a] + 1
        /\ \A n \in Nodes \ better :
              /\ t.cost[n] = s.cost[n] /\ t.since[n] = s.since[n]
              /\ t.hop[n] = s.hop[n] /\ t.hops[n] = s.hops[n]

\* Every pass with a candidate is such a pass.
LEMMA PassRelaxes ==
    ASSUME NEW s \in SpfStates, NEW e \in EdgeMaps, NEW k \in Nat, s.cand # {}
    PROVE  \E a \in Nodes : Relaxed(e, s, SpfPass(e, s, k), a, k)
<1> DEFINE a == olsr_spf_extract_best(s)
           r == olsr_spf_relax(e, s, a, k)
           t == SpfPass(e, s, k)
           better == Better(e, s, a)
<1>1. a \in s.cand /\ (\A m \in s.cand \ {a} : Ahead(s, a, m)) /\ a \in Nodes
  BY BestExtracted DEF SpfStates
<1>2. t = [r EXCEPT !.cand = r.cand \ {a}]
  BY DEF SpfPass
<1> HIDE DEF a
<1>3. better \subseteq Nodes /\ \A n \in better : e[<<a, n>>] \in Nat /\ s.cost[a] + e[<<a, n>>] < s.cost[n]
  BY <1>1, EdgeCostsInt DEF Better, Usable, EdgeMaps, Pairs
<1>4. a \notin better
  <2>1. s.cost[a] \in Nat
    BY <1>1, SpfTypes
  <2>2. a \in better => e[<<a, a>>] \in Nat /\ s.cost[a] + e[<<a, a>>] < s.cost[a]
    BY <1>3
  <2> HIDE DEF better
  <2> QED BY <2>1, <2>2
<1>5. /\ t.cost = [n \in Nodes |-> IF n \in better THEN s.cost[a] + e[<<a, n>>] ELSE s.cost[n]]
      /\ t.since = [n \in Nodes |-> IF n \in better THEN k ELSE s.since[n]]
      /\ t.hop = [n \in Nodes |-> IF n \in better /\ s.hop[a] # None THEN s.hop[a] ELSE s.hop[n]]
      /\ t.hops = [n \in Nodes |-> IF n \in better THEN s.hops[a] + 1 ELSE s.hops[n]]
      /\ t.cand = (s.cand \cup better) \ {a}
  <2> HIDE DEF t
  <2> QED BY <1>2 DEF olsr_spf_relax
<1> HIDE DEF t
<1>6. Relaxed(e, s, t, a, k)
  <2> HIDE DEF better
  <2>1. \A n \in better :
              /\ n \in Nodes /\ e[<<a, n>>] \in Nat
              /\ t.cost[n] = s.cost[a] + e[<<a, n>>] /\ t.cost[n] < s.cost[n]
              /\ t.since[n] = k
              /\ t.hop[n] = (IF s.hop[a] # None THEN s.hop[a] ELSE s.hop[n])
              /\ t.hops[n] = s.hops[a] + 1
    BY <1>3, <1>5
  <2>2. \A n \in Nodes \ better :
              /\ t.cost[n] = s.cost[n] /\ t.since[n] = s.since[n]
              /\ t.hop[n] = s.hop[n] /\ t.hops[n] = s.hops[n]
    BY <1>5
  <2> QED BY <1>1, <1>4, <1>5, <2>1, <2>2 DEF Relaxed, better
<1> QED BY <1>1, <1>6 DEF t

Reached(s) == {n \in Nodes : s.cost[n] < ROUTE_COST_BROKEN}
Done(s) == Reached(s) \ s.cand

\* What is true after every pass of any run: we are at cost and hop count zero without a next
\* hop, a node that was reached is at least a hop away, and at most one hop per pass.
Bounded(s, k) ==
    /\ s.cand \subseteq Reached(s)
    /\ s.cost[myself] = 0 /\ s.hop[myself] = None
    /\ \A n \in Nodes : s.cost[n] <= ROUTE_COST_BROKEN /\ s.hops[n] <= k
    /\ \A n \in Reached(s) : n # myself => s.hops[n] >= 1

\* A pass keeps the bounds.
LEMMA BoundedStep ==
    ASSUME NEW s \in SpfStates, NEW e \in EdgeMaps, NEW k \in Nat \ {0}, Bounded(s, k - 1)
    PROVE  Bounded(SpfPass(e, s, k), k)
<1>1. CASE s.cand = {}
  BY <1>1 DEF SpfPass, Bounded, SpfStates
<1>2. CASE s.cand # {}
  <2> DEFINE t == SpfPass(e, s, k)
  <2>1. PICK a \in Nodes : Relaxed(e, s, t, a, k)
    BY <1>2, PassRelaxes
  <2>2. t \in SpfStates
    BY PassType
  <2> HIDE DEF t
  <2> DEFINE better == Better(e, s, a)
  <2>3. myself \in Nodes /\ ROUTE_COST_BROKEN \in Nat
    BY RoutesAssumption
  <2>0. \A n \in Nodes : /\ s.cost[n] \in Nat /\ s.hops[n] \in Nat
                         /\ t.cost[n] \in Nat /\ t.hops[n] \in Nat
    BY <2>2, SpfTypes
  <2>11. /\ better \subseteq Nodes
         /\ \A n \in better : t.cost[n] < s.cost[n] /\ t.hops[n] = s.hops[a] + 1
    BY <2>1 DEF Relaxed
  <2>12. \A n \in Nodes \ better : t.cost[n] = s.cost[n] /\ t.hops[n] = s.hops[n]
    BY <2>1 DEF Relaxed
  <2>13. \A n \in Nodes : s.cost[n] <= ROUTE_COST_BROKEN /\ s.hops[n] <= k - 1
    BY DEF Bounded
  <2> HIDE DEF better
  <2>4. myself \notin better
    <3>1. s.cost[myself] = 0
      BY DEF Bounded
    <3>2. t.cost[myself] \in Nat
      BY <2>0, <2>3
    <3>3. myself \in better => t.cost[myself] < 0
      BY <2>11, <3>1
    <3> QED BY <3>2, <3>3
  <2>5. t.cost[myself] = 0 /\ t.hop[myself] = None
    BY <2>1, <2>3, <2>4 DEF Relaxed, Bounded, better
  <2>6. \A n \in Nodes : t.cost[n] <= s.cost[n] /\ t.cost[n] <= ROUTE_COST_BROKEN /\ t.hops[n] <= k
    <3> SUFFICES ASSUME NEW n \in Nodes
                 PROVE  t.cost[n] <= s.cost[n] /\ t.cost[n] <= ROUTE_COST_BROKEN /\ t.hops[n] <= k
      OBVIOUS
    <3>1. s.hops[a] <= k - 1 /\ s.hops[n] <= k - 1 /\ s.cost[n] <= ROUTE_COST_BROKEN
      BY <2>13
    <3>2. CASE n \in better
      <4>1. t.cost[n] < s.cost[n] /\ t.hops[n] = s.hops[a] + 1
        BY <2>11, <3>2
      <4> QED BY <2>0, <2>3, <3>1, <4>1
    <3>3. CASE n \notin better
      BY <2>0, <2>12, <3>1, <3>3
    <3> QED BY <3>2, <3>3
  <2>7. \A n \in better : n \in Reached(t) /\ t.hops[n] >= 1
    <3> SUFFICES ASSUME NEW n \in better PROVE n \in Reached(t) /\ t.hops[n] >= 1
      OBVIOUS
    <3>1. n \in Nodes /\ t.cost[n] < s.cost[n] /\ t.hops[n] = s.hops[a] + 1
      BY <2>11
    <3>2. s.cost[n] <= ROUTE_COST_BROKEN
      BY <2>13, <3>1
    <3> QED BY <2>0, <2>3, <3>1, <3>2 DEF Reached
  <2>8. \A n \in Nodes \ better : n \in Reached(t) => n \in Reached(s) /\ t.hops[n] = s.hops[n]
    BY <2>12 DEF Reached
  <2>9. \A n \in Reached(t) : n # myself => t.hops[n] >= 1
    BY <2>7, <2>8 DEF Bounded, Reached
  <2>10. t.cand \subseteq Reached(t)
    <3>1. t.cand \subseteq s.cand \cup better
      BY <2>1 DEF Relaxed, better
    <3>2. s.cand \subseteq Reached(t)
      BY <2>2, <2>3, <2>6 DEF Bounded, Reached, SpfStates
    <3> QED BY <2>7, <3>1, <3>2
  <2> QED BY <2>5, <2>6, <2>9, <2>10 DEF Bounded, t
<1> QED BY <1>1, <1>2

\* Dijkstra's invariant: no candidate is nearer than a node that is done, no edge of a done node
\* improves anything, and every pass with a candidate gets one node done.
Settling(e, s, k) ==
    /\ \A v \in Done(s), c \in s.cand : s.cost[v] <= s.cost[c]
    /\ \A v \in Done(s), b \in Nodes : Usable(e, v, b) => s.cost[b] <= s.cost[v] + e[<<v, b>>]
    /\ s.cand # {} => Cardinality(Done(s)) = k

\* What a pass does to the nodes that are done.
LEMMA DoneGrows ==
    ASSUME NEW s \in SpfStates, NEW e \in EdgeMaps, NEW k \in Nat \ {0},
           NEW t \in SpfStates, NEW a \in Nodes, Relaxed(e, s, t, a, k),
           Bounded(s, k - 1), Settling(e, s, k - 1)
    PROVE  /\ Done(t) = Done(s) \cup {a}
           /\ a \notin Done(s)
           /\ \A v \in Done(t) : v \notin Better(e, s, a)
           /\ \A v \in Done(s) : s.cost[v] <= s.cost[a]
           /\ \A n \in Reached(s) : n \in Reached(t)
           /\ \A c \in t.cand : s.cost[a] <= t.cost[c]
<1> DEFINE better == Better(e, s, a)
<1>0. ROUTE_COST_BROKEN \in Nat
  BY RoutesAssumption
<1>1. a \in s.cand /\ a \notin better /\ a \in Reached(s) /\ better \subseteq Nodes /\ s.cand \subseteq Nodes
  BY DEF Relaxed, Bounded, Better, SpfStates
<1>2. \A v \in Done(s) : s.cost[v] <= s.cost[a]
  BY <1>1 DEF Settling
<1>3. \A v \in Done(s) : v \notin better
  <2> SUFFICES ASSUME NEW v \in Done(s), v \in better PROVE FALSE
    OBVIOUS
  <2>1. s.cost[v] <= s.cost[a] /\ v \in Nodes
    BY <1>2 DEF Done, Reached
  <2>2. e[<<a, v>>] \in Nat /\ s.cost[a] + e[<<a, v>>] < s.cost[v]
    BY DEF Relaxed
  <2>3. s.cost[a] \in Nat /\ s.cost[v] \in Nat
    BY <2>1 DEF SpfStates
  <2> QED BY <2>1, <2>2, <2>3
<1>4. \A n \in Nodes : t.cost[n] <= s.cost[n] /\ t.cost[n] \in Nat /\ s.cost[n] \in Nat
  <2>1. \A n \in Nodes : t.cost[n] \in Nat /\ s.cost[n] \in Nat
    BY SpfTypes
  <2>2. \A n \in Nodes : t.cost[n] < s.cost[n] \/ t.cost[n] = s.cost[n]
    BY DEF Relaxed
  <2> QED BY <2>1, <2>2
<1>5. \A n \in Reached(s) : n \in Reached(t)
  BY <1>0, <1>4 DEF Reached
<1>6. \A n \in better : n \in Reached(t)
  <2>1. \A n \in better : n \in Nodes /\ t.cost[n] < s.cost[n] /\ s.cost[n] <= ROUTE_COST_BROKEN
    BY <1>1 DEF Relaxed, Bounded
  <2> HIDE DEF better
  <2> QED BY <1>0, <1>4, <2>1 DEF Reached
<1>7. \A n \in Reached(t) : n \in better \/ n \in Reached(s)
  BY DEF Relaxed, Reached
<1>8. t.cand = (s.cand \cup better) \ {a}
  BY DEF Relaxed
<1>9. Done(t) = Done(s) \cup {a}
  BY <1>1, <1>3, <1>5, <1>6, <1>7, <1>8 DEF Done
<1>10. \A c \in t.cand : s.cost[a] <= t.cost[c]
  <2> SUFFICES ASSUME NEW c \in t.cand PROVE s.cost[a] <= t.cost[c]
    OBVIOUS
  <2>1. CASE c \in better
    <3>1. e[<<a, c>>] \in Nat /\ t.cost[c] = s.cost[a] + e[<<a, c>>]
      BY <2>1 DEF Relaxed
    <3> QED BY <1>4, <3>1
  <2>2. CASE c \notin better
    <3>1. c \in s.cand \ {a} /\ c \in Nodes
      BY <1>1, <1>8, <2>2
    <3>2. t.cost[c] = s.cost[c] /\ Ahead(s, a, c)
      BY <2>2, <3>1 DEF Relaxed
    <3> QED BY <1>1, <1>4, <3>1, <3>2 DEF Ahead
  <2> QED BY <2>1, <2>2
<1> QED BY <1>1, <1>2, <1>3, <1>5, <1>9, <1>10 DEF Done

\* A pass keeps Dijkstra's invariant.
LEMMA SettlingStep ==
    ASSUME NEW s \in SpfStates, NEW e \in EdgeMaps, NEW k \in Nat \ {0},
           Bounded(s, k - 1), Settling(e, s, k - 1)
    PROVE  Settling(e, SpfPass(e, s, k), k)
<1>1. CASE s.cand = {}
  BY <1>1 DEF SpfPass, Settling
<1>2. CASE s.cand # {}
  <2> DEFINE t == SpfPass(e, s, k)
  <2>1. PICK a \in Nodes : Relaxed(e, s, t, a, k)
    BY <1>2, PassRelaxes
  <2>2. t \in SpfStates
    BY PassType
  <2> HIDE DEF t
  <2>3. /\ Done(t) = Done(s) \cup {a}
        /\ a \notin Done(s)
        /\ \A v \in Done(t) : v \notin Better(e, s, a)
        /\ \A v \in Done(s) : s.cost[v] <= s.cost[a]
        /\ \A c \in t.cand : s.cost[a] <= t.cost[c]
    BY <2>1, <2>2, DoneGrows
  <2>4. \A n \in Nodes : s.cost[n] \in Nat /\ t.cost[n] \in Nat
    BY <2>2, SpfTypes
  <2>5. \A v \in Done(t) : v \in Nodes /\ t.cost[v] = s.cost[v] /\ s.cost[v] <= s.cost[a]
    <3> SUFFICES ASSUME NEW v \in Done(t)
                 PROVE  v \in Nodes /\ t.cost[v] = s.cost[v] /\ s.cost[v] <= s.cost[a]
      OBVIOUS
    <3>1. v \in Nodes
      BY DEF Done, Reached
    <3>2. t.cost[v] = s.cost[v]
      BY <2>1, <2>3, <3>1 DEF Relaxed
    <3> QED BY <2>3, <2>4, <3>1, <3>2
  <2>6. \A v \in Done(t), c \in t.cand : t.cost[v] <= t.cost[c]
    <3> SUFFICES ASSUME NEW v \in Done(t), NEW c \in t.cand PROVE t.cost[v] <= t.cost[c]
      OBVIOUS
    <3>1. t.cost[v] <= s.cost[a] /\ s.cost[a] <= t.cost[c] /\ v \in Nodes
      BY <2>3, <2>5
    <3>2. c \in Nodes
      BY <2>2, SpfTypes
    <3> QED BY <2>4, <3>1, <3>2
  <2>7. ASSUME NEW v \in Done(t), NEW b \in Nodes, Usable(e, v, b)
        PROVE  t.cost[b] <= t.cost[v] + e[<<v, b>>]
    <3>1. e[<<v, b>>] \in Nat /\ v \in Nodes
      BY <2>5, <2>7, EdgeCostsInt DEF Usable, EdgeMaps, Pairs
    <3>2. t.cost[v] = s.cost[v]
      BY <2>5
    <3>3. t.cost[b] <= s.cost[b]
      <4>1. t.cost[b] < s.cost[b] \/ t.cost[b] = s.cost[b]
        BY <2>1 DEF Relaxed
      <4> QED BY <2>4, <4>1
    <3>4. CASE v = a
      <4>1. CASE b \in Better(e, s, a)
        BY <2>1, <2>4, <3>1, <3>2, <3>4, <4>1 DEF Relaxed
      <4>2. CASE b \notin Better(e, s, a)
        <5>1. ~(s.cost[a] + e[<<a, b>>] < s.cost[b])
          BY <2>7, <3>4, <4>2 DEF Better
        <5> QED BY <2>4, <3>1, <3>2, <3>3, <3>4, <5>1
      <4> QED BY <4>1, <4>2
    <3>5. CASE v # a
      <4>1. v \in Done(s)
        BY <2>3, <3>5
      <4>2. s.cost[b] <= s.cost[v] + e[<<v, b>>]
        BY <2>7, <4>1 DEF Settling
      <4> QED BY <2>4, <3>1, <3>2, <3>3, <4>2
    <3> QED BY <3>4, <3>5
  <2>8. Cardinality(Done(t)) = k
    <3>1. Done(s) \in SUBSET Nodes /\ IsFiniteSet(Nodes)
      BY RoutesAssumption DEF Done, Reached
    <3>2. IsFiniteSet(Done(s))
      BY <3>1, FS_Subset
    <3>3. Cardinality(Done(s)) = k - 1
      BY <1>2 DEF Settling
    <3>4. Cardinality(Done(s) \cup {a}) = Cardinality(Done(s)) + 1
      BY <2>3, <3>2, FS_AddElement
    <3> QED BY <2>3, <3>3, <3>4
  <2> QED BY <2>6, <2>7, <2>8 DEF Settling, t
<1> QED BY <1>1, <1>2

\* Without link quality every edge costs nothing.
FlatEdges(e) == \A p \in Pairs : e[p] \in {NoEdge, 0}

\* Then the candidates are a queue, and nodes are reached in the order of their hops.
Queued(e, s, k) ==
    /\ \A n \in Reached(s) : s.cost[n] = 0
    /\ \A n \in Nodes : s.since[n] <= k
    /\ \A c, d \in s.cand :
          /\ s.since[c] < s.since[d] => s.hops[c] <= s.hops[d]
          /\ s.since[c] = s.since[d] => s.hops[c] = s.hops[d]
          /\ s.hops[d] <= s.hops[c] + 1
    /\ \A v \in Done(s), c \in s.cand : s.hops[v] <= s.hops[c]
    /\ \A v \in Done(s), b \in Nodes : Usable(e, v, b) => s.hops[b] <= s.hops[v] + 1

\* A pass keeps the queue.
LEMMA QueuedStep ==
    ASSUME NEW s \in SpfStates, NEW e \in EdgeMaps, NEW k \in Nat \ {0}, FlatEdges(e),
           Bounded(s, k - 1), Settling(e, s, k - 1), Queued(e, s, k - 1)
    PROVE  Queued(e, SpfPass(e, s, k), k)
<1>0. \A n \in Nodes : s.cost[n] \in Nat /\ s.since[n] \in Nat /\ s.hops[n] \in Nat
  BY SpfTypes
<1>1. CASE s.cand = {}
  <2>1. SpfPass(e, s, k) = s
    BY <1>1 DEF SpfPass
  <2>2. \A n \in Nodes : s.since[n] <= k - 1
    BY DEF Queued
  <2>3. \A n \in Nodes : s.since[n] <= k
    BY <1>0, <2>2
  <2> QED BY <2>1, <2>3 DEF Queued
<1>2. CASE s.cand # {}
  <2> DEFINE t == SpfPass(e, s, k)
  <2>1. PICK a \in Nodes : Relaxed(e, s, t, a, k)
    BY <1>2, PassRelaxes
  <2>2. t \in SpfStates
    BY PassType
  <2> HIDE DEF t
  <2> DEFINE better == Better(e, s, a)
  <2>3. /\ Done(t) = Done(s) \cup {a}
        /\ \A v \in Done(t) : v \notin better
    BY <2>1, <2>2, DoneGrows
  <2>4. \A n \in Nodes : t.cost[n] \in Nat /\ t.since[n] \in Nat /\ t.hops[n] \in Nat
    BY <2>2, SpfTypes
  <2>5. a \in s.cand /\ a \in Reached(s) /\ s.cost[a] = 0 /\ s.cand \subseteq Nodes /\ t.cand \subseteq Nodes
    BY <2>1, <2>2, SpfTypes DEF Relaxed, Bounded, Queued
  <2>6. \A n \in better : /\ n \in Nodes /\ t.cost[n] = 0 /\ t.since[n] = k
                          /\ t.hops[n] = s.hops[a] + 1 /\ n \notin Reached(s)
    <3> SUFFICES ASSUME NEW n \in better
                 PROVE  /\ n \in Nodes /\ t.cost[n] = 0 /\ t.since[n] = k
                        /\ t.hops[n] = s.hops[a] + 1 /\ n \notin Reached(s)
      OBVIOUS
    <3>1. /\ n \in Nodes /\ e[<<a, n>>] \in Nat /\ t.cost[n] = s.cost[a] + e[<<a, n>>]
          /\ t.cost[n] < s.cost[n] /\ t.since[n] = k /\ t.hops[n] = s.hops[a] + 1
      BY <2>1 DEF Relaxed
    <3>2. e[<<a, n>>] = 0
      BY <3>1 DEF FlatEdges, Pairs, NoEdge
    <3>3. t.cost[n] = 0
      BY <2>5, <3>1, <3>2
    <3>4. n \notin Reached(s)
      BY <3>1, <3>3 DEF Queued
    <3> QED BY <3>1, <3>3, <3>4
  <2>7. \A n \in Nodes \ better : t.cost[n] = s.cost[n] /\ t.since[n] = s.since[n] /\ t.hops[n] = s.hops[n]
    BY <2>1 DEF Relaxed
  <2>8. t.cand = (s.cand \cup better) \ {a}
    BY <2>1 DEF Relaxed
  <2>9. \A c \in s.cand : c \notin better
    BY <2>6 DEF Bounded
  <2>10. \A c \in s.cand : /\ s.hops[a] <= s.hops[c] /\ s.hops[c] <= s.hops[a] + 1
                           /\ s.since[c] <= k - 1
    <3> SUFFICES ASSUME NEW c \in s.cand
                 PROVE  /\ s.hops[a] <= s.hops[c] /\ s.hops[c] <= s.hops[a] + 1
                        /\ s.since[c] <= k - 1
      OBVIOUS
    <3>1. s.hops[c] <= s.hops[a] + 1 /\ s.since[c] <= k - 1 /\ c \in Nodes
      BY <2>5 DEF Queued
    <3>2. CASE c = a
      BY <1>0, <3>1, <3>2
    <3>3. CASE c # a
      <4>1. Ahead(s, a, c) /\ s.cost[c] = 0
        BY <2>1, <3>3 DEF Relaxed, Queued, Bounded
      <4>2. s.since[a] < s.since[c] \/ s.since[a] = s.since[c]
        BY <2>5, <4>1 DEF Ahead
      <4>3. s.hops[a] <= s.hops[c] \/ s.hops[a] = s.hops[c]
        BY <2>5, <4>2 DEF Queued
      <4> QED BY <1>0, <3>1, <4>3
    <3> QED BY <3>2, <3>3
  <2> HIDE DEF better
  <2>11. \A n \in Reached(t) : t.cost[n] = 0
    BY <2>6, <2>7 DEF Reached, Queued
  <2>12. \A n \in Nodes : t.since[n] <= k
    <3>1. \A n \in Nodes : s.since[n] <= k - 1
      BY DEF Queued
    <3> QED BY <1>0, <2>4, <2>6, <2>7, <3>1
  <2>13. ASSUME NEW c \in t.cand, NEW d \in t.cand
         PROVE  /\ t.since[c] < t.since[d] => t.hops[c] <= t.hops[d]
                /\ t.since[c] = t.since[d] => t.hops[c] = t.hops[d]
                /\ t.hops[d] <= t.hops[c] + 1
    <3>0. c \in Nodes /\ d \in Nodes
      BY <2>5
    <3>1. CASE c \in better /\ d \in better
      BY <2>4, <2>6, <3>0, <3>1
    <3>2. CASE c \in better /\ d \notin better
      <4>1. d \in s.cand
        BY <2>8, <3>2
      <4>2. t.since[d] <= k - 1 /\ t.hops[d] <= s.hops[a] + 1 /\ t.since[c] = k /\ t.hops[c] = s.hops[a] + 1
        BY <2>6, <2>7, <2>10, <3>0, <3>2, <4>1
      <4> QED BY <1>0, <2>4, <3>0, <4>2
    <3>3. CASE c \notin better /\ d \in better
      <4>1. c \in s.cand
        BY <2>8, <3>3
      <4>2. t.since[c] <= k - 1 /\ t.hops[c] <= s.hops[a] + 1 /\ s.hops[a] <= t.hops[c]
            /\ t.since[d] = k /\ t.hops[d] = s.hops[a] + 1
        BY <2>6, <2>7, <2>10, <3>0, <3>3, <4>1
      <4> QED BY <1>0, <2>4, <3>0, <4>2
    <3>4. CASE c \notin better /\ d \notin better
      <4>1. c \in s.cand /\ d \in s.cand
        BY <2>8, <3>4
      <4> QED BY <2>7, <3>0, <3>4, <4>1 DEF Queued
    <3> QED BY <3>1, <3>2, <3>3, <3>4
  <2>14. ASSUME NEW v \in Done(t) PROVE v \in Nodes /\ t.hops[v] = s.hops[v] /\ s.hops[v] <= s.hops[a]
    <3>1. v \in Nodes /\ v \notin better
      BY <2>3 DEF Done, Reached
    <3>2. CASE v = a
      BY <1>0, <2>7, <3>1, <3>2
    <3>3. CASE v # a
      <4>1. v \in Done(s)
        BY <2>3, <3>3
      <4> QED BY <2>5, <2>7, <3>1, <4>1 DEF Queued
    <3> QED BY <3>2, <3>3
  <2>15. ASSUME NEW v \in Done(t), NEW c \in t.cand PROVE t.hops[v] <= t.hops[c]
    <3>1. v \in Nodes /\ t.hops[v] <= s.hops[a] /\ c \in Nodes
      BY <2>5, <2>14
    <3>2. s.hops[a] <= t.hops[c]
      BY <1>0, <2>4, <2>6, <2>7, <2>8, <2>10, <3>1
    <3> QED BY <1>0, <2>4, <3>1, <3>2
  <2>16. ASSUME NEW v \in Done(t), NEW b \in Nodes, Usable(e, v, b) PROVE t.hops[b] <= t.hops[v] + 1
    <3>0. v \in Nodes /\ t.hops[v] = s.hops[v]
      BY <2>14
    <3>1. CASE v = a
      <4>1. CASE b \in better
        BY <1>0, <2>6, <3>0, <3>1, <4>1
      <4>2. CASE b \notin better
        <5>1. e[<<a, b>>] = 0
          BY <2>16, <3>1 DEF FlatEdges, Pairs, Usable
        <5>2. ~(s.cost[a] + e[<<a, b>>] < s.cost[b])
          BY <2>16, <3>1, <4>2 DEF Better, better
        <5>3. s.cost[b] = 0
          BY <1>0, <2>5, <5>1, <5>2
        <5>4. b \in Reached(s)
          <6>1. 0 < ROUTE_COST_BROKEN
            BY <2>5 DEF Reached
          <6> QED BY <5>3, <6>1 DEF Reached
        <5>5. t.hops[b] = s.hops[b]
          BY <2>7, <4>2
        <5>6. CASE b \in s.cand
          BY <2>10, <3>0, <3>1, <5>5, <5>6
        <5>7. CASE b \notin s.cand
          <6>1. s.hops[b] <= s.hops[a]
            BY <2>5, <5>4, <5>7 DEF Done, Queued
          <6> QED BY <1>0, <3>0, <3>1, <5>5, <6>1
        <5> QED BY <5>6, <5>7
      <4> QED BY <4>1, <4>2
    <3>2. CASE v # a
      <4>1. v \in Done(s)
        BY <2>3, <3>2
      <4>2. s.hops[b] <= s.hops[v] + 1
        BY <2>16, <4>1 DEF Queued
      <4>3. b \notin better
        <5>1. v \in Reached(s) /\ e[<<v, b>>] = 0 /\ s.cost[v] = 0
          BY <2>16, <3>0, <4>1 DEF Done, FlatEdges, Pairs, Usable, Queued
        <5>2. s.cost[b] <= s.cost[v] + e[<<v, b>>]
          BY <2>16, <4>1 DEF Settling
        <5>3. s.cost[b] = 0
          BY <1>0, <5>1, <5>2
        <5>4. b \in Reached(s)
          BY <5>1, <5>3 DEF Reached
        <5> QED BY <2>6, <5>4
      <4> QED BY <2>7, <3>0, <4>2, <4>3
    <3> QED BY <3>1, <3>2
  <2> QED BY <2>11, <2>12, <2>13, <2>15, <2>16 DEF Queued, t
<1> QED BY <1>1, <1>2

-----------------------------------------------------------------------------
(* The tables a run reads                                                  *)

\* What a run may take for granted.
DbOK ==
    /\ cnf \in [lq_level : LqLevels, fib_metric : FibMetrics, ip_version : IpVersions, fault : Faults]
    /\ linkcost \in [Wires -> Costs \cup {NoLink, Asym}]
    /\ edge \in EdgeMaps
    /\ cnf.lq_level = 0 => FlatEdges(edge)

\* We have an edge only to nodes we have a link to.
OwnEdges == \A n \in Nodes : LinksTo(n) = {} => edge[<<myself, n>>] = NoEdge

\* The best link to a neighbour is a symmetric one of its links.
LEMMA BestLink ==
    ASSUME DbOK, NEW n, SymLinksTo(n) # {}
    PROVE  /\ get_best_link_to_neighbor(n) \in SymLinksTo(n)
           /\ get_best_link_to_neighbor(n) \in Wires
           /\ linkcost[get_best_link_to_neighbor(n)] \in Costs
<1>1. \A w \in SymLinksTo(n) : w \in Wires /\ linkcost[w] \in Costs /\ linkcost[w] \in Nat
  BY RoutesAssumption DEF SymLinksTo, LinksTo, DbOK
<1> DEFINE S == {linkcost[w] : w \in SymLinksTo(n)}
<1>2. S \in SUBSET Nat /\ S # {}
  BY <1>1
<1>3. PICK x \in S : \A y \in S : x <= y
  BY <1>2, LeastNumber
<1>4. \E w \in SymLinksTo(n) : \A v \in SymLinksTo(n) : linkcost[w] <= linkcost[v]
  BY <1>3
<1>5. get_best_link_to_neighbor(n) \in SymLinksTo(n)
  BY <1>4 DEF get_best_link_to_neighbor
<1> QED BY <1>1, <1>5

\* The edges a run uses.
LEMMA RunEdgesType ==
    ASSUME DbOK
    PROVE  RunEdges \in EdgeMaps /\ (cnf.lq_level = 0 => FlatEdges(RunEdges))
<1>1. \A c \in Costs \cup {LINK_COST_BROKEN} :
         EdgeCost(c) \in EdgeCosts /\ (cnf.lq_level = 0 => EdgeCost(c) = 0)
  BY DEF EdgeCost, EdgeCosts
<1>2. \A n \in Nodes : <<myself, n>> \in Pairs
  BY RoutesAssumption DEF Pairs
<1>3. \A p \in Pairs : edge[p] \in EdgeCosts /\ (cnf.lq_level = 0 => edge[p] \in {NoEdge, 0})
  BY DEF DbOK, EdgeMaps, FlatEdges
<1>4. ASSUME NEW n \in Nodes
      PROVE  MyEdge(n) \in EdgeCosts /\ (cnf.lq_level = 0 => MyEdge(n) \in {NoEdge, 0})
  <2>1. CASE LinksTo(n) = {}
    BY <1>2, <1>3, <2>1 DEF MyEdge
  <2>2. CASE LinksTo(n) # {} /\ SymLinksTo(n) = {}
    BY <2>2 DEF MyEdge, EdgeCosts
  <2>3. CASE LinksTo(n) # {} /\ SymLinksTo(n) # {}
    <3>1. MyEdge(n) \in {EdgeCost(LINK_COST_BROKEN), EdgeCost(linkcost[get_best_link_to_neighbor(n)])}
      BY <2>3 DEF MyEdge
    <3>2. linkcost[get_best_link_to_neighbor(n)] \in Costs
      BY <2>3, BestLink
    <3> QED BY <1>1, <3>1, <3>2
  <2> QED BY <2>1, <2>2, <2>3
<1>5. ASSUME NEW p \in Pairs
      PROVE  /\ RunEdges[p] = (IF p[1] = myself THEN MyEdge(p[2]) ELSE edge[p])
             /\ RunEdges[p] \in EdgeCosts
             /\ cnf.lq_level = 0 => RunEdges[p] \in {NoEdge, 0}
  <2>1. p[2] \in Nodes
    BY DEF Pairs
  <2>2. RunEdges[p] = IF p[1] = myself THEN MyEdge(p[2]) ELSE edge[p]
    BY DEF RunEdges
  <2> QED BY <1>3, <1>4, <2>1, <2>2
<1>6. RunEdges \in EdgeMaps
  BY <1>5 DEF RunEdges, EdgeMaps
<1> QED BY <1>5, <1>6 DEF FlatEdges

\* The costs of a route and of a broken link are positive.
LEMMA BrokenCosts ==
    /\ LINK_COST_BROKEN \in Nat /\ LINK_COST_BROKEN > 0
    /\ ROUTE_COST_BROKEN \in Nat /\ ROUTE_COST_BROKEN > 0
<1>1. \A x, y \in Nat : x * y \in Nat
  OBVIOUS
<1>2. LINK_COST_BROKEN * N \in Nat
  BY <1>1, NodeCount, RoutesAssumption
<1> QED BY <1>2, RoutesAssumption DEF N

\* The state a run starts from satisfies what its passes keep.
LEMMA StartOK ==
    ASSUME DbOK, NEW e \in EdgeMaps
    PROVE  /\ SpfStart(e) \in SpfStates
           /\ Bounded(SpfStart(e), 0)
           /\ Settling(e, SpfStart(e), 0)
           /\ Queued(e, SpfStart(e), 0)
           /\ Reached(SpfStart(e)) = {myself}
<1> DEFINE s == SpfStart(e)
<1>1. /\ s.cost = [n \in Nodes |-> IF n = myself THEN 0 ELSE ROUTE_COST_BROKEN]
      /\ s.cand = {myself}
      /\ s.since = [n \in Nodes |-> 0]
      /\ s.hop = [n \in Nodes |-> IF SymLinksTo(n) # {} /\ e[<<n, myself>>] # NoEdge
                                  THEN get_best_link_to_neighbor(n) ELSE None]
      /\ s.hops = [n \in Nodes |-> 0]
      /\ s = [cost |-> s.cost, cand |-> s.cand, since |-> s.since, hop |-> s.hop, hops |-> s.hops]
  BY DEF SpfStart
<1>2. myself \in Nodes /\ ROUTE_COST_BROKEN \in Nat /\ ROUTE_COST_BROKEN > 0
  BY BrokenCosts, RoutesAssumption
<1> HIDE DEF s
<1>3. s.hop \in [Nodes -> Wires \cup {None}]
  <2>1. \A n \in Nodes : SymLinksTo(n) # {} => get_best_link_to_neighbor(n) \in Wires
    BY BestLink
  <2> QED BY <1>1, <2>1
<1>4. s \in SpfStates
  <2>1. s.cost \in [Nodes -> Nat] /\ s.since \in [Nodes -> Nat] /\ s.hops \in [Nodes -> Nat] /\ s.cand \in SUBSET Nodes
    BY <1>1, <1>2
  <2> QED BY <1>1, <1>3, <2>1 DEF SpfStates
<1>5. Reached(s) = {myself}
  BY <1>1, <1>2 DEF Reached
<1>6. SymLinksTo(myself) = {}
  BY RoutesAssumption DEF SymLinksTo, LinksTo
<1>7. s.cost[myself] = 0 /\ s.hop[myself] = None /\ s.since[myself] = 0 /\ s.hops[myself] = 0
  BY <1>1, <1>2, <1>6
<1>8. \A n \in Nodes : s.cost[n] <= ROUTE_COST_BROKEN /\ s.hops[n] = 0 /\ s.since[n] = 0
  BY <1>1, <1>2
<1>9. Bounded(s, 0)
  BY <1>1, <1>5, <1>7, <1>8 DEF Bounded
<1>10. Done(s) = {} /\ Cardinality(Done(s)) = 0
  BY <1>1, <1>5, FS_EmptySet DEF Done
<1>11. Settling(e, s, 0)
  BY <1>10 DEF Settling
<1>12. Queued(e, s, 0)
  BY <1>1, <1>5, <1>7, <1>8, <1>10 DEF Queued
<1> QED BY <1>4, <1>5, <1>9, <1>11, <1>12 DEF s

\* What the reference takes an edge for is what a run does with it.
LEMMA RefCostRun ==
    ASSUME DbOK, OwnEdges, NEW a \in Nodes, NEW b \in Nodes \ {myself}
    PROVE  /\ RefCost(a, b) # LINK_COST_BROKEN <=> Usable(RunEdges, a, b)
           /\ Usable(RunEdges, a, b) => RefCost(a, b) = RunEdges[<<a, b>>]
           /\ Usable(RunEdges, a, b) /\ a = myself => SymLinksTo(b) # {}
<1> DEFINE e == RunEdges
<1>1. <<a, b>> \in Pairs /\ <<b, a>> \in Pairs
  BY DEF Pairs
<1>2. e[<<b, a>>] = edge[<<b, a>>]
  BY <1>1 DEF RunEdges
<1>3. e[<<a, b>>] = IF a = myself THEN MyEdge(b) ELSE edge[<<a, b>>]
  BY <1>1 DEF RunEdges
<1> HIDE DEF e
<1>4. CASE a # myself
  BY <1>2, <1>3, <1>4 DEF RefCost, Usable, e
<1>5. CASE a = myself /\ SymLinksTo(b) = {}
  <2>1. MyEdge(b) = NoEdge
    BY <1>5 DEF MyEdge, OwnEdges
  <2>2. RefCost(a, b) = LINK_COST_BROKEN
    BY <1>5 DEF RefCost
  <2> QED BY <1>3, <1>5, <2>1, <2>2 DEF Usable, e
<1>6. CASE a = myself /\ SymLinksTo(b) # {}
  <2> DEFINE c == EdgeCost(linkcost[get_best_link_to_neighbor(b)])
  <2>1. LinksTo(b) # {}
    BY <1>6 DEF SymLinksTo
  <2>2. linkcost[get_best_link_to_neighbor(b)] \in Costs
    BY <1>6, BestLink
  <2>3. c # LINK_COST_BROKEN /\ c # NoEdge
    BY <2>2, BrokenCosts, RoutesAssumption DEF EdgeCost, NoEdge
  <2>4. cnf.lq_level = 0 => c = 0
    BY DEF EdgeCost
  <2> HIDE DEF c
  <2>5. MyEdge(b) = IF edge[<<myself, b>>] = NoEdge THEN EdgeCost(LINK_COST_BROKEN) ELSE c
    BY <1>6, <2>1 DEF MyEdge, c
  <2>6. RefCost(a, b) =
           IF edge[<<b, a>>] = NoEdge \/ (edge[<<a, b>>] = NoEdge /\ ~(cnf.lq_level = 0))
           THEN LINK_COST_BROKEN ELSE c
    BY <1>6 DEF RefCost, c
  <2>7. EdgeCost(LINK_COST_BROKEN) = IF cnf.lq_level = 0 THEN 0 ELSE LINK_COST_BROKEN
    BY DEF EdgeCost
  <2> QED BY <1>2, <1>3, <1>6, <2>3, <2>4, <2>5, <2>6, <2>7 DEF Usable, e
<1> QED BY <1>4, <1>5, <1>6

-----------------------------------------------------------------------------
(* Paths                                                                   *)

\* A function on an initial interval is a sequence.
LEMMA IntervalSeq ==
    ASSUME NEW m \in Nat, NEW q \in [1..m -> Nodes]
    PROVE  q \in Seq(Nodes) /\ Len(q) = m
OBVIOUS

\* The cost of an edge of the reference is a number.
LEMMA RefCostType ==
    ASSUME DbOK, NEW a \in Nodes, NEW b \in Nodes
    PROVE  /\ RefCost(a, b) \in Nat
           /\ RefCost(a, b) <= LINK_COST_BROKEN
<1>1. LINK_COST_BROKEN \in Nat /\ LINK_COST_BROKEN > 0
  BY BrokenCosts
<1>2. \A c \in EdgeCosts \ {NoEdge} : c \in Nat /\ c <= LINK_COST_BROKEN
  BY <1>1, RoutesAssumption DEF EdgeCosts
<1>3. edge[<<a, b>>] \in EdgeCosts
  BY DEF DbOK, EdgeMaps, Pairs
<1>4. CASE SymLinksTo(b) # {}
  <2>1. linkcost[get_best_link_to_neighbor(b)] \in Costs
    BY <1>4, BestLink
  <2>2. /\ EdgeCost(linkcost[get_best_link_to_neighbor(b)]) \in Nat
        /\ EdgeCost(linkcost[get_best_link_to_neighbor(b)]) <= LINK_COST_BROKEN
    BY <1>1, <2>1, RoutesAssumption DEF EdgeCost
  <2>3. RefCost(a, b) \in {LINK_COST_BROKEN, EdgeCost(linkcost[get_best_link_to_neighbor(b)])}
           \/ (RefCost(a, b) = edge[<<a, b>>] /\ edge[<<a, b>>] # NoEdge)
    BY <1>4 DEF RefCost
  <2> QED BY <1>1, <1>2, <1>3, <2>2, <2>3
<1>5. CASE SymLinksTo(b) = {}
  <2>1. RefCost(a, b) = LINK_COST_BROKEN \/ (RefCost(a, b) = edge[<<a, b>>] /\ edge[<<a, b>>] # NoEdge)
    BY <1>5 DEF RefCost
  <2> QED BY <1>1, <1>2, <1>3, <2>1
<1> QED BY <1>4, <1>5

\* The partial sums of a path with m + 1 nodes.
Sums(sum, q, m) ==
    /\ sum \in [0..m -> Nat]
    /\ sum[0] = 0
    /\ \A i \in 1..m : sum[i] = sum[i - 1] + RefCost(q[i], q[i + 1])

\* The partial sums of a path are determined.
LEMMA SumsUnique ==
    ASSUME NEW m \in Nat, NEW q, NEW f, NEW g, NEW h \in Nat, m <= h,
           Sums(f, q, m), Sums(g, q, h)
    PROVE  f[m] = g[m]
<1> DEFINE S == {i \in 0..m : f[i] = g[i]}
<1>1. 0 \in S
  BY DEF Sums
<1>2. ASSUME NEW k \in 1..m, k - 1 \in S PROVE k \in S
  <2>1. k \in 1..h /\ f[k - 1] = g[k - 1]
    BY <1>2
  <2>2. f[k] = f[k - 1] + RefCost(q[k], q[k + 1]) /\ g[k] = g[k - 1] + RefCost(q[k], q[k + 1])
    BY <2>1 DEF Sums
  <2> QED BY <2>1, <2>2
<1> HIDE DEF S
<1>3. 0..m \subseteq S
  BY <1>1, <1>2, IntervalInduction
<1> QED BY <1>3 DEF S

\* The cost of a path is its last partial sum.
LEMMA PathCostSums ==
    ASSUME DbOK, NEW m \in Nat, NEW q \in [1..(m + 1) -> Nodes]
    PROVE  \E sum : Sums(sum, q, m) /\ PathCost(q) = sum[m]
<1>1. Len(q) - 1 = m
  BY IntervalSeq
<1> DEFINE step == [x \in (1..m) \X Nat |-> x[2] + RefCost(q[x[1]], q[x[1] + 1])]
           Q(g) == g = [i \in 0..m |-> IF i = 0 THEN 0 ELSE g[i - 1] + RefCost(q[i], q[i + 1])]
<1>2. \A i \in 1..m : RefCost(q[i], q[i + 1]) \in Nat
  <2> SUFFICES ASSUME NEW i \in 1..m PROVE RefCost(q[i], q[i + 1]) \in Nat
    OBVIOUS
  <2>1. q[i] \in Nodes /\ q[i + 1] \in Nodes
    OBVIOUS
  <2> QED BY <2>1, RefCostType
<1>3. step \in [(1..m) \X Nat -> Nat]
  <2>1. ASSUME NEW x \in (1..m) \X Nat PROVE x[2] + RefCost(q[x[1]], q[x[1] + 1]) \in Nat
    <3>1. x[1] \in 1..m /\ x[2] \in Nat
      OBVIOUS
    <3>2. RefCost(q[x[1]], q[x[1] + 1]) \in Nat
      BY <1>2, <3>1
    <3> QED BY <3>1, <3>2
  <2> QED BY <2>1
<1>4. PICK f \in [0..m -> Nat] : Recursion(f, m, 0, step)
  <2> HIDE DEF step
  <2> QED BY <1>3, RecursionExists
<1>5. ASSUME NEW i \in 1..m PROVE f[i] = f[i - 1] + RefCost(q[i], q[i + 1])
  <2>1. f[i] = step[<<i, f[i - 1]>>]
    BY <1>4 DEF Recursion
  <2>2. f[i - 1] \in Nat
    OBVIOUS
  <2> QED BY <2>1, <2>2
<1>6. f[0] = 0
  BY <1>4 DEF Recursion
<1> HIDE DEF step
<1>7. Q(f)
  BY <1>5, <1>6
<1>8. Sums(f, q, m)
  BY <1>5, <1>6 DEF Sums
<1> DEFINE h == CHOOSE g : Q(g)
<1>9. PathCost(q) = h[m]
  BY <1>1 DEF PathCost
<1>10. Q(h)
  BY <1>7
<1> HIDE DEF h
<1>11. h[0] = 0 /\ \A i \in 1..m : h[i] = h[i - 1] + RefCost(q[i], q[i + 1])
  BY <1>10
<1>12. h[m] = f[m]
  <2> DEFINE S == {i \in 0..m : h[i] = f[i]}
  <2>1. 0 \in S
    BY <1>6, <1>11
  <2>2. \A k \in 1..m : k - 1 \in S => k \in S
    BY <1>5, <1>11
  <2> HIDE DEF S
  <2>3. 0..m \subseteq S
    BY <2>1, <2>2, IntervalInduction
  <2> QED BY <2>3 DEF S
<1> QED BY <1>8, <1>9, <1>12

\* A path with one more node.
Extended(q, m, b) == [i \in 1..(m + 1) |-> IF i = m + 1 THEN b ELSE q[i]]

\* It costs the edge to that node more.
LEMMA ExtendedCost ==
    ASSUME DbOK, NEW m \in Nat \ {0}, NEW q \in [1..m -> Nodes], NEW b \in Nodes
    PROVE  /\ Extended(q, m, b) \in [1..(m + 1) -> Nodes]
           /\ PathCost(Extended(q, m, b)) = PathCost(q) + RefCost(q[m], b)
<1> DEFINE r == Extended(q, m, b)
<1>1. r \in [1..(m + 1) -> Nodes]
  BY DEF Extended
<1>2. r[m + 1] = b /\ \A i \in 1..m : r[i] = q[i]
  BY DEF Extended
<1> HIDE DEF r
<1>3. PICK f : Sums(f, r, m) /\ PathCost(r) = f[m]
  BY <1>1, PathCostSums
<1>4. m - 1 \in Nat /\ (m - 1) + 1 = m /\ m - 1 <= m
  OBVIOUS
<1>5. PICK g : Sums(g, q, m - 1) /\ PathCost(q) = g[m - 1]
  BY <1>4, PathCostSums
<1>6. Sums(g, r, m - 1)
  <2>1. \A i \in 1..(m - 1) : r[i] = q[i] /\ r[i + 1] = q[i + 1]
    BY <1>2
  <2> QED BY <1>5, <2>1 DEF Sums
<1>7. g[m - 1] = f[m - 1]
  BY <1>3, <1>4, <1>6, SumsUnique
<1>8. f[m] = f[m - 1] + RefCost(r[m], r[m + 1])
  BY <1>3 DEF Sums
<1>9. r[m] = q[m]
  BY <1>2
<1> QED BY <1>1, <1>2, <1>3, <1>5, <1>7, <1>8, <1>9 DEF r

\* A path of one node costs nothing.
LEMMA SingleCost ==
    ASSUME DbOK, NEW q \in [1..1 -> Nodes]
    PROVE  PathCost(q) = 0
<1>1. PICK f : Sums(f, q, 0) /\ PathCost(q) = f[0]
  <2>1. 0 \in Nat /\ q \in [1..(0 + 1) -> Nodes]
    OBVIOUS
  <2>2. \E f : Sums(f, q, 0) /\ PathCost(q) = f[0]
    BY ONLY DbOK, <2>1, PathCostSums, Zenon
  <2> QED BY <2>2
<1> QED BY <1>1 DEF Sums

\* The paths from ourselves with m nodes, ourselves alone included.
Simple(q, m) ==
    /\ q \in [1..m -> Nodes]
    /\ q[1] = myself
    /\ Cardinality({q[i] : i \in 1..m}) = m
    /\ \A i \in 1..(m - 1) : RefCost(q[i], q[i + 1]) # LINK_COST_BROKEN

\* They are the paths of the reference.
LEMMA RefPathsSimple ==
    ASSUME NEW n, NEW q
    PROVE  q \in RefPaths(n) <=> \E m \in Nat : m >= 2 /\ Simple(q, m) /\ q[m] = n /\ Len(q) = m
<1>1. ASSUME q \in RefPaths(n)
      PROVE  \E m \in Nat : m >= 2 /\ Simple(q, m) /\ q[m] = n /\ Len(q) = m
  <2>1. PICK m \in 2..Cardinality(Nodes) : q \in [1..m -> Nodes]
    BY <1>1, Zenon DEF RefPaths
  <2>2. m \in Nat /\ m >= 2
    BY <2>1
  <2>3. Len(q) = m
    BY <2>1, <2>2, IntervalSeq
  <2>4. Simple(q, m) /\ q[m] = n
    BY <1>1, <2>1, <2>3 DEF RefPaths, Simple
  <2> QED BY <2>2, <2>3, <2>4
<1>2. ASSUME NEW m \in Nat, m >= 2, Simple(q, m), q[m] = n PROVE q \in RefPaths(n)
  <2> DEFINE R == {q[i] : i \in 1..m}
  <2>1. q \in [1..m -> Nodes]
    BY <1>2 DEF Simple
  <2>2. R \in SUBSET Nodes /\ Cardinality(R) = m
    BY <1>2, <2>1 DEF Simple
  <2> HIDE DEF R
  <2>3. m <= Cardinality(Nodes) /\ Cardinality(Nodes) \in Nat
    BY <2>2, FS_Subset, NodeCount, RoutesAssumption DEF N
  <2>4. m \in 2..Cardinality(Nodes)
    BY <1>2, <2>3
  <2>5. Len(q) = m
    BY <2>1, IntervalSeq
  <2>6. q \in UNION {[1..k -> Nodes] : k \in 2..Cardinality(Nodes)}
    BY <2>1, <2>4
  <2> QED BY <1>2, <2>5, <2>6 DEF RefPaths, Simple
<1> QED BY <1>1, <1>2

\* A path may be extended by a node that is not on it, over an edge.
LEMMA ExtendedSimple ==
    ASSUME NEW m \in Nat \ {0}, NEW q, Simple(q, m), NEW b \in Nodes,
           \A i \in 1..m : q[i] # b, RefCost(q[m], b) # LINK_COST_BROKEN
    PROVE  /\ Simple(Extended(q, m, b), m + 1)
           /\ \A i \in 1..m : Extended(q, m, b)[i] = q[i]
           /\ Extended(q, m, b)[m + 1] = b
<1> DEFINE r == Extended(q, m, b)
           Q == {q[i] : i \in 1..m}
           R == {r[i] : i \in 1..(m + 1)}
<1>0. q \in [1..m -> Nodes]
  BY DEF Simple
<1>1. r \in [1..(m + 1) -> Nodes]
  BY <1>0 DEF Extended
<1>2. r[m + 1] = b /\ \A i \in 1..m : r[i] = q[i]
  BY DEF Extended
<1> HIDE DEF r
<1>3. R = Q \cup {b}
  <2>1. R \subseteq Q \cup {b}
    <3> SUFFICES ASSUME NEW i \in 1..(m + 1) PROVE r[i] \in Q \cup {b}
      OBVIOUS
    <3>1. i \in 1..m \/ i = m + 1
      OBVIOUS
    <3> QED BY <1>2, <3>1
  <2>2. Q \subseteq R
    BY <1>2
  <2>3. b \in R
    BY <1>2
  <2> QED BY <2>1, <2>2, <2>3
<1>4. Q \in SUBSET Nodes /\ b \notin Q /\ Cardinality(Q) = m
  BY <1>0 DEF Simple
<1>5. Cardinality(R) = m + 1
  <2> HIDE DEF Q, R
  <2>1. IsFiniteSet(Q)
    BY <1>4, FS_Subset, RoutesAssumption
  <2> QED BY <1>3, <1>4, <2>1, FS_AddElement
<1>6. ASSUME NEW i \in 1..((m + 1) - 1) PROVE RefCost(r[i], r[i + 1]) # LINK_COST_BROKEN
  <2>1. CASE i = m
    BY <1>2, <2>1
  <2>2. CASE i # m
    <3>1. i \in 1..(m - 1) /\ i \in 1..m /\ i + 1 \in 1..m
      BY <2>2
    <3> QED BY <1>2, <3>1 DEF Simple
  <2> QED BY <2>1, <2>2
<1>7. r[1] = myself
  BY <1>2 DEF Simple
<1> QED BY <1>1, <1>2, <1>5, <1>6, <1>7 DEF Simple, r

\* The path that reached n: its cost and length are those of the run, its first hop is the next
\* hop, and all nodes before n are done.
FoundBy(s, n, q, m) ==
    /\ m \in Nat /\ m >= 2 /\ Simple(q, m) /\ q[m] = n
    /\ PathCost(q) = s.cost[n]
    /\ s.hops[n] = m - 1
    /\ s.hop[n] \in SymLinksTo(q[2])
    /\ \A i \in 1..(m - 1) : q[i] \in Done(s)

\* We are the first to be explored, a node not reached has the next hop of the start, and every
\* other has such a path.
Found(e, s) ==
    /\ s.hops[myself] = 0
    /\ myself \in s.cand => Reached(s) = {myself}
    /\ \A n \in Nodes \ Reached(s) : s.hop[n] = SpfStart(e).hop[n]
    /\ \A n \in Reached(s) \ {myself} : \E q, m : FoundBy(s, n, q, m)

\* A pass keeps the paths.
LEMMA FoundStep ==
    ASSUME DbOK, OwnEdges, NEW e, e = RunEdges, NEW s \in SpfStates, NEW k \in Nat \ {0},
           Bounded(s, k - 1), Settling(e, s, k - 1), Found(e, s)
    PROVE  Found(e, SpfPass(e, s, k))
<1>0. e \in EdgeMaps
  BY RunEdgesType
<1>1. CASE s.cand = {}
  BY <1>1 DEF SpfPass
<1>2. CASE s.cand # {}
  <2> DEFINE t == SpfPass(e, s, k)
  <2>1. PICK a \in Nodes : Relaxed(e, s, t, a, k)
    BY <1>0, <1>2, PassRelaxes
  <2>2. t \in SpfStates
    BY <1>0, PassType
  <2> HIDE DEF t
  <2> DEFINE better == Better(e, s, a)
  <2>3. /\ Done(t) = Done(s) \cup {a}
        /\ a \notin Done(s)
        /\ \A v \in Done(t) : v \notin better
        /\ \A n \in Reached(s) : n \in Reached(t)
    BY <1>0, <2>1, <2>2, DoneGrows
  <2>4. /\ \A n \in Nodes : s.cost[n] \in Nat /\ s.hops[n] \in Nat /\ t.cost[n] \in Nat
        /\ myself \in Nodes
    BY <2>2, SpfTypes, RoutesAssumption
  <2>5. myself \notin better
    <3>1. myself \in better => t.cost[myself] < s.cost[myself]
      BY <2>1 DEF Relaxed
    <3>2. s.cost[myself] = 0 /\ t.cost[myself] \in Nat
      BY <2>4 DEF Bounded
    <3> QED BY <3>1, <3>2
  <2>6. \A n \in better : n \in Nodes \ {myself} /\ Usable(e, a, n)
    BY <2>5 DEF Better
  <2>7. t.hops[myself] = 0
    BY <2>1, <2>4, <2>5 DEF Relaxed, Found
  <2>8. myself \notin t.cand
    <3>1. CASE myself \in s.cand
      <4>1. s.cand \subseteq {myself}
        BY <3>1 DEF Found, Bounded
      <4>2. a = myself
        BY <2>1, <4>1 DEF Relaxed
      <4> QED BY <2>1, <4>2 DEF Relaxed
    <3>2. CASE myself \notin s.cand
      BY <2>1, <2>5, <3>2 DEF Relaxed
    <3> QED BY <3>1, <3>2
  <2>9. \A n \in Nodes \ Reached(t) : n \notin better /\ n \notin Reached(s)
    <3>1. \A n \in better : n \in Reached(t)
      <4> SUFFICES ASSUME NEW n \in better PROVE n \in Reached(t)
        OBVIOUS
      <4>1. n \in Nodes /\ t.cost[n] < s.cost[n]
        BY <2>1 DEF Relaxed
      <4>2. s.cost[n] <= ROUTE_COST_BROKEN /\ ROUTE_COST_BROKEN \in Nat
        BY <4>1, BrokenCosts DEF Bounded
      <4>3. t.cost[n] < ROUTE_COST_BROKEN
        BY <2>4, <4>1, <4>2
      <4> QED BY <4>1, <4>3 DEF Reached
    <3> QED BY <2>3, <3>1
  <2>10. \A n \in Nodes \ Reached(t) : t.hop[n] = SpfStart(e).hop[n]
    BY <2>1, <2>9 DEF Relaxed, Found
  <2>11. ASSUME NEW n \in Reached(t) \ {myself}, n \notin better PROVE \E q, m : FoundBy(t, n, q, m)
    <3>1. n \in Nodes /\ t.cost[n] = s.cost[n] /\ t.hop[n] = s.hop[n] /\ t.hops[n] = s.hops[n]
      BY <2>1, <2>11 DEF Relaxed, Reached
    <3>2. n \in Reached(s) \ {myself}
      BY <3>1 DEF Reached
    <3>3. PICK q, m : FoundBy(s, n, q, m)
      BY <3>2 DEF Found
    <3>4. FoundBy(t, n, q, m)
      BY <2>3, <3>1, <3>3 DEF FoundBy
    <3> QED BY <3>4
  <2>12. ASSUME NEW n \in better PROVE \E q, m : FoundBy(t, n, q, m)
    <3>1. /\ n \in Nodes \ {myself} /\ Usable(e, a, n)
          /\ t.cost[n] = s.cost[a] + e[<<a, n>>] /\ t.hops[n] = s.hops[a] + 1
          /\ t.hop[n] = (IF s.hop[a] # None THEN s.hop[a] ELSE s.hop[n])
      BY <2>1, <2>6 DEF Relaxed
    <3>2. /\ RefCost(a, n) # LINK_COST_BROKEN /\ RefCost(a, n) = e[<<a, n>>]
          /\ a = myself => SymLinksTo(n) # {}
      BY <3>1, RefCostRun
    <3>3. n \notin Done(t) /\ n # a
      BY <2>3
    <3>4. CASE a = myself
      <4> DEFINE q == [i \in 1..1 |-> myself]
                 r == Extended(q, 1, n)
      <4>1. q \in [1..1 -> Nodes] /\ q[1] = myself
        BY <2>4
      <4>2. Simple(q, 1)
        <5>1. {q[i] : i \in 1..1} = {myself}
          OBVIOUS
        <5>2. Cardinality({myself}) = 1
          BY FS_Singleton
        <5> QED BY <4>1, <5>1, <5>2 DEF Simple
      <4>3. PathCost(q) = 0
        BY <4>1, SingleCost
      <4> HIDE DEF q
      <4>4. \A i \in 1..1 : q[i] # n
        BY <3>1, <4>1
      <4>5. RefCost(q[1], n) # LINK_COST_BROKEN
        BY <3>2, <3>4, <4>1
      <4>6. Simple(r, 2) /\ r[1] = myself /\ r[2] = n
        <5>1. 1 \in Nat \ {0} /\ 1 + 1 = 2 /\ 1 \in 1..1
          OBVIOUS
        <5>2. Simple(r, 1 + 1) /\ (\A i \in 1..1 : r[i] = q[i]) /\ r[1 + 1] = n
          BY <3>1, <4>2, <4>4, <4>5, <5>1, ExtendedSimple
        <5> QED BY <4>1, <5>1, <5>2
      <4>7. PathCost(r) = PathCost(q) + RefCost(q[1], n)
        <5>1. 1 \in Nat \ {0}
          OBVIOUS
        <5> QED BY <3>1, <4>1, <5>1, ExtendedCost
      <4>8. s.cost[a] = 0 /\ s.hop[a] = None /\ s.hops[a] = 0
        BY <3>4 DEF Bounded, Found
      <4>9. PathCost(r) = t.cost[n]
        <5>1. PathCost(r) = 0 + RefCost(a, n) /\ t.cost[n] = 0 + e[<<a, n>>]
          BY <3>1, <3>4, <4>1, <4>3, <4>7, <4>8
        <5> QED BY <3>2, <5>1
      <4>10. t.hop[n] \in SymLinksTo(n)
        <5>1. n \notin Reached(s)
          <6>1. Reached(s) = {myself}
            BY <2>1, <3>4 DEF Relaxed, Found
          <6> QED BY <3>1, <6>1
        <5>2. t.hop[n] = SpfStart(e).hop[n]
          BY <3>1, <4>8, <5>1 DEF Found
        <5>3. e[<<n, myself>>] # NoEdge /\ SymLinksTo(n) # {}
          BY <3>1, <3>2, <3>4 DEF Usable
        <5>4. SpfStart(e).hop[n] = get_best_link_to_neighbor(n)
          BY <3>1, <5>3 DEF SpfStart
        <5> QED BY <5>2, <5>3, <5>4, BestLink
      <4>11. \A i \in 1..(2 - 1) : r[i] \in Done(t)
        BY <2>3, <3>4, <4>6
      <4>12. t.hops[n] = 2 - 1
        BY <3>1, <4>8
      <4> HIDE DEF r
      <4>13. FoundBy(t, n, r, 2)
        BY <4>6, <4>9, <4>10, <4>11, <4>12 DEF FoundBy
      <4> QED BY <4>13
    <3>5. CASE a # myself
      <4>1. a \in Reached(s) \ {myself}
        BY <2>1, <3>5 DEF Relaxed, Bounded
      <4>2. PICK q, m : FoundBy(s, a, q, m)
        BY <4>1 DEF Found
      <4> DEFINE r == Extended(q, m, n)
      <4>3. m \in Nat \ {0} /\ m >= 2 /\ Simple(q, m) /\ q[m] = a /\ q \in [1..m -> Nodes]
        BY <4>2 DEF FoundBy, Simple
      <4>4. \A i \in 1..m : q[i] # n /\ q[i] \in Done(t)
        <5> SUFFICES ASSUME NEW i \in 1..m PROVE q[i] # n /\ q[i] \in Done(t)
          OBVIOUS
        <5>1. CASE i = m
          BY <2>3, <3>3, <4>3, <5>1
        <5>2. CASE i # m
          <6>1. i \in 1..(m - 1)
            BY <4>3, <5>2
          <6>2. q[i] \in Done(s)
            BY <4>2, <6>1 DEF FoundBy
          <6> QED BY <2>3, <3>3, <6>2
        <5> QED BY <5>1, <5>2
      <4>5. Simple(r, m + 1) /\ (\A i \in 1..m : r[i] = q[i]) /\ r[m + 1] = n
        <5>1. \A i \in 1..m : q[i] # n
          BY <4>4
        <5>2. RefCost(q[m], n) # LINK_COST_BROKEN
          BY <3>2, <4>3
        <5> QED BY <3>1, <4>3, <5>1, <5>2, ExtendedSimple
      <4>6. PathCost(r) = PathCost(q) + RefCost(q[m], n)
        BY <3>1, <4>3, ExtendedCost
      <4>7. PathCost(r) = t.cost[n]
        BY <3>1, <3>2, <4>2, <4>3, <4>6 DEF FoundBy
      <4>8. t.hop[n] \in SymLinksTo(r[2])
        <5>1. s.hop[a] \in SymLinksTo(q[2]) /\ r[2] = q[2]
          BY <4>2, <4>3, <4>5 DEF FoundBy
        <5>2. s.hop[a] # None
          BY <5>1, RoutesAssumption DEF SymLinksTo, LinksTo
        <5> QED BY <3>1, <5>1, <5>2
      <4>9. \A i \in 1..((m + 1) - 1) : r[i] \in Done(t)
        BY <4>3, <4>4, <4>5
      <4>10. t.hops[n] = (m + 1) - 1
        BY <3>1, <4>2, <4>3 DEF FoundBy
      <4> HIDE DEF r
      <4>11. FoundBy(t, n, r, m + 1)
        BY <4>3, <4>5, <4>7, <4>8, <4>9, <4>10 DEF FoundBy
      <4> QED BY <4>11
    <3> QED BY <3>4, <3>5
  <2> QED BY <2>7, <2>8, <2>10, <2>11, <2>12 DEF Found, t
<1> QED BY <1>1, <1>2

\* A run starts with us reached only.
LEMMA FoundStart ==
    ASSUME DbOK, NEW e \in EdgeMaps
    PROVE  Found(e, SpfStart(e))
<1>1. SpfStart(e).hops[myself] = 0
  BY RoutesAssumption DEF SpfStart
<1>2. Reached(SpfStart(e)) = {myself}
  BY StartOK
<1> QED BY <1>1, <1>2 DEF Found

-----------------------------------------------------------------------------
(* What a run computes                                                     *)

\* Any run stays within the bounds.
LEMMA RunBounded ==
    ASSUME DbOK
    PROVE  /\ olsr_spf_run_full(RunEdges) \in SpfStates
           /\ Bounded(olsr_spf_run_full(RunEdges), N)
<1> DEFINE e == RunEdges
<1>1. e \in EdgeMaps /\ N \in Nat
  BY RunEdgesType, NodeCount
<1> HIDE DEF e
<1>2. SpfStart(e) \in SpfStates /\ Bounded(SpfStart(e), 0)
  BY <1>1, StartOK
<1>3. PICK f : Passes(f, e) /\ olsr_spf_run_full(e) = f[N]
  BY <1>1, <1>2, RunDefined
<1> DEFINE S == {k \in 0..N : Bounded(f[k], k)}
<1>4. 0 \in S
  BY <1>1, <1>2, <1>3 DEF Passes
<1>5. ASSUME NEW k \in 1..N, k - 1 \in S PROVE k \in S
  <2>1. f[k] = SpfPass(e, f[k - 1], k) /\ f[k - 1] \in SpfStates /\ Bounded(f[k - 1], k - 1)
    BY <1>3, <1>5 DEF Passes
  <2>2. k \in Nat \ {0}
    BY <1>1
  <2>3. Bounded(f[k], k)
    BY <1>1, <2>1, <2>2, BoundedStep
  <2> QED BY <1>1, <2>3
<1> HIDE DEF S
<1>6. 0..N \subseteq S
  BY <1>1, <1>4, <1>5, IntervalInduction
<1>7. N \in S /\ f[N] \in SpfStates
  BY <1>1, <1>3, <1>6 DEF Passes
<1> QED BY <1>3, <1>7 DEF S, e

\* What is true of the state of a run, whatever the edges are.
RunInv(e, s, k) ==
    /\ Bounded(s, k) /\ Settling(e, s, k) /\ Found(e, s)
    /\ cnf.lq_level = 0 => Queued(e, s, k)

\* A run ends with no candidate, and its invariants hold then.
LEMMA RunSettles ==
    ASSUME DbOK, OwnEdges
    PROVE  /\ RunInv(RunEdges, olsr_spf_run_full(RunEdges), N)
           /\ olsr_spf_run_full(RunEdges).cand = {}
<1> DEFINE e == RunEdges
<1>1. e \in EdgeMaps /\ N \in Nat /\ (cnf.lq_level = 0 => FlatEdges(e)) /\ e = RunEdges
  BY RunEdgesType, NodeCount
<1> HIDE DEF e
<1>2. SpfStart(e) \in SpfStates /\ RunInv(e, SpfStart(e), 0)
  BY <1>1, StartOK, FoundStart DEF RunInv
<1>3. PICK f : Passes(f, e) /\ olsr_spf_run_full(e) = f[N]
  BY <1>1, <1>2, RunDefined
<1> DEFINE S == {k \in 0..N : RunInv(e, f[k], k)}
<1>4. 0 \in S
  BY <1>1, <1>2, <1>3 DEF Passes
<1>5. ASSUME NEW k \in 1..N, k - 1 \in S PROVE k \in S
  <2>1. f[k] = SpfPass(e, f[k - 1], k) /\ f[k - 1] \in SpfStates /\ RunInv(e, f[k - 1], k - 1)
    BY <1>3, <1>5 DEF Passes
  <2>2. k \in Nat \ {0}
    BY <1>1
  <2>3. Bounded(f[k - 1], k - 1) /\ Settling(e, f[k - 1], k - 1) /\ Found(e, f[k - 1])
    BY <2>1 DEF RunInv
  <2>4. Bounded(f[k], k)
    BY <1>1, <2>1, <2>2, <2>3, BoundedStep
  <2>5. Settling(e, f[k], k)
    BY <1>1, <2>1, <2>2, <2>3, SettlingStep
  <2>6. Found(e, f[k])
    BY <1>1, <2>1, <2>2, <2>3, FoundStep
  <2>7. cnf.lq_level = 0 => Queued(e, f[k], k)
    BY <1>1, <2>1, <2>2, <2>3, QueuedStep DEF RunInv
  <2> QED BY <1>1, <2>4, <2>5, <2>6, <2>7 DEF RunInv
<1> HIDE DEF S
<1>6. 0..N \subseteq S
  BY <1>1, <1>4, <1>5, IntervalInduction
<1>7. N \in S /\ f[N] \in SpfStates
  BY <1>1, <1>3, <1>6 DEF Passes
<1>8. RunInv(e, f[N], N)
  BY <1>7 DEF S
<1>9. f[N].cand = {}
  <2>1. CASE f[N].cand # {}
    <3>1. Cardinality(Done(f[N])) = Cardinality(Nodes)
      BY <1>8, <2>1 DEF RunInv, Settling, N
    <3>2. Done(f[N]) \in SUBSET Nodes /\ IsFiniteSet(Nodes)
      BY RoutesAssumption DEF Done, Reached
    <3>3. Done(f[N]) = Nodes
      BY <3>1, <3>2, FS_Subset
    <3>4. f[N].cand \subseteq Nodes
      BY <1>7, SpfTypes
    <3> QED BY <2>1, <3>3, <3>4 DEF Done
  <2> QED BY <2>1
<1> QED BY <1>3, <1>8, <1>9 DEF e

\* Multiplication is monotonic.
LEMMA TimesMonotonic ==
    ASSUME NEW x \in Nat, NEW y \in Nat, NEW z \in Nat, y <= z
    PROVE  x * y <= x * z
<1>1. PICK d \in Nat : z = y + d
  <2>1. z - y \in Nat /\ z = y + (z - y)
    OBVIOUS
  <2> QED BY <2>1
<1>2. x * (y + d) = x * y + x * d /\ x * y \in Nat /\ x * d \in Nat
  OBVIOUS
<1> QED BY <1>1, <1>2

\* No path is shorter than what a run found, and a node with a path is reached; without link
\* quality no path has fewer hops.
LEMMA NoShorterPath ==
    ASSUME DbOK, OwnEdges, NEW m \in Nat, m >= 2, NEW q, Simple(q, m), NEW s,
           s = olsr_spf_run_full(RunEdges)
    PROVE  /\ q[m] \in Reached(s) \ {myself}
           /\ s.cost[q[m]] <= PathCost(q)
           /\ cnf.lq_level = 0 => s.hops[q[m]] <= m - 1
<1> DEFINE e == RunEdges
           L == LINK_COST_BROKEN
           R == ROUTE_COST_BROKEN
<1>1. s \in SpfStates /\ RunInv(e, s, N) /\ s.cand = {} /\ e \in EdgeMaps
  BY RunBounded, RunSettles, RunEdgesType
<1>2. q \in [1..m -> Nodes] /\ q[1] = myself
  BY DEF Simple
<1>3. m - 1 \in Nat /\ (m - 1) + 1 = m
  OBVIOUS
<1>4. PICK sum : Sums(sum, q, m - 1) /\ PathCost(q) = sum[m - 1]
  BY <1>2, <1>3, PathCostSums
<1>5. L \in Nat /\ R \in Nat /\ N \in Nat /\ m <= N /\ L * N < R
  <2> DEFINE Q == {q[i] : i \in 1..m}
  <2>1. Q \in SUBSET Nodes /\ Cardinality(Q) = m
    BY <1>2 DEF Simple
  <2> HIDE DEF Q
  <2>2. m <= Cardinality(Nodes)
    BY <2>1, FS_Subset, RoutesAssumption
  <2> QED BY <2>2, BrokenCosts, NodeCount, RoutesAssumption DEF N
<1>6. \A i \in 0..(m - 1) : L * i < R
  <2> SUFFICES ASSUME NEW i \in 0..(m - 1) PROVE L * i < R
    OBVIOUS
  <2>1. i \in Nat /\ i <= N
    BY <1>5
  <2>2. L * i <= L * N /\ L * i \in Nat /\ L * N \in Nat
    BY <1>5, <2>1, TimesMonotonic
  <2> QED BY <1>5, <2>2
<1>7. \A n \in Nodes : s.cost[n] \in Nat /\ s.hops[n] \in Nat
  BY <1>1, SpfTypes
<1>8. Done(s) = Reached(s)
  BY <1>1 DEF Done
\* q visits a node once, so it does not come back to us.
<1>9. \A i \in 2..m : q[i] # myself
  <2> DEFINE Q == {q[i] : i \in 1..m}
  <2>1. Cardinality(Q) = m /\ Q \in SUBSET Nodes
    BY <1>2 DEF Simple
  <2>2. \A i, j \in 1..m : i # j => q[i] # q[j]
    <3>1. q \in Surjection(1..m, Q)
      BY <1>2 DEF Surjection
    <3>2. IsFiniteSet(1..m) /\ Cardinality(1..m) = m
      BY FS_Interval
    <3> HIDE DEF Q
    <3>3. q \in Injection(1..m, Q)
      BY <2>1, <3>1, <3>2, FS_Surjection
    <3> QED BY <3>3 DEF Injection, IsInjective
  <2> QED BY <1>2, <2>2
<1> DEFINE Good(i) == /\ sum[i] <= L * i
                      /\ s.cost[q[i + 1]] <= sum[i]
                      /\ q[i + 1] \in Reached(s)
                      /\ cnf.lq_level = 0 => s.hops[q[i + 1]] <= i
           S == {i \in 0..(m - 1) : Good(i)}
<1>10. 0 \in S
  <2>1. s.cost[myself] = 0 /\ s.hops[myself] = 0
    BY <1>1 DEF RunInv, Bounded, Found
  <2>2. myself \in Reached(s)
    BY <2>1, BrokenCosts, RoutesAssumption DEF Reached
  <2>3. sum[0] = 0 /\ L * 0 = 0 /\ 0 + 1 = 1 /\ 0 \in 0..(m - 1)
    BY <1>4, <1>5 DEF Sums
  <2>4. Good(0)
    BY <1>2, <2>1, <2>2, <2>3
  <2> QED BY <2>3, <2>4
<1> HIDE DEF Good
<1>11. ASSUME NEW k \in 1..(m - 1), k - 1 \in S PROVE k \in S
  <2>0. (k - 1) + 1 = k /\ k \in 0..(m - 1) /\ k - 1 \in Nat /\ k \in Nat
    BY <1>3
  <2>1. Good(k - 1)
    BY <1>11
  <2> DEFINE a == q[k]
             b == q[k + 1]
  <2>2. a \in Nodes /\ b \in Nodes \ {myself}
    <3>1. k \in 1..m /\ k + 1 \in 2..m /\ k + 1 \in 1..m
      BY <1>3
    <3> QED BY <1>2, <1>9, <3>1
  <2>3. Usable(e, a, b) /\ RefCost(a, b) = e[<<a, b>>]
    <3>1. RefCost(a, b) # LINK_COST_BROKEN
      BY DEF Simple
    <3> HIDE DEF a, b
    <3> QED BY <2>2, <3>1, RefCostRun
  <2>4. /\ sum[k - 1] <= L * (k - 1) /\ s.cost[a] <= sum[k - 1] /\ a \in Reached(s)
        /\ cnf.lq_level = 0 => s.hops[a] <= k - 1
    BY <2>0, <2>1 DEF Good
  <2>5. sum[k] = sum[k - 1] + RefCost(a, b) /\ sum[k] \in Nat /\ sum[k - 1] \in Nat
    BY <1>4, <2>0 DEF Sums
  <2> HIDE DEF a, b, e
  <2>6. RefCost(a, b) \in Nat /\ RefCost(a, b) <= L
    BY <2>2, RefCostType
  <2>7. sum[k] <= L * k
    <3>1. L * k = L * (k - 1) + L /\ L * (k - 1) \in Nat /\ L * k \in Nat
      BY <1>5, <2>0
    <3> HIDE DEF L
    <3> QED BY <1>5, <2>4, <2>5, <2>6, <3>1
  <2>8. s.cost[b] <= s.cost[a] + e[<<a, b>>]
    BY <1>1, <1>8, <2>2, <2>3, <2>4 DEF RunInv, Settling
  <2>9. s.cost[b] <= sum[k]
    BY <1>7, <2>2, <2>3, <2>4, <2>5, <2>6, <2>8
  <2>10. b \in Reached(s)
    <3>1. L * k < R /\ L * k \in Nat
      BY <1>5, <1>6, <2>0
    <3> HIDE DEF L
    <3>2. s.cost[b] < R
      BY <1>5, <1>7, <2>2, <2>5, <2>7, <2>9, <3>1
    <3> QED BY <2>2, <3>2 DEF Reached
  <2>11. cnf.lq_level = 0 => s.hops[b] <= k
    <3> SUFFICES ASSUME cnf.lq_level = 0 PROVE s.hops[b] <= k
      OBVIOUS
    <3>1. s.hops[b] <= s.hops[a] + 1
      BY <1>1, <1>8, <2>2, <2>3, <2>4 DEF RunInv, Queued
    <3> QED BY <1>7, <2>0, <2>2, <2>4, <3>1
  <2>12. Good(k)
    BY <2>7, <2>9, <2>10, <2>11 DEF Good, b
  <2> QED BY <2>0, <2>12
<1> HIDE DEF S
<1>12. 0..(m - 1) \subseteq S
  BY <1>3, <1>10, <1>11, IntervalInduction
<1>13. Good(m - 1)
  BY <1>3, <1>12 DEF S
<1>14. q[m] # myself
  BY <1>9
<1> QED BY <1>3, <1>4, <1>13, <1>14 DEF Good

-----------------------------------------------------------------------------
(* The routing table                                                       *)

Prefixes == Nodes \cup {h[2] : h \in Hnas}
NextHops == [gw : {w.gw : w \in Wires}, inter : Ifaces]
HeadTypes == [best : Nodes \cup {None}, nh : NextHops \cup {NoHop}, hops : Nat]

RibOK(r) == DOMAIN r \subseteq Nodes \X Prefixes /\ \A x \in DOMAIN r : r[x] \in Path
TreeOK(tree) == \A p \in DOMAIN tree : tree[p] \in HeadTypes
Headed(r, tree) == \A x \in DOMAIN r : x[2] \in DOMAIN tree

\* The best path of a prefix is one of its paths.
LEMMA RtBest ==
    ASSUME NEW r, RibOK(r), NEW p, PathsOf(r, p) # {}
    PROVE  /\ olsr_rt_best(r, p) \in PathsOf(r, p)
           /\ olsr_rt_best(r, p) \in Nodes
           /\ <<olsr_rt_best(r, p), p>> \in DOMAIN r
           /\ r[<<olsr_rt_best(r, p), p>>] \in Path
<1> DEFINE P == PathsOf(r, p)
           f == [o \in P |-> CmpCost(r, o, p)]
           g == [o \in P |-> r[<<o, p>>].hops]
<1>1. P \in SUBSET Nat /\ \A o \in P : o \in Nodes /\ <<o, p>> \in DOMAIN r /\ r[<<o, p>>] \in Path
  BY RoutesAssumption DEF PathsOf, RibOK
<1>2. \A o \in P : r[<<o, p>>].cost \in Nat /\ r[<<o, p>>].hops \in Nat
  BY <1>1, BrokenCosts, NodeCount DEF Path, N
<1>3. \A c \in Nat : (c * NAT_NUM) \div NAT_DEN \in Nat
  <2> SUFFICES ASSUME NEW c \in Nat PROVE (c * NAT_NUM) \div NAT_DEN \in Nat
    OBVIOUS
  <2>1. NAT_NUM \in Nat /\ NAT_DEN \in Nat /\ NAT_DEN > 0
    BY RoutesAssumption
  <2>2. c * NAT_NUM \in Nat
    BY <2>1
  <2> DEFINE x == c * NAT_NUM
  <2>3. x \in Nat
    BY <2>2
  <2> HIDE DEF x
  <2>4. x \div NAT_DEN \in Nat
    BY <2>1, <2>3
  <2> QED BY <2>4 DEF x
<1>4. \A o \in P : CmpCost(r, o, p) \in Nat
  BY <1>2, <1>3 DEF CmpCost
<1>5. f \in [P -> Nat] /\ g \in [P -> Nat] /\ \A o \in P : f[o] = CmpCost(r, o, p) /\ g[o] = r[<<o, p>>].hops
  BY <1>2, <1>4
<1> HIDE DEF f, g
<1>6. PICK o \in P : \A o2 \in P \ {o} :
              \/ f[o] < f[o2]
              \/ f[o] = f[o2] /\ (g[o] < g[o2] \/ (g[o] = g[o2] /\ o < o2))
  BY <1>1, <1>5, FirstOf
<1>7. \A o2 \in P \ {o} : olsr_cmp_rtp(r, p, o, o2)
  BY <1>5, <1>6 DEF olsr_cmp_rtp
<1>8. olsr_rt_best(r, p) \in P
  BY <1>7 DEF olsr_rt_best
<1> QED BY <1>1, <1>8

\* The RIB of a run: paths over a link of ours, in range.
LEMMA NewRibOK ==
    ASSUME DbOK, prefix_tree \subseteq Nodes \X Prefixes, NEW s, s = olsr_spf_run_full(RunEdges)
    PROVE  /\ RibOK(NewRib(s)) /\ DOMAIN NewRib(s) \subseteq prefix_tree
           /\ \A x \in DOMAIN NewRib(s) : \E w \in Wires :
                 s.hop[x[1]] = w /\ NewRib(s)[x].nh = [gw |-> w.gw, inter |-> w.inter]
<1>1. s \in SpfStates /\ Bounded(s, N)
  BY RunBounded
<1>2. DOMAIN NewRib(s) \subseteq prefix_tree
  BY DEF NewRib
<1>3. ASSUME NEW x \in DOMAIN NewRib(s)
      PROVE  /\ NewRib(s)[x] \in Path
             /\ \E w \in Wires : s.hop[x[1]] = w /\ NewRib(s)[x].nh = [gw |-> w.gw, inter |-> w.inter]
  <2>1. x \in prefix_tree /\ s.cost[x[1]] < ROUTE_COST_BROKEN /\ s.hop[x[1]] # None
    BY DEF NewRib
  <2>2. NewRib(s)[x] = [nh |-> [gw |-> s.hop[x[1]].gw, inter |-> s.hop[x[1]].inter],
                        hops |-> s.hops[x[1]], cost |-> s.cost[x[1]]]
    BY <2>1 DEF NewRib
  <2>3. x[1] \in Nodes
    BY <2>1
  <2>4. s.hop[x[1]] \in Wires /\ s.cost[x[1]] \in Nat /\ s.hops[x[1]] \in Nat
    BY <1>1, <2>1, <2>3, SpfTypes
  <2>5. x[1] \in Reached(s) /\ x[1] # myself
    BY <1>1, <2>1, <2>3 DEF Reached, Bounded
  <2>6. s.hops[x[1]] >= 1 /\ s.hops[x[1]] <= N
    BY <1>1, <2>3, <2>5 DEF Bounded
  <2>7. s.hops[x[1]] \in 1..Cardinality(Nodes) /\ s.cost[x[1]] \in 0..ROUTE_COST_BROKEN
    BY <2>1, <2>4, <2>6, NodeCount, BrokenCosts DEF N
  <2>8. [gw |-> s.hop[x[1]].gw, inter |-> s.hop[x[1]].inter] \in [gw : {w.gw : w \in Wires}, inter : Ifaces]
    BY <2>4, RoutesAssumption
  <2> QED BY <2>2, <2>4, <2>7, <2>8 DEF Path
<1> QED BY <1>2, <1>3 DEF RibOK

\* The heads with those of new prefixes.
LEMMA WithHeadsOK ==
    ASSUME NEW r, RibOK(r), NEW tree, TreeOK(tree)
    PROVE  TreeOK(WithHeads(tree, r)) /\ Headed(r, WithHeads(tree, r))
<1>1. None \in Nodes \cup {None} /\ NoHop \in NextHops \cup {NoHop} /\ 0 \in Nat
  OBVIOUS
<1>2. [best |-> None, nh |-> NoHop, hops |-> 0] \in HeadTypes
  BY <1>1 DEF HeadTypes
<1>3. \A p \in DOMAIN WithHeads(tree, r) :
         WithHeads(tree, r)[p] = IF p \in DOMAIN tree THEN tree[p] ELSE [best |-> None, nh |-> NoHop, hops |-> 0]
  BY DEF WithHeads
<1>4. DOMAIN WithHeads(tree, r) = DOMAIN tree \cup {x[2] : x \in DOMAIN r}
  BY DEF WithHeads
<1> QED BY <1>2, <1>3, <1>4 DEF TreeOK, Headed

\* The update of heads and kernel keeps their types.
LEMMA UpdateTypes ==
    ASSUME NEW r, RibOK(r), NEW tree, TreeOK(tree), Headed(r, tree), NEW no, UpdateRoutes(r, tree, no)
    PROVE  /\ rib' = r
           /\ TreeOK(routingtree') /\ Headed(r, routingtree')
           /\ \/ current_inetgw' = current_inetgw
              \/ current_inetgw' \in Nodes /\ <<current_inetgw', Default>> \in DOMAIN r
<1>1. rib' = r
  BY DEF UpdateRoutes
<1>2. /\ DOMAIN routingtree' = HeadsKept(r, tree, no)
      /\ \A p \in HeadsKept(r, tree, no) :
            routingtree'[p] = IF PathsOf(r, p) = {} THEN Headless(tree[p], p) ELSE UpdatedHead(r, tree[p], p, no)
  BY DEF UpdateRoutes
<1>3. HeadsKept(r, tree, no) \subseteq DOMAIN tree
  BY DEF HeadsKept
<1>4. ASSUME NEW p \in HeadsKept(r, tree, no) PROVE routingtree'[p] \in HeadTypes
  <2>1. tree[p] \in HeadTypes
    BY <1>3 DEF TreeOK
  <2>2. CASE PathsOf(r, p) = {}
    <3>1. Headless(tree[p], p) \in HeadTypes
      BY <2>1 DEF Headless, HeadTypes
    <3> QED BY <1>2, <2>2, <3>1
  <2>3. CASE PathsOf(r, p) # {}
    <3> DEFINE best == olsr_rt_best(r, p)
               path == r[<<best, p>>]
    <3>1. best \in Nodes /\ path \in Path
      BY <2>3, RtBest
    <3> HIDE DEF best
    <3>2. path.nh \in NextHops /\ path.hops \in Nat
      BY <3>1, NodeCount DEF Path, NextHops, N
    <3>3. UpdatedHead(r, tree[p], p, no) \in {[best |-> best, nh |-> path.nh, hops |-> path.hops],
                                              [tree[p] EXCEPT !.best = best]}
      BY DEF UpdatedHead, best
    <3> HIDE DEF path
    <3>4. UpdatedHead(r, tree[p], p, no) \in HeadTypes
      BY <2>1, <3>1, <3>2, <3>3 DEF HeadTypes
    <3> QED BY <1>2, <2>3, <3>4
  <2> QED BY <2>2, <2>3
<1>5. TreeOK(routingtree')
  BY <1>2, <1>4 DEF TreeOK
<1>6. ASSUME NEW x \in DOMAIN r PROVE x[2] \in HeadsKept(r, tree, no)
  <2>1. x[2] \in DOMAIN tree /\ x[1] \in Nodes /\ x = <<x[1], x[2]>>
    BY DEF Headed, RibOK
  <2>2. PathsOf(r, x[2]) # {}
    BY <2>1 DEF PathsOf
  <2> QED BY <2>1, <2>2 DEF HeadsKept
<1>7. Headed(r, routingtree')
  BY <1>2, <1>6 DEF Headed
<1>8. CASE PathsOf(r, Default) = {}
  BY <1>1, <1>5, <1>7, <1>8 DEF UpdateRoutes
<1>9. CASE PathsOf(r, Default) # {}
  <2>1. current_inetgw' = olsr_rt_best(r, Default)
    BY <1>9 DEF UpdateRoutes
  <2>2. olsr_rt_best(r, Default) \in Nodes /\ <<olsr_rt_best(r, Default), Default>> \in DOMAIN r
    BY <1>9, RtBest
  <2> QED BY <1>1, <1>5, <1>7, <2>1, <2>2
<1> QED BY <1>8, <1>9

-----------------------------------------------------------------------------
(* The type invariant                                                      *)

\* The routing table belongs to the prefixes the daemon knows, and the default gateway in use
\* has a path.
TableOK ==
    /\ prefix_tree \subseteq Nodes \X Prefixes
    /\ DOMAIN rib \subseteq prefix_tree
    /\ RibOK(rib) /\ TreeOK(routingtree) /\ Headed(rib, routingtree)
    /\ current_inetgw \in Nodes \cup {None}
    /\ current_inetgw # None => <<current_inetgw, Default>> \in prefix_tree \/ ~running

TypeInv == DbOK /\ TableOK

LEMMA TypeInvInit ==
    Init => TypeInv
<1> SUFFICES ASSUME Init PROVE TypeInv
  OBVIOUS
<1>1. DbOK
  <2>1. edge \in EdgeMaps /\ \A e \in Pairs : edge[e] = NoEdge
    BY DEF Init, EdgeMaps, EdgeCosts
  <2>2. linkcost \in [Wires -> Costs \cup {NoLink, Asym}]
    BY DEF Init
  <2> QED BY <2>1, <2>2 DEF Init, DbOK, FlatEdges
<1>2. DOMAIN rib = {} /\ DOMAIN routingtree = {}
  BY DEF Init
<1>3. prefix_tree \subseteq Nodes \X Prefixes
  BY RoutesAssumption DEF Init, Prefixes
<1>4. current_inetgw = None
  BY DEF Init
<1> QED BY <1>1, <1>2, <1>3, <1>4 DEF TypeInv, TableOK, RibOK, TreeOK, Headed

\* Fewer edges of ours do no harm.
LEMMA FewerEdges ==
    ASSUME DbOK, NEW gone
    PROVE  /\ WithoutEdgesTo(gone) \in EdgeMaps
           /\ cnf.lq_level = 0 => FlatEdges(WithoutEdgesTo(gone))
<1> DEFINE d == WithoutEdgesTo(gone)
<1>1. \A e \in Pairs : d[e] = NoEdge \/ d[e] = edge[e]
  BY DEF WithoutEdgesTo
<1>2. NoEdge \in EdgeCosts
  BY DEF EdgeCosts
<1>3. d \in EdgeMaps
  BY <1>1, <1>2 DEF WithoutEdgesTo, EdgeMaps, DbOK
<1> HIDE DEF d
<1> QED BY <1>1, <1>3 DEF DbOK, FlatEdges, d

\* Paths may be deleted.
LEMMA FewerPaths ==
    ASSUME TableOK, NEW gone, DeletePaths(gone), running' = running
    PROVE  TableOK'
<1>1. /\ prefix_tree' = prefix_tree \ gone
      /\ DOMAIN rib' = DOMAIN rib \ gone
      /\ \A x \in DOMAIN rib' : rib'[x] = rib[x]
      /\ routingtree' = routingtree
  BY DEF DeletePaths
<1>2. RibOK(rib')
  BY <1>1 DEF TableOK, RibOK
<1>3. Headed(rib', routingtree')
  BY <1>1 DEF TableOK, Headed
<1>4. current_inetgw' = IF <<current_inetgw, Default>> \in gone THEN None ELSE current_inetgw
  BY DEF DeletePaths
<1> QED BY <1>1, <1>2, <1>3, <1>4 DEF TableOK

\* More prefixes do no harm.
LEMMA MorePrefixes ==
    ASSUME TableOK, NEW new \in SUBSET (Nodes \X Prefixes), prefix_tree' = prefix_tree \cup new,
           UNCHANGED <<ribVars, running>>
    PROVE  TableOK'
<1>1. rib' = rib /\ routingtree' = routingtree /\ current_inetgw' = current_inetgw /\ running' = running
  BY DEF ribVars
<1> QED BY <1>1 DEF TableOK

LEMMA SameTables ==
    ASSUME TableOK, UNCHANGED <<prefix_tree, ribVars, running>>
    PROVE  TableOK'
BY DEF TableOK, ribVars

\* An update of the routes keeps the table.
LEMMA UpdatedTable ==
    ASSUME TableOK, NEW r, RibOK(r), NEW tree, TreeOK(tree), Headed(r, tree), NEW no,
           UpdateRoutes(r, tree, no), DOMAIN r \subseteq prefix_tree',
           prefix_tree' = prefix_tree \/ (prefix_tree' = {} /\ ~running'), running' => running
    PROVE  TableOK'
<1>1. /\ rib' = r
      /\ TreeOK(routingtree') /\ Headed(r, routingtree')
      /\ \/ current_inetgw' = current_inetgw
         \/ current_inetgw' \in Nodes /\ <<current_inetgw', Default>> \in DOMAIN r
  BY UpdateTypes
<1> QED BY <1>1 DEF TableOK

\* What is left of the heads when an interface is removed.
InterfaceTree(i) ==
    [p \in DOMAIN routingtree \ InterfaceHeads(i) |->
        IF <<routingtree[p].best, p>> \in DOMAIN rib /\ rib[<<routingtree[p].best, p>>].nh.inter = i
        THEN [routingtree[p] EXCEPT !.best = None] ELSE routingtree[p]]

\* What is left of the RIB.
InterfaceRib(i) ==
    [x \in {x \in DOMAIN rib : rib[x].nh.inter # i} |-> rib[x]]

LEMMA InterfaceTables ==
    ASSUME TableOK, NEW i
    PROVE  /\ RibOK(InterfaceRib(i)) /\ DOMAIN InterfaceRib(i) \subseteq prefix_tree
           /\ TreeOK(InterfaceTree(i)) /\ Headed(InterfaceRib(i), InterfaceTree(i))
<1> DEFINE r == InterfaceRib(i)
           tree == InterfaceTree(i)
<1>1. /\ DOMAIN r = {x \in DOMAIN rib : rib[x].nh.inter # i}
      /\ \A x \in DOMAIN r : r[x] = rib[x]
  BY DEF InterfaceRib
<1>2. /\ DOMAIN tree = DOMAIN routingtree \ InterfaceHeads(i)
      /\ \A p \in DOMAIN tree : tree[p] = [routingtree[p] EXCEPT !.best = None] \/ tree[p] = routingtree[p]
  BY DEF InterfaceTree
<1> HIDE DEF r, tree
<1>3. RibOK(r) /\ DOMAIN r \subseteq prefix_tree
  BY <1>1 DEF TableOK, RibOK
<1>4. ASSUME NEW p \in DOMAIN tree PROVE tree[p] \in HeadTypes
  <2>1. routingtree[p] \in HeadTypes
    BY <1>2 DEF TableOK, TreeOK
  <2>2. [routingtree[p] EXCEPT !.best = None] \in HeadTypes
    BY <2>1 DEF HeadTypes
  <2> QED BY <1>2, <2>1, <2>2
<1>5. ASSUME NEW x \in DOMAIN r PROVE x[2] \in DOMAIN tree
  <2>1. x \in DOMAIN rib /\ x[2] \in DOMAIN routingtree /\ x[1] \in Nodes /\ x = <<x[1], x[2]>>
    BY <1>1 DEF TableOK, Headed, RibOK
  <2>2. x[1] \in PathsOf(rib, x[2])
    BY <2>1 DEF PathsOf
  <2>3. rib[<<x[1], x[2]>>].nh.inter # i
    BY <1>1, <2>1
  <2> QED BY <1>2, <2>1, <2>2, <2>3 DEF InterfaceHeads
<1> QED BY <1>3, <1>4, <1>5 DEF TreeOK, Headed, r, tree

\* What olsr_delete_interface_routes does to the routing table.
LEMMA InterfaceRoutes ==
    ASSUME TableOK, NEW i, olsr_delete_interface_routes(i)
    PROVE  \/ \E no \in Refusals : UpdateRoutes(InterfaceRib(i), InterfaceTree(i), no)
           \/ /\ rib' = InterfaceRib(i)
              /\ UNCHANGED <<routingtree, current_inetgw, kernel, refused, stray>>
              /\ \A p \in DOMAIN routingtree : <<routingtree[p].best, p>> \in DOMAIN rib
                    => rib[<<routingtree[p].best, p>>].nh.inter # i
<1> DEFINE gone == {x \in DOMAIN rib : rib[x].nh.inter = i}
           r == [x \in DOMAIN rib \ gone |-> rib[x]]
           hit == {p \in DOMAIN routingtree : <<routingtree[p].best, p>> \in gone}
           tree == [p \in DOMAIN routingtree \ InterfaceHeads(i) |->
                       IF p \in hit THEN [routingtree[p] EXCEPT !.best = None] ELSE routingtree[p]]
<1>1. r = InterfaceRib(i)
  <2>1. DOMAIN rib \ gone = {x \in DOMAIN rib : rib[x].nh.inter # i}
    OBVIOUS
  <2> QED BY <2>1 DEF InterfaceRib
<1>2. tree = InterfaceTree(i)
  <2>1. \A p \in DOMAIN routingtree : p \in hit <=>
           <<routingtree[p].best, p>> \in DOMAIN rib /\ rib[<<routingtree[p].best, p>>].nh.inter = i
    OBVIOUS
  <2> HIDE DEF hit
  <2> QED BY <2>1 DEF InterfaceTree
<1>3. IF hit # {} THEN \E no \in Refusals : UpdateRoutes(r, tree, no)
      ELSE rib' = r /\ UNCHANGED <<routingtree, current_inetgw, kernel, refused, stray>>
  BY DEF olsr_delete_interface_routes
<1>4. hit = {} => \A p \in DOMAIN routingtree : <<routingtree[p].best, p>> \in DOMAIN rib
                    => rib[<<routingtree[p].best, p>>].nh.inter # i
  OBVIOUS
<1> HIDE DEF hit, r, tree
<1> QED BY <1>1, <1>2, <1>3, <1>4

\* A run of olsr_calculate_routing_table: its RIB replaces the old one.
LEMMA CalculatedTable ==
    ASSUME TypeInv, olsr_calculate_routing_table, UNCHANGED <<cnf, running>>
    PROVE  /\ TypeInv'
           /\ rib' = NewRib(olsr_spf_run_full(RunEdges))
<1> DEFINE r == NewRib(olsr_spf_run_full(RunEdges))
<1>1. RibOK(r) /\ DOMAIN r \subseteq prefix_tree
  BY NewRibOK DEF TypeInv, TableOK
<1>2. TreeOK(WithHeads(routingtree, r)) /\ Headed(r, WithHeads(routingtree, r))
  BY <1>1, WithHeadsOK DEF TypeInv, TableOK
<1>3. PICK no \in Refusals : UpdateRoutes(r, WithHeads(routingtree, r), no)
  BY DEF olsr_calculate_routing_table
<1> HIDE DEF r
<1>4. TableOK'
  <2>1. prefix_tree' = prefix_tree
    BY DEF olsr_calculate_routing_table
  <2>2. DOMAIN r \subseteq prefix_tree' /\ TableOK
    BY <1>1, <2>1 DEF TypeInv
  <2> QED BY <1>1, <1>2, <1>3, <2>1, <2>2, UpdatedTable
<1>5. DbOK'
  <2>1. edge' = RunEdges /\ linkcost' = linkcost /\ cnf' = cnf
    BY DEF olsr_calculate_routing_table
  <2>2. RunEdges \in EdgeMaps /\ (cnf.lq_level = 0 => FlatEdges(RunEdges))
    BY RunEdgesType DEF TypeInv
  <2> QED BY <2>1, <2>2 DEF DbOK, TypeInv
<1>6. rib' = r
  BY <1>3 DEF UpdateRoutes
<1> QED BY <1>4, <1>5, <1>6 DEF TypeInv, r

\* A step keeps the type invariant.
LEMMA TypeInvStep ==
    TypeInv /\ [Next]_vars => TypeInv'
<1> SUFFICES ASSUME TypeInv, [Next]_vars PROVE TypeInv'
  OBVIOUS
<1>0. DbOK /\ TableOK
  BY DEF TypeInv
<1>1. ASSUME NEW w \in Wires, NEW c \in Costs \cup {Asym}, LinkChanges(w, c) PROVE TypeInv'
  <2>1. linkcost' \in [Wires -> Costs \cup {NoLink, Asym}]
    BY <1>0, <1>1 DEF LinkChanges, DbOK
  <2>2. UNCHANGED <<cnf, edge, prefix_tree, ribVars, running>>
    BY <1>1 DEF LinkChanges, Event
  <2>3. DbOK'
    BY <1>0, <2>1, <2>2 DEF DbOK
  <2>4. TableOK'
    BY <1>0, <2>2, SameTables
  <2> QED BY <2>3, <2>4 DEF TypeInv
<1>2. ASSUME NEW w \in Wires, olsr_delete_link_entry(w) PROVE TypeInv'
  <2>1. linkcost' \in [Wires -> Costs \cup {NoLink, Asym}]
    BY <1>0, <1>2 DEF olsr_delete_link_entry, DbOK
  <2>2. UNCHANGED <<cnf, prefix_tree, ribVars, running>> /\ edge' = WithoutEdgesTo({w})
    BY <1>2 DEF olsr_delete_link_entry, Event
  <2>3. DbOK'
    BY <1>0, <2>1, <2>2, FewerEdges DEF DbOK
  <2>4. TableOK'
    BY <1>0, <2>2, SameTables
  <2> QED BY <2>3, <2>4 DEF TypeInv
<1>3. ASSUME NEW a \in Adverts, TcBelieved(a[1], a[2]) PROVE TypeInv'
  <2> DEFINE o == a[1]
             adv == a[2]
  <2>1. /\ edge' = [e \in Pairs |-> IF e[1] # o THEN edge[e]
                       ELSE IF e[2] \in DOMAIN adv THEN EdgeCost(adv[e[2]]) ELSE NoEdge]
        /\ prefix_tree' = prefix_tree \cup {<<o, o>>}
        /\ UNCHANGED <<cnf, linkcost, ribVars, running>>
    BY <1>3 DEF TcBelieved, Event
  <2>2. o \in Nodes /\ \A n \in DOMAIN adv : adv[n] \in Costs
    BY RoutesAssumption
  <2> HIDE DEF o, adv
  <2>3. \A n \in DOMAIN adv : EdgeCost(adv[n]) \in EdgeCosts /\ (cnf.lq_level = 0 => EdgeCost(adv[n]) = 0)
    BY <2>2 DEF EdgeCost, EdgeCosts
  <2>4. ASSUME NEW e \in Pairs
        PROVE  edge'[e] \in EdgeCosts /\ (cnf.lq_level = 0 => edge'[e] \in {NoEdge, 0})
    <3>1. edge[e] \in EdgeCosts /\ (cnf.lq_level = 0 => edge[e] \in {NoEdge, 0})
      BY <1>0 DEF DbOK, EdgeMaps, FlatEdges
    <3>2. NoEdge \in EdgeCosts
      BY DEF EdgeCosts
    <3>3. edge'[e] \in {edge[e], NoEdge} \/ (e[2] \in DOMAIN adv /\ edge'[e] = EdgeCost(adv[e[2]]))
      BY <2>1
    <3> QED BY <2>3, <3>1, <3>2, <3>3
  <2>5. edge' \in EdgeMaps
    BY <2>1, <2>4 DEF EdgeMaps
  <2>6. DbOK'
    BY <1>0, <2>1, <2>4, <2>5 DEF DbOK, FlatEdges
  <2>7. {<<o, o>>} \in SUBSET (Nodes \X Prefixes)
    BY <2>2 DEF Prefixes
  <2>8. TableOK'
    BY <1>0, <2>1, <2>7, MorePrefixes
  <2> QED BY <2>6, <2>8 DEF TypeInv
<1>4. ASSUME NEW o \in Nodes, olsr_delete_tc_entry(o) PROVE TypeInv'
  <2>1. /\ edge' = [e \in Pairs |-> IF e[1] = o THEN NoEdge ELSE edge[e]]
        /\ DeletePaths({x \in prefix_tree : x[1] = o})
        /\ UNCHANGED <<cnf, linkcost, running>>
    BY <1>4 DEF olsr_delete_tc_entry, Event
  <2>2. \A e \in Pairs : edge'[e] = NoEdge \/ edge'[e] = edge[e]
    BY <2>1
  <2>3. edge' \in EdgeMaps
    BY <1>0, <2>1 DEF EdgeMaps, DbOK, EdgeCosts
  <2>4. DbOK'
    BY <1>0, <2>1, <2>2, <2>3 DEF DbOK, FlatEdges
  <2>5. TableOK'
    BY <1>0, <2>1, FewerPaths
  <2> QED BY <2>4, <2>5 DEF TypeInv
<1>5. ASSUME NEW h \in Hnas, olsr_insert_routing_table(h[1], h[2]) PROVE TypeInv'
  <2>1. /\ UNCHANGED <<cnf, linkcost, edge, ribVars, running>>
        /\ prefix_tree' = prefix_tree \cup {<<h[1], h[1]>>, <<h[1], h[2]>>}
    BY <1>5 DEF olsr_insert_routing_table, Event
  <2>2. {<<h[1], h[1]>>, <<h[1], h[2]>>} \in SUBSET (Nodes \X Prefixes)
    BY RoutesAssumption DEF Prefixes
  <2>3. TableOK'
    BY <1>0, <2>1, <2>2, MorePrefixes
  <2>4. DbOK'
    BY <1>0, <2>1 DEF DbOK
  <2> QED BY <2>3, <2>4 DEF TypeInv
<1>6. ASSUME NEW h \in Hnas, olsr_delete_routing_table(h[1], h[2]) PROVE TypeInv'
  <2>1. UNCHANGED <<cnf, linkcost, edge, running>> /\ DeletePaths({<<h[1], h[2]>>})
    BY <1>6 DEF olsr_delete_routing_table, Event
  <2>2. TableOK'
    BY <1>0, <2>1, FewerPaths
  <2>3. DbOK'
    BY <1>0, <2>1 DEF DbOK
  <2> QED BY <2>2, <2>3 DEF TypeInv
<1>7. ASSUME UNCHANGED <<cnf, dbVars, ribVars, running>> PROVE TypeInv'
  <2>1. UNCHANGED <<cnf, linkcost, edge, prefix_tree, ribVars, running>>
    BY <1>7 DEF dbVars
  <2>2. TableOK'
    BY <1>0, <2>1, SameTables
  <2>3. DbOK'
    BY <1>0, <2>1 DEF DbOK
  <2> QED BY <2>2, <2>3 DEF TypeInv
<1>8. ASSUME NEW i \in Ifaces, InterfaceFails(i) \/ InterfaceRecovers(i) \/ chk_if_up(i) PROVE TypeInv'
  BY <1>7, <1>8 DEF InterfaceFails, InterfaceRecovers, chk_if_up, Event
<1>9. ASSUME NEW i \in Ifaces, olsr_remove_interface(i) PROVE TypeInv'
  <2> DEFINE gone == {w \in Wires : w.inter = i /\ linkcost[w] # NoLink}
  <2>1. /\ linkcost' = [w \in Wires |-> IF w \in gone THEN NoLink ELSE linkcost[w]]
        /\ edge' = WithoutEdgesTo(gone)
        /\ olsr_delete_interface_routes(i)
        /\ UNCHANGED <<cnf, prefix_tree, running>>
    BY <1>9 DEF olsr_remove_interface
  <2> HIDE DEF gone
  <2>2. DbOK'
    <3>1. linkcost' \in [Wires -> Costs \cup {NoLink, Asym}]
      BY <1>0, <2>1 DEF DbOK
    <3> QED BY <1>0, <2>1, <3>1, FewerEdges DEF DbOK
  <2>3. /\ RibOK(InterfaceRib(i)) /\ DOMAIN InterfaceRib(i) \subseteq prefix_tree'
        /\ TreeOK(InterfaceTree(i)) /\ Headed(InterfaceRib(i), InterfaceTree(i))
    BY <1>0, <2>1, InterfaceTables
  <2>4. CASE \E no \in Refusals : UpdateRoutes(InterfaceRib(i), InterfaceTree(i), no)
    <3>1. TableOK'
      BY <1>0, <2>1, <2>3, <2>4, UpdatedTable
    <3> QED BY <2>2, <3>1 DEF TypeInv
  <2>5. CASE rib' = InterfaceRib(i) /\ UNCHANGED <<routingtree, current_inetgw>>
    <3>1. Headed(rib', routingtree)
      BY <1>0, <2>5 DEF TableOK, Headed, InterfaceRib
    <3>2. TableOK'
      BY <1>0, <2>1, <2>3, <2>5, <3>1 DEF TableOK
    <3> QED BY <2>2, <3>2 DEF TypeInv
  <2> QED BY <1>0, <2>1, <2>4, <2>5, InterfaceRoutes
<1>10. CASE olsr_process_changes
  <2>1. UNCHANGED <<cnf, running>>
    BY <1>10 DEF olsr_process_changes
  <2>2. CASE olsr_calculate_routing_table
    BY <2>1, <2>2, CalculatedTable
  <2>3. CASE UNCHANGED <<dbVars, ribVars>>
    BY <1>7, <2>1, <2>3
  <2> QED BY <1>10, <2>2, <2>3 DEF olsr_process_changes
<1>11. CASE olsr_expire_spf_backoff
  BY <1>7, <1>11 DEF olsr_expire_spf_backoff
<1>12. CASE olsr_shutdown
  <2>1. /\ linkcost' = [w \in Wires |-> NoLink] /\ edge' = [e \in Pairs |-> NoEdge]
        /\ prefix_tree' = {} /\ cnf' = cnf /\ running' = FALSE
    BY <1>12 DEF olsr_shutdown
  <2>2. PICK no \in Refusals : UpdateRoutes(<< >>, routingtree, no)
    BY <1>12 DEF olsr_shutdown
  <2> DEFINE none == << >>
  <2>3. DOMAIN none = {}
    OBVIOUS
  <2>4. UpdateRoutes(none, routingtree, no)
    BY <2>2
  <2> HIDE DEF none
  <2>5. RibOK(none) /\ TreeOK(routingtree) /\ Headed(none, routingtree) /\ DOMAIN none \subseteq prefix_tree'
    BY <1>0, <2>3 DEF TableOK, RibOK, Headed
  <2>6. TableOK'
    BY <1>0, <2>1, <2>4, <2>5, UpdatedTable
  <2>7. DbOK'
    BY <1>0, <2>1 DEF DbOK, EdgeMaps, EdgeCosts, FlatEdges
  <2> QED BY <2>6, <2>7 DEF TypeInv
<1>13. CASE UNCHANGED vars
  BY <1>7, <1>13 DEF vars
<1>14. ASSUME Tables PROVE TypeInv'
  BY <1>1, <1>2, <1>3, <1>4, <1>5, <1>6, <1>14 DEF Tables
<1>15. ASSUME Interfaces PROVE TypeInv'
  BY <1>8, <1>9, <1>15 DEF Interfaces
<1> QED BY <1>10, <1>11, <1>12, <1>13, <1>14, <1>15 DEF Next

LEMMA TypeInvAlways ==
    Spec => []TypeInv
<1> QED BY TypeInvInit, TypeInvStep, PTL DEF Spec

\* The type invariant of the tables, the RIB and the heads: every path belongs to a prefix the
\* daemon knows and to a head, is within the hop and cost limits and leads over an interface of
\* ours, and the default gateway in use is never a freed path (olsr_delete_rt_path).
THEOREM RoutesTypeCorrect ==
    Spec => []TypeOK
<1>1. ASSUME TypeInv PROVE TypeOK
  <2>1. \A x \in DOMAIN rib : rib[x] \in Path /\ x[2] \in DOMAIN routingtree
    BY <1>1 DEF TypeInv, TableOK, RibOK, Headed
  <2>2. \A p \in DOMAIN routingtree : routingtree[p].best \in Nodes \cup {None}
    BY <1>1 DEF TypeInv, TableOK, TreeOK, HeadTypes
  <2> QED BY <1>1, <2>1, <2>2 DEF TypeInv, TableOK, TypeOK, DbOK, EdgeMaps, EdgeCosts
<1>2. TypeInv => TypeOK
  BY <1>1
<1> QED BY <1>2, TypeInvAlways, PTL

-----------------------------------------------------------------------------
(* Shortest paths                                                          *)

\* Only a run starts the backoff timer, and it replaces the RIB.
LEMMA RunReplaces ==
    ASSUME TypeInv, Next, Run
    PROVE  olsr_process_changes /\ olsr_calculate_routing_table /\ UNCHANGED <<cnf, running>>
<1>1. ~Tables
  BY DEF Run, Tables, LinkChanges, olsr_delete_link_entry, TcBelieved, olsr_delete_tc_entry,
         olsr_insert_routing_table, olsr_delete_routing_table
<1>2. ~Interfaces
  BY DEF Run, Interfaces, InterfaceFails, InterfaceRecovers, olsr_remove_interface, chk_if_up
<1>3. ~olsr_expire_spf_backoff /\ ~olsr_shutdown
  BY DEF Run, olsr_expire_spf_backoff, olsr_shutdown
<1>4. olsr_process_changes
  BY <1>1, <1>2, <1>3 DEF Next
<1> QED BY <1>4 DEF olsr_process_changes, Run

\* Every neighbour is heard from the interface with its main address: only there does the
\* deletion of a link (olsr_delete_link_entry) find the edge the SPF run has added.
HeardOnMain == \A w \in Wires : w.gw = w.nbr

\* Links that go take their edges with them.
LEMMA EdgesGone ==
    ASSUME HeardOnMain, OwnEdges, NEW gone \in SUBSET Wires, edge' = WithoutEdgesTo(gone),
           \A w \in Wires \ gone : linkcost'[w] = linkcost[w]
    PROVE  OwnEdges'
<1> SUFFICES ASSUME NEW n \in Nodes, LinksTo(n)' = {} PROVE edge'[<<myself, n>>] = NoEdge
  BY DEF OwnEdges
<1>1. <<myself, n>> \in Pairs
  BY RoutesAssumption DEF Pairs
<1>2. edge'[<<myself, n>>] = IF \E w \in gone : n = w.gw THEN NoEdge ELSE edge[<<myself, n>>]
  BY <1>1 DEF WithoutEdgesTo
<1>3. CASE LinksTo(n) = {}
  BY <1>2, <1>3 DEF OwnEdges
<1>4. CASE LinksTo(n) # {}
  <2>1. PICK w \in Wires : w.nbr = n /\ linkcost[w] # NoLink
    BY <1>4 DEF LinksTo
  <2>2. w \in gone
    BY <2>1 DEF LinksTo
  <2>3. w.gw = n
    BY <2>1 DEF HeardOnMain
  <2> QED BY <1>2, <2>2, <2>3
<1> QED BY <1>3, <1>4

\* A step keeps our edges to nodes we have a link to.
LEMMA OwnEdgesStep ==
    ASSUME HeardOnMain, TypeInv, OwnEdges, [Next]_vars
    PROVE  OwnEdges'
<1>0. \A n \in Nodes : <<myself, n>> \in Pairs
  BY RoutesAssumption DEF Pairs
<1>1. ASSUME NEW w \in Wires, NEW c \in Costs \cup {Asym}, LinkChanges(w, c) PROVE OwnEdges'
  <2>1. c # NoLink
    BY RoutesAssumption DEF NoLink, Asym
  <2>2. edge' = edge /\ linkcost' = [linkcost EXCEPT ![w] = c]
    BY <1>1 DEF LinkChanges
  <2>3. DOMAIN linkcost = Wires
    BY DEF TypeInv, DbOK
  <2>4. \A n \in Nodes : LinksTo(n) \subseteq LinksTo(n)'
    BY <2>1, <2>2, <2>3 DEF LinksTo
  <2> QED BY <2>2, <2>4 DEF OwnEdges
<1>2. ASSUME NEW w \in Wires, olsr_delete_link_entry(w) PROVE OwnEdges'
  <2>1. edge' = WithoutEdgesTo({w}) /\ linkcost' = [linkcost EXCEPT ![w] = NoLink] /\ DOMAIN linkcost = Wires
    BY <1>2 DEF olsr_delete_link_entry, TypeInv, DbOK
  <2>2. \A v \in Wires \ {w} : linkcost'[v] = linkcost[v]
    BY <2>1
  <2> QED BY <2>1, <2>2, EdgesGone
<1>3. ASSUME linkcost' = linkcost, \A n \in Nodes : edge'[<<myself, n>>] = edge[<<myself, n>>]
      PROVE  OwnEdges'
  BY <1>3 DEF OwnEdges, LinksTo
<1>4. ASSUME NEW a \in Adverts, TcBelieved(a[1], a[2]) PROVE OwnEdges'
  <2>1. a[1] # myself
    BY RoutesAssumption
  <2>2. \A n \in Nodes : edge'[<<myself, n>>] = edge[<<myself, n>>]
    BY <1>0, <1>4, <2>1 DEF TcBelieved
  <2> QED BY <1>3, <1>4, <2>2 DEF TcBelieved
<1>5. ASSUME NEW o \in Nodes, olsr_delete_tc_entry(o) PROVE OwnEdges'
  <2>1. \A n \in Nodes : edge'[<<myself, n>>] = edge[<<myself, n>>]
    BY <1>0, <1>5 DEF olsr_delete_tc_entry
  <2> QED BY <1>3, <1>5, <2>1 DEF olsr_delete_tc_entry
<1>6. ASSUME NEW h \in Hnas, olsr_insert_routing_table(h[1], h[2]) \/ olsr_delete_routing_table(h[1], h[2])
      PROVE  OwnEdges'
  BY <1>3, <1>6 DEF olsr_insert_routing_table, olsr_delete_routing_table
<1>7. ASSUME NEW i \in Ifaces, InterfaceFails(i) \/ InterfaceRecovers(i) \/ chk_if_up(i) PROVE OwnEdges'
  BY <1>3, <1>7 DEF InterfaceFails, InterfaceRecovers, chk_if_up, dbVars
<1>8. ASSUME NEW i \in Ifaces, olsr_remove_interface(i) PROVE OwnEdges'
  <2> DEFINE gone == {w \in Wires : w.inter = i /\ linkcost[w] # NoLink}
  <2>1. linkcost' = [w \in Wires |-> IF w \in gone THEN NoLink ELSE linkcost[w]] /\ edge' = WithoutEdgesTo(gone)
    BY <1>8 DEF olsr_remove_interface
  <2>2. gone \in SUBSET Wires
    OBVIOUS
  <2> HIDE DEF gone
  <2>3. \A w \in Wires \ gone : linkcost'[w] = linkcost[w]
    BY <2>1
  <2> QED BY <2>1, <2>2, <2>3, EdgesGone
<1>9. CASE olsr_process_changes
  <2>1. CASE olsr_calculate_routing_table
    <3>1. linkcost' = linkcost /\ edge' = RunEdges
      BY <2>1 DEF olsr_calculate_routing_table
    <3>2. \A n \in Nodes : edge'[<<myself, n>>] = MyEdge(n)
      BY <1>0, <3>1 DEF RunEdges
    <3>3. \A n \in Nodes : LinksTo(n)' = LinksTo(n)
      BY <3>1 DEF LinksTo
    <3> QED BY <3>2, <3>3 DEF OwnEdges, MyEdge
  <2>2. CASE UNCHANGED dbVars
    BY <1>3, <2>2 DEF dbVars
  <2> QED BY <1>9, <2>1, <2>2 DEF olsr_process_changes
<1>10. CASE olsr_expire_spf_backoff \/ UNCHANGED vars
  BY <1>3, <1>10 DEF olsr_expire_spf_backoff, vars, dbVars
<1>11. CASE olsr_shutdown
  BY <1>0, <1>11 DEF olsr_shutdown, OwnEdges
<1>12. ASSUME Tables PROVE OwnEdges'
  BY <1>1, <1>2, <1>4, <1>5, <1>6, <1>12 DEF Tables
<1>13. ASSUME Interfaces PROVE OwnEdges'
  BY <1>7, <1>8, <1>13 DEF Interfaces
<1> QED BY <1>9, <1>10, <1>11, <1>12, <1>13 DEF Next

\* A RIB is exact for a prefix.
Exact(r, x) ==
    LET all == RefPaths(x[1])
        best == {q \in all : \A z \in all : PathCost(q) <= PathCost(z)}
    IN  IF all = {} THEN x \notin DOMAIN r
        ELSE /\ x \in DOMAIN r
             /\ r[x].cost = PathCost(CHOOSE q \in best : TRUE)
             /\ \E q \in best : /\ r[x].hops = Len(q) - 1
                                /\ \E w \in SymLinksTo(q[2]) : r[x].nh = [gw |-> w.gw, inter |-> w.inter]
             /\ cnf.lq_level = 0 => \A q \in all : r[x].hops <= Len(q) - 1

\* That of a run is, for every prefix.
LEMMA RibExact ==
    ASSUME TypeInv, OwnEdges, NEW x \in prefix_tree
    PROVE  Exact(NewRib(olsr_spf_run_full(RunEdges)), x)
<1> DEFINE s == olsr_spf_run_full(RunEdges)
           r == NewRib(s)
           n == x[1]
           all == RefPaths(n)
           best == {q \in all : \A z \in all : PathCost(q) <= PathCost(z)}
<1>0. DbOK /\ n \in Nodes
  BY DEF TypeInv, TableOK
<1>1. s \in SpfStates /\ RunInv(RunEdges, s, N) /\ s = olsr_spf_run_full(RunEdges)
  BY <1>0, RunBounded, RunSettles
<1> HIDE DEF s
<1>2. /\ x \in DOMAIN r <=> s.cost[n] < ROUTE_COST_BROKEN /\ s.hop[n] # None
      /\ x \in DOMAIN r => r[x] = [nh |-> [gw |-> s.hop[n].gw, inter |-> s.hop[n].inter],
                                   hops |-> s.hops[n], cost |-> s.cost[n]]
  BY DEF NewRib
<1> HIDE DEF r, n
<1>3. ASSUME NEW z \in all
      PROVE  /\ n \in Reached(s) \ {myself}
             /\ s.cost[n] <= PathCost(z)
             /\ PathCost(z) \in Nat
             /\ cnf.lq_level = 0 => s.hops[n] <= Len(z) - 1
  <2>1. PICK m \in Nat : m >= 2 /\ Simple(z, m) /\ z[m] = n /\ Len(z) = m
    BY <1>3, RefPathsSimple
  <2>2. /\ z[m] \in Reached(s) \ {myself}
        /\ s.cost[z[m]] <= PathCost(z)
        /\ cnf.lq_level = 0 => s.hops[z[m]] <= m - 1
    BY <1>0, <1>1, <2>1, NoShorterPath
  <2>3. PathCost(z) \in Nat
    <3>1. z \in [1..m -> Nodes] /\ m - 1 \in Nat /\ (m - 1) + 1 = m
      BY <2>1 DEF Simple
    <3>2. PICK f : Sums(f, z, m - 1) /\ PathCost(z) = f[m - 1]
      BY <1>0, <3>1, PathCostSums
    <3> QED BY <3>1, <3>2 DEF Sums
  <2> QED BY <2>1, <2>2, <2>3
<1>4. ASSUME n \in Reached(s) \ {myself}
      PROVE  \E q \in all : /\ PathCost(q) = s.cost[n] /\ s.hops[n] = Len(q) - 1
                            /\ s.hop[n] \in SymLinksTo(q[2])
  <2>1. PICK q, m : FoundBy(s, n, q, m)
    BY <1>1, <1>4 DEF RunInv, Found
  <2>2. m \in Nat /\ m >= 2 /\ Simple(q, m) /\ q[m] = n
    BY <2>1 DEF FoundBy
  <2>3. q \in [1..m -> Nodes]
    BY <2>2 DEF Simple
  <2>4. Len(q) = m
    BY <2>2, <2>3, IntervalSeq
  <2>5. q \in all
    BY <2>2, <2>4, RefPathsSimple
  <2> QED BY <2>1, <2>4, <2>5 DEF FoundBy
<1>5. CASE all = {}
  <2>1. n \notin Reached(s) \ {myself}
    BY <1>4, <1>5
  <2>2. s.cost[myself] = 0 /\ s.hop[myself] = None
    BY <1>1 DEF RunInv, Bounded
  <2>3. x \notin DOMAIN r
    BY <1>0, <1>2, <2>1, <2>2 DEF Reached
  <2> QED BY <1>5, <2>3 DEF Exact, r, s, n
<1>6. CASE all # {}
  <2>1. n \in Reached(s) \ {myself}
    BY <1>3, <1>6
  <2>2. PICK q \in all : /\ PathCost(q) = s.cost[n] /\ s.hops[n] = Len(q) - 1
                         /\ s.hop[n] \in SymLinksTo(q[2])
    BY <1>4, <2>1
  <2>3. q \in best
    BY <1>3, <2>2
  <2>4. s.hop[n] # None
    BY <2>2, RoutesAssumption DEF SymLinksTo, LinksTo
  <2>5. x \in DOMAIN r
    BY <1>2, <2>1, <2>4 DEF Reached
  <2>6. r[x].cost = s.cost[n] /\ r[x].hops = s.hops[n] /\ r[x].nh = [gw |-> s.hop[n].gw, inter |-> s.hop[n].inter]
    BY <1>2, <2>5
  <2> DEFINE c == CHOOSE z \in best : TRUE
  <2>7. c \in best
    BY <2>3
  <2>8. c \in all /\ PathCost(c) <= PathCost(q) /\ PathCost(q) <= PathCost(c)
    BY <2>2, <2>3, <2>7
  <2>9. PathCost(c) = PathCost(q)
    <3> HIDE DEF c, best, all
    <3>1. PathCost(c) \in Nat /\ PathCost(q) \in Nat
      BY <1>3, <2>2, <2>8
    <3> QED BY <2>8, <3>1
  <2>10. cnf.lq_level = 0 => \A z \in all : r[x].hops <= Len(z) - 1
    BY <1>3, <2>6
  <2> HIDE DEF all
  <2>11. r[x].cost = PathCost(c)
    BY <2>2, <2>6, <2>9
  <2>12. \E z \in best : /\ r[x].hops = Len(z) - 1
                         /\ \E w \in SymLinksTo(z[2]) : r[x].nh = [gw |-> w.gw, inter |-> w.inter]
    BY <2>2, <2>3, <2>6
  <2> QED BY <1>6, <2>5, <2>10, <2>11, <2>12 DEF Exact, r, s, n, all
<1> QED BY <1>5, <1>6

\* A run is exact.
LEMMA RunExactStep ==
    ASSUME TypeInv, OwnEdges, [Next]_vars
    PROVE  [RunExact]_vars
<1> SUFFICES ASSUME Next, Run PROVE RunExact
  BY DEF RunExact
<1>1. rib' = NewRib(olsr_spf_run_full(RunEdges))
  BY RunReplaces, CalculatedTable
<1>2. \A x \in prefix_tree : Exact(rib', x)
  BY <1>1, RibExact
<1> QED BY <1>2 DEF RunExact, Exact

\* After every SPF run the RIB holds a path for exactly the prefixes of the reachable nodes, each
\* at the lowest cost of any path over usable edges, with the next hop and the hop count of such a
\* path, and without link quality the fewest hops (olsr_spf_run_full, olsr_calculate_routing_table),
\* for networks of any size whose neighbours are heard from their main addresses.
THEOREM ShortestPathsFound ==
    ASSUME HeardOnMain
    PROVE  Spec => SpfExact
<1>1. Init => OwnEdges
  BY RoutesAssumption DEF Init, OwnEdges, Pairs
<1>2. TypeInv /\ OwnEdges /\ [Next]_vars => OwnEdges'
  BY OwnEdgesStep
<1>3. TypeInv /\ OwnEdges /\ [Next]_vars => [RunExact]_vars
  BY RunExactStep
<1> QED BY <1>1, <1>2, <1>3, TypeInvAlways, PTL DEF Spec, SpfExact

-----------------------------------------------------------------------------
(* The kernel routes                                                       *)

\* A next hop of a run is a link we have.
LiveHops(s) == \A n \in Nodes : s.hop[n] # None => s.hop[n] \in Wires /\ linkcost[s.hop[n]] # NoLink

LEMMA RunLive ==
    ASSUME DbOK
    PROVE  LiveHops(olsr_spf_run_full(RunEdges))
<1> DEFINE e == RunEdges
<1>1. e \in EdgeMaps /\ N \in Nat
  BY RunEdgesType, NodeCount
<1> HIDE DEF e
<1>2. SpfStart(e) \in SpfStates /\ LiveHops(SpfStart(e))
  <2>1. \A n \in Nodes : SpfStart(e).hop[n] # None =>
           SymLinksTo(n) # {} /\ SpfStart(e).hop[n] = get_best_link_to_neighbor(n)
    BY DEF SpfStart
  <2>2. \A n \in Nodes : SpfStart(e).hop[n] # None => SpfStart(e).hop[n] \in SymLinksTo(n)
    BY <2>1, BestLink
  <2>3. LiveHops(SpfStart(e))
    BY <2>2 DEF LiveHops, SymLinksTo, LinksTo
  <2> QED BY <1>1, <2>3, StartOK
<1>3. PICK f : Passes(f, e) /\ olsr_spf_run_full(e) = f[N]
  BY <1>1, <1>2, RunDefined
<1> DEFINE S == {k \in 0..N : LiveHops(f[k])}
<1>4. 0 \in S
  BY <1>1, <1>2, <1>3 DEF Passes
<1>5. ASSUME NEW k \in 1..N, k - 1 \in S PROVE k \in S
  <2>1. f[k] = SpfPass(e, f[k - 1], k) /\ f[k - 1] \in SpfStates /\ LiveHops(f[k - 1]) /\ k \in Nat
    BY <1>1, <1>3, <1>5 DEF Passes
  <2>2. LiveHops(f[k])
    <3>1. CASE f[k - 1].cand = {}
      BY <2>1, <3>1 DEF SpfPass
    <3>2. CASE f[k - 1].cand # {}
      <4>1. PICK a \in Nodes : Relaxed(e, f[k - 1], SpfPass(e, f[k - 1], k), a, k)
        BY <1>1, <2>1, <3>2, PassRelaxes
      <4>2. \A n \in Nodes : f[k].hop[n] = f[k - 1].hop[n] \/ f[k].hop[n] = f[k - 1].hop[a]
        BY <2>1, <4>1 DEF Relaxed
      <4> QED BY <2>1, <4>2 DEF LiveHops
    <3> QED BY <3>1, <3>2
  <2> QED BY <1>1, <2>2
<1> HIDE DEF S
<1>6. 0..N \subseteq S
  BY <1>1, <1>4, <1>5, IntervalInduction
<1>7. N \in S
  BY <1>1, <1>6
<1> QED BY <1>3, <1>7 DEF S, e

\* Every route of the kernel is over an interface that is not down, and is the one the head of its
\* prefix has saved or one the heads lost sight of, never both.
Held ==
    \A p \in Dsts :
        /\ stray[p] \subseteq kernel[p]
        /\ \A k \in kernel[p] :
              /\ k.nh.inter \in Ifaces /\ ifstate[k.nh.inter] # "down"
              /\ k \in stray[p] \/ (p \in DOMAIN routingtree /\ k = Installed(routingtree[p]))
        /\ p \in DOMAIN routingtree => Installed(routingtree[p]) \notin stray[p]

\* The heads have installed what they elected.
InStep(r, tree) ==
    \A p \in DOMAIN tree : <<tree[p].best, p>> \in DOMAIN r => tree[p].nh = r[<<tree[p].best, p>>].nh

LinksOK ==
    /\ configured \subseteq Ifaces
    /\ ifstate \in [Ifaces -> {"up", "carrier", "down"}]
    /\ cnf.fault \notin {"prompt", "late"} => \A i \in Ifaces : ifstate[i] # "down"
    /\ cnf.fault # "carrier" => \A i \in Ifaces : ifstate[i] # "carrier"
    /\ cnf.fault = "prompt" => \A i, j \in configured : ifstate[i] = "down" /\ ifstate[j] = "down" => i = j
    /\ \A w \in Wires : linkcost[w] # NoLink => w.inter \in configured
    /\ \A x \in DOMAIN rib : rib[x].nh.inter \in configured

KernelInv ==
    /\ LinksOK /\ Held
    /\ cnf.fault \notin {"refuse", "late"} => InStep(rib, routingtree)
    /\ ForgottenExplained
    /\ ShutdownClean

\* The heads of tree are new, or have installed what those of the routing table have.
SameHeads(tree) ==
    \A p \in DOMAIN tree :
        IF p \in DOMAIN routingtree
        THEN tree[p].nh = routingtree[p].nh /\ tree[p].hops = routingtree[p].hops
        ELSE tree[p].nh = NoHop

\* What a change of a route leaves of the old one.
LEMMA AddFacts ==
    ASSUME NEW p, NEW rt, NEW k, NEW no, cnf.ip_version \in {4, 6}
    PROVE  LET before == BeforeAdd(rt, p, no)
               after == Added(p, before, k, no)
               ok == AddAccepted(p, before, k, no)
           IN  /\ after \subseteq kernel[p] \cup {k}
               /\ ok => k \in after /\ ifstate[k.nh.inter] # "down"
               /\ ~ok => after \subseteq kernel[p]
               /\ ~ok /\ cnf.ip_version = 4 => after = kernel[p]
               /\ no = {} /\ ifstate[k.nh.inter] # "down" => ok
               /\ ok /\ Installed(rt) \in after /\ Installed(rt) # k =>
                     \/ cnf.ip_version = 4 /\ Installed(rt).metric # k.metric
                     \/ cnf.ip_version = 6 /\ (<<"delete", p>> \in no \/ rt.nh = NoHop)
<1> DEFINE before == BeforeAdd(rt, p, no)
           left == Erased(p, before, k, no)
           after == Added(p, before, k, no)
           ok == AddAccepted(p, before, k, no)
<1>1. before \subseteq kernel[p] /\ left \subseteq before
  BY DEF BeforeAdd, Deleted, Erased
<1>2. ok => after = {x \in left : cnf.ip_version = 6 \/ x.metric # k.metric} \cup {k}
  BY DEF Added, Replaced
<1>3. ~ok => after = left
  BY DEF Added
<1>4. cnf.ip_version = 4 => left = kernel[p]
  BY DEF BeforeAdd, Erased, Exists
<1>5. ok => ifstate[k.nh.inter] # "down"
  BY DEF AddAccepted
<1>6. no = {} /\ ifstate[k.nh.inter] # "down" => ok
  BY DEF AddAccepted, Erased, Exists
<1>7. Installed(rt) \in left /\ cnf.ip_version = 6 => <<"delete", p>> \in no \/ rt.nh = NoHop
  BY <1>1 DEF BeforeAdd, Deleted
<1> HIDE DEF before, left, after, ok
<1>8. ok /\ Installed(rt) \in after /\ Installed(rt) # k =>
         \/ cnf.ip_version = 4 /\ Installed(rt).metric # k.metric
         \/ cnf.ip_version = 6 /\ (<<"delete", p>> \in no \/ rt.nh = NoHop)
  BY <1>2, <1>7
<1> QED BY <1>1, <1>2, <1>3, <1>4, <1>5, <1>6, <1>8 DEF before, left, after, ok

\* What an update of the routes leaves in the kernel and in the heads.
LEMMA UpdatedKernel ==
    ASSUME cnf \in [lq_level : LqLevels, fib_metric : FibMetrics, ip_version : IpVersions, fault : Faults],
           UNCHANGED <<cnf, ifstate>>,
           NEW r, RibOK(r), NEW tree, TreeOK(tree), Headed(r, tree), Held, SameHeads(tree),
           NEW no, UpdateRoutes(r, tree, no)
    PROVE  /\ Held'
           /\ \A p \in DOMAIN routingtree' :
                 /\ p \in DOMAIN tree
                 /\ PathsOf(r, p) = {} => <<"delete", p>> \in no
                 /\ PathsOf(r, p) # {} =>
                       LET path == r[<<olsr_rt_best(r, p), p>>]
                           rt == routingtree'[p]
                       IN  /\ rt.best = olsr_rt_best(r, p)
                           /\ no = {} /\ ifstate[path.nh.inter] # "down" =>
                                 /\ rt.nh = path.nh
                                 /\ Installed(rt) =
                                       Route(path.nh, IF cnf.fib_metric = "approx" THEN rt.hops ELSE path.hops)
           /\ \A p \in Dsts : Forgotten(p)' =>
                 \/ Forgotten(p) /\ p \in DOMAIN tree /\ Installed(routingtree'[p]) = Installed(routingtree[p])
                 \/ /\ cnf.ip_version = 6 /\ PathsOf(r, p) # {}
                    /\ no = {} => ifstate[r[<<olsr_rt_best(r, p), p>>].nh.inter] = "down"
           /\ \A p \in Dsts : \A k \in stray'[p] \ stray[p] :
                 /\ p \in DOMAIN routingtree /\ k = Installed(routingtree[p])
                 /\ \/ p \notin DOMAIN tree
                    \/ cnf.fib_metric # "flat"
                    \/ cnf.ip_version = 6 /\ <<"delete", p>> \in no
<1> DEFINE Best(p) == olsr_rt_best(r, p)
           P(p) == r[<<Best(p), p>>]
           New(p) == Route(P(p).nh, P(p).hops)
           Before(p) == BeforeAdd(tree[p], p, no)
           Ok(p) == RouteChanged(tree[p], P(p)) /\ AddAccepted(p, Before(p), New(p), no)
           After(p) == Added(p, Before(p), New(p), no)
<1>1. /\ cnf.ip_version \in {4, 6} /\ cnf' = cnf /\ ifstate' = ifstate
      /\ \A p : Installed(routingtree[p])' = Installed(routingtree'[p])
      /\ \A nh, hops : Route(nh, hops).nh = nh /\ (cnf.fib_metric = "flat" => Route(nh, hops).metric = RT_METRIC_DEFAULT)
  <2>1. cnf.ip_version \in {4, 6}
    BY RoutesAssumption
  <2> QED BY <2>1 DEF Installed, Route
<1>2. /\ DOMAIN routingtree' = HeadsKept(r, tree, no)
      /\ \A p \in HeadsKept(r, tree, no) :
            routingtree'[p] = IF PathsOf(r, p) = {} THEN Headless(tree[p], p)
                              ELSE UpdatedHead(r, tree[p], p, no)
      /\ \A p \in Dsts : kernel'[p] = IF p \in DOMAIN tree THEN UpdatedRoutes(r, tree[p], p, no) ELSE kernel[p]
      /\ \A p \in Dsts : stray'[p] = {k \in (stray[p] \cup LeftBehind(r, tree, p, no)) \cap kernel'[p] :
                                         p \in DOMAIN routingtree' => k # Installed(routingtree'[p])}
  BY DEF UpdateRoutes
<1>3. ASSUME NEW p, PathsOf(r, p) # {} PROVE P(p).nh.inter \in Ifaces
  <2>1. P(p) \in Path
    BY <1>3, RtBest
  <2> QED BY <2>1 DEF Path
<1>4. ASSUME NEW p \in DOMAIN routingtree'
      PROVE  /\ p \in DOMAIN tree /\ p \in HeadsKept(r, tree, no)
             /\ PathsOf(r, p) = {} => /\ <<"delete", p>> \in no /\ Installed(tree[p]) \in kernel[p]
                                      /\ routingtree'[p].nh = tree[p].nh /\ routingtree'[p].hops = tree[p].hops
             /\ PathsOf(r, p) # {} =>
                   /\ routingtree'[p].best = Best(p)
                   /\ Ok(p) => routingtree'[p].nh = P(p).nh /\ routingtree'[p].hops = P(p).hops
                   /\ ~Ok(p) => routingtree'[p].nh = tree[p].nh /\ routingtree'[p].hops = tree[p].hops
  <2>1. p \in HeadsKept(r, tree, no) /\ p \in DOMAIN tree /\ tree[p] \in HeadTypes
    BY <1>2, <1>4 DEF HeadsKept, TreeOK
  <2>2. ASSUME PathsOf(r, p) = {}
        PROVE  /\ <<"delete", p>> \in no /\ Installed(tree[p]) \in kernel[p]
               /\ routingtree'[p].nh = tree[p].nh /\ routingtree'[p].hops = tree[p].hops
    <3>1. ~DeleteAccepted(p, Installed(tree[p]), no)
      BY <2>1, <2>2 DEF HeadsKept
    <3>2. routingtree'[p] = Headless(tree[p], p)
      BY <1>2, <2>1, <2>2
    <3>3. routingtree'[p].nh = tree[p].nh /\ routingtree'[p].hops = tree[p].hops
      BY <2>1, <3>2 DEF Headless, HeadTypes
    <3> QED BY <3>1, <3>3 DEF DeleteAccepted
  <2>3. ASSUME PathsOf(r, p) # {}
        PROVE  /\ routingtree'[p].best = Best(p)
               /\ Ok(p) => routingtree'[p].nh = P(p).nh /\ routingtree'[p].hops = P(p).hops
               /\ ~Ok(p) => routingtree'[p].nh = tree[p].nh /\ routingtree'[p].hops = tree[p].hops
    <3>1. routingtree'[p] = UpdatedHead(r, tree[p], p, no)
      BY <1>2, <2>1, <2>3
    <3>2. UpdatedHead(r, tree[p], p, no) =
             IF Ok(p) THEN [best |-> Best(p), nh |-> P(p).nh, hops |-> P(p).hops]
             ELSE [tree[p] EXCEPT !.best = Best(p)]
      BY DEF UpdatedHead
    <3> HIDE DEF Ok, Best, P
    <3> QED BY <2>1, <3>1, <3>2 DEF HeadTypes
  <2> QED BY <2>1, <2>2, <2>3
<1>5. ASSUME NEW p \in DOMAIN tree, p \notin DOMAIN routingtree'
      PROVE  PathsOf(r, p) = {} /\ DeleteAccepted(p, Installed(tree[p]), no)
  BY <1>2, <1>5 DEF HeadsKept
<1>6. ASSUME NEW p \in Dsts
      PROVE  kernel'[p] = IF p \notin DOMAIN tree THEN kernel[p]
                          ELSE IF PathsOf(r, p) = {} THEN Deleted(p, Installed(tree[p]), no)
                          ELSE IF RouteChanged(tree[p], P(p)) THEN After(p) ELSE kernel[p]
  BY <1>2, <1>6 DEF UpdatedRoutes
<1>7. ASSUME NEW p \in DOMAIN tree
      PROVE  /\ p \in DOMAIN routingtree => Installed(tree[p]) = Installed(routingtree[p])
             /\ p \notin DOMAIN routingtree => tree[p].nh = NoHop
             /\ p \in Dsts /\ tree[p].nh = NoHop => Installed(tree[p]) \notin kernel[p]
  <2>1. tree[p].nh = NoHop => Installed(tree[p]).nh.inter = None
    BY <1>1 DEF Installed, NoHop
  <2>2. p \in Dsts => \A k \in kernel[p] : k.nh.inter # None
    BY RoutesAssumption DEF Held
  <2> QED BY <1>7, <2>1, <2>2 DEF SameHeads, Installed
<1>8. ASSUME NEW p
      PROVE  LET ok == AddAccepted(p, Before(p), New(p), no)
             IN  /\ After(p) \subseteq kernel[p] \cup {New(p)}
                 /\ ok => New(p) \in After(p) /\ ifstate[P(p).nh.inter] # "down"
                 /\ ~ok => After(p) \subseteq kernel[p]
                 /\ ~ok /\ cnf.ip_version = 4 => After(p) = kernel[p]
                 /\ no = {} /\ ifstate[P(p).nh.inter] # "down" => ok
                 /\ ok /\ Installed(tree[p]) \in After(p) /\ Installed(tree[p]) # New(p) =>
                       \/ cnf.ip_version = 4 /\ Installed(tree[p]).metric # New(p).metric
                       \/ cnf.ip_version = 6 /\ (<<"delete", p>> \in no \/ tree[p].nh = NoHop)
  <2>1. New(p).nh = P(p).nh
    BY <1>1
  <2> HIDE DEF New, P
  <2> QED BY <1>1, <2>1, AddFacts
<1>9. ASSUME NEW p \in DOMAIN routingtree'
      PROVE  /\ PathsOf(r, p) = {} \/ ~Ok(p) => Installed(routingtree'[p]) = Installed(tree[p])
             /\ PathsOf(r, p) # {} /\ Ok(p) => Installed(routingtree'[p]) = New(p)
  <2> HIDE DEF Ok, P
  <2> QED BY <1>4, <1>9 DEF Installed
<1> DEFINE Claimed(p, k) == p \in DOMAIN routingtree' /\ k = Installed(routingtree'[p])
<1>10. ASSUME NEW p \in Dsts, NEW k \in kernel'[p]
       PROVE  k \in kernel[p] \/ (PathsOf(r, p) # {} /\ Ok(p) /\ k = New(p) /\ p \in DOMAIN tree)
  <2>1. Deleted(p, Installed(tree[p]), no) \subseteq kernel[p]
    BY DEF Deleted
  <2>2. RouteChanged(tree[p], P(p)) => After(p) \subseteq kernel[p] \/ (Ok(p) /\ After(p) \subseteq kernel[p] \cup {New(p)})
    BY <1>8
  <2> HIDE DEF Ok, After, New, P
  <2> QED BY <1>6, <1>10, <2>1, <2>2
<1>11. ASSUME NEW p \in Dsts, NEW k \in kernel'[p], k \notin stray'[p] PROVE Claimed(p, k)
  <2>1. SUFFICES ASSUME ~Claimed(p, k) PROVE FALSE
    OBVIOUS
  <2>2. k \notin stray[p] /\ k \notin LeftBehind(r, tree, p, no)
    BY <1>2, <1>11, <2>1
  <2>3. PathsOf(r, p) # {} /\ p \in DOMAIN tree => p \in DOMAIN routingtree'
    BY <1>5
  <2>4. k \in kernel[p]
    <3> HIDE DEF Ok, New
    <3> QED BY <1>9, <1>10, <1>11, <2>1, <2>3
  <2>5. p \in DOMAIN routingtree /\ k = Installed(routingtree[p])
    BY <2>2, <2>4 DEF Held
  <2>6. p \in DOMAIN tree /\ k = Installed(tree[p])
    BY <1>7, <2>2, <2>5 DEF LeftBehind
  <2>7. CASE PathsOf(r, p) = {}
    <3>1. p \notin DOMAIN routingtree'
      BY <1>9, <2>1, <2>6, <2>7
    <3>2. <<"delete", p>> \notin no
      BY <1>5, <2>4, <2>6, <3>1 DEF DeleteAccepted
    <3>3. kernel'[p] = kernel[p] \ {k}
      BY <1>6, <2>6, <2>7, <3>2 DEF Deleted
    <3> QED BY <1>11, <3>3
  <2>8. CASE PathsOf(r, p) # {}
    <3>1. Ok(p) /\ Installed(tree[p]) # New(p)
      <4> HIDE DEF Ok, New
      <4> QED BY <1>9, <2>1, <2>3, <2>6, <2>8
    <3>2. k \in After(p)
      BY <1>6, <1>11, <2>6, <2>8, <3>1
    <3>3. \/ cnf.ip_version = 4 /\ Installed(tree[p]).metric # New(p).metric
          \/ cnf.ip_version = 6 /\ (<<"delete", p>> \in no \/ tree[p].nh = NoHop)
      BY <1>8, <2>6, <3>1, <3>2
    <3>4. cnf.fib_metric # "flat" \/ <<"delete", p>> \in no
      BY <1>1, <1>7, <2>4, <2>6, <3>3 DEF Installed
    <3> QED BY <2>2, <2>5, <2>8, <3>4 DEF LeftBehind
  <2> QED BY <2>7, <2>8
<1>12. ASSUME NEW p \in Dsts, NEW k \in kernel'[p] PROVE k.nh.inter \in Ifaces /\ ifstate[k.nh.inter] # "down"
  <2>1. CASE k \in kernel[p]
    BY <2>1 DEF Held
  <2>2. CASE PathsOf(r, p) # {} /\ Ok(p) /\ k = New(p)
    <3>1. k.nh = P(p).nh
      BY <1>1, <2>2
    <3> QED BY <1>3, <1>8, <2>2, <3>1
  <2> QED BY <1>10, <1>12, <2>1, <2>2
<1>13. Held'
  <2>1. \A p \in Dsts : /\ stray'[p] \subseteq kernel'[p]
                        /\ p \in DOMAIN routingtree' => Installed(routingtree'[p]) \notin stray'[p]
    BY <1>2
  <2> QED BY <1>1, <1>11, <1>12, <2>1 DEF Held
<1>14. ASSUME NEW p \in DOMAIN routingtree'
       PROVE  /\ p \in DOMAIN tree
              /\ PathsOf(r, p) = {} => <<"delete", p>> \in no
              /\ PathsOf(r, p) # {} =>
                    /\ routingtree'[p].best = Best(p)
                    /\ no = {} /\ ifstate[P(p).nh.inter] # "down" =>
                          /\ routingtree'[p].nh = P(p).nh
                          /\ Installed(routingtree'[p]) =
                                Route(P(p).nh, IF cnf.fib_metric = "approx" THEN routingtree'[p].hops ELSE P(p).hops)
  <2>1. ASSUME PathsOf(r, p) # {}, no = {}, ifstate[P(p).nh.inter] # "down"
        PROVE  /\ routingtree'[p].nh = P(p).nh
               /\ cnf.fib_metric = "correct" => routingtree'[p].hops = P(p).hops
    <3>1. RouteChanged(tree[p], P(p)) => Ok(p)
      BY <1>8, <2>1
    <3>2. ~RouteChanged(tree[p], P(p)) => /\ tree[p].nh = P(p).nh
                                          /\ cnf.fib_metric = "correct" => tree[p].hops = P(p).hops
      BY DEF RouteChanged
    <3>3. Ok(p) => RouteChanged(tree[p], P(p))
      OBVIOUS
    <3> HIDE DEF Ok, P
    <3> QED BY <1>4, <1>14, <2>1, <3>1, <3>2, <3>3
  <2>2. cnf.fib_metric \in {"flat", "correct", "approx"}
    BY RoutesAssumption
  <2>3. \A nh, h1, h2 : cnf.fib_metric = "flat" => Route(nh, h1) = Route(nh, h2)
    BY DEF Route
  <2> HIDE DEF P, Best, Ok
  <2> QED BY <1>4, <1>14, <2>1, <2>2, <2>3 DEF Installed
<1>15. ASSUME NEW p \in Dsts, Forgotten(p)'
       PROVE  \/ Forgotten(p) /\ p \in DOMAIN tree /\ Installed(routingtree'[p]) = Installed(routingtree[p])
              \/ /\ cnf.ip_version = 6 /\ PathsOf(r, p) # {}
                 /\ no = {} => ifstate[P(p).nh.inter] = "down"
  <2>1. /\ p \in DOMAIN routingtree' /\ p \in DOMAIN tree
        /\ routingtree'[p].nh # NoHop /\ Installed(routingtree'[p]) \notin kernel'[p]
    BY <1>1, <1>4, <1>15 DEF Forgotten
  <2>2. ASSUME kernel'[p] = kernel[p], Installed(routingtree'[p]) = Installed(tree[p]), routingtree'[p].nh = tree[p].nh
        PROVE  Forgotten(p) /\ Installed(routingtree'[p]) = Installed(routingtree[p])
    <3>1. p \in DOMAIN routingtree /\ Installed(tree[p]) = Installed(routingtree[p])
      BY <1>7, <2>1, <2>2
    <3>2. routingtree[p].nh # NoHop
      BY <2>1, <2>2, <3>1 DEF SameHeads
    <3> QED BY <2>1, <2>2, <3>1, <3>2 DEF Forgotten
  <2>3. CASE PathsOf(r, p) = {}
    <3>1. <<"delete", p>> \in no /\ Installed(tree[p]) \in kernel[p]
      BY <1>4, <2>1, <2>3
    <3>2. kernel'[p] = kernel[p]
      BY <1>6, <2>1, <2>3, <3>1 DEF Deleted
    <3> QED BY <1>9, <2>1, <2>3, <3>1, <3>2
  <2>4. CASE PathsOf(r, p) # {} /\ ~RouteChanged(tree[p], P(p))
    <3>1. ~Ok(p)
      BY <2>4
    <3> HIDE DEF Ok, P
    <3> QED BY <1>4, <1>6, <1>9, <2>1, <2>2, <2>4, <3>1
  <2>5. CASE PathsOf(r, p) # {} /\ RouteChanged(tree[p], P(p))
    <3>1. kernel'[p] = After(p)
      BY <1>6, <2>1, <2>5
    <3>2. ~Ok(p)
      <4>1. Ok(p) => New(p) \in After(p)
        BY <1>8
      <4> HIDE DEF Ok, P, New, After
      <4> QED BY <1>9, <2>1, <2>5, <3>1, <4>1
    <3>3. ~AddAccepted(p, Before(p), New(p), no)
      BY <2>5, <3>2
    <3>4. cnf.ip_version = 4 => After(p) = kernel[p]
      BY <1>8, <3>3
    <3>5. no = {} => ifstate[P(p).nh.inter] = "down"
      BY <1>8, <3>3
    <3> HIDE DEF Ok, P, New, After
    <3> QED BY <1>1, <1>4, <1>9, <2>1, <2>2, <2>5, <3>1, <3>2, <3>4, <3>5
  <2> QED BY <2>3, <2>4, <2>5
<1>16. ASSUME NEW p \in Dsts, NEW k \in stray'[p] \ stray[p]
       PROVE  /\ p \in DOMAIN routingtree /\ k = Installed(routingtree[p])
              /\ \/ p \notin DOMAIN tree
                 \/ cnf.fib_metric # "flat"
                 \/ cnf.ip_version = 6 /\ <<"delete", p>> \in no
  <2>1. /\ k \in LeftBehind(r, tree, p, no) /\ k \in kernel'[p]
        /\ p \in DOMAIN routingtree' => k # Installed(routingtree'[p])
    BY <1>2, <1>16
  <2>2. /\ p \in DOMAIN routingtree /\ k = Installed(routingtree[p])
        /\ p \notin DOMAIN tree \/ (PathsOf(r, p) # {} /\ (<<"delete", p>> \in no \/ cnf.fib_metric # "flat"))
    BY <2>1 DEF LeftBehind
  <2>3. ASSUME p \in DOMAIN tree, cnf.fib_metric = "flat" PROVE cnf.ip_version = 6 /\ <<"delete", p>> \in no
    <3>1. p \in DOMAIN routingtree' /\ k = Installed(tree[p]) /\ PathsOf(r, p) # {} /\ <<"delete", p>> \in no
      BY <1>5, <1>7, <2>2, <2>3
    <3>2. Ok(p) /\ k # New(p)
      <4> HIDE DEF Ok, New
      <4> QED BY <1>9, <2>1, <3>1
    <3>3. k \in After(p)
      BY <1>6, <2>1, <2>3, <3>1, <3>2
    <3>4. \/ cnf.ip_version = 4 /\ Installed(tree[p]).metric # New(p).metric
          \/ cnf.ip_version = 6
      BY <1>8, <3>1, <3>2, <3>3
    <3>5. Installed(tree[p]).metric = New(p).metric
      BY <1>1, <2>3 DEF Installed
    <3> HIDE DEF New
    <3> QED BY <3>1, <3>4, <3>5
  <2> QED BY <2>2, <2>3
<1> HIDE DEF Best, P
<1> QED BY <1>13, <1>14, <1>15, <1>16 DEF Best, P

\* What an update cannot make a head forget or lose sight of.
LEMMA UpdateExplained ==
    ASSUME cnf \in [lq_level : LqLevels, fib_metric : FibMetrics, ip_version : IpVersions, fault : Faults],
           UNCHANGED <<cnf, ifstate>>,
           NEW r, RibOK(r), NEW tree, TreeOK(tree), Headed(r, tree), KernelInv, SameHeads(tree),
           NEW no \in Refusals, UpdateRoutes(r, tree, no),
           \A p \in Dsts \cap (DOMAIN routingtree \ DOMAIN tree) :
               Installed(routingtree[p]) \in kernel[p] => cnf.fault \in {"carrier", "late"}
    PROVE  ForgottenExplained' /\ StraysExplained'
<1>1. Held /\ ForgottenExplained /\ StraysExplained /\ cnf' = cnf
  BY DEF KernelInv, ShutdownClean
<1>2. cnf.fault \in {"none", "refuse", "prompt", "late", "carrier"} /\ (cnf.fault # "refuse" => no = {})
  <2>1. cnf.fault \in Faults
    OBVIOUS
  <2>2. cnf.fault # "refuse" => no = {}
    BY DEF Refusals
  <2> QED BY <2>1, <2>2, RoutesAssumption
<1>3. /\ Held'
      /\ \A p \in Dsts : Forgotten(p)' =>
            \/ Forgotten(p)
            \/ /\ cnf.ip_version = 6 /\ PathsOf(r, p) # {}
               /\ no = {} => ifstate[r[<<olsr_rt_best(r, p), p>>].nh.inter] = "down"
      /\ \A p \in Dsts : \A k \in stray'[p] \ stray[p] :
            /\ p \in DOMAIN routingtree /\ k = Installed(routingtree[p])
            /\ \/ p \notin DOMAIN tree
               \/ cnf.fib_metric # "flat"
               \/ cnf.ip_version = 6 /\ <<"delete", p>> \in no
  BY <1>1, UpdatedKernel
<1>4. ForgottenExplained'
  <2> SUFFICES ASSUME NEW p \in Dsts, Forgotten(p)', cnf.fault \notin {"prompt", "late"}
               PROVE  cnf.fault = "refuse" /\ cnf.ip_version = 6
    BY <1>1 DEF ForgottenExplained
  <2>1. CASE Forgotten(p)
    BY <1>1, <2>1 DEF ForgottenExplained
  <2>2. CASE /\ cnf.ip_version = 6 /\ PathsOf(r, p) # {}
             /\ no = {} => ifstate[r[<<olsr_rt_best(r, p), p>>].nh.inter] = "down"
    <3>1. r[<<olsr_rt_best(r, p), p>>] \in Path
      BY <2>2, RtBest
    <3>2. r[<<olsr_rt_best(r, p), p>>].nh.inter \in Ifaces
      BY <3>1 DEF Path
    <3>3. no # {}
      BY <2>2, <3>2 DEF KernelInv, LinksOK
    <3> QED BY <1>2, <2>2, <3>3
  <2> QED BY <1>3, <2>1, <2>2
<1>5. StraysExplained'
  <2> SUFFICES ASSUME NEW p \in Dsts, NEW k \in stray'[p], cnf.fib_metric = "flat", cnf.fault \notin {"carrier", "late"}
               PROVE  cnf.fault = "refuse" /\ cnf.ip_version = 6
    BY <1>1 DEF StraysExplained
  <2>1. CASE k \in stray[p]
    BY <1>1, <2>1 DEF StraysExplained
  <2>2. CASE k \notin stray[p]
    <3>1. p \in DOMAIN routingtree /\ k = Installed(routingtree[p])
          /\ (p \notin DOMAIN tree \/ (cnf.ip_version = 6 /\ <<"delete", p>> \in no))
      BY <1>3, <2>2
    <3>2. p \notin DOMAIN tree => k \in kernel[p]
      <4>1. k \in kernel'[p]
        BY <1>3 DEF Held
      <4> QED BY <4>1 DEF UpdateRoutes
    <3>3. p \in DOMAIN tree
      BY <3>1, <3>2
    <3> QED BY <1>2, <3>1, <3>3
  <2> QED BY <2>1, <2>2
<1> QED BY <1>4, <1>5

LEMMA KernelInit ==
    Init => KernelInv
<1> SUFFICES ASSUME Init PROVE KernelInv
  OBVIOUS
<1>1. DOMAIN rib = {} /\ DOMAIN routingtree = {}
  BY DEF Init
<1>2. LinksOK
  BY <1>1 DEF Init, LinksOK
<1>3. Held
  BY <1>1 DEF Init, Held
<1>4. InStep(rib, routingtree)
  BY <1>1 DEF InStep
<1>5. ShutdownClean
  BY DEF Init, ShutdownClean, StraysExplained
<1>6. ForgottenExplained
  BY <1>1 DEF ForgottenExplained, Forgotten
<1> QED BY <1>2, <1>3, <1>4, <1>5, <1>6 DEF KernelInv

\* A run, and what it leaves in the kernel.
LEMMA RunKernel ==
    ASSUME TypeInv, KernelInv, olsr_process_changes, olsr_calculate_routing_table
    PROVE  KernelInv' /\ RunInstalls
<1> DEFINE s == olsr_spf_run_full(RunEdges)
           r == NewRib(s)
           tree == WithHeads(routingtree, r)
<1>1. UNCHANGED <<cnf, running, configured, linkcost, ifstate>> /\ running /\ Unnoticed = {}
  BY DEF olsr_process_changes, olsr_calculate_routing_table
<1>2. cnf \in [lq_level : LqLevels, fib_metric : FibMetrics, ip_version : IpVersions, fault : Faults]
  BY DEF TypeInv, DbOK
<1>3. RibOK(r)
  BY NewRibOK DEF TypeInv, TableOK
<1>4. ASSUME NEW x \in DOMAIN r PROVE r[x].nh.inter \in configured
  <2>1. PICK w \in Wires : s.hop[x[1]] = w /\ r[x].nh = [gw |-> w.gw, inter |-> w.inter]
    BY <1>4, NewRibOK DEF TypeInv, TableOK
  <2>2. x[1] \in Nodes
    BY <1>3, <1>4 DEF RibOK
  <2>3. linkcost[w] # NoLink
    BY <2>1, <2>2, RunLive, RoutesAssumption DEF LiveHops, TypeInv
  <2> QED BY <2>1, <2>3 DEF KernelInv, LinksOK
<1>5. TreeOK(tree) /\ Headed(r, tree)
  BY <1>3, WithHeadsOK DEF TypeInv, TableOK
<1>6. PICK no \in Refusals : UpdateRoutes(r, tree, no)
  BY DEF olsr_calculate_routing_table
<1>7. DOMAIN routingtree \subseteq DOMAIN tree /\ SameHeads(tree)
  BY DEF WithHeads, SameHeads
<1> HIDE DEF r, s, tree
<1>8. Held /\ LinksOK
  BY DEF KernelInv
<1> DEFINE P(p) == r[<<olsr_rt_best(r, p), p>>]
<1>9. /\ Held'
      /\ \A p \in DOMAIN routingtree' :
            /\ PathsOf(r, p) = {} => <<"delete", p>> \in no
            /\ PathsOf(r, p) # {} =>
                  /\ routingtree'[p].best = olsr_rt_best(r, p)
                  /\ no = {} /\ ifstate[P(p).nh.inter] # "down" =>
                        /\ routingtree'[p].nh = P(p).nh
                        /\ Installed(routingtree'[p]) =
                              Route(P(p).nh, IF cnf.fib_metric = "approx" THEN routingtree'[p].hops ELSE P(p).hops)
      /\ \A p \in Dsts : Forgotten(p)' =>
            \/ Forgotten(p) /\ p \in DOMAIN tree /\ Installed(routingtree'[p]) = Installed(routingtree[p])
            \/ PathsOf(r, p) # {} /\ (no = {} => ifstate[P(p).nh.inter] = "down")
  BY <1>1, <1>2, <1>3, <1>5, <1>6, <1>7, <1>8, UpdatedKernel
<1>10. ForgottenExplained' /\ StraysExplained'
  BY <1>1, <1>2, <1>3, <1>5, <1>6, <1>7, UpdateExplained
<1>11. \A p : PathsOf(r, p) # {} =>
          <<olsr_rt_best(r, p), p>> \in DOMAIN r /\ P(p).nh.inter \in configured /\ P(p).nh.inter \in Ifaces
  BY <1>3, <1>4, <1>8, RtBest DEF LinksOK
<1> HIDE DEF P
<1>12. rib' = r /\ refused' = (no # {})
  BY <1>6 DEF UpdateRoutes
<1>13. LinksOK'
  BY <1>1, <1>4, <1>8, <1>12 DEF LinksOK
<1>14. cnf.fault \notin {"refuse", "late"} => InStep(rib', routingtree')
  <2> SUFFICES ASSUME cnf.fault \notin {"refuse", "late"}, NEW p \in DOMAIN routingtree'
               PROVE  routingtree'[p].nh = rib'[<<routingtree'[p].best, p>>].nh
    BY DEF InStep
  <2>1. no = {}
    BY <1>6 DEF Refusals
  <2>2. PathsOf(r, p) # {}
    BY <1>9, <2>1
  <2>3. ifstate[P(p).nh.inter] # "down"
    <3>1. P(p).nh.inter \in configured /\ P(p).nh.inter \in Ifaces
      BY <1>11, <2>2
    <3>2. CASE cnf.fault = "prompt"
      BY <1>1, <3>1, <3>2 DEF Unnoticed
    <3>3. CASE cnf.fault # "prompt"
      BY <1>8, <3>1, <3>3 DEF LinksOK
    <3> QED BY <3>2, <3>3
  <2>4. routingtree'[p].nh = P(p).nh /\ routingtree'[p].best = olsr_rt_best(r, p)
    BY <1>9, <2>1, <2>2, <2>3
  <2> QED BY <1>12, <2>4 DEF P
<1>15. ShutdownClean'
  BY <1>1, <1>10 DEF ShutdownClean
<1>16. KernelInv'
  BY <1>1, <1>9, <1>10, <1>13, <1>14, <1>15 DEF KernelInv
<1>17. ASSUME ~refused', \A i \in configured : ifstate[i] = "up", NEW p \in Dsts
       PROVE  \/ kernel'[p] \ stray'[p] = Wanted(p)'
              \/ Forgotten(p) /\ Installed(routingtree'[p]) = Installed(routingtree[p])
  <2>1. no = {} /\ cnf' = cnf
    BY <1>1, <1>12, <1>17
  <2>2. PathsOf(rib, p)' = PathsOf(r, p)
    BY <1>12 DEF PathsOf
  <2>3. /\ \A k \in kernel'[p] \ stray'[p] : p \in DOMAIN routingtree' /\ k = Installed(routingtree'[p])
        /\ p \in DOMAIN routingtree' => Installed(routingtree'[p]) \notin stray'[p]
    BY <1>9, <2>1 DEF Held, Installed, Route
  <2>4. CASE PathsOf(r, p) = {}
    <3>1. p \notin DOMAIN routingtree'
      BY <1>9, <2>1, <2>4
    <3> QED BY <2>2, <2>3, <2>4, <3>1 DEF Wanted
  <2>5. CASE PathsOf(r, p) # {}
    <3>1. ifstate[P(p).nh.inter] # "down" /\ P(p).nh.inter \in Ifaces
      BY <1>11, <1>17, <2>5
    <3>2. p \in DOMAIN tree
      <4>1. PICK o : <<o, p>> \in DOMAIN r
        BY <2>5 DEF PathsOf
      <4> QED BY <1>5, <4>1 DEF Headed
    <3>3. p \in DOMAIN routingtree'
      <4>1. p \in HeadsKept(r, tree, no)
        BY <2>5, <3>2 DEF HeadsKept
      <4> QED BY <1>6, <4>1 DEF UpdateRoutes
    <3>4. /\ routingtree'[p].best = olsr_rt_best(r, p) /\ routingtree'[p].nh = P(p).nh
          /\ Installed(routingtree'[p]) =
                Route(P(p).nh, IF cnf.fib_metric = "approx" THEN routingtree'[p].hops ELSE P(p).hops)
      BY <1>9, <2>1, <2>5, <3>1, <3>3
    <3>5. Wanted(p)' = {Installed(routingtree'[p])}
      <4>1. Wanted(p)' = {Route(P(p).nh, IF cnf.fib_metric = "approx" THEN routingtree'[p].hops ELSE P(p).hops)}
        BY <1>12, <2>1, <2>2, <2>5, <3>4 DEF Wanted, Route, P
      <4> QED BY <3>4, <4>1
    <3>6. CASE Installed(routingtree'[p]) \in kernel'[p]
      BY <2>3, <3>3, <3>5, <3>6
    <3>7. CASE Installed(routingtree'[p]) \notin kernel'[p]
      <4>1. routingtree'[p].nh # NoHop
        BY <3>1, <3>4, RoutesAssumption DEF NoHop
      <4>2. Forgotten(p)'
        BY <2>1, <3>3, <3>7, <4>1 DEF Forgotten, Installed, Route
      <4> QED BY <1>9, <2>1, <3>1, <4>2
    <3> QED BY <3>6, <3>7
  <2> QED BY <2>4, <2>5
<1> QED BY <1>16, <1>17 DEF RunInstalls

\* The removal of an interface that went down or lost its carrier.
LEMMA RemovalKernel ==
    ASSUME TypeInv, KernelInv, NEW i \in Ifaces, olsr_remove_interface(i)
    PROVE  KernelInv' /\ RemovalMovesHeads
<1> DEFINE r == InterfaceRib(i)
           tree == InterfaceTree(i)
           gone == {w \in Wires : w.inter = i /\ linkcost[w] # NoLink}
<1>1. /\ UNCHANGED <<cnf, running, ifstate>> /\ running /\ i \in configured /\ ifstate[i] # "up"
      /\ configured' = configured \ {i} /\ olsr_delete_interface_routes(i)
      /\ linkcost' = [w \in Wires |-> IF w \in gone THEN NoLink ELSE linkcost[w]]
  BY DEF olsr_remove_interface
<1>2. cnf \in [lq_level : LqLevels, fib_metric : FibMetrics, ip_version : IpVersions, fault : Faults]
  BY DEF TypeInv, DbOK
<1>3. /\ LinksOK /\ Held /\ ForgottenExplained /\ StraysExplained
      /\ ifstate \in [Ifaces -> {"up", "carrier", "down"}] /\ configured \subseteq Ifaces
  BY DEF KernelInv, LinksOK, ShutdownClean
<1>4. /\ cnf.fault \in {"prompt", "late", "carrier"}
      /\ cnf.fault = "prompt" => ifstate[i] = "down"
  <2>1. cnf.fault \in {"none", "refuse", "prompt", "late", "carrier"}
    BY <1>2, RoutesAssumption
  <2> QED BY <1>1, <1>3, <2>1 DEF LinksOK
<1>5. ASSUME cnf.fault # "late"
      PROVE  InStep(rib, routingtree) /\ \A j \in configured \ {i} : ifstate[j] # "down"
  <2>1. CASE cnf.fault = "prompt"
    BY <1>1, <1>3, <1>4, <2>1 DEF LinksOK, KernelInv
  <2>2. CASE cnf.fault = "carrier"
    BY <1>3, <2>2 DEF LinksOK, KernelInv
  <2> QED BY <1>4, <1>5, <2>1, <2>2
<1>6. RibOK(r) /\ TreeOK(tree) /\ Headed(r, tree)
  BY InterfaceTables DEF TypeInv
<1>7. DOMAIN r \subseteq DOMAIN rib /\ \A x \in DOMAIN r : r[x] = rib[x] /\ r[x].nh.inter \in configured \ {i}
  BY <1>3 DEF InterfaceRib, LinksOK
<1>8. /\ DOMAIN tree = DOMAIN routingtree \ InterfaceHeads(i)
      /\ \A p \in DOMAIN tree : tree[p] = [routingtree[p] EXCEPT !.best = None] \/ tree[p] = routingtree[p]
  BY DEF InterfaceTree
<1>9. \A p \in DOMAIN routingtree : routingtree[p] \in HeadTypes
  BY DEF TypeInv, TableOK, TreeOK
<1>10. \/ \E no \in Refusals : UpdateRoutes(r, tree, no)
       \/ /\ rib' = r
          /\ UNCHANGED <<routingtree, current_inetgw, kernel, refused, stray>>
          /\ \A p \in DOMAIN routingtree : <<routingtree[p].best, p>> \in DOMAIN rib
                => rib[<<routingtree[p].best, p>>].nh.inter # i
  BY <1>1, InterfaceRoutes DEF TypeInv
<1> HIDE DEF r, tree
<1>11. SameHeads(tree)
  BY <1>8, <1>9 DEF HeadTypes, SameHeads
<1>12. \A w \in Wires : linkcost'[w] # NoLink => w.inter \in configured \ {i}
  <2> SUFFICES ASSUME NEW w \in Wires, linkcost'[w] # NoLink PROVE w.inter \in configured \ {i}
    OBVIOUS
  <2>1. w \notin gone /\ linkcost[w] # NoLink
    BY <1>1
  <2>2. w.inter # i
    BY <2>1
  <2> QED BY <1>3, <2>1, <2>2 DEF LinksOK
<1>13. ASSUME rib' = r PROVE LinksOK'
  BY <1>1, <1>3, <1>7, <1>12, <1>13 DEF LinksOK
<1>14. ASSUME cnf.fault # "late", NEW p \in DOMAIN routingtree \ DOMAIN tree
       PROVE  Installed(routingtree[p]).nh.inter = i
  <2>1. p \in InterfaceHeads(i)
    BY <1>8, <1>14
  <2>2. routingtree[p].nh.inter = i
    BY <1>5, <1>14, <2>1 DEF InStep, InterfaceHeads
  <2> QED BY <2>2 DEF Installed, Route
<1>15. ASSUME NEW no \in Refusals, UpdateRoutes(r, tree, no) PROVE KernelInv' /\ RemovalMovesHeads
  <2> DEFINE P(p) == r[<<olsr_rt_best(r, p), p>>]
  <2>1. no = {}
    BY <1>4 DEF Refusals
  <2>2. \A p \in Dsts \cap (DOMAIN routingtree \ DOMAIN tree) :
           Installed(routingtree[p]) \in kernel[p] => cnf.fault \in {"carrier", "late"}
    BY <1>3, <1>4, <1>14 DEF Held
  <2>3. /\ Held'
        /\ \A p \in DOMAIN routingtree' :
              /\ PathsOf(r, p) = {} => <<"delete", p>> \in no
              /\ PathsOf(r, p) # {} =>
                    /\ routingtree'[p].best = olsr_rt_best(r, p)
                    /\ no = {} /\ ifstate[P(p).nh.inter] # "down" => routingtree'[p].nh = P(p).nh
        /\ \A p \in Dsts : \A k \in stray'[p] \ stray[p] :
              /\ p \in DOMAIN routingtree /\ k = Installed(routingtree[p])
              /\ p \notin DOMAIN tree \/ cnf.fib_metric # "flat" \/ <<"delete", p>> \in no
    BY <1>1, <1>2, <1>3, <1>6, <1>11, <1>15, UpdatedKernel
  <2>4. ForgottenExplained' /\ StraysExplained'
    BY <1>1, <1>2, <1>6, <1>11, <1>15, <2>2, UpdateExplained
  <2>5. rib' = r
    BY <1>15 DEF UpdateRoutes
  <2>6. ASSUME cnf.fault # "late", NEW p \in DOMAIN routingtree'
        PROVE  /\ routingtree'[p].best = olsr_rt_best(r, p)
               /\ routingtree'[p].nh = P(p).nh /\ P(p).nh.inter \in configured \ {i}
    <3>1. PathsOf(r, p) # {}
      BY <2>1, <2>3
    <3>2. <<olsr_rt_best(r, p), p>> \in DOMAIN r
      BY <1>6, <3>1, RtBest
    <3>3. P(p).nh.inter \in configured \ {i}
      BY <1>7, <3>2
    <3> QED BY <1>5, <2>1, <2>3, <2>6, <3>1, <3>3
  <2>7. cnf.fault # "late" => InStep(rib', routingtree')
    BY <2>5, <2>6 DEF InStep
  <2>8. RemovalMovesHeads
    BY <1>1, <1>14, <2>1, <2>3, <2>6 DEF RemovalMovesHeads
  <2>9. LinksOK' /\ ShutdownClean'
    BY <1>1, <1>13, <2>4, <2>5 DEF ShutdownClean
  <2> QED BY <1>1, <2>3, <2>4, <2>7, <2>8, <2>9 DEF KernelInv
<1>16. ASSUME rib' = r, UNCHANGED <<routingtree, current_inetgw, kernel, refused, stray>>,
              \A p \in DOMAIN routingtree : <<routingtree[p].best, p>> \in DOMAIN rib
                 => rib[<<routingtree[p].best, p>>].nh.inter # i
       PROVE  KernelInv' /\ RemovalMovesHeads
  <2>1. Held'
    BY <1>1, <1>3, <1>16 DEF Held, Installed, Route
  <2>2. cnf.fault # "late" => InStep(rib', routingtree')
    BY <1>5, <1>7, <1>16 DEF InStep
  <2>3. RemovalMovesHeads
    BY <1>1, <1>5, <1>16 DEF RemovalMovesHeads, InStep
  <2>4. LinksOK'
    BY <1>13, <1>16
  <2>5. ForgottenExplained' /\ ShutdownClean'
    BY <1>1, <1>3, <1>16 DEF ForgottenExplained, Forgotten, Installed, Route, ShutdownClean, StraysExplained
  <2> QED BY <1>1, <2>1, <2>2, <2>3, <2>4, <2>5 DEF KernelInv
<1> QED BY <1>10, <1>15, <1>16

\* The routes go with the daemon.
LEMMA ShutdownKernel ==
    ASSUME TypeInv, KernelInv, olsr_shutdown
    PROVE  KernelInv'
<1> DEFINE r == << >>
<1>1. /\ UNCHANGED <<cnf, ifstate>> /\ running' = FALSE /\ configured' = {}
      /\ linkcost' = [w \in Wires |-> NoLink]
  BY DEF olsr_shutdown
<1>2. PICK no \in Refusals : UpdateRoutes(r, routingtree, no)
  BY DEF olsr_shutdown
<1>3. DOMAIN r = {}
  OBVIOUS
<1> HIDE DEF r
<1>4. RibOK(r) /\ Headed(r, routingtree) /\ TreeOK(routingtree) /\ \A p : PathsOf(r, p) = {}
  BY <1>3 DEF RibOK, Headed, PathsOf, TypeInv, TableOK
<1>5. rib' = r /\ refused' = (no # {})
  BY <1>2 DEF UpdateRoutes
<1>6. Held /\ SameHeads(routingtree)
  BY DEF KernelInv, SameHeads
<1>7. cnf \in [lq_level : LqLevels, fib_metric : FibMetrics, ip_version : IpVersions, fault : Faults]
  BY DEF TypeInv, DbOK
<1>8. /\ Held'
      /\ \A p \in DOMAIN routingtree' : <<"delete", p>> \in no
  BY <1>1, <1>2, <1>4, <1>6, <1>7, UpdatedKernel
<1>9. ForgottenExplained' /\ StraysExplained'
  BY <1>1, <1>2, <1>4, <1>6, <1>7, UpdateExplained
<1>10. LinksOK'
  BY <1>1, <1>3, <1>5 DEF KernelInv, LinksOK
<1>11. InStep(rib', routingtree')
  BY <1>3, <1>5 DEF InStep
<1>12. ASSUME ~refused', NEW p \in Dsts PROVE kernel'[p] \subseteq stray'[p]
  BY <1>5, <1>8, <1>12 DEF Held
<1>13. ShutdownClean'
  BY <1>9, <1>12 DEF ShutdownClean
<1> QED BY <1>8, <1>9, <1>10, <1>11, <1>13 DEF KernelInv

\* The tables change, the routes only by deleted paths.
LEMMA TablesKernel ==
    ASSUME TypeInv, KernelInv, Tables
    PROVE  KernelInv' /\ configured' = configured /\ spf_backoff_timer' = spf_backoff_timer
<1>0. /\ LinksOK /\ Held /\ DOMAIN linkcost = Wires /\ ForgottenExplained /\ StraysExplained
      /\ cnf.fault \notin {"refuse", "late"} => InStep(rib, routingtree)
  BY DEF KernelInv, TypeInv, DbOK, ShutdownClean
<1>1. /\ running /\ UNCHANGED <<cnf, running>>
      /\ UNCHANGED <<spf_backoff_timer, configured, kernel, ifstate, refused, stray, routingtree>>
  BY DEF Tables, LinkChanges, olsr_delete_link_entry, TcBelieved, olsr_delete_tc_entry, Event, DeletePaths,
         olsr_insert_routing_table, olsr_delete_routing_table, ribVars, envVars
<1>2. \A w \in Wires : linkcost'[w] # NoLink => linkcost[w] # NoLink \/ w.inter \in configured
  <2>1. ASSUME NEW w \in Wires, NEW c, LinkChanges(w, c) PROVE <1>2!:
    BY <1>0, <2>1 DEF LinkChanges
  <2>2. ASSUME NEW w \in Wires, olsr_delete_link_entry(w) PROVE <1>2!:
    BY <1>0, <2>2 DEF olsr_delete_link_entry
  <2>3. CASE linkcost' = linkcost
    BY <2>3
  <2> QED BY <2>1, <2>2, <2>3 DEF Tables, TcBelieved, olsr_delete_tc_entry, olsr_insert_routing_table,
             olsr_delete_routing_table
<1>3. DOMAIN rib' \subseteq DOMAIN rib /\ \A x \in DOMAIN rib' : rib'[x] = rib[x]
  <2>1. ASSUME NEW gone, DeletePaths(gone) PROVE <1>3!:
    BY <2>1 DEF DeletePaths
  <2>2. CASE rib' = rib
    BY <2>2
  <2> QED BY <2>1, <2>2 DEF Tables, LinkChanges, olsr_delete_link_entry, TcBelieved, olsr_delete_tc_entry,
             olsr_insert_routing_table, olsr_delete_routing_table, ribVars
<1>4. LinksOK'
  BY <1>0, <1>1, <1>2, <1>3 DEF LinksOK
<1>5. Held' /\ ForgottenExplained' /\ ShutdownClean'
  <2>1. Held'
    BY <1>0, <1>1 DEF Held, Installed, Route
  <2>2. ForgottenExplained' /\ ShutdownClean'
    BY <1>0, <1>1 DEF ForgottenExplained, Forgotten, Installed, Route, ShutdownClean, StraysExplained
  <2> QED BY <2>1, <2>2
<1>6. cnf'.fault \notin {"refuse", "late"} => InStep(rib', routingtree')
  BY <1>0, <1>1, <1>3 DEF InStep
<1> QED BY <1>1, <1>4, <1>5, <1>6 DEF KernelInv

\* Interfaces fail, recover, and are used again.
LEMMA InterfaceKernel ==
    ASSUME TypeInv, KernelInv, NEW i \in Ifaces,
           InterfaceFails(i) \/ InterfaceRecovers(i) \/ chk_if_up(i)
    PROVE  KernelInv' /\ configured \subseteq configured' /\ spf_backoff_timer' = spf_backoff_timer
<1>0. /\ LinksOK /\ Held /\ ifstate \in [Ifaces -> {"up", "carrier", "down"}]
      /\ ForgottenExplained /\ StraysExplained
      /\ cnf.fault \notin {"refuse", "late"} => InStep(rib, routingtree)
  BY DEF KernelInv, LinksOK, ShutdownClean
<1>1. /\ running /\ UNCHANGED <<cnf, running, spf_backoff_timer, linkcost, rib, routingtree>>
      /\ configured \subseteq configured'
      /\ \A p : Installed(routingtree[p])' = Installed(routingtree[p])
  BY DEF InterfaceFails, InterfaceRecovers, chk_if_up, Event, dbVars, ribVars, Installed, Route
<1>2. CASE InterfaceFails(i) /\ cnf.fault # "carrier"
  <2>1. /\ cnf.fault \in {"prompt", "late"} /\ Unnoticed = {} /\ configured' = configured
        /\ ifstate' = [ifstate EXCEPT ![i] = "down"]
        /\ kernel' = [p \in Dsts |-> {k \in kernel[p] : k.nh.inter # i}]
        /\ stray' = [p \in Dsts |-> stray[p] \cap kernel'[p]]
    BY <1>2 DEF InterfaceFails
  <2>2. cnf.fault = "prompt" => \A j \in configured : ifstate[j] # "down"
    BY <2>1 DEF Unnoticed
  <2>3. LinksOK'
    BY <1>0, <1>1, <2>1, <2>2 DEF LinksOK
  <2>4. Held'
    <3> SUFFICES ASSUME NEW p \in Dsts
                 PROVE  /\ stray'[p] \subseteq kernel'[p]
                        /\ \A k \in kernel'[p] :
                              /\ k.nh.inter \in Ifaces /\ ifstate'[k.nh.inter] # "down"
                              /\ k \in stray'[p] \/ (p \in DOMAIN routingtree /\ k = Installed(routingtree[p]))
                        /\ p \in DOMAIN routingtree => Installed(routingtree[p]) \notin stray'[p]
      BY <1>1 DEF Held
    <3>1. kernel'[p] = {k \in kernel[p] : k.nh.inter # i} /\ stray'[p] = stray[p] \cap kernel'[p]
      BY <2>1
    <3>2. ASSUME NEW k \in kernel'[p] PROVE k.nh.inter \in Ifaces /\ ifstate'[k.nh.inter] # "down"
      <4>1. k.nh.inter \in Ifaces /\ ifstate[k.nh.inter] # "down" /\ k.nh.inter # i
        BY <1>0, <3>1, <3>2 DEF Held
      <4> QED BY <1>0, <2>1, <4>1
    <3> QED BY <1>0, <3>1, <3>2 DEF Held
  <2>5. ForgottenExplained' /\ ShutdownClean'
    BY <1>0, <1>1, <2>1 DEF ForgottenExplained, ShutdownClean, StraysExplained
  <2> QED BY <1>0, <1>1, <2>3, <2>4, <2>5 DEF KernelInv
<1>3. ASSUME kernel' = kernel, stray' = stray, LinksOK',
             \A j \in Ifaces : ifstate'[j] = "down" => ifstate[j] = "down"
      PROVE  KernelInv'
  <2>1. Held'
    BY <1>0, <1>1, <1>3 DEF Held
  <2>2. ForgottenExplained' /\ ShutdownClean'
    BY <1>0, <1>1, <1>3 DEF ForgottenExplained, Forgotten, ShutdownClean, StraysExplained
  <2> QED BY <1>0, <1>1, <1>3, <2>1, <2>2 DEF KernelInv
<1>4. CASE InterfaceFails(i) /\ cnf.fault = "carrier"
  <2>1. /\ configured' = configured /\ ifstate' = [ifstate EXCEPT ![i] = "carrier"] /\ kernel' = kernel
        /\ \A p \in Dsts : stray'[p] = stray[p] \cap kernel[p]
    BY <1>4 DEF InterfaceFails
  <2>2. LinksOK'
    BY <1>0, <1>1, <1>4, <2>1 DEF LinksOK
  <2>3. \A p \in Dsts : stray'[p] = stray[p]
    BY <1>0, <2>1 DEF Held
  <2>4. Held'
    BY <1>0, <1>1, <2>1, <2>3 DEF Held
  <2>5. ForgottenExplained' /\ ShutdownClean'
    BY <1>0, <1>1, <2>1, <2>3 DEF ForgottenExplained, Forgotten, ShutdownClean, StraysExplained
  <2> QED BY <1>0, <1>1, <2>2, <2>4, <2>5 DEF KernelInv
<1>5. CASE InterfaceRecovers(i)
  <2>1. configured' = configured /\ kernel' = kernel /\ stray' = stray /\ ifstate' = [ifstate EXCEPT ![i] = "up"]
    BY <1>5 DEF InterfaceRecovers
  <2>2. LinksOK'
    BY <1>0, <1>1, <2>1 DEF LinksOK
  <2>3. \A j \in Ifaces : ifstate'[j] = "down" => ifstate[j] = "down"
    BY <1>0, <2>1
  <2> QED BY <1>1, <1>3, <2>1, <2>2, <2>3
<1>6. CASE chk_if_up(i)
  <2>1. /\ configured' = configured \cup {i} /\ kernel' = kernel /\ stray' = stray /\ ifstate' = ifstate
        /\ ifstate[i] = "up"
    BY <1>6 DEF chk_if_up, envVars
  <2>2. LinksOK'
    BY <1>0, <1>1, <2>1 DEF LinksOK
  <2>3. \A j \in Ifaces : ifstate'[j] = "down" => ifstate[j] = "down"
    BY <2>1
  <2> QED BY <1>1, <1>3, <2>1, <2>2, <2>3
<1> QED BY <1>1, <1>2, <1>4, <1>5, <1>6

\* A step keeps the kernel and the heads together, and is one KernelFollows allows.
LEMMA KernelStep ==
    ASSUME TypeInv, KernelInv, [Next]_vars
    PROVE  KernelInv' /\ [RunInstalls /\ RemovalMovesHeads /\ ForgottenExplained]_vars
<1> DEFINE Goal == KernelInv' /\ RunInstalls /\ RemovalMovesHeads
<1>1. ASSUME spf_backoff_timer' = spf_backoff_timer \/ ~spf_backoff_timer' PROVE RunInstalls
  BY <1>1 DEF RunInstalls, Run
<1>2. ASSUME configured \subseteq configured' \/ ~running' PROVE RemovalMovesHeads
  BY <1>2 DEF RemovalMovesHeads
<1>3. ASSUME Tables PROVE Goal
  BY <1>1, <1>2, <1>3, TablesKernel
<1>4. ASSUME NEW i \in Ifaces, InterfaceFails(i) \/ InterfaceRecovers(i) \/ chk_if_up(i) PROVE Goal
  <2>1. KernelInv' /\ configured \subseteq configured' /\ spf_backoff_timer' = spf_backoff_timer
    BY <1>4, InterfaceKernel
  <2> QED BY <1>1, <1>2, <2>1
<1>5. ASSUME NEW i \in Ifaces, olsr_remove_interface(i) PROVE Goal
  <2>1. KernelInv' /\ RemovalMovesHeads
    BY <1>5, RemovalKernel
  <2>2. spf_backoff_timer' = spf_backoff_timer
    BY <1>5 DEF olsr_remove_interface
  <2> QED BY <1>1, <2>1, <2>2
<1>6. ASSUME Interfaces PROVE Goal
  BY <1>4, <1>5, <1>6 DEF Interfaces
<1>7. ASSUME UNCHANGED <<cnf, dbVars, ribVars, configured, running, envVars>> PROVE KernelInv'
  <2>1. /\ UNCHANGED <<cnf, linkcost, rib, routingtree, configured, running, kernel, ifstate, refused, stray>>
        /\ \A p : Installed(routingtree[p])' = Installed(routingtree[p])
    BY <1>7 DEF dbVars, ribVars, envVars, Installed, Route
  <2>2. LinksOK'
    BY <2>1 DEF KernelInv, LinksOK
  <2>3. Held'
    BY <2>1 DEF KernelInv, Held
  <2>4. ForgottenExplained' /\ ShutdownClean'
    BY <2>1 DEF KernelInv, ForgottenExplained, Forgotten, ShutdownClean, StraysExplained
  <2> QED BY <2>1, <2>2, <2>3, <2>4 DEF KernelInv
<1>8. ASSUME olsr_process_changes PROVE Goal
  <2>1. CASE olsr_calculate_routing_table
    <3>1. KernelInv' /\ RunInstalls
      BY <1>8, <2>1, RunKernel
    <3>2. configured' = configured
      BY <1>8 DEF olsr_process_changes
    <3> QED BY <1>2, <3>1, <3>2
  <2>2. CASE UNCHANGED <<spf_backoff_timer, dbVars, ribVars, envVars>>
    <3>1. UNCHANGED <<cnf, configured, running>>
      BY <1>8 DEF olsr_process_changes
    <3> QED BY <1>1, <1>2, <1>7, <2>2, <3>1
  <2> QED BY <1>8, <2>1, <2>2 DEF olsr_process_changes
<1>9. ASSUME olsr_expire_spf_backoff PROVE Goal
  BY <1>1, <1>2, <1>7, <1>9 DEF olsr_expire_spf_backoff
<1>10. ASSUME olsr_shutdown PROVE Goal
  <2>1. KernelInv'
    BY <1>10, ShutdownKernel
  <2> QED BY <1>1, <1>2, <1>10, <2>1 DEF olsr_shutdown
<1>11. ASSUME UNCHANGED vars PROVE KernelInv'
  BY <1>7, <1>11 DEF vars
<1>12. ForgottenExplained
  BY DEF KernelInv
<1> QED BY <1>3, <1>6, <1>8, <1>9, <1>10, <1>11, <1>12 DEF Next

LEMMA KernelAlways ==
    Spec => []KernelInv
<1>1. TypeInv /\ KernelInv /\ [Next]_vars => KernelInv'
  BY KernelStep
<1> QED BY <1>1, KernelInit, TypeInvAlways, PTL DEF Spec

\* A daemon that ended without a refusal (olsr_shutdown, olsr_delete_all_kernel_routes) left no
\* route in the kernel but those its heads lost sight of before: in olsr_delete_interface_routes
\* for an interface that lost its carrier or failed while others had, by a refused delete in
\* olsr_chg_kernel_routes with IPv6, or with hop counts as metrics.  Otherwise it left none.
THEOREM NoRouteLeftBehind ==
    Spec => []ShutdownClean
<1>1. KernelInv => ShutdownClean
  BY DEF KernelInv
<1> QED BY <1>1, KernelAlways, PTL

\* Every run whose requests the kernel took (olsr_update_kernel_routes) leaves exactly the routes of
\* the RIB beside those the heads lost sight of, but for heads whose route the kernel had dropped or
\* lost to a refused IPv6 add, and the removal of an interface (olsr_delete_interface_routes) leaves
\* no head on it whose best path was still there and loses sight of no route over another one.
THEOREM KernelAlwaysFollows ==
    Spec => KernelFollows
<1>1. TypeInv /\ KernelInv /\ [Next]_vars => [RunInstalls /\ RemovalMovesHeads /\ ForgottenExplained]_vars
  BY KernelStep
<1> QED BY <1>1, KernelAlways, TypeInvAlways, PTL DEF Spec, KernelFollows
=============================================================================
