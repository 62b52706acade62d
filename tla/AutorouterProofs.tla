--------------------------- MODULE AutorouterProofs ---------------------------
(***************************************************************************)
(* Theorems about Autorouter, for every set of nodes, every link cost and  *)
(* every margin: the search computes shortest paths, the hysteresis bounds *)
(* the detour, orphans are the unreachable modules, and secondary parents  *)
(* form no loop.                                                           *)
(***************************************************************************)
EXTENDS Autorouter, FiniteSetTheorems, WellFoundedInduction, TLAPS

\* Every nonempty set of naturals has a least element.
LEMMA LeastNatural ==
  ASSUME NEW T \in SUBSET Nat, T # {}
  PROVE  \E x \in T : \A y \in T : x <= y
<1> DEFINE R == OpToRel(<, Nat)
<1>1. IsWellFoundedOn(R, Nat)
  BY NatLessThanWellFounded
<1>2. \E x \in T : \A y \in T : <<y, x>> \notin R
  <2> HIDE DEF R
  <2> QED BY <1>1, WFMin
<1>3. \A x, y \in Nat : <<y, x>> \notin R => x <= y
  BY DEF OpToRel
<1> QED
  <2> HIDE DEF R
  <2> QED BY <1>2, <1>3

-----------------------------------------------------------------------------
(* The graph and the types.                                                *)

LEMMA EdgeWeight ==
  ASSUME TypeOK, NEW u, NEW v, Edge(u, v)
  PROVE  /\ u \in Everyone /\ v \in Everyone
         /\ Weight(u, v) \in Nat \ {0}
         /\ Edge(v, u) /\ Weight(v, u) = Weight(u, v)
<1>1. u \in Everyone /\ v \in Everyone /\ Edge(v, u)
  BY RouterAssumption DEF TypeOK, Edge, Vertices, Everyone
<1>2. ASSUME NEW x, NEW y, Reports(x, y)  PROVE nbrs[x][y] \in Nat \ {0}
  <2>1. nbrs[x] \in [Nodes -> Costs \cup {NoLink}] /\ y \in Nodes
    BY <1>2 DEF TypeOK, Reports
  <2>2. nbrs[x][y] \in Costs
    BY <1>2, <2>1 DEF Reports
  <2> QED
    BY <2>2, RouterAssumption
<1>3. CASE Reports(u, v) /\ Reports(v, u)
  BY <1>1, <1>2, <1>3 DEF Weight
<1>4. CASE Reports(u, v) /\ ~Reports(v, u)
  BY <1>1, <1>2, <1>4 DEF Weight
<1>5. CASE ~Reports(u, v) /\ Reports(v, u)
  BY <1>1, <1>2, <1>5 DEF Weight
<1> QED
  BY <1>3, <1>4, <1>5 DEF Edge

LEMMA VerticesType == TypeOK => Vertices \subseteq Everyone /\ gateway \in Vertices
BY RouterAssumption DEF TypeOK, Vertices, Everyone

\* What one relaxation does to the distances.
LEMMA ImprovedFacts ==
  ASSUME TypeOK, NEW d \in Nat, NEW u \in Everyone
  PROVE  \A v \in Improved(d, u) :
           v \in Everyone /\ u # v /\ d + Weight(u, v) \in Nat
BY EdgeWeight DEF Improved, Edge

LEMMA TypeStep == TypeOK /\ [Next]_vars => TypeOK'
<1> SUFFICES ASSUME TypeOK, [Next]_vars  PROVE TypeOK'
  OBVIOUS
<1>1. CASE UNCHANGED vars
  BY <1>1 DEF TypeOK, vars, mesh, routes, search
<1>2. ASSUME NEW m \in Nodes, Heard(m) \/ Expire(m)  PROVE TypeOK'
  BY <1>2 DEF Heard, Expire, TypeOK, routes, search
<1>3. ASSUME NEW m \in Nodes, OnNeighbors(m)  PROVE TypeOK'
  <2>1. PICK table \in [Nodes \ {m} -> Costs \cup {NoLink}] :
          nbrs' = [nbrs EXCEPT ![m] =
                     [n \in Nodes |-> IF n = m THEN NoLink ELSE table[n]]]
    BY <1>3 DEF OnNeighbors
  <2>2. [n \in Nodes |-> IF n = m THEN NoLink ELSE table[n]]
          \in [Nodes -> Costs \cup {NoLink}]
    OBVIOUS
  <2> QED
    BY <1>3, <2>1, <2>2 DEF OnNeighbors, TypeOK, routes, search
<1>4. ASSUME NEW h \in Gateways, AdoptGateway(h)  PROVE TypeOK'
  BY <1>4, RouterAssumption DEF AdoptGateway, TypeOK, routes, search
<1>5. CASE Begin
  BY <1>5, RouterAssumption
     DEF Begin, TypeOK, Unreached, NoParents, Distances, Everyone, mesh, routes
<1>6. ASSUME NEW e \in pq, Pop(e[1], e[2])  PROVE TypeOK'
  <2>1. e[1] \in Nat /\ e[2] \in Everyone
    BY DEF TypeOK
  <2>2. CASE e[1] > dist[e[2]]
    BY <1>6, <2>2 DEF Pop, TypeOK, mesh, routes
  <2>3. CASE ~ (e[1] > dist[e[2]])
    <3>1. Relax(e[1], e[2]) /\ UNCHANGED <<mesh, routes, pc>>
      BY <1>6, <2>3 DEF Pop
    <3>2. dist' \in [Everyone -> Distances] /\ prev' \in [Everyone -> Everyone \cup {None}]
      BY <2>1, <3>1, ImprovedFacts DEF Relax, TypeOK, Distances
    <3>3. pq' \subseteq Nat \X Everyone
      BY <2>1, <3>1, ImprovedFacts DEF Relax, TypeOK
    <3> QED
      BY <3>1, <3>2, <3>3 DEF TypeOK, mesh, routes
  <2> QED
    BY <2>2, <2>3
<1>7. CASE Assign
  <2>1. primary' \in [Nodes -> Everyone \cup {None}]
    BY <1>7 DEF Assign, ChoosePrimary, TypeOK, Routed, Everyone
  <2>2. secondary' \in [Nodes -> Everyone \cup {None}]
    <3>1. PICK s \in [Routed -> Vertices \cup {None}] :
            secondary' = [m \in Nodes |-> IF m \in Routed THEN s[m] ELSE secondary[m]]
      BY <1>7 DEF Assign
    <3> QED
      BY <3>1, VerticesType DEF TypeOK
  <2>3. subs' \in [Nodes -> SUBSET Nodes]
    <3>1. PICK s \in [Routed -> SUBSET (online \cap Providers)] :
            subs' = [m \in Nodes |-> IF m \in Routed THEN s[m] ELSE subs[m]]
      BY <1>7 DEF Assign
    <3> QED
      BY <3>1 DEF TypeOK
  <2> QED
    BY <1>7, <2>1, <2>2, <2>3 DEF Assign, TypeOK, mesh, search
<1>8. CASE Return
  BY <1>8 DEF Return, TypeOK, Unreached, NoParents, Distances, mesh, routes
<1> QED
  BY <1>1, <1>2, <1>3, <1>4, <1>5, <1>6, <1>7, <1>8 DEF Next

\* The state stays well typed: distances are naturals or Inf, parents are nodes.
THEOREM TypeCorrect == Spec => []TypeOK
<1>1. Init => TypeOK
  BY RouterAssumption DEF Init, TypeOK, Unreached, NoParents, Distances
<1> QED
  BY <1>1, TypeStep, PTL DEF Spec

-----------------------------------------------------------------------------
(* The search.  A node whose current distance is no longer in the heap has *)
(* been expanded: its edges shorten nothing.  A node that was reached is   *)
(* never closer than its predecessor allows.  The order in which entries   *)
(* are popped plays no part.                                               *)

Pending(u) == <<dist[u], u>> \in pq

\* An edge from u brings no node closer.
Settled(u) ==
  \A v \in Vertices :
    Edge(u, v) => dist[v] # Inf /\ dist[v] <= dist[u] + Weight(u, v)

\* v was reached over the edge from its predecessor.
Supported(v) ==
  /\ Edge(prev[v], v) /\ dist[prev[v]] # Inf
  /\ dist[v] >= dist[prev[v]] + Weight(prev[v], v)

SearchInv ==
  pc # "idle" =>
    /\ dist[gateway] = 0
    /\ \A v \in Everyone : dist[v] # Inf => v \in Vertices
    /\ \A e \in pq : dist[e[2]] # Inf /\ dist[e[2]] <= e[1]
    /\ \A u \in Everyone : dist[u] # Inf => Pending(u) \/ Settled(u)
    /\ \A v \in Everyone \ {gateway} : dist[v] # Inf => Supported(v)
    /\ \A v \in Everyone : prev[v] # None <=> v # gateway /\ dist[v] # Inf
    /\ pc = "computed" => pq = {}

\* A relaxation of the current distance of u keeps the search invariant.
LEMMA RelaxStep ==
  ASSUME TypeOK, SearchInv, pc = "dijkstra",
         NEW u \in Everyone, Pending(u), Relax(dist[u], u),
         UNCHANGED <<mesh, routes, pc>>
  PROVE  SearchInv'
<1> DEFINE d == dist[u]
           I == Improved(d, u)
<1>1. d \in Nat /\ u \in Vertices
  BY DEF TypeOK, Pending, SearchInv
<1>2. /\ \A v \in I : /\ v \in Vertices /\ v \in Everyone /\ u # v /\ v # gateway
                      /\ Edge(u, v) /\ dist'[v] = d + Weight(u, v)
                      /\ dist'[v] \in Nat /\ dist'[v] # Inf /\ prev'[v] = u
                      /\ <<dist'[v], v>> \in pq'
                      /\ dist[v] # Inf => dist'[v] < dist[v]
      /\ \A v \in Everyone \ I : dist'[v] = dist[v] /\ prev'[v] = prev[v]
      /\ dist' \in [Everyone -> Distances] /\ u \notin I
  <2>1. \A v \in I : v \in Vertices /\ v \in Everyone /\ u # v /\ Edge(u, v)
                     /\ Weight(u, v) \in Nat /\ Shorter(d + Weight(u, v), dist[v])
    BY EdgeWeight DEF Improved, Edge
  <2>2. gateway \notin I
    BY <1>1, <2>1, RouterAssumption DEF SearchInv, Shorter
  <2>3. \A v \in I : d + Weight(u, v) \in Nat /\ d + Weight(u, v) # Inf
    BY <1>1, <2>1, RouterAssumption
  <2>4. \A v \in I : dist[v] # Inf => d + Weight(u, v) < dist[v]
    BY <2>1 DEF Shorter
  <2> HIDE DEF I
  <2>5. dist' = [v \in Everyone |-> IF v \in I THEN d + Weight(u, v) ELSE dist[v]]
        /\ prev' = [v \in Everyone |-> IF v \in I THEN u ELSE prev[v]]
        /\ pq' = (pq \ {<<d, u>>}) \cup {<<d + Weight(u, v), v>> : v \in I}
    BY DEF Relax, I
  <2> QED
    BY <2>1, <2>2, <2>3, <2>4, <2>5 DEF TypeOK, Distances
<1> HIDE DEF I
<1>3. \A x, y : Edge(x, y)' = Edge(x, y)
      /\ Weight(x, y)' = Weight(x, y) /\ Vertices' = Vertices
  BY DEF Edge, Weight, Reports, Vertices, mesh
<1>4. \A v \in Everyone : dist[v] # Inf =>
        dist'[v] # Inf /\ dist[v] \in Nat /\ dist'[v] \in Nat /\ dist'[v] <= dist[v]
  <2>1. ASSUME NEW v \in Everyone, dist[v] # Inf
        PROVE  dist'[v] # Inf /\ dist[v] \in Nat /\ dist'[v] \in Nat
               /\ dist'[v] <= dist[v]
    <3>1. dist[v] \in Nat
      BY <2>1 DEF TypeOK, Distances
    <3>2. CASE v \in I
      <4>1. dist'[v] # Inf /\ dist'[v] \in Nat
        BY <1>2, <3>2
      <4>2. dist'[v] < dist[v]
        BY <1>2, <2>1, <3>2
      <4> QED
        BY <3>1, <4>1, <4>2
    <3>3. CASE v \notin I
      BY <1>2, <2>1, <3>1, <3>3
    <3> QED
      BY <3>2, <3>3
  <2> QED
    BY <2>1
<1>5. ASSUME NEW e \in pq'  PROVE dist'[e[2]] # Inf /\ dist'[e[2]] <= e[1]
  <2>1. CASE e \in pq
    BY <1>4, <2>1 DEF TypeOK, SearchInv
  <2>2. CASE e \notin pq
    <3>1. PICK v \in I : e = <<d + Weight(u, v), v>>
      BY <2>2 DEF Relax, I
    <3>2. dist'[v] = d + Weight(u, v) /\ dist'[v] \in Nat /\ dist'[v] # Inf
      BY <1>2
    <3>3. e[1] = dist'[v] /\ e[2] = v
      BY <3>1, <3>2
    <3> QED
      BY <3>2, <3>3
  <2> QED
    BY <2>1, <2>2
<1>6. Settled(u)'
  <2>1. ASSUME NEW v \in Vertices, Edge(u, v)
        PROVE  dist'[v] # Inf /\ dist'[v] <= dist'[u] + Weight(u, v)
    <3>1. dist'[u] = d /\ Weight(u, v) \in Nat /\ v \in Everyone
      BY <1>2, <2>1, EdgeWeight
    <3>2. CASE v \in I
      <4>1. dist'[v] = d + Weight(u, v) /\ dist'[v] \in Nat /\ dist'[v] # Inf
        BY <1>2, <3>2
      <4> QED
        BY <3>1, <4>1
    <3>3. CASE v \notin I
      BY <1>1, <1>2, <2>1, <3>1, <3>3, RouterAssumption
         DEF I, Improved, Shorter, TypeOK, Distances
    <3> QED
      BY <3>2, <3>3
  <2> QED
    BY <1>3, <2>1 DEF Settled
<1>7. ASSUME NEW w \in Everyone, dist'[w] # Inf  PROVE Pending(w)' \/ Settled(w)'
  <2>1. CASE w = u
    BY <1>6, <2>1
  <2>2. CASE w \in I
    BY <1>2, <2>2 DEF Pending
  <2>3. CASE w # u /\ w \notin I /\ Pending(w)
    BY <1>2, <2>3 DEF Pending, Relax
  <2>4. CASE w # u /\ w \notin I /\ ~Pending(w)
    <3>1. Settled(w) /\ dist'[w] = dist[w] /\ dist[w] \in Nat
      BY <1>2, <1>7, <2>4 DEF SearchInv, TypeOK, Distances
    <3>2. ASSUME NEW v \in Vertices, Edge(w, v)
          PROVE  dist'[v] # Inf /\ dist'[v] <= dist'[w] + Weight(w, v)
      <4>1. v \in Everyone /\ Weight(w, v) \in Nat
        BY <3>2, EdgeWeight
      <4>2. dist[v] # Inf /\ dist[v] <= dist[w] + Weight(w, v)
        BY <3>1, <3>2 DEF Settled
      <4> QED
        BY <1>4, <3>1, <4>1, <4>2
    <3> QED
      BY <1>3, <3>2 DEF Settled
  <2> QED
    BY <2>1, <2>2, <2>3, <2>4
<1>8. ASSUME NEW v \in Everyone \ {gateway}, dist'[v] # Inf  PROVE Supported(v)'
  <2>1. CASE v \in I
    <3>1. prev'[v] = u /\ dist'[u] = d /\ dist'[v] = d + Weight(u, v) /\ Edge(u, v)
          /\ dist'[v] \in Nat
      BY <1>2, <2>1
    <3> QED
      BY <1>1, <1>3, <3>1, RouterAssumption DEF Supported
  <2>2. CASE v \notin I
    <3>1. dist'[v] = dist[v] /\ prev'[v] = prev[v] /\ Supported(v)
      BY <1>2, <1>8, <2>2 DEF SearchInv
    <3>2. prev[v] \in Everyone /\ Weight(prev[v], v) \in Nat
      BY <3>1, EdgeWeight DEF Supported
    <3>3. dist'[prev[v]] # Inf /\ dist'[prev[v]] <= dist[prev[v]]
          /\ dist'[prev[v]] \in Nat /\ dist[prev[v]] \in Nat
      BY <1>4, <3>1, <3>2 DEF Supported
    <3>4. dist'[v] \in Nat
      BY <1>2, <1>8, <3>1 DEF Distances
    <3> QED
      BY <1>3, <3>1, <3>2, <3>3, <3>4 DEF Supported
  <2> QED
    BY <2>1, <2>2
<1>9. gateway' = gateway /\ pc' = "dijkstra"
  BY DEF mesh
<1>10. dist'[gateway] = 0
  BY <1>2, VerticesType DEF SearchInv
<1>11. \A v \in Everyone : dist'[v] # Inf => v \in Vertices'
  BY <1>2, <1>3 DEF SearchInv
<1>12. \A v \in Everyone : prev'[v] # None <=> v # gateway /\ dist'[v] # Inf
  BY <1>2, RouterAssumption DEF SearchInv, Everyone
<1> QED
  BY <1>5, <1>7, <1>8, <1>9, <1>10, <1>11, <1>12 DEF SearchInv

LEMMA SearchStep == TypeOK /\ SearchInv /\ [Next]_vars => SearchInv'
<1> SUFFICES ASSUME TypeOK, SearchInv, [Next]_vars  PROVE SearchInv'
  OBVIOUS
<1>1. CASE UNCHANGED vars
  BY <1>1 DEF SearchInv, Pending, Settled, Supported, Edge, Weight, Reports,
              Vertices, vars, mesh, search
<1>2. ASSUME NEW m \in Nodes, Heard(m) \/ OnNeighbors(m) \/ Expire(m)
      PROVE  SearchInv'
  BY <1>2 DEF Heard, OnNeighbors, Expire, SearchInv
<1>3. ASSUME NEW h \in Gateways, AdoptGateway(h)  PROVE SearchInv'
  BY <1>3 DEF AdoptGateway, SearchInv
<1>4. CASE Begin
  <2>1. dist' = [Unreached EXCEPT ![gateway] = 0] /\ prev' = NoParents
        /\ pq' = {<<0, gateway>>} /\ pc' = "dijkstra" /\ UNCHANGED mesh
    BY <1>4 DEF Begin
  <2>2. gateway' = gateway /\ gateway \in Everyone /\ gateway \in Vertices'
    BY <2>1, VerticesType DEF mesh, Vertices
  <2>3. \A v \in Everyone : dist'[v] = (IF v = gateway THEN 0 ELSE Inf) /\ prev'[v] = None
    BY <2>1 DEF Unreached, NoParents
  <2>4. dist'[gateway] = 0 /\ 0 # Inf
    BY <2>2, <2>3, RouterAssumption
  <2> QED
    BY <2>1, <2>2, <2>3, <2>4 DEF SearchInv, Pending
<1>5. ASSUME NEW e \in pq, Pop(e[1], e[2])  PROVE SearchInv'
  <2>1. e = <<e[1], e[2]>> /\ e[1] \in Nat /\ e[2] \in Everyone /\ pc = "dijkstra"
        /\ UNCHANGED <<mesh, routes, pc>>
    BY <1>5 DEF TypeOK, Pop
  <2>2. dist[e[2]] \in Nat /\ dist[e[2]] <= e[1]
    BY <2>1 DEF SearchInv, TypeOK, Distances
  <2>3. CASE e[1] > dist[e[2]]
    \* A stale entry: no node's current distance leaves the heap.
    <3>1. pq' = pq \ {e} /\ UNCHANGED <<dist, prev>>
      BY <1>5, <2>1, <2>3 DEF Pop
    <3>2. \A u \in Everyone : Pending(u) => Pending(u)'
      BY <2>2, <2>3, <3>1 DEF Pending
    <3>3. \A u : (Settled(u) => Settled(u)') /\ (Supported(u) => Supported(u)')
      BY <2>1, <3>1 DEF Settled, Supported, Edge, Weight, Reports, Vertices, mesh
    <3>4. Vertices' = Vertices /\ gateway' = gateway /\ pc' = "dijkstra"
      BY <2>1 DEF Vertices, mesh
    <3> QED
      BY <2>1, <3>1, <3>2, <3>3, <3>4 DEF SearchInv
  <2>4. CASE ~ (e[1] > dist[e[2]])
    <3>1. e[1] = dist[e[2]]
      BY <2>1, <2>2, <2>4
    <3>2. Pending(e[2]) /\ Relax(dist[e[2]], e[2])
      BY <1>5, <2>1, <2>4, <3>1 DEF Pop, Pending
    <3> QED
      BY <2>1, <3>2, RelaxStep
  <2> QED
    BY <2>3, <2>4
<1>6. CASE Assign
  BY <1>6 DEF Assign, SearchInv, Pending, Settled, Supported, Edge, Weight,
              Reports, Vertices, mesh, search
<1>7. CASE Return
  BY <1>7 DEF Return, SearchInv
<1> QED
  BY <1>1, <1>2, <1>3, <1>4, <1>5, <1>6, <1>7 DEF Next

LEMMA SearchCorrect == Spec => [](TypeOK /\ SearchInv)
<1>1. Init => SearchInv
  BY DEF Init, SearchInv
<1> QED
  BY <1>1, TypeCorrect, SearchStep, PTL DEF Spec

LEMMA TreeAtEnd == TypeOK /\ SearchInv => ShortestPathTree
<1> SUFFICES ASSUME TypeOK, SearchInv, SearchDone  PROVE
      /\ dist[gateway] = 0
      /\ \A u, v \in Vertices :
           Edge(u, v) /\ dist[u] # Inf =>
             dist[v] # Inf /\ dist[v] <= dist[u] + Weight(u, v)
      /\ \A v \in Everyone \ {gateway} :
           dist[v] # Inf =>
             /\ Edge(prev[v], v) /\ dist[prev[v]] # Inf
             /\ dist[v] = dist[prev[v]] + Weight(prev[v], v)
  BY DEF ShortestPathTree
<1>1. pc # "idle" /\ pq = {}
  BY DEF SearchDone, SearchInv
<1>2. \A u \in Everyone : dist[u] # Inf => Settled(u)
  BY <1>1 DEF SearchInv, Pending
<1>3. ASSUME NEW u \in Vertices, NEW v \in Vertices, Edge(u, v), dist[u] # Inf
      PROVE  dist[v] # Inf /\ dist[v] <= dist[u] + Weight(u, v)
  BY <1>2, <1>3, VerticesType DEF Settled
<1>4. ASSUME NEW v \in Everyone \ {gateway}, dist[v] # Inf
      PROVE  /\ Edge(prev[v], v) /\ dist[prev[v]] # Inf
             /\ dist[v] = dist[prev[v]] + Weight(prev[v], v)
  <2>1. Supported(v)
    BY <1>1, <1>4 DEF SearchInv
  <2>2. prev[v] \in Vertices /\ v \in Vertices /\ prev[v] \in Everyone
        /\ Weight(prev[v], v) \in Nat
    BY <2>1, EdgeWeight DEF Supported, Edge
  <2>3. dist[v] <= dist[prev[v]] + Weight(prev[v], v)
    BY <1>3, <2>1, <2>2 DEF Supported
  <2>4. dist[v] \in Nat /\ dist[prev[v]] \in Nat
    BY <1>4, <2>1, <2>2 DEF Supported, TypeOK, Distances
  <2> QED
    BY <2>1, <2>2, <2>3, <2>4 DEF Supported
<1> QED
  BY <1>1, <1>3, <1>4 DEF SearchInv

\* However the links change between two searches, each search ends with
\* distances and predecessors that satisfy the equations of shortest paths.
THEOREM DijkstraCorrect == Spec => []ShortestPathTree
BY SearchCorrect, TreeAtEnd, PTL

-----------------------------------------------------------------------------
(* Paths.  Along any path the distances fall behind its length; the path over *)
(* predecessors, on which distances increase, has exactly their length.       *)

\* Sums[i] is the length of the first i vertices of p.
SumsUp(sums, p, n) ==
  sums = [i \in 1 .. n |-> IF i = 1 THEN 0 ELSE sums[i - 1] + Weight(p[i - 1], p[i])]

LEMMA PathSums ==
  ASSUME NEW n \in Nat \ {0}, NEW p
  PROVE  \E sums : SumsUp(sums, p, n) /\ Length(p, n) = sums[n]
<1> DEFINE Lacking == {k \in 1 .. n : ~ \E sums : SumsUp(sums, p, k)}
<1>1. ASSUME Lacking # {}  PROVE FALSE
  <2>1. PICK k \in Lacking : \A j \in Lacking : k <= j
    <3>1. Lacking \in SUBSET Nat
      OBVIOUS
    <3> HIDE DEF Lacking
    <3> QED BY <1>1, <3>1, LeastNatural
  <2>2. CASE k = 1
    <3>1. SumsUp([i \in 1 .. 1 |-> 0], p, 1)
      BY DEF SumsUp
    <3> QED
      BY <2>1, <2>2, <3>1
  <2>3. CASE k # 1
    <3>1. k - 1 \in 1 .. n /\ k - 1 \notin Lacking
      <4> HIDE DEF Lacking
      <4>1. k \in 1 .. n
        BY DEF Lacking
      <4> QED BY <2>1, <2>3, <4>1
    <3>2. PICK s : SumsUp(s, p, k - 1)
      BY <3>1
    <3> DEFINE t == [i \in 1 .. k |-> IF i < k THEN s[i] ELSE s[k - 1] + Weight(p[k - 1], p[k])]
    <3>3. ASSUME NEW i \in 1 .. k
          PROVE  t[i] = IF i = 1 THEN 0 ELSE t[i - 1] + Weight(p[i - 1], p[i])
      <4>1. k \in Nat /\ k > 1
        BY <2>3
      <4>2. CASE i = k
        <5>1. t[i] = s[k - 1] + Weight(p[k - 1], p[k]) /\ t[k - 1] = s[k - 1] /\ i # 1
          BY <4>1, <4>2
        <5> QED
          BY <4>2, <5>1
      <4>3. CASE i < k
        <5>1. i \in 1 .. k - 1 /\ t[i] = s[i]
          BY <4>1, <4>3
        <5>2. s[i] = IF i = 1 THEN 0 ELSE s[i - 1] + Weight(p[i - 1], p[i])
          BY <3>2, <5>1 DEF SumsUp
        <5>3. i # 1 => t[i - 1] = s[i - 1]
          BY <4>1, <4>3
        <5> QED
          BY <5>1, <5>2, <5>3
      <4> QED
        BY <4>1, <4>2, <4>3
    <3>4. SumsUp(t, p, k)
      <4>1. t = [i \in 1 .. k |-> t[i]]
        OBVIOUS
      <4> HIDE DEF t
      <4> QED
        BY <3>3, <4>1 DEF SumsUp
    <3> QED
      BY <2>1, <3>4
  <2> QED
    BY <2>2, <2>3
<1>2. \E sums : SumsUp(sums, p, n)
  BY <1>1
<1>3. Length(p, n) = (CHOOSE sums : SumsUp(sums, p, n))[n]
  BY DEF Length, SumsUp
<1> QED
  BY <1>2, <1>3

\* No path is shorter than the distance of its end.
LEMMA NoPathIsShorter ==
  ASSUME TypeOK, ShortestPathTree, SearchDone,
         NEW n \in Nat \ {0}, NEW v, NEW p \in PathsTo(v, n)
  PROVE  dist[v] # Inf /\ Length(p, n) \in Nat /\ dist[v] <= Length(p, n)
<1>1. PICK sums : SumsUp(sums, p, n) /\ Length(p, n) = sums[n]
  BY PathSums
<1>2. /\ p \in [1 .. n -> Vertices] /\ p[1] = gateway /\ p[n] = v
      /\ \A i \in 2 .. n : Edge(p[i - 1], p[i])
  BY DEF PathsTo, Injection
<1> DEFINE Bounded(i) == dist[p[i]] # Inf /\ sums[i] \in Nat /\ dist[p[i]] <= sums[i]
           Bad == {i \in 1 .. n : ~Bounded(i)}
<1>3. Bounded(1)
  BY <1>1, <1>2, RouterAssumption DEF SumsUp, ShortestPathTree
<1>4. ASSUME NEW i \in 2 .. n, Bounded(i - 1)  PROVE Bounded(i)
  <2> DEFINE u == p[i - 1]
             w == p[i]
  <2>1. /\ Edge(u, w) /\ u \in Vertices /\ w \in Vertices /\ u \in Everyone /\ w \in Everyone
        /\ Weight(u, w) \in Nat
    BY <1>2, EdgeWeight, VerticesType
  <2>2. sums[i] = sums[i - 1] + Weight(u, w)
    BY <1>1 DEF SumsUp
  <2>3. dist[w] # Inf /\ dist[w] <= dist[u] + Weight(u, w)
    BY <1>4, <2>1 DEF ShortestPathTree
  <2>4. dist[u] \in Nat /\ dist[w] \in Nat
    BY <1>4, <2>1, <2>3 DEF TypeOK, Distances
  <2> HIDE DEF u, w
  <2>5. sums[i] \in Nat /\ dist[w] <= sums[i]
    BY <1>4, <2>1, <2>2, <2>3, <2>4 DEF u
  <2> QED
    BY <2>3, <2>5 DEF w
<1> HIDE DEF Bounded
<1>5. ASSUME Bad # {}  PROVE FALSE
  <2>1. PICK k \in Bad : \A j \in Bad : k <= j
    <3>1. Bad \in SUBSET Nat
      OBVIOUS
    <3> HIDE DEF Bad
    <3> QED BY <1>5, <3>1, LeastNatural
  <2>2. k \in 2 .. n /\ k - 1 \in 1 .. n /\ k - 1 \notin Bad
    <3>1. k \in 1 .. n /\ k # 1
      BY <1>3
    <3> HIDE DEF Bad
    <3> QED
      BY <2>1, <3>1
  <2> QED
    BY <1>4, <2>1, <2>2
<1>6. Bounded(n)
  BY <1>5
<1> QED
  BY <1>1, <1>2, <1>6 DEF Bounded

LEMMA FiniteVertices == TypeOK => IsFiniteSet(Vertices) /\ Cardinality(Vertices) \in Nat
BY FS_CardinalityType, FS_Union, FS_Singleton, FS_Subset, RouterAssumption DEF TypeOK, Vertices

\* A path of n vertices over predecessors: each distance is one edge more.
TreePath(p, v, n) ==
  /\ p \in PathsTo(v, n) /\ n \in 1 .. Cardinality(Vertices)
  /\ \A i \in 1 .. n : dist[p[i]] # Inf /\ dist[p[i]] <= dist[v]
  /\ \A i \in 2 .. n : dist[p[i]] = dist[p[i - 1]] + Weight(p[i - 1], p[i])

LEMMA TreePathLength ==
  ASSUME TypeOK, ShortestPathTree, SearchDone, NEW v, NEW n, NEW p, TreePath(p, v, n)
  PROVE  Length(p, n) = dist[v]
<1>0. n \in Nat \ {0}
  BY FiniteVertices DEF TreePath
<1>1. PICK sums : SumsUp(sums, p, n) /\ Length(p, n) = sums[n]
  BY <1>0, PathSums
<1>2. p[1] = gateway /\ p[n] = v
  BY DEF TreePath, PathsTo
<1> DEFINE Bad == {i \in 1 .. n : sums[i] # dist[p[i]]}
<1>3. ASSUME Bad # {}  PROVE FALSE
  <2>1. PICK k \in Bad : \A j \in Bad : k <= j
    <3>1. Bad \in SUBSET Nat
      OBVIOUS
    <3> HIDE DEF Bad
    <3> QED BY <1>3, <3>1, LeastNatural
  <2>2. k # 1
    BY <1>0, <1>1, <1>2 DEF SumsUp, ShortestPathTree
  <2>3. k \in 2 .. n /\ k - 1 \in 1 .. n /\ k - 1 \notin Bad
    <3>1. k \in 1 .. n
      OBVIOUS
    <3> HIDE DEF Bad
    <3> QED
      BY <1>0, <2>1, <2>2, <3>1
  <2>4. sums[k] = sums[k - 1] + Weight(p[k - 1], p[k])
    BY <1>1, <2>3 DEF SumsUp
  <2> QED
    BY <2>3, <2>4 DEF TreePath
<1> QED
  BY <1>0, <1>1, <1>2, <1>3

\* The gateway ends a path over predecessors, and so does each vertex whose predecessor does.
LEMMA TreePathBegins ==
  ASSUME TypeOK, ShortestPathTree, SearchDone
  PROVE  TreePath([i \in 1 .. 1 |-> gateway], gateway, 1)
<1> DEFINE p == [i \in 1 .. 1 |-> gateway]
<1>1. gateway \in Vertices /\ dist[gateway] = 0 /\ 0 # Inf
  BY VerticesType, RouterAssumption DEF ShortestPathTree
<1>2. p \in Injection(1 .. 1, Vertices)
  BY <1>1 DEF Injection, IsInjective
<1>3. 1 \in 1 .. Cardinality(Vertices)
  <2>1. {gateway} \in SUBSET Vertices /\ Cardinality({gateway}) = 1
    BY <1>1, FS_Singleton
  <2>2. Cardinality({gateway}) <= Cardinality(Vertices)
    BY <2>1, FS_Subset, FiniteVertices
  <2> QED
    BY <2>1, <2>2, FiniteVertices
<1> QED
  BY <1>1, <1>2, <1>3 DEF TreePath, PathsTo

LEMMA TreePathGoesOn ==
  ASSUME TypeOK, ShortestPathTree, SearchDone,
         NEW v \in Vertices \ {gateway}, dist[v] # Inf,
         NEW n, NEW p, TreePath(p, prev[v], n)
  PROVE  TreePath([i \in 1 .. n + 1 |-> IF i <= n THEN p[i] ELSE v], v, n + 1)
<1> DEFINE u == prev[v]
           q == [i \in 1 .. n + 1 |-> IF i <= n THEN p[i] ELSE v]
<1>1. /\ n \in Nat /\ n >= 1 /\ p \in [1 .. n -> Vertices] /\ IsInjective(p)
      /\ p[1] = gateway /\ p[n] = u
      /\ \A i \in 2 .. n : Edge(p[i - 1], p[i])
      /\ \A i \in 2 .. n : dist[p[i]] = dist[p[i - 1]] + Weight(p[i - 1], p[i])
      /\ \A i \in 1 .. n : dist[p[i]] # Inf /\ dist[p[i]] <= dist[u]
  <2>1. n \in Nat /\ n >= 1
    BY FiniteVertices DEF TreePath
  <2>2. p \in PathsTo(u, n)
    BY DEF TreePath
  <2>3. /\ p \in [1 .. n -> Vertices] /\ IsInjective(p) /\ p[1] = gateway /\ p[n] = u
        /\ \A i \in 2 .. n : Edge(p[i - 1], p[i])
    BY <2>2 DEF PathsTo, Injection
  <2> QED
    BY <2>1, <2>3 DEF TreePath
<1>2. /\ Edge(u, v) /\ dist[u] # Inf /\ dist[v] = dist[u] + Weight(u, v)
      /\ Weight(u, v) \in Nat \ {0} /\ u \in Everyone /\ v \in Everyone
  BY EdgeWeight, VerticesType DEF ShortestPathTree
<1>3. dist[u] \in Nat /\ dist[v] \in Nat /\ dist[u] < dist[v]
  BY <1>2 DEF TypeOK, Distances
<1>4. \A i \in 1 .. n : p[i] # v /\ dist[p[i]] <= dist[v]
  <2>1. \A i \in 1 .. n : dist[p[i]] \in Nat
    BY <1>1, VerticesType DEF TypeOK, Distances
  <2> QED
    BY <1>1, <1>3, <2>1
<1> HIDE DEF u
<1>5. /\ q[n + 1] = v /\ \A i \in 1 .. n : q[i] = p[i]
      /\ q \in [1 .. n + 1 -> Vertices]
  BY <1>1
<1> HIDE DEF q
<1>6. IsInjective(q)
  <2> SUFFICES ASSUME NEW i \in 1 .. n + 1, NEW j \in 1 .. n + 1, q[i] = q[j]  PROVE i = j
    BY <1>5 DEF IsInjective
  <2>1. i \in 1 .. n \/ i = n + 1
    BY <1>1
  <2>2. j \in 1 .. n \/ j = n + 1
    BY <1>1
  <2> QED
    BY <1>1, <1>4, <1>5, <2>1, <2>2 DEF IsInjective
<1>7. q \in Injection(1 .. n + 1, Vertices)
  BY <1>5, <1>6 DEF Injection
<1>8. n + 1 \in 1 .. Cardinality(Vertices)
  <2>1. Cardinality(1 .. n + 1) = n + 1
    BY <1>1, FS_Interval
  <2>2. Cardinality(1 .. n + 1) <= Cardinality(Vertices)
    BY <1>7, FS_Injection, FiniteVertices
  <2> QED
    BY <1>1, <2>1, <2>2, FiniteVertices
<1>9. ASSUME NEW i \in 2 .. n + 1
      PROVE  Edge(q[i - 1], q[i]) /\ dist[q[i]] = dist[q[i - 1]] + Weight(q[i - 1], q[i])
  <2>1. CASE i = n + 1
    <3>1. q[i - 1] = u /\ q[i] = v
      BY <1>1, <1>5, <2>1
    <3> QED
      BY <1>2, <3>1
  <2>2. CASE i \in 2 .. n
    <3>1. q[i - 1] = p[i - 1] /\ q[i] = p[i]
      BY <1>1, <1>5, <2>2
    <3> QED
      BY <1>1, <2>2, <3>1
  <2> QED
    BY <1>1, <2>1, <2>2
<1>10. ASSUME NEW i \in 1 .. n + 1  PROVE dist[q[i]] # Inf /\ dist[q[i]] <= dist[v]
  <2>1. CASE i = n + 1
    <3>1. q[i] = v
      BY <1>5, <2>1
    <3> QED
      BY <1>3, <3>1
  <2>2. CASE i \in 1 .. n
    BY <1>1, <1>4, <1>5, <2>2
  <2> QED
    BY <1>1, <2>1, <2>2
<1>11. q[1] = gateway /\ q[n + 1] = v
  BY <1>1, <1>5
<1> QED
  BY <1>7, <1>8, <1>9, <1>10, <1>11 DEF TreePath, PathsTo, q

\* Every vertex that was reached ends one: the nearest that did not would have a nearer
\* predecessor that does.
LEMMA TreePathsExist ==
  ASSUME TypeOK, ShortestPathTree, SearchDone, NEW v \in Vertices, dist[v] # Inf
  PROVE  \E n, p : TreePath(p, v, n)
<1> DEFINE Lacking == {x \in Vertices : dist[x] # Inf /\ ~ \E n, p : TreePath(p, x, n)}
           D == {dist[x] : x \in Lacking}
<1>1. ASSUME Lacking # {}  PROVE FALSE
  <2>1. D \in SUBSET Nat /\ D # {}
    <3>1. Vertices \subseteq Everyone /\ dist \in [Everyone -> Nat \cup {Inf}]
      BY VerticesType DEF TypeOK, Distances
    <3>2. ASSUME NEW x \in Lacking  PROVE dist[x] \in Nat
      BY <3>1
    <3> QED
      BY <1>1, <3>2
  <2>2. PICK d \in D : \A e \in D : d <= e
    <3> HIDE DEF D
    <3> QED BY <2>1, LeastNatural
  <2>3. PICK x \in Lacking : \A y \in Lacking : dist[x] <= dist[y]
    BY <2>2
  <2>4. x # gateway
    BY <2>3, TreePathBegins
  <2>5. /\ Edge(prev[x], x) /\ dist[prev[x]] # Inf /\ dist[x] = dist[prev[x]] + Weight(prev[x], x)
        /\ Weight(prev[x], x) \in Nat \ {0} /\ prev[x] \in Vertices
    BY <2>3, <2>4, EdgeWeight, VerticesType DEF ShortestPathTree, Edge
  <2>6. dist[prev[x]] \in Nat /\ dist[x] \in Nat
    BY <2>3, <2>5, VerticesType DEF TypeOK, Distances
  <2>7. prev[x] \notin Lacking
    <3> HIDE DEF Lacking
    <3> QED BY <2>3, <2>5, <2>6
  <2>8. PICK n, p : TreePath(p, prev[x], n)
    BY <2>5, <2>7
  <2> QED
    BY <2>3, <2>4, <2>8, TreePathGoesOn
<1> QED
  BY <1>1

LEMMA ShortestAtEnd == TypeOK /\ ShortestPathTree => DistancesAreShortest
<1> SUFFICES ASSUME TypeOK, ShortestPathTree, SearchDone, NEW v \in Vertices
             PROVE  LET lengths == UNION {{Length(p, n) : p \in PathsTo(v, n)} :
                                            n \in 1 .. Cardinality(Vertices)}
                    IN  IF lengths = {} THEN dist[v] = Inf
                        ELSE dist[v] \in lengths /\ \A l \in lengths : dist[v] <= l
  BY DEF DistancesAreShortest
<1> DEFINE lengths == UNION {{Length(p, n) : p \in PathsTo(v, n)} : n \in 1 .. Cardinality(Vertices)}
<1>1. \A l \in lengths : dist[v] # Inf /\ dist[v] <= l
  <2> SUFFICES ASSUME NEW n \in 1 .. Cardinality(Vertices), NEW p \in PathsTo(v, n)
               PROVE  dist[v] # Inf /\ dist[v] <= Length(p, n)
    OBVIOUS
  <2>1. n \in Nat \ {0}
    BY FiniteVertices
  <2> QED
    BY <2>1, NoPathIsShorter
<1>2. ASSUME dist[v] # Inf  PROVE dist[v] \in lengths
  <2>1. PICK n, p : TreePath(p, v, n)
    BY <1>2, TreePathsExist
  <2>2. Length(p, n) = dist[v]
    BY <2>1, TreePathLength
  <2>3. n \in 1 .. Cardinality(Vertices) /\ p \in PathsTo(v, n)
    BY <2>1 DEF TreePath
  <2> QED
    BY <2>2, <2>3
<1> HIDE DEF lengths
<1> QED
  BY <1>1, <1>2 DEF lengths

\* However the links change between two searches, every search computes the least total
\* weight of a path from the gateway, and infinity where there is none (_dijkstra).
THEOREM PathsAreShortest == Spec => []DistancesAreShortest
BY SearchCorrect, TreeAtEnd, ShortestAtEnd, PTL

-----------------------------------------------------------------------------
(* The assignment.                                                         *)

\* Only Assign enters the phase in which the properties of routes hold.
LEMMA OnlyAssign ==
  ASSUME TypeOK, [Next]_vars, pc' = "computed"
  PROVE  Assign \/ UNCHANGED vars
BY DEF Next, Heard, OnNeighbors, Expire, AdoptGateway, Begin, Pop, Return, TypeOK

\* Assign reads a finished search of an unchanged graph.
LEMMA AssignFacts ==
  ASSUME TypeOK, SearchInv, Assign
  PROVE  /\ ShortestPathTree /\ SearchDone
         /\ \A x, y : Edge(x, y)' = Edge(x, y)
         /\ \A x, y : Weight(x, y)' = Weight(x, y)
         /\ \A x, y : Cost(x, y)' = Cost(x, y)
         /\ Vertices' = Vertices /\ Routed' = Routed /\ UNCHANGED <<mesh, search>>
         /\ \A m \in Routed : primary'[m] = ChoosePrimary(m)
         /\ \A m \in Routed : m \in Everyone /\ m \in Vertices /\ m # gateway
<1>1. UNCHANGED <<mesh, search>> /\ SearchDone
  BY DEF Assign, SearchDone
<1>2. \A m \in Routed : m \in Nodes /\ m \in Everyone /\ m \in Vertices /\ m # gateway
  BY DEF Routed, TypeOK, Everyone, Vertices
<1>3. \A m \in Routed : primary'[m] = ChoosePrimary(m)
  BY <1>2 DEF Assign
<1> QED
  BY <1>1, <1>2, <1>3, TreeAtEnd
     DEF Edge, Weight, Reports, Cost, Vertices, Routed, mesh, search

\* The path through the predecessor is a shortest one.
LEMMA PredecessorCost ==
  ASSUME TypeOK, ShortestPathTree, SearchDone,
         NEW m \in Everyone \ {gateway}, dist[m] # Inf
  PROVE  Cost(m, prev[m]) = dist[m] /\ dist[m] \in Nat
<1>1. Edge(prev[m], m) /\ dist[m] = dist[prev[m]] + Weight(prev[m], m)
  BY DEF ShortestPathTree
<1>2. Weight(m, prev[m]) = Weight(prev[m], m)
  BY <1>1, EdgeWeight
<1> QED
  BY <1>1, <1>2 DEF Cost, TypeOK, Distances

LEMMA MarginStep ==
  ASSUME TypeOK, SearchInv, WithinMargin, [Next]_vars
  PROVE  WithinMargin'
<1>1. CASE Assign
  <2>1. SUFFICES ASSUME NEW m \in Routed, primary'[m] # None
                 PROVE  Keep * Cost(m, primary'[m]) <= 100 * dist[m]
    BY <1>1, AssignFacts DEF WithinMargin, search
  <2>2. prev[m] # None /\ dist[m] # Inf /\ m \in Everyone \ {gateway}
    BY <1>1, <2>1, AssignFacts DEF ChoosePrimary, Usable, Edge, SearchInv, Assign
  <2>3. Cost(m, prev[m]) = dist[m] /\ dist[m] \in Nat
    BY <1>1, <2>2, AssignFacts, PredecessorCost
  <2>4. CASE primary'[m] = prev[m]
    <3>1. \A k \in 1 .. 100, x \in Nat : k * x <= 100 * x
      OBVIOUS
    <3> QED
      BY <2>3, <2>4, <3>1, RouterAssumption
  <2>5. CASE primary'[m] # prev[m]
    <3>1. MarginalGain(m) /\ primary'[m] = primary[m]
      BY <1>1, <2>5, AssignFacts DEF ChoosePrimary
    <3> QED
      BY <2>3, <3>1 DEF MarginalGain
  <2> QED
    BY <2>4, <2>5
<1>2. CASE UNCHANGED vars
  BY <1>2 DEF WithinMargin, Routed, Cost, Weight, Reports, vars, mesh, routes, search
<1>3. CASE pc' # "computed"
  BY <1>3 DEF WithinMargin
<1> QED
  BY <1>1, <1>2, <1>3, OnlyAssign

\* For every margin, no module pays more than 1 / (1 - margin) of its shortest
\* path for staying with its parent, over any history of the mesh.
THEOREM HysteresisBounded == Spec => []WithinMargin
<1>1. Init => WithinMargin
  BY DEF Init, WithinMargin
<1> QED
  BY <1>1, SearchCorrect, MarginStep, PTL DEF Spec

-----------------------------------------------------------------------------
(* Orphans.                                                                *)

\* A set of vertices that holds a node that was reached, and not the gateway,
\* is entered by an edge: its nearest node has a predecessor outside it.
LEMMA ReachedFromOutside ==
  ASSUME TypeOK, ShortestPathTree, SearchDone,
         NEW S \in SUBSET (Vertices \ {gateway}),
         NEW m \in S, dist[m] # Inf
  PROVE  \E u \in S, v \in Vertices \ S : Edge(u, v)
<1> DEFINE R == {x \in S : dist[x] # Inf}
           D == {dist[x] : x \in R}
<1>1. D \in SUBSET Nat /\ D # {} /\ \A x \in S : x \in Everyone \ {gateway}
  <2>1. \A x \in S : x \in Everyone \ {gateway}
    BY VerticesType
  <2>2. \A x \in R : dist[x] \in Nat
    BY <2>1 DEF TypeOK, Distances
  <2>3. m \in R
    OBVIOUS
  <2> HIDE DEF R
  <2> QED
    BY <2>1, <2>2, <2>3
<1>2. PICK u \in R : \A x \in R : dist[u] <= dist[x]
  <2>1. PICK d \in D : \A x \in D : d <= x
    <3> HIDE DEF D
    <3> QED BY <1>1, LeastNatural
  <2> QED
    BY <2>1
<1>3. Edge(prev[u], u) /\ dist[prev[u]] # Inf /\ prev[u] \in Everyone
      /\ dist[u] = dist[prev[u]] + Weight(prev[u], u)
      /\ Weight(prev[u], u) \in Nat \ {0} /\ Edge(u, prev[u])
  BY <1>1, <1>2, EdgeWeight DEF ShortestPathTree
<1>4. dist[prev[u]] \in Nat
  BY <1>3 DEF TypeOK, Distances
<1>5. dist[prev[u]] < dist[u]
  BY <1>3, <1>4
<1>6. prev[u] \notin S
  <2> SUFFICES ASSUME prev[u] \in S  PROVE FALSE
    OBVIOUS
  <2>1. dist[u] <= dist[prev[u]]
    BY <1>2, <1>3
  <2> QED
    BY <1>1, <1>2, <1>4, <1>5, <2>1
<1> QED
  BY <1>3, <1>6 DEF Edge

LEMMA UnreachedIffUnreachable ==
  ASSUME TypeOK, ShortestPathTree, SearchDone, NEW m \in Vertices \ {gateway}
  PROVE  dist[m] = Inf <=> Unreachable(m)
<1>1. ASSUME dist[m] = Inf  PROVE Unreachable(m)
  <2> DEFINE S == {v \in Vertices : dist[v] = Inf}
  <2>1. S \in SUBSET (Vertices \ {gateway}) /\ m \in S
    BY <1>1, RouterAssumption DEF ShortestPathTree
  <2>2. ASSUME NEW u \in S, NEW v \in Vertices \ S, Edge(u, v)  PROVE FALSE
    BY <2>2, EdgeWeight DEF ShortestPathTree
  <2> QED
    BY <2>1, <2>2 DEF Unreachable
<1>2. ASSUME Unreachable(m), dist[m] # Inf  PROVE FALSE
  BY <1>2, ReachedFromOutside DEF Unreachable
<1> QED
  BY <1>1, <1>2

LEMMA OrphanStep ==
  ASSUME TypeOK, SearchInv, OrphanIffUnreachable, [Next]_vars
  PROVE  OrphanIffUnreachable'
<1>1. CASE Assign
  <2>1. \A m : Unreachable(m)' <=> Unreachable(m)
    BY <1>1, AssignFacts DEF Unreachable, mesh
  <2>2. ASSUME NEW m \in Routed  PROVE primary'[m] = None <=> Unreachable(m)
    <3>1. dist[m] = Inf <=> Unreachable(m)
      BY <1>1, <2>2, AssignFacts, UnreachedIffUnreachable
    <3>2. prev[m] = None <=> dist[m] = Inf
      BY <1>1, <2>2, AssignFacts DEF SearchInv, Assign
    <3>3. primary'[m] = None <=> prev[m] = None
      BY <1>1, <2>2, AssignFacts, RouterAssumption, VerticesType
         DEF ChoosePrimary, Usable, Edge, Everyone
    <3> QED
      BY <3>1, <3>2, <3>3
  <2> QED
    BY <1>1, <2>1, <2>2, AssignFacts DEF OrphanIffUnreachable
<1>2. CASE UNCHANGED vars
  BY <1>2 DEF OrphanIffUnreachable, Unreachable, Routed, Edge, Reports, Vertices,
              vars, mesh, routes
<1>3. CASE pc' # "computed"
  BY <1>3 DEF OrphanIffUnreachable
<1> QED
  BY <1>1, <1>2, <1>3, OnlyAssign

\* After every computation the orphans are exactly the modules that no chain of
\* links joins to the gateway.
THEOREM OrphansCorrect == Spec => []OrphanIffUnreachable
<1>1. Init => OrphanIffUnreachable
  BY DEF Init, OrphanIffUnreachable
<1> QED
  BY <1>1, SearchCorrect, OrphanStep, PTL DEF Spec

-----------------------------------------------------------------------------
(* Secondary parents.                                                      *)

\* The secondary parent Assign gives a module is nearer to the gateway.
LEMMA SecondaryNearer ==
  ASSUME TypeOK, Assign, NEW m \in Routed, secondary'[m] # None
  PROVE  /\ secondary'[m] \in Alternates(m, ChoosePrimary(m))
         /\ Shorter(dist[secondary'[m]], dist[m])
         /\ secondary'[m] # ChoosePrimary(m)
<1>1. PICK s \in [Routed -> Vertices \cup {None}] :
        /\ \A n \in Routed : s[n] \in SecondaryChoices(n, ChoosePrimary(n))
        /\ secondary' = [n \in Nodes |-> IF n \in Routed THEN s[n] ELSE secondary[n]]
  BY DEF Assign
<1>2. secondary'[m] \in SecondaryChoices(m, ChoosePrimary(m))
  BY <1>1 DEF Routed, TypeOK
<1>3. secondary'[m] \in Alternates(m, ChoosePrimary(m))
  BY <1>2 DEF SecondaryChoices
<1> QED
  BY <1>3 DEF Alternates

LEMMA SecondaryStep ==
  ASSUME TypeOK, SearchInv, SecondaryLoopFree, [Next]_vars
  PROVE  SecondaryLoopFree'
<1>1. CASE Assign
  <2>1. \A m \in Routed' : secondary'[m] # None => secondary'[m] # primary'[m]
    BY <1>1, SecondaryNearer, AssignFacts
  <2>2. ASSUME NEW S \in (SUBSET Routed) \ {{}}, \A m \in S : secondary'[m] \in S
        PROVE  FALSE
    <3>1. \A m \in S : /\ m \in Everyone /\ secondary'[m] \in S
                       /\ Shorter(dist[secondary'[m]], dist[m])
      <4>1. \A m \in S : m \in Everyone /\ m # None
        BY <1>1, AssignFacts, RouterAssumption DEF Everyone, Routed, TypeOK
      <4> QED
        BY <1>1, <2>2, <4>1, SecondaryNearer
    <3> DEFINE R == {x \in S : dist[x] # Inf}
               D == {dist[x] : x \in R}
    <3>2. D \in SUBSET Nat /\ D # {}
      <4>1. \A x \in R : dist[x] \in Nat
        BY <3>1 DEF TypeOK, Distances
      <4>2. R # {}
        BY <2>2, <3>1 DEF Shorter
      <4> HIDE DEF R
      <4> QED
        BY <4>1, <4>2
    <3>3. PICK u \in R : \A x \in R : dist[u] <= dist[x]
      <4>1. PICK d \in D : \A x \in D : d <= x
        <5> HIDE DEF D
        <5> QED BY <3>2, LeastNatural
      <4> QED
        BY <4>1
    <3>4. secondary'[u] \in R /\ dist[secondary'[u]] < dist[u]
      BY <3>1, <3>3 DEF Shorter
    <3>5. dist[u] \in Nat /\ dist[secondary'[u]] \in Nat
      BY <3>1, <3>3, <3>4 DEF TypeOK, Distances
    <3> QED
      BY <3>3, <3>4, <3>5
  <2> QED
    BY <1>1, <2>1, <2>2, AssignFacts DEF SecondaryLoopFree
<1>2. CASE UNCHANGED vars
  BY <1>2 DEF SecondaryLoopFree, Routed, vars, mesh, routes
<1>3. CASE pc' # "computed"
  BY <1>3 DEF SecondaryLoopFree
<1> QED
  BY <1>1, <1>2, <1>3, OnlyAssign

\* After every computation a secondary parent differs from the primary, and
\* following secondary parents never leads back.
THEOREM SecondariesLoopFree == Spec => []SecondaryLoopFree
<1>1. Init => SecondaryLoopFree
  BY DEF Init, SecondaryLoopFree
<1> QED
  BY <1>1, SearchCorrect, SecondaryStep, PTL DEF Spec

-----------------------------------------------------------------------------
(* The subscriptions.                                                      *)

LEMMA NewSensorsCount ==
  ASSUME NEW c \in Nodes, NEW p \in Nodes
  PROVE  /\ NewSensors(c, p) \in Nat
         /\ NewSensors(c, p) = 0 <=> Sensors[p] \subseteq Sensors[c]
<1>1. IsFiniteSet(Sensors[p] \ Sensors[c])
  BY RouterAssumption, FS_Subset
<1>2. /\ Cardinality(Sensors[p] \ Sensors[c]) \in Nat
      /\ Cardinality(Sensors[p] \ Sensors[c]) = 0 <=> Sensors[p] \ Sensors[c] = {}
  BY <1>1, FS_CardinalityType, FS_EmptySet
<1> QED
  BY <1>2 DEF NewSensors

\* A choice that leaves out a provider with something new has one with as much.
LEMMA ChoiceServes ==
  ASSUME online \subseteq Nodes, MaxSubs > 0,
         NEW c \in Nodes \cap Consumers, NEW S \in SubscriptionChoices(c),
         NEW p \in (online \cap Providers) \ {c}, ~ Sensors[p] \subseteq Sensors[c]
  PROVE  \E q \in S : ~ Sensors[q] \subseteq Sensors[c]
<1> DEFINE candidates == (online \cap Providers) \ {c}
<1>1. /\ S \subseteq candidates
      /\ Cardinality(S) = MaxSubs \/ S = candidates
      /\ \A x \in S, y \in candidates \ S : NewSensors(c, x) >= NewSensors(c, y)
  BY DEF SubscriptionChoices
<1>2. CASE p \in S
  BY <1>2
<1>3. CASE p \notin S
  <2>1. S # {}
    BY <1>1, <1>3, FS_EmptySet
  <2>2. PICK q \in S : NewSensors(c, q) >= NewSensors(c, p)
    BY <1>1, <1>3, <2>1
  <2>3. q \in Nodes /\ p \in Nodes
    BY <1>1
  <2>4. ~ Sensors[q] \subseteq Sensors[c]
    BY <2>2, <2>3, NewSensorsCount
  <2> QED
    BY <2>4
<1> QED
  BY <1>2, <1>3

LEMMA NextServes == TypeOK /\ SubscriptionsServe /\ [Next]_vars => SubscriptionsServe'
<1> SUFFICES ASSUME TypeOK, SubscriptionsServe, [Next]_vars  PROVE SubscriptionsServe'
  OBVIOUS
<1>1. CASE Assign
  <2> SUFFICES ASSUME MaxSubs > 0, NEW c \in Routed \cap Consumers,
                      NEW p \in (online \cap Providers) \ {c},
                      ~ Sensors[p] \subseteq Sensors[c]
               PROVE  \E q \in subs'[c] : ~ Sensors[q] \subseteq Sensors[c]
    BY <1>1 DEF Assign, SubscriptionsServe, Routed, mesh
  <2>1. online \subseteq Nodes /\ c \in Nodes
    BY DEF TypeOK, Routed
  <2>2. subs'[c] \in SubscriptionChoices(c)
    BY <1>1, <2>1 DEF Assign
  <2> QED
    BY <2>1, <2>2, ChoiceServes
<1>2. CASE Return
  BY <1>2 DEF Return, SubscriptionsServe
<1>3. ASSUME NEW m \in Nodes, Heard(m) \/ OnNeighbors(m) \/ Expire(m)
      PROVE  SubscriptionsServe'
  BY <1>3 DEF Heard, OnNeighbors, Expire, SubscriptionsServe
<1>4. ASSUME NEW g \in Gateways, AdoptGateway(g)  PROVE SubscriptionsServe'
  BY <1>4 DEF AdoptGateway, SubscriptionsServe
<1>5. CASE Begin
  BY <1>5 DEF Begin, SubscriptionsServe
<1>6. ASSUME NEW e \in pq, Pop(e[1], e[2])  PROVE SubscriptionsServe'
  BY <1>6 DEF Pop, SubscriptionsServe
<1>7. CASE UNCHANGED vars
  BY <1>7 DEF vars, mesh, routes, SubscriptionsServe, Routed
<1> QED
  BY <1>1, <1>2, <1>3, <1>4, <1>5, <1>6, <1>7 DEF Next

\* A consumer that lacks a sensor which some online provider has is subscribed to a
\* provider of a sensor it lacks, however the ties are broken (_subscriptions).
THEOREM ConsumersAreServed == Spec => []SubscriptionsServe
<1>1. Init => SubscriptionsServe
  BY DEF Init, SubscriptionsServe
<1> QED
  BY <1>1, NextServes, TypeCorrect, PTL DEF Spec
=============================================================================
