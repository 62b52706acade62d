------------------------------ MODULE Autorouter ------------------------------
(***************************************************************************)
(* olympus_link/autorouter.py: the application-level routing overlay.      *)
(* Every tick a shortest-path tree is computed from the gateway over the   *)
(* links the online modules reported, and every online module is given a   *)
(* primary parent (kept through small changes by hysteresis), a secondary  *)
(* parent and the providers it subscribes to.                              *)
(*                                                                         *)
(* compute() never suspends, so the mesh does not change while pc is not   *)
(* "idle".  Costs are integers: the weight of an edge is twice the average *)
(* of the two directions, which leaves every comparison as in the code.    *)
(***************************************************************************)
EXTENDS Integers, FiniteSets, Functions

CONSTANTS
  Nodes,      \* EUI-64s of the modules, gateways included
  Gateways,   \* nodes that announce themselves as a gateway
  NoGateway,  \* the all-zero EUI the root has before a gateway is heard
  None,       \* no parent
  Costs,      \* values of link_cost for one reported link
  NoLink,     \* not in the neighbour table
  Inf,        \* float("inf")
  Keep,       \* 100 * (1 - reparent_margin): 85 in the default configuration
  Providers, Consumers,  \* nodes by role
  Sensors,    \* the sensors of each node
  MaxSubs     \* max_subscriptions

ASSUME RouterAssumption ==
  /\ IsFiniteSet(Nodes)
  /\ Gateways \subseteq Nodes
  /\ NoGateway \notin Nodes
  /\ None \notin Nodes \cup {NoGateway}
  /\ Costs \subseteq Nat \ {0}
  /\ NoLink \notin Costs
  /\ Inf \notin Nat
  /\ Keep \in 1 .. 100
  /\ MaxSubs \in Nat
  /\ \A n \in Nodes : IsFiniteSet(Sensors[n])

VARIABLES
  online,     \* modules that are online
  gateway,    \* Registry.gateway_eui, the root of the tree
  nbrs,       \* each module's neighbour table: the cost of each link it reported
  primary, secondary, subs,  \* each module's RouteAssignment
  pc,         \* "idle", or the phase of compute()
  dist, prev, \* Dijkstra's distances and predecessors
  pq          \* its heap of <<distance, node>> entries

mesh   == <<online, gateway, nbrs>>
routes == <<primary, secondary, subs>>
search == <<dist, prev, pq>>
vars   == <<mesh, routes, pc, search>>

Everyone  == Nodes \cup {NoGateway}
Distances == Nat \cup {Inf}

TypeOK ==
  /\ online \subseteq Nodes
  /\ gateway \in Gateways \cup {NoGateway}
  /\ nbrs \in [Nodes -> [Nodes -> Costs \cup {NoLink}]]
  /\ primary \in [Nodes -> Everyone \cup {None}]
  /\ secondary \in [Nodes -> Everyone \cup {None}]
  /\ subs \in [Nodes -> SUBSET Nodes]
  /\ pc \in {"idle", "dijkstra", "computed"}
  /\ dist \in [Everyone -> Distances]
  /\ prev \in [Everyone -> Everyone \cup {None}]
  /\ pq \subseteq Nat \X Everyone

Unreached == [n \in Everyone |-> Inf]
NoParents == [n \in Everyone |-> None]

Init ==
  /\ online = {}
  /\ gateway = NoGateway
  /\ nbrs = [m \in Nodes |-> [n \in Nodes |-> NoLink]]
  /\ primary = [m \in Nodes |-> None]
  /\ secondary = [m \in Nodes |-> None]
  /\ subs = [m \in Nodes |-> {}]
  /\ pc = "idle"
  /\ dist = Unreached /\ prev = NoParents /\ pq = {}

-----------------------------------------------------------------------------
(* The mesh, as the registry sees it between two computations.             *)

\* Any frame makes its sender online.
Heard(m) ==
  /\ pc = "idle" /\ m \notin online
  /\ online' = online \cup {m}
  /\ UNCHANGED <<gateway, nbrs, routes, pc, search>>

\* A NEIGHBORS frame updates the links it reports; the other entries are kept
\* or, once 30 s old, dropped.
OnNeighbors(m) ==
  /\ pc = "idle"
  /\ \E table \in [Nodes \ {m} -> Costs \cup {NoLink}] :
       nbrs' = [nbrs EXCEPT ![m] =
                  [n \in Nodes |-> IF n = m THEN NoLink ELSE table[n]]]
  /\ online' = online \cup {m}
  /\ UNCHANGED <<gateway, routes, pc, search>>

\* A module expires; its neighbour table and its route stay in the registry.
Expire(m) ==
  /\ pc = "idle" /\ m \in online
  /\ online' = online \ {m}
  /\ UNCHANGED <<gateway, nbrs, routes, pc, search>>

\* A frame of another gateway moves the root of the tree.
AdoptGateway(g) ==
  /\ pc = "idle" /\ g # gateway
  /\ gateway' = g
  /\ online' = online \cup {g}
  /\ UNCHANGED <<nbrs, routes, pc, search>>

-----------------------------------------------------------------------------
(* The graph: _adjacency.                                                  *)

Vertices == online \cup {gateway}

Reports(u, v) == u \in online /\ v \in Nodes /\ nbrs[u][v] # NoLink

\* Both ends are in the graph and one of them reported the other.
Edge(u, v) ==
  /\ u \in Vertices /\ v \in Vertices /\ u # v
  /\ Reports(u, v) \/ Reports(v, u)

\* Twice the mean of the reported costs.
Weight(u, v) ==
  IF Reports(u, v)
    THEN nbrs[u][v] + (IF Reports(v, u) THEN nbrs[v][u] ELSE nbrs[u][v])
    ELSE 2 * nbrs[v][u]

-----------------------------------------------------------------------------
(* The search: _dijkstra, one action per heap entry.                       *)

\* An order of Distances in which Inf is the largest.
Shorter(a, b) == a # Inf /\ (b = Inf \/ a < b)

Begin ==
  /\ pc = "idle"
  /\ dist' = [Unreached EXCEPT ![gateway] = 0]
  /\ prev' = NoParents
  /\ pq' = {<<0, gateway>>}
  /\ pc' = "dijkstra"
  /\ UNCHANGED <<mesh, routes>>

\* Mutant: a node reached once is never improved.
ImprovedOnce(d, u) == {v \in Vertices : Edge(u, v) /\ dist[v] = Inf}

\* The neighbours of u that the entry <<d, u>> brings closer.
Improved(d, u) == {v \in Vertices : Edge(u, v) /\ Shorter(d + Weight(u, v), dist[v])}

Relax(d, u) ==
  /\ dist' = [v \in Everyone |-> IF v \in Improved(d, u) THEN d + Weight(u, v)
                                                         ELSE dist[v]]
  /\ prev' = [v \in Everyone |-> IF v \in Improved(d, u) THEN u ELSE prev[v]]
  /\ pq' = (pq \ {<<d, u>>}) \cup {<<d + Weight(u, v), v>> : v \in Improved(d, u)}

\* The smallest entry is popped; it is stale when u was since reached cheaper.
Pop(d, u) ==
  /\ pc = "dijkstra"
  /\ <<d, u>> \in pq
  /\ \A e \in pq : d <= e[1]
  /\ IF d > dist[u]
       THEN pq' = pq \ {<<d, u>>} /\ UNCHANGED <<dist, prev>>
       ELSE Relax(d, u)
  /\ UNCHANGED <<mesh, routes, pc>>

-----------------------------------------------------------------------------
(* The assignment: _choose_primary, _choose_secondary, _subscriptions.     *)

\* The current parent is still a neighbour that reaches the gateway.
Usable(m, p) == Edge(m, p) /\ dist[p] # Inf

Cost(m, p) == dist[p] + Weight(m, p)

\* Mutant: the margin itself is used as the factor.
MarginalGainWrong(m) ==
  100 * Cost(m, prev[m]) >= (100 - Keep) * Cost(m, primary[m])

\* Hysteresis: the new parent is not cheaper by the margin.
MarginalGain(m) == 100 * Cost(m, prev[m]) >= Keep * Cost(m, primary[m])

\* Mutant: a module without a path keeps its parent.
ChoosePrimaryKeeps(m) ==
  IF prev[m] = None \/ (Usable(m, primary[m]) /\ MarginalGain(m))
    THEN primary[m]
    ELSE prev[m]

ChoosePrimary(m) ==
  IF prev[m] # None /\ Usable(m, primary[m]) /\ MarginalGain(m)
    THEN primary[m]
    ELSE prev[m]

\* Mutant: any other neighbour that has a path will do.
AlternatesAny(m, p) == {n \in Vertices \ {p} : Usable(m, n)}

\* Neighbours strictly closer to the gateway than m, other than its primary.
Alternates(m, p) ==
  {n \in Vertices \ {p} : Edge(m, n) /\ Shorter(dist[n], dist[m])}

SecondaryChoices(m, p) ==
  IF Alternates(m, p) = {}
    THEN {None}
    ELSE {n \in Alternates(m, p) : \A o \in Alternates(m, p) : Cost(m, n) <= Cost(m, o)}

\* Mutant: the sensors both have are counted.
CommonSensors(c, p) == Cardinality(Sensors[p] \cap Sensors[c])

NewSensors(c, p) == Cardinality(Sensors[p] \ Sensors[c])

\* The first MaxSubs providers, those with most sensors the consumer lacks
\* first; proximity, which orders the others, is left open.
SubscriptionChoices(c) ==
  LET candidates == (online \cap Providers) \ {c} IN
  IF c \notin Consumers
    THEN {{}}
    ELSE {S \in SUBSET candidates :
            /\ Cardinality(S) <= MaxSubs
            /\ Cardinality(S) = MaxSubs \/ S = candidates
            /\ \A p \in S, q \in candidates \ S : NewSensors(c, p) >= NewSensors(c, q)}

Routed == online \ {gateway}

\* compute(): each online module but the root; the others keep their route.
Assign ==
  /\ pc = "dijkstra" /\ pq = {}
  /\ primary' = [m \in Nodes |-> IF m \in Routed THEN ChoosePrimary(m)
                                                 ELSE primary[m]]
  /\ \E s \in [Routed -> Vertices \cup {None}] :
       /\ \A m \in Routed : s[m] \in SecondaryChoices(m, ChoosePrimary(m))
       /\ secondary' = [m \in Nodes |-> IF m \in Routed THEN s[m] ELSE secondary[m]]
  /\ \E s \in [Routed -> SUBSET (online \cap Providers)] :
       /\ \A m \in Routed : s[m] \in SubscriptionChoices(m)
       /\ subs' = [m \in Nodes |-> IF m \in Routed THEN s[m] ELSE subs[m]]
  /\ pc' = "computed"
  /\ UNCHANGED <<mesh, search>>

\* The tick goes on; the search's locals are gone.
Return ==
  /\ pc = "computed"
  /\ pc' = "idle"
  /\ dist' = Unreached /\ prev' = NoParents
  /\ UNCHANGED <<mesh, routes, pq>>

Next ==
  \/ \E m \in Nodes : Heard(m) \/ OnNeighbors(m) \/ Expire(m)
  \/ \E g \in Gateways : AdoptGateway(g)
  \/ Begin
  \/ \E e \in pq : Pop(e[1], e[2])
  \/ Assign
  \/ Return

Spec == Init /\ [][Next]_vars

-----------------------------------------------------------------------------
(* Properties.                                                             *)

SearchDone == pc = "computed" \/ (pc = "dijkstra" /\ pq = {})

\* When the heap runs empty the distances satisfy the equations of shortest
\* paths: no edge shortens a distance, and every node that was reached is one
\* edge behind its predecessor.
ShortestPathTree ==
  SearchDone =>
    /\ dist[gateway] = 0
    /\ \A u, v \in Vertices :
         Edge(u, v) /\ dist[u] # Inf =>
           dist[v] # Inf /\ dist[v] <= dist[u] + Weight(u, v)
    /\ \A v \in Everyone \ {gateway} :
         dist[v] # Inf =>
           /\ Edge(prev[v], v) /\ dist[prev[v]] # Inf
           /\ dist[v] = dist[prev[v]] + Weight(prev[v], v)

\* Paths of n vertices from the gateway to v that visit none twice.
PathsTo(v, n) ==
  {p \in Injection(1 .. n, Vertices) :
     p[1] = gateway /\ p[n] = v /\ \A i \in 2 .. n : Edge(p[i - 1], p[i])}

\* The total weight of a path of n vertices.
Length(p, n) ==
  LET upTo[i \in 1 .. n] == IF i = 1 THEN 0 ELSE upTo[i - 1] + Weight(p[i - 1], p[i])
  IN  upTo[n]

\* _dijkstra computes the least total weight of a path from the gateway, and
\* infinity for a node without one.
DistancesAreShortest ==
  SearchDone =>
    \A v \in Vertices :
      LET lengths == UNION {{Length(p, n) : p \in PathsTo(v, n)} : n \in 1 .. Cardinality(Vertices)}
      IN  IF lengths = {} THEN dist[v] = Inf
                          ELSE dist[v] \in lengths /\ \A l \in lengths : dist[v] <= l

\* Hysteresis costs little: the path through the primary parent is at most
\* 1 / (1 - reparent_margin) of the shortest one.  As long as the graph does
\* not change, no module changes its parent again.
WithinMargin ==
  pc = "computed" =>
    \A m \in Routed : primary[m] # None =>
      Keep * Cost(m, primary[m]) <= 100 * dist[m]

\* Some set around m that the gateway is not in has no edge that leaves it.
Unreachable(m) ==
  \E S \in SUBSET (Vertices \ {gateway}) :
    m \in S /\ \A u \in S, v \in Vertices \ S : ~Edge(u, v)

\* A module is left an orphan exactly when it has no path to the gateway, even
\* if the parent it had is still its neighbour.
OrphanIffUnreachable ==
  pc = "computed" =>
    \A m \in Routed : (primary[m] = None) <=> Unreachable(m)

\* A secondary parent is never the primary again, and no modules are each
\* other's secondary parents round a loop (autorouter.py:136).
SecondaryLoopFree ==
  pc = "computed" =>
    /\ \A m \in Routed : secondary[m] # None => secondary[m] # primary[m]
    /\ ~ \E S \in (SUBSET Routed) \ {{}} : \A m \in S : secondary[m] \in S

\* If some online provider has a sensor that a consumer lacks, the consumer is
\* subscribed to such a provider.
SubscriptionsServe ==
  pc = "computed" /\ MaxSubs > 0 =>
    \A c \in Routed \cap Consumers :
      (\E p \in (online \cap Providers) \ {c} : ~ Sensors[p] \subseteq Sensors[c])
        => \E p \in subs[c] : ~ Sensors[p] \subseteq Sensors[c]

\* The primary parents form a tree rooted at the gateway (autorouter.py:6): no
\* modules are each other's primary parents round a loop.
\* The code promises this and does not keep it: a parent kept by hysteresis may lead
\* back to its child, which TLC shows with links of cost 1 and 12.
PrimaryTree ==
  pc = "computed" =>
    ~ \E S \in (SUBSET Routed) \ {{}} : \A m \in S : primary[m] \in S
=============================================================================
