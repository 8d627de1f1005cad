----------------------------- MODULE RouteSearch -----------------------------
(***************************************************************************)
(* routing.BuildGraph and Graph.ShortestPath: the graph of the nodes read  *)
(* as online, and Dijkstra's search in it with a priority queue whose      *)
(* outdated entries are skipped when they are popped.                      *)
(*                                                                         *)
(* Every graph over Nodes is an initial state.  A node's Cost(metrics) is  *)
(* a small number, 999 being the largest; an edge counts the sum of both   *)
(* ends instead of half of it, so that all costs are integers.             *)
(***************************************************************************)
EXTENDS Integers, Sequences, FiniteSets, FiniteSetsExt, Functions

CONSTANTS
  Nodes,
  Src, Dst,   \* the nodes a route is asked for
  Costs,      \* what Cost may return
  NoNode

ASSUME EndsAssumption == {Src, Dst} \subseteq Nodes /\ Src # Dst /\ NoNode \notin Nodes
ASSUME CostsAssumption == Costs \subseteq Nat

VARIABLES
  online,     \* the nodes of the graph
  client,     \* those of type client
  public,     \* those with an Endpoint
  cost,       \* cost[n]
  dist, prev, \* as in ShortestPath
  queue,      \* the entries of pq
  pc,         \* "search", "trace" (the path), "done"
  path,       \* the path as far as it has been traced back
  route       \* the Route returned, NoRoute for an error

graph  == <<online, client, public, cost>>
search == <<dist, prev, queue>>
vars   == <<graph, search, pc, path, route>>

Infinity == 1000000
NoRoute  == [path |-> <<>>, cost |-> 0, relay |-> NoNode]

Edge(a, b) ==
  /\ a # b /\ {a, b} \subseteq online
  /\ ~({a, b} \subseteq client)
  /\ {a, b} \cap public # {}

EdgeCost(a, b) == cost[a] + cost[b]

Init ==
  /\ online \in SUBSET Nodes
  /\ client \in SUBSET online
  /\ public \in SUBSET online
  /\ cost \in {f \in [Nodes -> Costs] : \A n \in Nodes \ online : f[n] = Min(Costs)}
  /\ dist = [n \in Nodes |-> IF n = Src THEN 0 ELSE Infinity]
  /\ prev = [n \in Nodes |-> NoNode]
  /\ queue = {<<Src, 0>>}
  /\ pc = IF {Src, Dst} \subseteq online THEN "search" ELSE "done"
  /\ path = << >>
  /\ route = NoRoute

-----------------------------------------------------------------------------

\* Fault: Less is the wrong way round.
FaultyCheapest(e) == e \in queue /\ \A f \in queue : e[2] >= f[2]

\* Popped with equal costs, entries come in any order.
Cheapest(e) == e \in queue /\ \A f \in queue : e[2] <= f[2]

\* Fault: an equally dear path replaces the one found first.
FaultyImproves(n, m) == Edge(n, m) /\ dist[n] + EdgeCost(n, m) <= dist[m]

Improves(n, m) == Edge(n, m) /\ dist[n] + EdgeCost(n, m) < dist[m]

Better(e) == {m \in Nodes : e[2] <= dist[e[1]] /\ Improves(e[1], m)}

Rest(e) == queue \ {e}

\* An entry that is outdated improves nothing: it is passed over.
Relax(e) ==
  LET n == e[1]
      new == [m \in Nodes |-> IF m \in Better(e) THEN dist[n] + EdgeCost(n, m) ELSE dist[m]]
  IN
  /\ pc = "search"
  /\ Cheapest(e) /\ n # Dst
  /\ dist' = new
  /\ prev' = [m \in Nodes |-> IF m \in Better(e) THEN n ELSE prev[m]]
  /\ queue' = Rest(e) \cup {<<m, new[m]>> : m \in Better(e)}
  /\ UNCHANGED <<graph, pc, path, route>>

Arrived == queue = {} \/ \E e \in queue : Cheapest(e) /\ e[1] = Dst

Finish ==
  /\ pc = "search"
  /\ Arrived
  /\ IF dist[Dst] >= Infinity THEN pc' = "done" /\ UNCHANGED path
     ELSE pc' = "trace" /\ path' = <<Dst>>
  /\ UNCHANGED <<graph, search, route>>

\* Fault: the loop also prepends the missing predecessor.
FaultyTraced == path[1] = NoNode

\* Nothing precedes Src, and prev may have no entry.
Traced == path[1] = Src \/ prev[path[1]] = NoNode

Prepend ==
  /\ pc = "trace" /\ ~Traced
  /\ path' = <<prev[path[1]]>> \o path
  /\ UNCHANGED <<graph, search, pc, route>>

RelayOf(p) == IF Len(p) > 2 THEN p[2] ELSE NoNode

Return ==
  /\ pc = "trace" /\ Traced
  /\ pc' = "done"
  /\ route' = [path |-> path, cost |-> dist[Dst], relay |-> RelayOf(path)]
  /\ UNCHANGED <<graph, search, path>>

Next == Finish \/ Prepend \/ Return \/ \E e \in queue : Relax(e)

Spec == Init /\ [][Next]_vars /\ WF_vars(Next)

-----------------------------------------------------------------------------

(* Types; an entry of the queue is never cheaper than the distance known.    *)
TypeOK ==
  /\ client \cup public \subseteq online /\ online \subseteq Nodes
  /\ cost \in [Nodes -> Costs]
  /\ dist \in [Nodes -> Nat] /\ prev \in [Nodes -> Nodes \cup {NoNode}]
  /\ queue \subseteq Nodes \X Nat /\ \A e \in queue : dist[e[1]] <= e[2]
  /\ pc \in {"search", "trace", "done"} /\ path \in Seq(Nodes)
  /\ route \in [path : Seq(Nodes), cost : Nat, relay : Nodes \cup {NoNode}]

Path == UNION {[1..k -> Nodes] : k \in 2..Cardinality(Nodes)}

\* The reference: every walk without repetition from Src to Dst whose neighbours
\* are two nodes that can have a direct tunnel, and its length.
Paths ==
  {p \in Path :
     /\ p[1] = Src /\ p[Len(p)] = Dst /\ IsInjective(p)
     /\ \A i \in 1..(Len(p) - 1) :
          LET pair == {p[i], p[i + 1]} IN
          pair \subseteq online /\ ~(pair \subseteq client) /\ pair \cap public # {}}

Length(p) ==
  cost[Src] + cost[Dst] + 2 * MapThenSumSet(LAMBDA i : cost[p[i]], 2..(Len(p) - 1))

\* A cheapest of all paths, and an error only when there is none.
RouteOptimal ==
  pc = "done" =>
    IF route = NoRoute THEN Paths = {}
    ELSE /\ route.path \in Paths
         /\ route.cost = Length(route.path)
         /\ \A p \in Paths : route.cost <= Length(p)

(* ShortestPath records path[1] as the relay, "the middle node", and a Route has
   room for one: on the graphs BuildGraph makes a cheapest path never needs a
   second node in between, and two clients are never relayed by a third.     *)
RelayIsMiddle ==
  route # NoRoute =>
    /\ route.path = IF route.relay = NoNode THEN <<Src, Dst>>
                    ELSE <<Src, route.relay, Dst>>
    /\ {Src, Dst} \subseteq client => route.relay \in online \ client

(* ShortestPath, with free edges, ties and its early exit, ends on every graph,
   and returns a cheapest of all paths through pairs that can dial each other, or
   an error only when there is none.                                         *)
FindsCheapest == <>(pc = "done" /\ RouteOptimal)
=============================================================================
