------------------------- MODULE RouteSearchProofs -------------------------
(***************************************************************************)
(* Proofs about RouteSearch for any nodes and any costs: on the graphs     *)
(* BuildGraph makes, ShortestPath never finds a path with two nodes        *)
(* between its ends.  Whatever node the search reaches, its path is an     *)
(* edge from Src, or leads through one node next to Src.                   *)
(* And the path it finds is a cheapest one.                                *)
(***************************************************************************)
EXTENDS RouteSearch, SequenceTheorems, WellFoundedInduction, TLAPS

-----------------------------------------------------------------------------
(* The inductive invariant.                                                *)

\* No edge of n leads to a distance it could shorten.
Relaxed(n) == \A m \in Nodes : Edge(n, m) => dist[m] <= dist[n] + EdgeCost(n, m)

\* Nodes next to Src are reached from Src, if at all, and every other node from
\* one of those.
TreeInv ==
  /\ dist[Src] = 0 /\ prev[Src] = NoNode
  /\ \A m \in Nodes : m # Src /\ prev[m] = NoNode => dist[m] = Infinity
  /\ \A m, p \in Nodes : prev[m] = p =>
       /\ Edge(p, m) /\ Relaxed(p)
       /\ p = Src => dist[m] = EdgeCost(Src, m)
       /\ p # Src =>
            /\ prev[p] = Src /\ ~Edge(Src, m)
            /\ dist[m] >= EdgeCost(Src, p) + EdgeCost(p, m)

\* Whatever is in the queue has been reached.
QueueInv == \A e \in queue : e[1] = Src \/ prev[e[1]] # NoNode

\* The path as it is traced.
TraceInv ==
  /\ pc = "trace" =>
       /\ prev[Dst] # NoNode
       /\ \/ path = <<Dst>>
          \/ path = <<prev[Dst], Dst>>
          \/ prev[Dst] # Src /\ path = <<Src, prev[Dst], Dst>>
  /\ pc # "done" => route = NoRoute

SearchInv == TypeOK /\ TreeInv /\ QueueInv /\ TraceInv /\ RelayIsMiddle

-----------------------------------------------------------------------------
(* The graph.                                                              *)

\* Edge, for the provers.
LEMMA EdgeMeans ==
  ASSUME NEW a, NEW b
  PROVE  Edge(a, b) <=> /\ a # b /\ a \in online /\ b \in online
                        /\ a \notin client \/ b \notin client
                        /\ a \in public \/ b \in public
  BY DEF Edge

\* Two edges in a row can be replaced by one next to Src, or by one that leaves
\* out the node in between.
LEMMA Shortcut ==
  ASSUME NEW y \in Nodes, NEW n \in Nodes, NEW m \in Nodes, m # Src, m # y,
         n # Src, Edge(Src, y), Edge(y, n), Edge(n, m)
  PROVE  Edge(Src, n) \/ Edge(Src, m) \/ Edge(y, m)
<1>1. /\ Src \in online /\ y \in online /\ n \in online /\ m \in online
      /\ Src \notin client \/ y \notin client
      /\ y \notin client \/ n \notin client
      /\ n \notin client \/ m \notin client
      /\ Src \in public \/ y \in public
      /\ y \in public \/ n \in public
      /\ n \in public \/ m \in public
  BY EdgeMeans
<1>2. CASE n \in public /\ n \notin client
  <2>1. Edge(Src, n)
    BY <1>1, <1>2, EdgeMeans
  <2> QED BY <2>1
<1>3. CASE y \in public /\ y \notin client
  <2>1. Edge(y, m)
    BY <1>1, <1>3, EdgeMeans
  <2> QED BY <2>1
<1>4. CASE n \in public /\ n \in client /\ y \notin public
  <2>1. Src \in public /\ m \notin client /\ y \notin client
    BY <1>1, <1>4
  <2>2. Edge(Src, m)
    BY <1>1, <2>1, EdgeMeans
  <2> QED BY <2>2
<1>5. CASE y \in public /\ y \in client /\ n \notin public
  <2>1. Src \notin client /\ m \in public
    BY <1>1, <1>5
  <2>2. Edge(Src, m)
    BY <1>1, <2>1, EdgeMeans
  <2> QED BY <2>2
<1> QED BY <1>1, <1>2, <1>3, <1>4, <1>5

\* Numbers to calculate with.
LEMMA CostsAreNumbers ==
  ASSUME TypeOK
  PROVE  /\ Src \in Nodes /\ Dst \in Nodes /\ Src # Dst /\ NoNode \notin Nodes
         /\ \A n \in Nodes : cost[n] \in Nat /\ dist[n] \in Nat
  BY EndsAssumption, CostsAssumption DEF TypeOK

\* What a step that keeps the graph keeps of it.
LEMMA GraphStands ==
  ASSUME UNCHANGED graph
  PROVE  /\ \A a, b \in Nodes : Edge(a, b)' <=> Edge(a, b)
         /\ \A a, b \in Nodes : EdgeCost(a, b)' = EdgeCost(a, b)
  BY DEF graph, Edge, EdgeCost

-----------------------------------------------------------------------------
(* Relax.                                                                  *)

\* Relax, in terms of the node it pops: what is shortened, and what was short enough.
LEMMA RelaxMeans ==
  ASSUME TypeOK, NEW e \in queue, Relax(e)
  PROVE  /\ UNCHANGED <<graph, pc, path, route>> /\ e[1] \in Nodes /\ e[2] \in Nat
         /\ dist[e[1]] <= e[2] /\ pc = "search"
         /\ dist' = [m \in Nodes |->
                       IF m \in Better(e) THEN dist[e[1]] + EdgeCost(e[1], m) ELSE dist[m]]
         /\ prev' = [m \in Nodes |-> IF m \in Better(e) THEN e[1] ELSE prev[m]]
         /\ queue' = (queue \ {e}) \cup {<<m, dist'[m]>> : m \in Better(e)}
         /\ \A m \in Better(e) :
              m \in Nodes /\ Edge(e[1], m) /\ dist[e[1]] + EdgeCost(e[1], m) < dist[m]
         /\ \A m \in Nodes \ Better(e) :
              dist[e[1]] = e[2] /\ Edge(e[1], m) => dist[m] <= dist[e[1]] + EdgeCost(e[1], m)
<1>1. e[1] \in Nodes /\ e[2] \in Nat /\ dist[e[1]] <= e[2] /\ dist[e[1]] \in Nat
  BY CostsAreNumbers DEF TypeOK
<1>2. \A m \in Better(e) :
        m \in Nodes /\ Edge(e[1], m) /\ dist[e[1]] + EdgeCost(e[1], m) < dist[m]
  BY DEF Better, Improves
<1>3. \A m \in Nodes : EdgeCost(e[1], m) \in Nat /\ dist[m] \in Nat
  BY <1>1, CostsAreNumbers DEF EdgeCost
<1>4. \A m \in Nodes \ Better(e) :
        dist[e[1]] = e[2] /\ Edge(e[1], m) => dist[m] <= dist[e[1]] + EdgeCost(e[1], m)
  BY <1>1, <1>3 DEF Better, Improves
<1>5. Better(e) \subseteq Nodes
  BY DEF Better
<1>6. queue' = (queue \ {e}) \cup {<<m, dist'[m]>> : m \in Better(e)}
  BY <1>5 DEF Relax, Rest
<1> QED BY <1>1, <1>2, <1>4, <1>6 DEF Relax

\* Distances only shrink.
LEMMA RelaxTypes ==
  ASSUME TypeOK, NEW e \in queue, Relax(e)
  PROVE  TypeOK' /\ \A m \in Nodes : dist'[m] <= dist[m]
<1> USE RelaxMeans
<1>1. \A m \in Nodes : EdgeCost(e[1], m) \in Nat /\ dist[m] \in Nat
  BY CostsAreNumbers DEF EdgeCost
<1>2. \A m \in Nodes : dist'[m] \in Nat /\ dist'[m] <= dist[m]
  BY <1>1
<1>3. dist' \in [Nodes -> Nat]
  BY <1>2
<1>4. prev' \in [Nodes -> Nodes \cup {NoNode}]
  BY DEF TypeOK
<1>5. queue' \subseteq Nodes \X Nat
  BY <1>2 DEF TypeOK
<1>6. \A f \in queue' : dist'[f[1]] <= f[2]
  <2>1. \A f \in queue : f[1] \in Nodes /\ f[2] \in Nat /\ dist[f[1]] <= f[2]
    BY DEF TypeOK
  <2> SUFFICES ASSUME NEW f \in queue' PROVE dist'[f[1]] <= f[2]
    OBVIOUS
  <2>2. CASE f \in queue
    BY <2>1, <2>2, <1>1, <1>2
  <2>3. CASE f \in {<<m, dist'[m]>> : m \in Better(e)}
    <3>1. PICK m \in Better(e) : f = <<m, dist'[m]>>
      BY <2>3
    <3>2. m \in Nodes
      OBVIOUS
    <3> QED BY <1>2, <3>1, <3>2
  <2> QED BY <2>2, <2>3
<1>7. TypeOK'
  BY <1>3, <1>4, <1>5, <1>6 DEF TypeOK, graph
<1> QED BY <1>2, <1>7

\* A node that is reached from another one than Src lies behind a node next to
\* Src, and nothing is reached from there.
LEMMA RelaxedNext ==
  ASSUME TypeOK, TreeInv, QueueInv, NEW e \in queue, Relax(e), e[1] # Src
  PROVE  /\ Relaxed(Src) /\ dist[e[1]] >= EdgeCost(Src, e[1])
         /\ \A m \in Better(e) : ~Edge(Src, m) /\ prev[e[1]] = Src
<1> DEFINE n == e[1]
<1>1. n \in Nodes /\ prev[n] # NoNode /\ prev[n] \in Nodes
  BY RelaxMeans DEF QueueInv, TypeOK
<1>2. \A a \in Nodes : cost[a] \in Nat /\ dist[a] \in Nat
  BY CostsAreNumbers
<1>3. Src \in Nodes
  BY CostsAreNumbers
<1>4. CASE prev[n] = Src
  <2>1. Relaxed(Src) /\ dist[n] = EdgeCost(Src, n)
    BY <1>1, <1>4 DEF TreeInv
  <2>2. dist[n] >= EdgeCost(Src, n)
    BY <2>1, <1>1, <1>2, <1>3 DEF EdgeCost
  <2>3. ASSUME NEW m \in Better(e), Edge(Src, m) PROVE FALSE
    <3>1. m \in Nodes /\ dist[n] + EdgeCost(n, m) < dist[m]
      BY RelaxMeans
    <3>2. dist[m] <= dist[Src] + EdgeCost(Src, m) /\ dist[Src] = 0
      BY <2>1, <2>3, <3>1 DEF Relaxed, TreeInv
    <3> QED BY <1>1, <1>2, <1>3, <2>1, <3>1, <3>2 DEF EdgeCost
  <2> QED BY <1>4, <2>1, <2>2, <2>3
<1>5. CASE prev[n] # Src
  <2> DEFINE y == prev[n]
  <2>1. /\ prev[y] = Src /\ ~Edge(Src, n) /\ Edge(y, n) /\ Relaxed(y)
        /\ dist[n] >= EdgeCost(Src, y) + EdgeCost(y, n)
    BY <1>1, <1>5 DEF TreeInv
  <2>2. Edge(Src, y) /\ Relaxed(Src) /\ dist[y] = EdgeCost(Src, y)
    BY <1>1, <2>1, CostsAreNumbers DEF TreeInv
  <2>3. dist[n] >= EdgeCost(Src, n)
    BY <1>1, <1>2, <1>3, <2>1 DEF EdgeCost
  <2>4. ASSUME NEW m \in Better(e) PROVE FALSE
    <3>1. m \in Nodes /\ Edge(n, m) /\ dist[n] + EdgeCost(n, m) < dist[m]
      BY RelaxMeans
    <3>2. m # Src
      BY <1>1, <1>2, <1>3, <3>1 DEF TreeInv, EdgeCost
    <3>3. m # y
      <4>1. dist[n] + EdgeCost(n, y) >= dist[y]
        BY <1>1, <1>2, <1>3, <2>1, <2>2 DEF EdgeCost
      <4> QED BY <3>1, <4>1, <1>1, <1>2 DEF EdgeCost
    <3>4. CASE Edge(Src, m)
      <4>1. dist[m] <= dist[Src] + EdgeCost(Src, m) /\ dist[Src] = 0
        BY <2>2, <3>1, <3>4 DEF Relaxed, TreeInv
      <4> QED BY <1>1, <1>2, <1>3, <2>3, <3>1, <4>1 DEF EdgeCost
    <3>5. CASE Edge(y, m)
      <4>1. dist[m] <= dist[y] + EdgeCost(y, m)
        BY <2>1, <3>1, <3>5 DEF Relaxed
      <4> QED BY <1>1, <1>2, <1>3, <2>1, <2>2, <3>1, <4>1 DEF EdgeCost
    <3> QED BY <1>1, <2>1, <2>2, <3>1, <3>2, <3>3, <3>4, <3>5, Shortcut
  <2> QED BY <2>2, <2>3, <2>4
<1> QED BY <1>4, <1>5

\* The tree of predecessors stays two deep.
LEMMA RelaxTree ==
  ASSUME TypeOK, TreeInv, QueueInv, NEW e \in queue, Relax(e)
  PROVE  TreeInv'
<1> DEFINE n == e[1]
<1>1. n \in Nodes /\ UNCHANGED graph
  BY RelaxMeans
<1>2. \A a \in Nodes : cost[a] \in Nat /\ dist[a] \in Nat
  BY CostsAreNumbers
<1>3. Src \in Nodes /\ NoNode \notin Nodes /\ dist[Src] = 0 /\ prev[Src] = NoNode
  BY CostsAreNumbers DEF TreeInv
<1>4. \A m \in Nodes : dist'[m] = IF m \in Better(e) THEN dist[n] + EdgeCost(n, m) ELSE dist[m]
  BY RelaxMeans
<1>5. \A m \in Nodes : prev'[m] = IF m \in Better(e) THEN n ELSE prev[m]
  BY RelaxMeans
<1>6. \A m \in Nodes : dist'[m] <= dist[m] /\ dist'[m] \in Nat
  BY RelaxTypes DEF TypeOK
<1>7. \A m \in Better(e) : m \in Nodes /\ Edge(n, m) /\ dist[n] + EdgeCost(n, m) < dist[m]
  BY RelaxMeans
<1>8. Src \notin Better(e) /\ n \notin Better(e)
  BY <1>1, <1>2, <1>3, <1>7 DEF EdgeCost, Edge
\* Nodes next to Src stay as they are once they are reached.
<1>9. ASSUME NEW p \in Nodes, prev[p] = Src PROVE p \notin Better(e)
  <2>1. Edge(Src, p) /\ dist[p] = EdgeCost(Src, p)
    BY <1>3, <1>9 DEF TreeInv
  <2>2. CASE n = Src
    BY <1>2, <1>3, <1>7, <2>1, <2>2 DEF EdgeCost
  <2>3. CASE n # Src
    BY <2>1, <2>3, RelaxedNext
  <2> QED BY <2>2, <2>3
<1>10. \A p \in Nodes : p = Src \/ prev[p] = Src => dist'[p] = dist[p] /\ prev'[p] = prev[p]
  BY <1>4, <1>5, <1>8, <1>9
<1>11. ASSUME NEW p \in Nodes, p = Src \/ prev[p] = Src, Relaxed(p) PROVE Relaxed(p)'
  <2> SUFFICES ASSUME NEW m \in Nodes, Edge(p, m)' PROVE dist'[m] <= dist'[p] + EdgeCost(p, m)'
    BY DEF Relaxed
  <2>1. Edge(p, m) /\ EdgeCost(p, m)' = EdgeCost(p, m)
    BY <1>1, GraphStands
  <2>2. dist[m] <= dist[p] + EdgeCost(p, m) /\ dist'[p] = dist[p]
    BY <1>10, <1>11, <2>1 DEF Relaxed
  <2> QED BY <1>2, <1>6, <2>1, <2>2 DEF EdgeCost
<1>12. ASSUME NEW b \in Better(e) PROVE Relaxed(n)'
  <2> SUFFICES ASSUME NEW m \in Nodes, Edge(n, m)' PROVE dist'[m] <= dist'[n] + EdgeCost(n, m)'
    BY DEF Relaxed
  <2>1. Edge(n, m) /\ EdgeCost(n, m)' = EdgeCost(n, m) /\ EdgeCost(n, m) \in Nat
    BY <1>1, <1>2, GraphStands DEF EdgeCost
  <2>2. dist'[n] = dist[n]
    BY <1>1, <1>4, <1>8
  <2>3. dist[n] = e[2]
    BY <1>1, <1>2, <1>12, RelaxMeans DEF Better
  <2>4. CASE m \in Better(e)
    BY <1>1, <1>2, <1>4, <2>1, <2>2, <2>4
  <2>5. CASE m \notin Better(e)
    BY <1>1, <1>2, <1>4, <2>1, <2>2, <2>3, <2>5, RelaxMeans
  <2> QED BY <2>4, <2>5
<1>13. \A a, b \in Nodes : Edge(a, b)' <=> Edge(a, b)
  BY <1>1, GraphStands
<1>14. \A a, b \in Nodes : EdgeCost(a, b)' = EdgeCost(a, b) /\ EdgeCost(a, b) \in Nat
  BY <1>1, <1>2, GraphStands DEF EdgeCost
<1>15. ASSUME NEW m \in Nodes, m # Src, prev'[m] = NoNode PROVE dist'[m] = Infinity
  BY <1>1, <1>3, <1>4, <1>5, <1>15 DEF TreeInv
<1>16. dist'[Src] = 0 /\ prev'[Src] = NoNode
  BY <1>3, <1>10
<1>17. ASSUME NEW m \in Nodes, NEW p \in Nodes, prev'[m] = p
       PROVE  /\ Edge(p, m)' /\ Relaxed(p)'
              /\ p = Src => dist'[m] = EdgeCost(Src, m)'
              /\ p # Src =>
                   /\ prev'[p] = Src /\ ~Edge(Src, m)'
                   /\ dist'[m] >= EdgeCost(Src, p)' + EdgeCost(p, m)'
  <2>1. CASE m \in Better(e)
    <3>1. p = n /\ dist'[m] = dist[n] + EdgeCost(n, m) /\ Edge(n, m)'
      BY <1>1, <1>4, <1>5, <1>7, <1>13, <1>17, <2>1
    <3>2. Relaxed(n)'
      BY <1>12, <2>1
    <3>3. CASE n = Src
      BY <1>1, <1>2, <1>3, <1>14, <3>1, <3>2, <3>3
    <3>4. CASE n # Src
      <4>1. ~Edge(Src, m) /\ prev[n] = Src /\ dist[n] >= EdgeCost(Src, n)
        BY <2>1, <3>4, RelaxedNext
      <4>2. prev'[n] = Src /\ ~Edge(Src, m)'
        BY <1>1, <1>3, <1>10, <1>13, <4>1
      <4>3. dist'[m] >= EdgeCost(Src, n)' + EdgeCost(n, m)'
        BY <1>1, <1>2, <1>3, <1>14, <3>1, <4>1
      <4> QED BY <3>1, <3>2, <3>4, <4>2, <4>3
    <3> QED BY <3>3, <3>4
  <2>2. CASE m \notin Better(e)
    <3>1. prev[m] = p /\ dist'[m] = dist[m]
      BY <1>4, <1>5, <1>17, <2>2
    <3>2. Edge(p, m)' /\ Relaxed(p)
      BY <1>13, <3>1 DEF TreeInv
    <3>3. CASE p = Src
      <4>1. Relaxed(Src)'
        BY <1>3, <1>11, <3>2, <3>3
      <4>2. dist'[m] = EdgeCost(Src, m)'
        BY <1>3, <1>14, <3>1, <3>3 DEF TreeInv
      <4> QED BY <3>2, <3>3, <4>1, <4>2
    <3>4. CASE p # Src
      <4>1. prev[p] = Src /\ ~Edge(Src, m) /\ dist[m] >= EdgeCost(Src, p) + EdgeCost(p, m)
        BY <3>1, <3>4 DEF TreeInv
      <4>2. Relaxed(p)'
        BY <1>11, <3>2, <4>1
      <4>3. prev'[p] = Src /\ ~Edge(Src, m)'
        BY <1>3, <1>10, <1>13, <4>1
      <4>4. dist'[m] >= EdgeCost(Src, p)' + EdgeCost(p, m)'
        BY <1>3, <1>14, <3>1, <4>1
      <4> QED BY <3>2, <3>4, <4>2, <4>3, <4>4
    <3> QED BY <3>3, <3>4
  <2> QED BY <2>1, <2>2
<1> QED BY <1>15, <1>16, <1>17 DEF TreeInv

\* What is pushed has been reached.
LEMMA RelaxQueue ==
  ASSUME TypeOK, QueueInv, NEW e \in queue, Relax(e)
  PROVE  QueueInv'
<1>1. e[1] \in Nodes /\ e[1] # NoNode
  BY RelaxMeans, CostsAreNumbers
<1> SUFFICES ASSUME NEW f \in queue' PROVE f[1] = Src \/ prev'[f[1]] # NoNode
  BY DEF QueueInv
<1>2. CASE f \in queue
  <2>1. f[1] \in Nodes /\ (f[1] = Src \/ prev[f[1]] # NoNode)
    BY <1>2 DEF QueueInv, TypeOK
  <2> QED BY <1>1, <2>1, RelaxMeans
<1>3. CASE f \in {<<m, dist'[m]>> : m \in Better(e)}
  <2>1. PICK m \in Better(e) : f = <<m, dist'[m]>>
    BY <1>3
  <2>2. f[1] = m /\ m \in Nodes
    BY <2>1, RelaxMeans
  <2> QED BY <1>1, <2>2, RelaxMeans
<1> QED BY <1>2, <1>3, RelaxMeans

\* A node is popped.
LEMMA RelaxKeeps ==
  ASSUME SearchInv, NEW e \in queue, Relax(e)
  PROVE  SearchInv'
<1>1. TypeOK' /\ TreeInv' /\ QueueInv'
  BY RelaxTypes, RelaxTree, RelaxQueue DEF SearchInv
<1>2. TraceInv' /\ RelayIsMiddle'
  <2>1. UNCHANGED <<graph, pc, path, route>> /\ pc = "search"
    BY RelaxMeans DEF SearchInv
  <2> QED BY <2>1 DEF SearchInv, TraceInv, RelayIsMiddle, graph
<1> QED BY <1>1, <1>2 DEF SearchInv

-----------------------------------------------------------------------------
(* The other steps.                                                        *)

\* What only the search changes.
LEMMA TreeStands ==
  ASSUME TreeInv, QueueInv, UNCHANGED <<graph, search>>
  PROVE  TreeInv' /\ QueueInv'
  BY DEF TreeInv, QueueInv, Relaxed, Edge, EdgeCost, graph, search

\* Nothing is reached but Src.
LEMMA InitSearch == Init => SearchInv
<1> SUFFICES ASSUME Init PROVE SearchInv
  OBVIOUS
<1> USE EndsAssumption
<1>1. TypeOK
  <2>1. online \subseteq Nodes /\ client \subseteq online /\ public \subseteq online
    BY DEF Init
  <2>2. cost \in [Nodes -> Costs]
    BY DEF Init
  <2>3. dist \in [Nodes -> Nat] /\ prev \in [Nodes -> Nodes \cup {NoNode}] /\ dist[Src] = 0
    BY DEF Init, Infinity
  <2>4. queue \subseteq Nodes \X Nat /\ \A e \in queue : dist[e[1]] <= e[2]
    BY <2>3 DEF Init
  <2>5. pc \in {"search", "trace", "done"} /\ path \in Seq(Nodes)
    BY EmptySeq DEF Init
  <2>6. route \in [path : Seq(Nodes), cost : Nat, relay : Nodes \cup {NoNode}]
    BY EmptySeq DEF Init, NoRoute
  <2> QED BY <2>1, <2>2, <2>3, <2>4, <2>5, <2>6 DEF TypeOK
<1>2. TreeInv
  BY DEF Init, TreeInv, Infinity
<1>3. QueueInv
  BY DEF Init, QueueInv
<1>4. TraceInv /\ RelayIsMiddle
  BY DEF Init, TraceInv, RelayIsMiddle
<1> QED BY <1>1, <1>2, <1>3, <1>4 DEF SearchInv

\* The search ends; Dst has been reached or not.
LEMMA FinishKeeps == ASSUME SearchInv, Finish PROVE SearchInv'
<1>1. TreeInv' /\ QueueInv'
  BY TreeStands DEF SearchInv, Finish
<1>2. <<Dst>> \in Seq(Nodes)
  BY EndsAssumption
<1>3. TypeOK'
  BY <1>2 DEF SearchInv, TypeOK, Finish, graph, search
<1>4. dist[Dst] < Infinity => prev[Dst] # NoNode
  BY CostsAreNumbers DEF SearchInv, TreeInv, Infinity
<1>5. TraceInv'
  BY <1>4, CostsAreNumbers DEF SearchInv, TraceInv, Finish, search, Infinity
<1>6. RelayIsMiddle'
  BY DEF SearchInv, RelayIsMiddle, Finish, graph
<1> QED BY <1>1, <1>3, <1>5, <1>6 DEF SearchInv

\* One node before one or two.
LEMMA Prepended ==
  ASSUME NEW a \in Nodes, NEW b \in Nodes, NEW c \in Nodes
  PROVE  <<a>> \o <<b>> = <<a, b>> /\ <<a>> \o <<b, c>> = <<a, b, c>>
<1>1. /\ <<a>> \in Seq(Nodes) /\ Len(<<a>>) = 1 /\ <<a>>[1] = a
      /\ <<b>> \in Seq(Nodes) /\ Len(<<b>>) = 1 /\ <<b>>[1] = b
  OBVIOUS
<1>2. <<b, c>> \in Seq(Nodes) /\ Len(<<b, c>>) = 2 /\ <<b, c>>[1] = b /\ <<b, c>>[2] = c
  OBVIOUS
<1>3. <<a, b>> \in Seq(Nodes) /\ Len(<<a, b>>) = 2 /\ <<a, b>>[1] = a /\ <<a, b>>[2] = b
  OBVIOUS
<1>4. /\ <<a, b, c>> \in Seq(Nodes) /\ Len(<<a, b, c>>) = 3
      /\ <<a, b, c>>[1] = a /\ <<a, b, c>>[2] = b /\ <<a, b, c>>[3] = c
  OBVIOUS
<1>5. /\ <<a>> \o <<b>> \in Seq(Nodes) /\ Len(<<a>> \o <<b>>) = 2
      /\ (<<a>> \o <<b>>)[1] = a /\ (<<a>> \o <<b>>)[2] = b
  BY <1>1, ConcatProperties
<1>6. /\ <<a>> \o <<b, c>> \in Seq(Nodes) /\ Len(<<a>> \o <<b, c>>) = 3
      /\ (<<a>> \o <<b, c>>)[1] = a /\ (<<a>> \o <<b, c>>)[2] = b
      /\ (<<a>> \o <<b, c>>)[3] = c
  BY <1>1, <1>2, ConcatProperties
<1>7. \A i \in 1..2 : (<<a>> \o <<b>>)[i] = <<a, b>>[i]
  BY <1>3, <1>5
<1>8. \A i \in 1..3 : (<<a>> \o <<b, c>>)[i] = <<a, b, c>>[i]
  BY <1>4, <1>6
<1>9. <<a>> \o <<b>> = <<a, b>>
  BY <1>3, <1>5, <1>7, SeqEqual
<1> QED BY <1>4, <1>6, <1>8, <1>9, SeqEqual

\* From Dst back to Src.
LEMMA PrependKeeps == ASSUME SearchInv, Prepend PROVE SearchInv'
<1>1. TreeInv' /\ QueueInv'
  BY TreeStands DEF SearchInv, Prepend
<1>2. /\ Src \in Nodes /\ Dst \in Nodes /\ Src # Dst /\ NoNode \notin Nodes
      /\ prev[Dst] \in Nodes /\ pc = "trace"
  BY CostsAreNumbers DEF SearchInv, TypeOK, TraceInv, Prepend
<1>3. CASE path = <<Dst>>
  <2>1. path' = <<prev[Dst], Dst>>
    BY <1>2, <1>3, Prepended DEF Prepend
  <2>2. path' \in Seq(Nodes)
    BY <1>2, <2>1
  <2>3. TypeOK'
    BY <2>2 DEF SearchInv, TypeOK, Prepend, graph, search
  <2>4. TraceInv' /\ RelayIsMiddle'
    BY <2>1 DEF SearchInv, TraceInv, RelayIsMiddle, Prepend, search, graph
  <2> QED BY <1>1, <2>3, <2>4 DEF SearchInv
<1>4. CASE path = <<prev[Dst], Dst>>
  <2>1. prev[Dst] # Src /\ prev[prev[Dst]] = Src
    BY <1>2, <1>4 DEF SearchInv, TreeInv, Prepend, Traced
  <2>2. path' = <<Src, prev[Dst], Dst>>
    BY <1>2, <1>4, <2>1, Prepended DEF Prepend
  <2>3. path' \in Seq(Nodes)
    BY <1>2, <2>2
  <2>4. TypeOK'
    BY <2>3 DEF SearchInv, TypeOK, Prepend, graph, search
  <2>5. TraceInv' /\ RelayIsMiddle'
    BY <2>1, <2>2 DEF SearchInv, TraceInv, RelayIsMiddle, Prepend, search, graph
  <2> QED BY <1>1, <2>4, <2>5 DEF SearchInv
<1>5. CASE path = <<Src, prev[Dst], Dst>>
  BY <1>5 DEF Prepend, Traced
<1> QED BY <1>2, <1>3, <1>4, <1>5 DEF SearchInv, TraceInv

\* The trace ends with the whole path.
LEMMA TracedPath ==
  ASSUME SearchInv, Return
  PROVE  \/ path = <<Src, Dst>> /\ prev[Dst] = Src
         \/ path = <<Src, prev[Dst], Dst>> /\ prev[Dst] # Src /\ prev[prev[Dst]] = Src
<1>1. /\ Src \in Nodes /\ Dst \in Nodes /\ Src # Dst /\ NoNode \notin Nodes
      /\ prev[Dst] \in Nodes /\ pc = "trace" /\ dist[Dst] \in Nat
  BY CostsAreNumbers DEF SearchInv, TypeOK, TraceInv, Return
<1>2. prev[Dst] # Dst /\ (path = <<Dst>> => prev[path[1]] # NoNode /\ path[1] # Src)
  BY <1>1 DEF SearchInv, TreeInv, Edge
<1>3. path # <<Dst>>
  BY <1>2 DEF Return, Traced
<1>4. CASE path = <<prev[Dst], Dst>>
  <2>1. prev[Dst] = Src
    <3>1. path[1] = prev[Dst]
      BY <1>4
    <3>2. prev[Dst] # Src => prev[prev[Dst]] = Src
      BY <1>1 DEF SearchInv, TreeInv
    <3>3. path[1] = Src \/ prev[path[1]] = NoNode
      BY DEF Return, Traced
    <3>4. prev[Dst] = Src \/ prev[prev[Dst]] = NoNode
      BY <3>1, <3>3
    <3>5. Src # NoNode
      BY <1>1
    <3> QED BY <3>2, <3>4, <3>5
  <2> QED BY <1>4, <2>1
<1>5. CASE prev[Dst] # Src /\ path = <<Src, prev[Dst], Dst>>
  BY <1>1, <1>5 DEF SearchInv, TreeInv
<1> QED BY <1>1, <1>3, <1>4, <1>5 DEF SearchInv, TraceInv

\* The path that is returned has one node in between or none.
LEMMA ReturnKeeps == ASSUME SearchInv, Return PROVE SearchInv'
<1>1. TreeInv' /\ QueueInv'
  BY TreeStands DEF SearchInv, Return
<1>2. /\ Src \in Nodes /\ Dst \in Nodes /\ Src # Dst /\ NoNode \notin Nodes
      /\ prev[Dst] \in Nodes /\ pc = "trace" /\ dist[Dst] \in Nat
  BY CostsAreNumbers DEF SearchInv, TypeOK, TraceInv, Return
<1>3. \/ path = <<Src, Dst>> /\ prev[Dst] = Src
      \/ path = <<Src, prev[Dst], Dst>> /\ prev[Dst] # Src /\ prev[prev[Dst]] = Src
  BY TracedPath
<1>4. CASE path = <<Src, Dst>> /\ prev[Dst] = Src
  <2>1. route' = [path |-> <<Src, Dst>>, cost |-> dist[Dst], relay |-> NoNode]
    BY <1>4 DEF Return, RelayOf
  <2>2. Edge(Src, Dst)
    BY <1>2, <1>4 DEF SearchInv, TreeInv
  <2>3. route'.path = <<Src, Dst>> /\ route'.relay = NoNode
    BY <2>1
  <2>4. RelayIsMiddle'
    BY <2>2, <2>3 DEF RelayIsMiddle, Return, Edge, graph
  <2>5. route' \in [path : Seq(Nodes), cost : Nat, relay : Nodes \cup {NoNode}]
    BY <1>2, <2>1
  <2>6. TypeOK'
    BY <2>5 DEF SearchInv, TypeOK, Return, graph, search
  <2>7. TraceInv'
    BY DEF TraceInv, Return
  <2> QED BY <1>1, <2>4, <2>6, <2>7 DEF SearchInv
<1>5. CASE path = <<Src, prev[Dst], Dst>> /\ prev[Dst] # Src /\ prev[prev[Dst]] = Src
  <2>1. route' = [path |-> <<Src, prev[Dst], Dst>>, cost |-> dist[Dst], relay |-> prev[Dst]]
    BY <1>5 DEF Return, RelayOf
  <2>2. Edge(Src, prev[Dst])
    BY <1>2, <1>5 DEF SearchInv, TreeInv
  <2>3. route'.path = <<Src, prev[Dst], Dst>> /\ route'.relay = prev[Dst] /\ prev[Dst] # NoNode
    BY <1>2, <2>1
  <2>4. RelayIsMiddle'
    BY <2>2, <2>3 DEF RelayIsMiddle, Return, Edge, graph
  <2>5. route' \in [path : Seq(Nodes), cost : Nat, relay : Nodes \cup {NoNode}]
    BY <1>2, <2>1
  <2>6. TypeOK'
    BY <2>5 DEF SearchInv, TypeOK, Return, graph, search
  <2>7. TraceInv'
    BY DEF TraceInv, Return
  <2> QED BY <1>1, <2>4, <2>6, <2>7 DEF SearchInv
<1> QED BY <1>3, <1>4, <1>5

\* SearchInv is inductive.
LEMMA StepSearch == SearchInv /\ [Next]_vars => SearchInv'
<1> SUFFICES ASSUME SearchInv, [Next]_vars PROVE SearchInv'
  OBVIOUS
<1>1. CASE UNCHANGED vars
  <2>1. TreeInv' /\ QueueInv'
    BY <1>1, TreeStands DEF SearchInv, vars
  <2>2. TypeOK'
    BY <1>1 DEF SearchInv, TypeOK, vars, graph, search
  <2>3. TraceInv' /\ RelayIsMiddle'
    BY <1>1 DEF SearchInv, TraceInv, RelayIsMiddle, vars, graph, search
  <2> QED BY <2>1, <2>2, <2>3 DEF SearchInv
<1>2. CASE \E e \in queue : Relax(e)
  BY <1>2, RelaxKeeps
<1> QED BY <1>1, <1>2, FinishKeeps, PrependKeeps, ReturnKeeps DEF Next

-----------------------------------------------------------------------------

(* TypeOK: an entry of the queue is never cheaper than the distance known.   *)
THEOREM SearchTypes == Spec => []TypeOK
<1>1. SearchInv => TypeOK
  BY DEF SearchInv
<1> QED BY InitSearch, StepSearch, <1>1, PTL DEF Spec

(* RelayIsMiddle (optimizer.go): a Route has room for one relay, and no path
   ShortestPath returns needs two; a relay between two clients is no client.  *)
THEOREM OneRelayIsEnough == Spec => []RelayIsMiddle
<1>1. SearchInv => RelayIsMiddle
  BY DEF SearchInv
<1> QED BY InitSearch, StepSearch, <1>1, PTL DEF Spec

-----------------------------------------------------------------------------
(* Costs.                                                                  *)

\* A node that was shortened and not popped since is in the queue with its cost.
Fresh(n) == dist[n] < Infinity => Relaxed(n) \/ <<n, dist[n]>> \in queue

\* The route that was returned, by the predecessor of Dst.
RouteOf(r) ==
  /\ r.cost = dist[Dst] /\ prev[Dst] # NoNode
  /\ prev[Dst] = Src => r.path = <<Src, Dst>>
  /\ prev[Dst] # Src => r.path = <<Src, prev[Dst], Dst>>

\* The search stops when no node that is nearer than Dst can shorten anything.
CostInv ==
  /\ \A n \in Nodes : dist[n] <= Infinity
  /\ pc = "search" => \A n \in Nodes : Fresh(n)
  /\ pc # "search" /\ {Src, Dst} \subseteq online =>
       \A n \in Nodes : dist[n] < dist[Dst] => Relaxed(n)
  /\ pc # "done" => {Src, Dst} \subseteq online
  /\ pc = "trace" => dist[Dst] < Infinity
  /\ pc = "done" =>
       IF route = NoRoute THEN {Src, Dst} \subseteq online => dist[Dst] = Infinity
       ELSE RouteOf(route)

\* A way p from Src to Dst through nodes that can dial each other, of which the
\* first i nodes cost len[i].
Walk(p, len, k) ==
  /\ p \in [1..k -> Nodes] /\ len \in [1..k -> Nat]
  /\ p[1] = Src /\ p[k] = Dst /\ len[1] = 0
  /\ \A i \in 2..k : Edge(p[i - 1], p[i]) /\ len[i] = len[i - 1] + EdgeCost(p[i - 1], p[i])

(* RouteOptimal without an enumeration: the route is a walk and costs what the
   walk does, and no walk of any length costs less.  An error is returned only
   if every walk costs as much as "no path".                                  *)
RouteCheapest ==
  pc = "done" =>
    /\ route # NoRoute =>
         \E len \in Seq(Nat) :
           /\ Walk(route.path, len, Len(route.path))
           /\ route.cost = len[Len(route.path)]
    /\ \A k \in Nat \ {0} : \A p \in [1..k -> Nodes], len \in [1..k -> Nat] :
         Walk(p, len, k) =>
           len[k] >= IF route = NoRoute THEN Infinity ELSE route.cost

\* Only Src has a cost.
LEMMA InitCosts == Init => CostInv
<1> SUFFICES ASSUME Init PROVE CostInv
  OBVIOUS
<1>1. \A n \in Nodes : dist[n] = IF n = Src THEN 0 ELSE Infinity
  BY DEF Init
<1>2. \A n \in Nodes : dist[n] <= Infinity
  BY <1>1 DEF Infinity
<1>3. \A n \in Nodes : Fresh(n)
  BY <1>1 DEF Fresh, Init, Infinity
<1>4. /\ pc \in {"search", "done"} /\ (pc = "search" <=> {Src, Dst} \subseteq online)
      /\ route = NoRoute
  BY DEF Init
<1> QED BY <1>2, <1>3, <1>4 DEF CostInv

\* What is shortened is pushed, and what is popped is relaxed.
LEMMA RelaxCosts ==
  ASSUME SearchInv, CostInv, NEW e \in queue, Relax(e)
  PROVE  CostInv'
<1> DEFINE n == e[1]
<1>1. TypeOK /\ TypeOK' /\ \A m \in Nodes : dist'[m] <= dist[m] /\ dist[m] <= Infinity
  BY RelaxTypes DEF SearchInv, CostInv
<1>2. UNCHANGED <<graph, pc, path, route>> /\ n \in Nodes /\ e[2] \in Nat /\ pc = "search"
  BY <1>1, RelaxMeans
<1>3. \A m \in Nodes : dist[m] \in Nat /\ dist'[m] \in Nat /\ cost[m] \in Nat
  BY <1>1, CostsAreNumbers DEF TypeOK
<1>4. \A m \in Nodes : dist'[m] <= Infinity
  BY <1>1, <1>3 DEF Infinity
<1>5. ASSUME NEW m \in Nodes, dist'[m] < Infinity
      PROVE  Relaxed(m)' \/ <<m, dist'[m]>> \in queue'
  <2>1. CASE m \in Better(e)
    BY <1>1, <2>1, RelaxMeans
  <2>2. CASE m \notin Better(e) /\ Relaxed(m)
    <3>1. dist'[m] = dist[m]
      BY <1>1, <2>2, RelaxMeans
    <3>2. ASSUME NEW x \in Nodes, Edge(m, x)' PROVE dist'[x] <= dist'[m] + EdgeCost(m, x)'
      <4>1. Edge(m, x) /\ EdgeCost(m, x)' = EdgeCost(m, x) /\ EdgeCost(m, x) \in Nat
        BY <1>2, <1>3, <3>2, GraphStands DEF EdgeCost
      <4>2. dist[x] <= dist[m] + EdgeCost(m, x)
        BY <2>2, <4>1 DEF Relaxed
      <4> QED BY <1>1, <1>3, <3>1, <4>1, <4>2
    <3> QED BY <3>2 DEF Relaxed
  <2>3. CASE m \notin Better(e) /\ <<m, dist[m]>> \in queue /\ <<m, dist[m]>> # e
    BY <1>1, <2>3, RelaxMeans
  <2>4. CASE m \notin Better(e) /\ <<m, dist[m]>> = e
    <3>1. n = m /\ e[2] = dist[n] /\ dist'[n] = dist[n]
      BY <1>1, <2>4, RelaxMeans
    <3>2. ASSUME NEW x \in Nodes, Edge(n, x)' PROVE dist'[x] <= dist'[n] + EdgeCost(n, x)'
      <4>1. Edge(n, x) /\ EdgeCost(n, x)' = EdgeCost(n, x) /\ EdgeCost(n, x) \in Nat
        BY <1>2, <1>3, <3>2, GraphStands DEF EdgeCost
      <4>2. CASE x \in Better(e)
        <5>1. dist'[x] = dist[n] + EdgeCost(n, x)
          BY <1>1, <4>2, RelaxMeans
        <5> QED BY <1>3, <1>2, <3>1, <4>1, <5>1
      <4>3. CASE x \notin Better(e)
        <5>1. dist[x] <= dist[n] + EdgeCost(n, x)
          BY <1>1, <3>1, <4>1, <4>3, RelaxMeans
        <5> QED BY <1>1, <1>2, <1>3, <3>1, <4>1, <5>1
      <4> QED BY <4>2, <4>3
    <3> QED BY <3>1, <3>2 DEF Relaxed
  <2>5. m \notin Better(e) => dist[m] < Infinity
    <3>1. m \notin Better(e) => dist'[m] = dist[m]
      BY <1>1, RelaxMeans
    <3> QED BY <1>5, <3>1
  <2>6. m \notin Better(e) => Relaxed(m) \/ <<m, dist[m]>> \in queue
    BY <1>2, <2>5 DEF CostInv, Fresh
  <2> QED BY <2>1, <2>2, <2>3, <2>4, <2>6
<1> QED BY <1>2, <1>4, <1>5 DEF CostInv, Fresh, graph

\* When Dst is the cheapest entry, what is nearer has left the queue.
LEMMA FinishCosts == ASSUME SearchInv, CostInv, Finish PROVE CostInv'
<1>1. TypeOK /\ UNCHANGED <<graph, search, route>> /\ pc = "search"
  BY DEF SearchInv, Finish
<1>2. \A n \in Nodes : dist[n] \in Nat /\ dist[n] <= Infinity
  BY <1>1, CostsAreNumbers DEF CostInv
<1>3. {Src, Dst} \subseteq online /\ Dst \in Nodes
  BY <1>1, CostsAreNumbers DEF CostInv
<1>4. ASSUME NEW n \in Nodes, dist[n] < dist[Dst] PROVE Relaxed(n)
  <2>1. dist[n] < Infinity
    BY <1>2, <1>3, <1>4 DEF Infinity
  <2>2. ASSUME <<n, dist[n]>> \in queue PROVE FALSE
    <3>1. PICK e \in queue : Cheapest(e) /\ e[1] = Dst
      BY <2>2 DEF Finish, Arrived
    <3>2. e[2] <= dist[n]
      BY <2>2, <3>1 DEF Cheapest
    <3>3. dist[Dst] <= e[2] /\ e[2] \in Nat
      BY <1>1, <3>1 DEF TypeOK
    <3> QED BY <1>2, <1>3, <1>4, <3>2, <3>3
  <2> QED BY <1>1, <2>1, <2>2 DEF CostInv, Fresh
<1>5. \A n \in Nodes : Relaxed(n)' <=> Relaxed(n)
  BY <1>1 DEF Relaxed, Edge, EdgeCost, graph, search
<1>6. route = NoRoute
  BY <1>1 DEF SearchInv, TraceInv
<1>7. dist[Dst] >= Infinity => dist[Dst] = Infinity
  BY <1>2, <1>3 DEF Infinity
<1>8. \/ pc' = "done" /\ dist[Dst] >= Infinity
      \/ pc' = "trace" /\ dist[Dst] < Infinity
  BY <1>2, <1>3 DEF Finish, Infinity
<1> QED BY <1>1, <1>2, <1>3, <1>4, <1>5, <1>6, <1>7, <1>8 DEF CostInv, graph, search

\* The trace changes no cost.
LEMMA PrependCosts == ASSUME SearchInv, CostInv, Prepend PROVE CostInv'
<1>1. UNCHANGED <<graph, search, pc, route>> /\ pc = "trace"
  BY DEF Prepend
<1>2. \A n \in Nodes : Relaxed(n)' <=> Relaxed(n)
  BY <1>1 DEF Relaxed, Edge, EdgeCost, graph, search
<1> QED BY <1>1, <1>2 DEF CostInv, graph, search

\* The route has the cost of Dst.
LEMMA ReturnCosts == ASSUME SearchInv, CostInv, Return PROVE CostInv'
<1>1. UNCHANGED <<graph, search, path>> /\ pc = "trace" /\ pc' = "done"
  BY DEF Return
<1>2. \A n \in Nodes : Relaxed(n)' <=> Relaxed(n)
  BY <1>1 DEF Relaxed, Edge, EdgeCost, graph, search
<1>3. route' = [path |-> path, cost |-> dist[Dst], relay |-> RelayOf(path)]
  BY DEF Return
<1>4. route'.path = path /\ route'.cost = dist[Dst]
  BY <1>3
<1>5. RouteOf(route)'
  <2>1. prev[Dst] # NoNode
    BY <1>1 DEF SearchInv, TraceInv
  <2>2. /\ prev[Dst] = Src => path = <<Src, Dst>>
        /\ prev[Dst] # Src => path = <<Src, prev[Dst], Dst>>
    BY TracedPath
  <2> QED BY <1>1, <1>4, <2>1, <2>2 DEF RouteOf, search
<1>6. route' # NoRoute
  <2>1. route'.path # << >>
    BY <1>4, TracedPath
  <2> QED BY <2>1 DEF NoRoute
<1> QED BY <1>1, <1>2, <1>5, <1>6 DEF CostInv, graph, search

\* CostInv is inductive over SearchInv.
LEMMA StepCosts == SearchInv /\ CostInv /\ [Next]_vars => CostInv'
<1> SUFFICES ASSUME SearchInv, CostInv, [Next]_vars PROVE CostInv'
  OBVIOUS
<1>1. CASE UNCHANGED vars
  <2>1. \A n \in Nodes : Relaxed(n)' <=> Relaxed(n)
    BY <1>1 DEF Relaxed, Edge, EdgeCost, vars, graph, search
  <2> QED BY <1>1, <2>1 DEF CostInv, Fresh, RouteOf, vars, graph, search
<1>2. CASE \E e \in queue : Relax(e)
  BY <1>2, RelaxCosts
<1> QED BY <1>1, <1>2, FinishCosts, PrependCosts, ReturnCosts DEF Next

\* No node of a walk is nearer than the walk says, unless it is beyond Dst.
LEMMA WalksCostMore ==
  ASSUME TypeOK, dist[Src] = 0,
         \A n \in Nodes : dist[n] < dist[Dst] => Relaxed(n),
         NEW k \in Nat \ {0}, NEW p \in [1..k -> Nodes], NEW len \in [1..k -> Nat],
         Walk(p, len, k)
  PROVE  len[k] >= dist[Dst]
<1> DEFINE Beyond == {i \in 1..k : len[i] < dist[p[i]] /\ len[i] < dist[Dst]}
<1>1. \A n \in Nodes : dist[n] \in Nat /\ cost[n] \in Nat
  BY CostsAreNumbers
<1>2. Dst \in Nodes /\ k \in 1..k /\ p[k] = Dst /\ len[k] \in Nat
  BY EndsAssumption DEF Walk
<1>3. SUFFICES ASSUME Beyond # {} PROVE FALSE
  BY <1>1, <1>2
<1>4. Beyond \subseteq Nat
  OBVIOUS
<1>5. PICK i \in Beyond : \A j \in Beyond : ~ (<<j, i>> \in OpToRel(<, Nat))
  BY <1>3, <1>4, WFMin, NatLessThanWellFounded, Zenon
<1>6. \A j \in Beyond : ~ (j < i)
  BY <1>4, <1>5 DEF OpToRel
<1>7. /\ i \in 1..k /\ len[i] < dist[p[i]] /\ len[i] < dist[Dst]
      /\ p[i] \in Nodes /\ len[i] \in Nat
  OBVIOUS
<1>8. i # 1
  BY <1>7 DEF Walk
<1>9. /\ i - 1 \in 1..k /\ i \in 2..k /\ i - 1 < i
      /\ p[i - 1] \in Nodes /\ len[i - 1] \in Nat
  BY <1>7, <1>8
<1>10. Edge(p[i - 1], p[i]) /\ len[i] = len[i - 1] + EdgeCost(p[i - 1], p[i])
  BY <1>9 DEF Walk
<1>11. EdgeCost(p[i - 1], p[i]) \in Nat
  BY <1>1, <1>7, <1>9 DEF EdgeCost
<1>12. len[i - 1] < dist[Dst]
  BY <1>1, <1>2, <1>7, <1>9, <1>10, <1>11
<1>13. dist[p[i - 1]] <= len[i - 1]
  BY <1>1, <1>6, <1>9, <1>12
<1>14. Relaxed(p[i - 1])
  BY <1>1, <1>2, <1>9, <1>12, <1>13
<1>15. dist[p[i]] <= dist[p[i - 1]] + EdgeCost(p[i - 1], p[i])
  BY <1>7, <1>9, <1>10, <1>14 DEF Relaxed
<1> QED BY <1>1, <1>7, <1>9, <1>10, <1>11, <1>13, <1>15

\* The costs along a path with one edge or two.
LEMMA ShortWalks ==
  ASSUME TypeOK
  PROVE  /\ Edge(Src, Dst) =>
              /\ <<0, EdgeCost(Src, Dst)>> \in Seq(Nat)
              /\ Walk(<<Src, Dst>>, <<0, EdgeCost(Src, Dst)>>, 2)
         /\ \A m \in Nodes : Edge(Src, m) /\ Edge(m, Dst) =>
              LET len == <<0, EdgeCost(Src, m), EdgeCost(Src, m) + EdgeCost(m, Dst)>> IN
              len \in Seq(Nat) /\ Walk(<<Src, m, Dst>>, len, 3)
<1>1. /\ Src \in Nodes /\ Dst \in Nodes
      /\ \A a, b \in Nodes : EdgeCost(a, b) \in Nat
  BY CostsAreNumbers DEF EdgeCost
<1>2. ASSUME Edge(Src, Dst)
      PROVE  /\ <<0, EdgeCost(Src, Dst)>> \in Seq(Nat)
             /\ Walk(<<Src, Dst>>, <<0, EdgeCost(Src, Dst)>>, 2)
  <2> DEFINE c == EdgeCost(Src, Dst)
  <2>1. c \in Nat
    BY <1>1
  <2> HIDE DEF c
  <2>2. /\ <<Src, Dst>> \in [1..2 -> Nodes] /\ <<Src, Dst>>[1] = Src /\ <<Src, Dst>>[2] = Dst
        /\ <<0, c>> \in [1..2 -> Nat] /\ <<0, c>>[1] = 0 /\ <<0, c>>[2] = c
        /\ <<0, c>> \in Seq(Nat)
    BY <1>1, <2>1
  <2>3. \A i \in 2..2 : i = 2 /\ i - 1 = 1
    OBVIOUS
  <2>4. Edge(Src, Dst) /\ <<0, c>>[2] = <<0, c>>[1] + EdgeCost(Src, Dst)
    BY <1>2, <2>1, <2>2 DEF c
  <2>5. Walk(<<Src, Dst>>, <<0, c>>, 2)
    BY <2>2, <2>3, <2>4 DEF Walk
  <2> QED BY <2>2, <2>5 DEF c
<1>3. ASSUME NEW m \in Nodes, Edge(Src, m), Edge(m, Dst)
      PROVE  LET len == <<0, EdgeCost(Src, m), EdgeCost(Src, m) + EdgeCost(m, Dst)>> IN
             len \in Seq(Nat) /\ Walk(<<Src, m, Dst>>, len, 3)
  <2> DEFINE c == EdgeCost(Src, m)
             d == EdgeCost(Src, m) + EdgeCost(m, Dst)
  <2>1. c \in Nat /\ d \in Nat /\ d = c + EdgeCost(m, Dst) /\ c = 0 + EdgeCost(Src, m)
    BY <1>1
  <2> HIDE DEF c, d
  <2>2. /\ <<Src, m, Dst>> \in [1..3 -> Nodes] /\ <<Src, m, Dst>>[1] = Src
        /\ <<Src, m, Dst>>[2] = m /\ <<Src, m, Dst>>[3] = Dst
    BY <1>1
  <2>3. /\ <<0, c, d>> \in [1..3 -> Nat] /\ <<0, c, d>>[1] = 0 /\ <<0, c, d>>[2] = c
        /\ <<0, c, d>>[3] = d /\ <<0, c, d>> \in Seq(Nat)
    BY <2>1
  <2>4. \A i \in 2..3 : (i = 2 /\ i - 1 = 1) \/ (i = 3 /\ i - 1 = 2)
    OBVIOUS
  <2>5. Walk(<<Src, m, Dst>>, <<0, c, d>>, 3)
    BY <1>3, <2>1, <2>2, <2>3, <2>4 DEF Walk
  <2> QED BY <2>3, <2>5 DEF c, d
<1> QED BY <1>2, <1>3

\* The route is one of them.
LEMMA RouteIsWalk ==
  ASSUME SearchInv, CostInv, pc = "done", route # NoRoute
  PROVE  \E len \in Seq(Nat) :
           Walk(route.path, len, Len(route.path)) /\ route.cost = len[Len(route.path)]
<1>1. TypeOK /\ TreeInv /\ RouteOf(route)
  BY DEF SearchInv, CostInv
<1>2. /\ Src \in Nodes /\ Dst \in Nodes /\ Src # Dst /\ prev[Dst] \in Nodes
      /\ \A n \in Nodes : dist[n] \in Nat /\ cost[n] \in Nat
  BY <1>1, CostsAreNumbers DEF RouteOf, TypeOK
<1>3. Edge(prev[Dst], Dst) /\ Relaxed(prev[Dst])
  BY <1>1, <1>2 DEF TreeInv
<1>4. CASE prev[Dst] = Src
  <2> DEFINE len == <<0, EdgeCost(Src, Dst)>>
  <2>1. route.path = <<Src, Dst>> /\ route.cost = EdgeCost(Src, Dst)
    BY <1>1, <1>2, <1>4 DEF RouteOf, TreeInv
  <2>2. len \in Seq(Nat) /\ Walk(<<Src, Dst>>, len, 2)
    BY <1>1, <1>3, <1>4, ShortWalks
  <2>3. Len(<<Src, Dst>>) = 2 /\ len[2] = EdgeCost(Src, Dst)
    OBVIOUS
  <2> QED BY <2>1, <2>2, <2>3
<1>5. CASE prev[Dst] # Src
  <2> DEFINE m == prev[Dst]
             d == EdgeCost(Src, m) + EdgeCost(m, Dst)
             len == <<0, EdgeCost(Src, m), d>>
  <2>1. /\ prev[m] = Src /\ Edge(Src, m) /\ dist[m] = EdgeCost(Src, m)
        /\ dist[Dst] >= d
    BY <1>1, <1>2, <1>5 DEF TreeInv
  <2>2. dist[Dst] <= dist[m] + EdgeCost(m, Dst)
    BY <1>2, <1>3 DEF Relaxed
  <2>3. d \in Nat
    BY <1>2 DEF EdgeCost
  <2>4. dist[Dst] = d
    BY <1>2, <2>1, <2>2, <2>3
  <2>5. route.path = <<Src, m, Dst>> /\ route.cost = d
    BY <1>1, <1>5, <2>4 DEF RouteOf
  <2>6. len \in Seq(Nat) /\ Walk(<<Src, m, Dst>>, len, 3)
    BY <1>1, <1>2, <1>3, <2>1, ShortWalks
  <2>7. Len(<<Src, m, Dst>>) = 3 /\ len[3] = d
    OBVIOUS
  <2> QED BY <2>5, <2>6, <2>7
<1> QED BY <1>4, <1>5

(* RouteCheapest (optimizer.go): with free edges, ties and its early exit,
   ShortestPath never misses a cheaper path, however long, and never calls
   unreachable what a path of finite cost leads to.                           *)
THEOREM FoundIsCheapest == Spec => []RouteCheapest
<1>1. SearchInv /\ CostInv => RouteCheapest
  <2> SUFFICES ASSUME SearchInv, CostInv, pc = "done" PROVE RouteCheapest
    BY DEF RouteCheapest
  <2>1. ASSUME NEW k \in Nat \ {0}, NEW p \in [1..k -> Nodes], NEW len \in [1..k -> Nat],
               Walk(p, len, k)
        PROVE  len[k] >= IF route = NoRoute THEN Infinity ELSE route.cost
    <3>1. {Src, Dst} \subseteq online
      <4>1. 2 \in 2..k /\ k \in 2..k
        BY <2>1, EndsAssumption DEF Walk
      <4>2. Edge(p[1], p[2]) /\ Edge(p[k - 1], p[k]) /\ p[1] = Src /\ p[k] = Dst
        BY <2>1, <4>1 DEF Walk
      <4> QED BY <4>2, EdgeMeans
    <3>2. TypeOK /\ dist[Src] = 0 /\ \A n \in Nodes : dist[n] < dist[Dst] => Relaxed(n)
      BY <3>1 DEF SearchInv, TreeInv, CostInv
    <3>3. len[k] >= dist[Dst]
      BY <2>1, <3>2, WalksCostMore
    <3>4. dist[Dst] = IF route = NoRoute THEN Infinity ELSE route.cost
      BY <3>1 DEF CostInv, RouteOf
    <3> QED BY <3>3, <3>4
  <2>2. route # NoRoute =>
          \E len \in Seq(Nat) :
            Walk(route.path, len, Len(route.path)) /\ route.cost = len[Len(route.path)]
    BY RouteIsWalk
  <2> QED BY <2>1, <2>2 DEF RouteCheapest
<1> QED BY InitSearch, StepSearch, InitCosts, StepCosts, <1>1, PTL DEF Spec
=============================================================================
