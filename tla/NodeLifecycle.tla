--------------------------- MODULE NodeLifecycle ---------------------------
(***************************************************************************)
(* What becomes of a node's row over time: heartbeats, the stale-node      *)
(* cleaner, the offline-node sweep, and the routes table that caches       *)
(* routes through online nodes and refers to them.                         *)
(*                                                                         *)
(* Time is a number of ticks.  A row's age counts from last_seen, or from  *)
(* created_at when it never sent a heartbeat.  The cleaner's ticker starts *)
(* a pass at least once every ScanEvery ticks, but the pass may come to    *)
(* nothing: its read may fail, any of its updates may, and the control     *)
(* plane may restart.  A pass and a route calculation take less than a     *)
(* tick; everything else may take any time.  Which path Dijkstra picks is  *)
(* a choice here.                                                          *)
(***************************************************************************)
EXTENDS Naturals

CONSTANTS
  Nodes,       \* node ids; one that was deleted may be registered again
  NoNode,
  Pairs,       \* the <<source, destination>> routes are asked for
  Planners,    \* route calculations: the recalculator and request handlers
  StaleAfter,  \* StaleNodeTimeout
  ScanEvery,   \* HeartbeatExpectedInterval, the cleaner's ticker
  RouteTTL,    \* ExpiresAt - CreatedAt of a route
  Retention,   \* OfflineNodeRetention
  MaxLost      \* bound: the passes of the cleaner a node may lose in a row

ASSUME TimesAssumption ==
  /\ StaleAfter \in Nat /\ ScanEvery \in Nat \ {0} /\ RouteTTL \in Nat \ {0}
  /\ Retention \in Nat /\ StaleAfter < Retention
ASSUME LostAssumption == MaxLost \in Nat
ASSUME PairsAssumption == Pairs \subseteq Nodes \X Nodes
ASSUME NullAssumption == NoNode \notin Nodes

VARIABLES
  rows,       \* ids of the rows of nodes
  status,     \* status[n]
  seen,       \* seen[n]: last_seen is not NULL
  age,        \* age[n]: ticks since last_seen, or since created_at
  routes,     \* routes[k]: ticks since the newest route of that kind was stored
  todo,       \* stale nodes the cleaner's pass has still to mark
  sinceScan,  \* ticks since the cleaner's ticker last fired, or was started
  plan,       \* plan[p]: the nodes calculation p read as online
  busy,       \* calculations under way
  lost        \* history, lost[n]: passes that failed n since it last was not stale

table   == <<rows, status, seen, age>>
cleaner == <<todo, sinceScan, lost>>
planner == <<plan, busy>>
vars    == <<table, routes, cleaner, planner>>

Later(t, cap) == IF t < cap THEN t + 1 ELSE cap

\* A kind of route: who asked, and relay_node_id.
Kinds == [pair : Pairs, relay : Nodes \cup {NoNode}]

Init ==
  /\ rows = {}
  /\ status = [n \in Nodes |-> "offline"]
  /\ seen = [n \in Nodes |-> FALSE]
  /\ age = [n \in Nodes |-> 0]
  /\ routes = [k \in {} |-> 0]
  /\ todo = {} /\ sinceScan = 0 /\ lost = [n \in Nodes |-> 0]
  /\ plan = [p \in Planners |-> {}] /\ busy = {}

Online == {n \in rows : status[n] = "online"}

\* Those the cleaner has to watch: without a last_seen a node is never stale.
Watched == {n \in Online : seen[n]}

\* A row is gone, and what its columns held with it.
Forget(S) ==
  /\ rows' = rows \ S
  /\ status' = [n \in Nodes |-> IF n \in S THEN "offline" ELSE status[n]]
  /\ seen' = [n \in Nodes |-> n \notin S /\ seen[n]]
  /\ age' = [n \in Nodes |-> IF n \in S THEN 0 ELSE age[n]]
  /\ lost' = [n \in Nodes |-> IF n \in S THEN 0 ELSE lost[n]]

-----------------------------------------------------------------------------
(* The nodes.                                                              *)

\* A new row is online and was never seen.
Create(n) ==
  /\ n \notin rows \cup todo \cup UNION {plan[p] : p \in Planners}
  /\ rows' = rows \cup {n}
  /\ status' = [status EXCEPT ![n] = "online"]
  /\ UNCHANGED <<seen, age, routes, cleaner, planner>>

\* UpdateLastSeen, and what UpdateReregister does to the same columns.
SeenAgain(n) ==
  /\ seen' = [seen EXCEPT ![n] = TRUE]
  /\ age' = [age EXCEPT ![n] = 0]
  /\ status' = [status EXCEPT ![n] = "online"]
  /\ lost' = [lost EXCEPT ![n] = 0]

Heartbeat(n) ==
  /\ n \in rows
  /\ SeenAgain(n)
  /\ UNCHANGED <<rows, routes, todo, sinceScan, planner>>

-----------------------------------------------------------------------------
(* StaleNodeCleaner.                                                       *)

Stale(n) == seen[n] /\ age[n] > StaleAfter

\* The read answered: who is stale is to be marked, who is not is vouched for.
Scan ==
  /\ todo = {}
  /\ todo' = {n \in Online : Stale(n)}
  /\ sinceScan' = 0
  /\ lost' = [n \in Nodes |-> IF n \in Online /\ ~Stale(n) THEN 0 ELSE lost[n]]
  /\ UNCHANGED <<table, routes, planner>>

\* Nobody that is watched gets marked by this pass.
LosePass ==
  /\ \A n \in Watched : lost[n] < MaxLost
  /\ lost' = [n \in Nodes |-> IF n \in Watched THEN lost[n] + 1 ELSE lost[n]]
  /\ sinceScan' = 0

\* GetAllOnline fails: cleanup returns, until the ticker fires again.
ScanFails ==
  /\ todo = {}
  /\ LosePass
  /\ UNCHANGED <<table, routes, todo, planner>>

\* The control plane restarts: the pass and the calculations under way are gone,
\* and the new ticker waits a whole interval first.
Restart ==
  /\ LosePass
  /\ todo' = {}
  /\ busy' = {} /\ plan' = [p \in Planners |-> {}]
  /\ UNCHANGED <<table, routes>>

\* The UPDATE of one node fails.
MarkFails(n) ==
  /\ n \in rows /\ lost[n] < MaxLost
  /\ lost' = [lost EXCEPT ![n] = @ + 1]
  /\ UNCHANGED status

\* Fault: the first failure ends the pass.
FaultyMarkOffline(n) ==
  /\ n \in todo
  /\ \/ /\ todo' = todo \ {n}
        /\ n \in rows /\ status' = [status EXCEPT ![n] = "offline"]
        /\ UNCHANGED lost
     \/ /\ todo' = todo \ {n}
        /\ n \notin rows
        /\ UNCHANGED <<status, lost>>
     \/ /\ todo' = {}
        /\ MarkFails(n)
  /\ UNCHANGED <<rows, seen, age, routes, sinceScan, planner>>

\* UPDATE ... SET status='offline', whether or not a heartbeat came in since the
\* scan; it may fail, and may find the row gone.
MarkOffline(n) ==
  /\ n \in todo
  /\ todo' = todo \ {n}
  /\ \/ n \in rows /\ status' = [status EXCEPT ![n] = "offline"] /\ UNCHANGED lost
     \/ n \notin rows /\ UNCHANGED <<status, lost>>
     \/ MarkFails(n)
  /\ UNCHANGED <<rows, seen, age, routes, sinceScan, planner>>

-----------------------------------------------------------------------------
(* Removal.  routes.src_node_id and dst_node_id cascade, relay_node_id does *)
(* not: a row that a route between two others relays through cannot go.     *)

Ends(k) == {k.pair[1], k.pair[2]}

\* The rows of nodes a route refers to.
Refs(k) == Ends(k) \cup ({k.relay} \ {NoNode})

Pinned(S) == \E k \in DOMAIN routes : k.relay \in S /\ Ends(k) \cap S = {}

\* Fault: the routes of a row that is gone stay.
FaultyDeleteRows(S) ==
  /\ ~Pinned(S)
  /\ Forget(S)
  /\ UNCHANGED <<routes, todo, sinceScan, planner>>

\* The relay's row is checked after the cascades of the rows deleted before it:
\* a statement that deletes both may fail, and is then as if it were never run.
DeleteRows(S) ==
  /\ ~Pinned(S)
  /\ Forget(S)
  /\ routes' = [k \in {r \in DOMAIN routes : Refs(r) \cap S = {}} |-> routes[k]]
  /\ UNCHANGED <<todo, sinceScan, planner>>

Delete(n) == n \in rows /\ DeleteRows({n})

\* Fault: the sweep is given the cleaner's timeout.
FaultyExpired == {n \in rows : age[n] > StaleAfter}

Expired == {n \in rows : age[n] > Retention}

Sweep == Expired # {} /\ DeleteRows(Expired)

-----------------------------------------------------------------------------
(* Routes.                                                                 *)

\* GetAllOnline, by RecalculateAllRoutes or by calculateRoute.
StartPlan(p) ==
  /\ p \notin busy
  /\ busy' = busy \cup {p}
  /\ plan' = [plan EXCEPT ![p] = Online]
  /\ UNCHANGED <<table, routes, cleaner>>

\* A path between nodes read as online; its second node, when there are more
\* than two, is stored as the relay.  The row refers to three rows of nodes,
\* and is always a new one: the conflict it looks for is on the serial id.
StoreRoute(p, k) ==
  /\ p \in busy
  /\ Refs(k) \subseteq plan[p] \cap rows
  /\ k.relay \notin Ends(k)
  /\ routes' = [j \in DOMAIN routes \cup {k} |-> IF j = k THEN 0 ELSE routes[j]]
  /\ UNCHANGED <<table, cleaner, planner>>

EndPlan(p) ==
  /\ p \in busy
  /\ busy' = busy \ {p}
  /\ plan' = [plan EXCEPT ![p] = {}]
  /\ UNCHANGED <<table, routes, cleaner>>

\* Fault: GetOptimal does not look at expires_at.
FaultyServed == DOMAIN routes

\* What GetOptimal may return; expired routes stay in the table.
Served == {k \in DOMAIN routes : routes[k] < RouteTTL}

-----------------------------------------------------------------------------

\* Time passes for the rows and the routes; the ticker fires in time, whatever
\* becomes of the pass.
Tick ==
  /\ sinceScan < ScanEvery /\ todo = {} /\ busy = {}
  /\ sinceScan' = sinceScan + 1
  /\ age' = [n \in Nodes |-> IF n \in rows THEN Later(age[n], Retention + 1) ELSE 0]
  /\ routes' = [k \in DOMAIN routes |-> Later(routes[k], RouteTTL)]
  /\ UNCHANGED <<rows, status, seen, todo, lost, planner>>

Next ==
  \/ Tick \/ Scan \/ ScanFails \/ Restart \/ Sweep
  \/ \E n \in Nodes : Create(n) \/ Heartbeat(n) \/ Delete(n) \/ MarkOffline(n)
  \/ \E p \in Planners :
       StartPlan(p) \/ EndPlan(p) \/ \E k \in Kinds : StoreRoute(p, k)

Spec == Init /\ [][Next]_vars

\* The schedulers run for ever; a sweep that can go through time and again does.
Fairness ==
  /\ WF_vars(Tick) /\ WF_vars(Scan \/ ScanFails) /\ SF_vars(Sweep)
  /\ \A n \in Nodes : WF_vars(MarkOffline(n))
  /\ \A p \in Planners : WF_vars(EndPlan(p))

FairSpec == Spec /\ Fairness

-----------------------------------------------------------------------------

(* Types; a row that is gone has left nothing behind, no route that refers to it
   either.                                                                    *)
TypeOK ==
  /\ rows \subseteq Nodes
  /\ status \in [Nodes -> {"online", "offline"}]
  /\ seen \in [Nodes -> BOOLEAN]
  /\ age \in [Nodes -> 0..(Retention + 1)]
  /\ DOMAIN routes \subseteq Kinds /\ routes \in [DOMAIN routes -> 0..RouteTTL]
  /\ todo \subseteq Nodes /\ sinceScan \in 0..ScanEvery /\ lost \in [Nodes -> 0..MaxLost]
  /\ busy \subseteq Planners /\ plan \in [Planners -> SUBSET Nodes]
  /\ \A n \in Nodes \ rows : status[n] = "offline" /\ ~seen[n]
  /\ \A k \in DOMAIN routes : Refs(k) \subseteq rows

(* The longest a node that once sent a heartbeat can be silent and online: every
   pass lost to a failed read, a failed update or a restart adds an interval.  *)
SilentBound(n) == StaleAfter + (1 + lost[n]) * ScanEvery

(* "Marks nodes as offline if they haven't sent a heartbeat", with a bound: one
   silent for StaleNodeTimeout and one interval more is offline, or for as many
   intervals more as passes were lost on it.  (A node that never sent one has no
   last_seen and is not covered.)                                              *)
SilentNodesOffline ==
  \A n \in Online : seen[n] => age[n] <= SilentBound(n)

(* No route is served through a node, or to or from one, that has been silent
   for longer than that and a route's lifetime: neither the cache, nor plans
   made from an older read of the nodes, keep a dead relay in use.            *)
RoutesFresh ==
  \A k \in Served : \A n \in Refs(k) : seen[n] => age[n] < SilentBound(n) + RouteTTL

(* offline_node_deleter.go removes "nodes that have been offline", but its DELETE
   does not look at the status: a node that was ever seen is offline by the time
   the sweep may take it, unless the cleaner lost so many passes on it that its
   bound is longer than the retention.                                         *)
ExpiredAreOffline ==
  \A n \in Expired : seen[n] /\ SilentBound(n) <= Retention => status[n] = "offline"

(* offline_node_deleter.go: it "permanently removes nodes that have been offline
   for longer than the configured retention window".                          *)
ExpiredAreRemoved ==
  \A n \in Nodes : (n \in Expired) ~> (n \notin Expired)
=============================================================================
