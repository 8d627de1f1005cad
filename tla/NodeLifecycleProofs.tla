------------------------ MODULE NodeLifecycleProofs ------------------------
(***************************************************************************)
(* Proofs about NodeLifecycle for any set of nodes, pairs and calculations *)
(* for any times with StaleAfter < Retention and any number of passes lost *)
(* in a row: how long a silent node can stay online, how old the nodes of  *)
(* a route that is served can be, and whom the sweep takes.                *)
(***************************************************************************)
EXTENDS NodeLifecycle, TLAPS

-----------------------------------------------------------------------------
(* The inductive invariant.                                                *)

TableTypes ==
  /\ rows \subseteq Nodes
  /\ status \in [Nodes -> {"online", "offline"}]
  /\ seen \in [Nodes -> BOOLEAN]
  /\ age \in [Nodes -> 0..(Retention + 1)]
  /\ lost \in [Nodes -> 0..MaxLost]
  /\ \A n \in Nodes \ rows : status[n] = "offline" /\ ~seen[n]

RouteTypes ==
  /\ DOMAIN routes \subseteq Kinds /\ routes \in [DOMAIN routes -> 0..RouteTTL]
  /\ \A k \in DOMAIN routes : Refs(k) \subseteq rows

PassTypes ==
  /\ todo \subseteq Nodes /\ sinceScan \in 0..ScanEvery
  /\ busy \subseteq Planners /\ plan \in [Planners -> SUBSET Nodes]

\* A node whose silence the cleaner can see.
Vouched(n) == n \in rows /\ seen[n]

\* What l lost passes add; kept apart because it is the only product.
Slack(l) == l * ScanEvery

\* Whoever is online and not on the cleaner's list was heard of StaleAfter before
\* the ticker last fired or later, but for the passes lost since.
SilentOf(n) ==
  Vouched(n) /\ status[n] = "online" =>
    /\ age[n] <= SilentBound(n)
    /\ n \notin todo => age[n] <= StaleAfter + Slack(lost[n]) + sinceScan

SilentInv == \A n \in Nodes : SilentOf(n)

\* The nodes of a calculation were online when it read them, in this tick.
PlanInv ==
  \A p \in Planners :
    /\ p \notin busy => plan[p] = {}
    /\ \A n \in plan[p] : Vouched(n) => age[n] <= SilentBound(n)

\* The nodes of a route have been silent no longer than when it was stored, and
\* since.
RouteInv ==
  \A k \in Served : \A n \in Refs(k) :
    Vouched(n) => age[n] <= SilentBound(n) + routes[k]

LifeInv == TypeOK /\ SilentInv /\ PlanInv /\ RouteInv

\* What the assumption says of the times.
LEMMA Times ==
  /\ StaleAfter \in Nat /\ ScanEvery \in Nat /\ ScanEvery >= 1 /\ RouteTTL \in Nat
  /\ RouteTTL >= 1 /\ Retention \in Nat /\ MaxLost \in Nat
BY TimesAssumption, LostAssumption

\* One more lost pass is one interval more.
LEMMA Slacks ==
  ASSUME NEW l \in Nat
  PROVE  /\ Slack(l) \in Nat
         /\ Slack(l + 1) = Slack(l) + ScanEvery
         /\ (1 + l) * ScanEvery = Slack(l) + ScanEvery
<1>1. ScanEvery \in Nat
  BY Times
<1> QED BY <1>1 DEF Slack

\* The bound of a node, before and after a step.
LEMMA Bounds ==
  /\ TypeOK => \A n \in Nodes :
       /\ lost[n] \in Nat /\ Slack(lost[n]) \in Nat /\ SilentBound(n) \in Nat
       /\ SilentBound(n) = StaleAfter + Slack(lost[n]) + ScanEvery
  /\ TypeOK' => \A n \in Nodes :
       /\ lost'[n] \in Nat /\ Slack(lost'[n]) \in Nat /\ SilentBound(n)' \in Nat
       /\ SilentBound(n)' = StaleAfter + Slack(lost'[n]) + ScanEvery
<1>1. ASSUME NEW l \in 0..MaxLost
      PROVE  /\ l \in Nat /\ Slack(l) \in Nat /\ StaleAfter + (1 + l) * ScanEvery \in Nat
             /\ StaleAfter + (1 + l) * ScanEvery = StaleAfter + Slack(l) + ScanEvery
  <2>1. l \in Nat
    BY Times
  <2>2. Slack(l) \in Nat /\ (1 + l) * ScanEvery = Slack(l) + ScanEvery
    BY <2>1, Slacks
  <2> QED BY <2>1, <2>2, Times
<1>2. ASSUME TypeOK, NEW n \in Nodes PROVE lost[n] \in 0..MaxLost
  BY <1>2 DEF TypeOK
<1>3. ASSUME TypeOK', NEW n \in Nodes PROVE lost'[n] \in 0..MaxLost
  BY <1>3 DEF TypeOK
<1> QED BY <1>1, <1>2, <1>3 DEF SilentBound

\* TypeOK in its three parts.
LEMMA TypesInParts == TypeOK <=> TableTypes /\ RouteTypes /\ PassTypes
BY DEF TypeOK, TableTypes, RouteTypes, PassTypes

\* Counting up to a cap.
LEMMA LaterBounds ==
  ASSUME NEW cap \in Nat, NEW t \in 0..cap
  PROVE  Later(t, cap) \in 0..cap /\ Later(t, cap) <= t + 1 /\ (t < cap => Later(t, cap) = t + 1)
         /\ (Later(t, cap) < cap => t < cap)
BY DEF Later

\* No rows, no routes, no calculations.
LEMMA InitLife == Init => LifeInv
<1> SUFFICES ASSUME Init PROVE LifeInv
  OBVIOUS
<1> USE Times DEF Init
<1>1. TableTypes
  BY DEF TableTypes
<1>2. RouteTypes
  BY DEF RouteTypes
<1>3. PassTypes
  BY DEF PassTypes
<1>4. SilentInv
  BY DEF SilentInv, SilentOf, Vouched
<1>5. PlanInv
  BY DEF PlanInv
<1>6. RouteInv
  BY DEF RouteInv, Served
<1> QED BY <1>1, <1>2, <1>3, <1>4, <1>5, <1>6, TypesInParts DEF LifeInv

-----------------------------------------------------------------------------
(* Types.                                                                  *)

\* A row that goes leaves nothing behind.
LEMMA ForgetTypes ==
  ASSUME TableTypes, NEW S, Forget(S)
  PROVE  TableTypes'
<1>1. /\ status \in [Nodes -> {"online", "offline"}] /\ seen \in [Nodes -> BOOLEAN]
      /\ age \in [Nodes -> 0..(Retention + 1)] /\ 0 \in 0..(Retention + 1)
  BY Times DEF TableTypes
<1>2. rows' \subseteq Nodes /\ lost' \in [Nodes -> 0..MaxLost]
  BY Times DEF TableTypes, Forget
<1>3. status' \in [Nodes -> {"online", "offline"}]
  BY <1>1 DEF Forget
<1>4. seen' \in [Nodes -> BOOLEAN]
  BY <1>1 DEF Forget
<1>5. age' \in [Nodes -> 0..(Retention + 1)]
  BY <1>1 DEF Forget
<1>6. \A n \in Nodes \ rows' : status'[n] = "offline" /\ ~seen'[n]
  BY DEF TableTypes, Forget
<1> QED BY <1>2, <1>3, <1>4, <1>5, <1>6 DEF TableTypes

\* Rows come and go with their columns.
LEMMA StepTableTypes == TypeOK /\ [Next]_vars => TableTypes'
<1> SUFFICES ASSUME TypeOK, [Next]_vars PROVE TableTypes'
  OBVIOUS
<1>1. TableTypes /\ todo \subseteq Nodes
  BY TypesInParts DEF PassTypes
<1>2. CASE UNCHANGED <<rows, status, seen, age, lost>>
  BY <1>1, <1>2 DEF TableTypes
<1>3. ASSUME NEW n \in Nodes, Create(n) PROVE TableTypes'
  BY <1>1, <1>3 DEF TableTypes, Create, cleaner
<1>4. ASSUME NEW n \in Nodes, Heartbeat(n) PROVE TableTypes'
  BY <1>1, <1>4, Times DEF TableTypes, Heartbeat, SeenAgain
<1>5. ASSUME NEW n \in Nodes, MarkOffline(n) PROVE TableTypes'
  BY <1>1, <1>5, Times DEF TableTypes, MarkOffline, MarkFails
<1>6. ASSUME NEW S, DeleteRows(S) PROVE TableTypes'
  BY <1>1, <1>6, ForgetTypes DEF DeleteRows
<1>7. CASE Tick
  <2>1. ASSUME NEW n \in Nodes PROVE age'[n] \in 0..(Retention + 1)
    <3>1. age[n] \in 0..(Retention + 1) /\ Retention + 1 \in Nat /\ 0 \in 0..(Retention + 1)
      BY <1>1, Times DEF TableTypes
    <3>2. age'[n] = IF n \in rows THEN Later(age[n], Retention + 1) ELSE 0
      BY <1>7 DEF Tick
    <3> QED BY <3>1, <3>2, LaterBounds
  <2>2. age' \in [Nodes -> 0..(Retention + 1)]
    BY <1>7, <2>1 DEF Tick
  <2> QED BY <1>1, <1>7, <2>2 DEF TableTypes, Tick
<1>8. CASE UNCHANGED vars
  BY <1>2, <1>8 DEF vars, table, cleaner
<1>9. ASSUME NEW p \in Planners, StartPlan(p) \/ EndPlan(p) \/ \E k \in Kinds : StoreRoute(p, k)
      PROVE  TableTypes'
  BY <1>2, <1>9 DEF StartPlan, EndPlan, StoreRoute, table, cleaner
<1>10. CASE Scan
  BY <1>1, <1>10, Times DEF TableTypes, Scan, table
<1>11. CASE ScanFails \/ Restart
  <2>1. UNCHANGED table /\ LosePass
    BY <1>11 DEF ScanFails, Restart
  <2>2. \A n \in Nodes : n \in Watched => lost[n] + 1 \in 0..MaxLost
    BY <1>1, <2>1, Times DEF TableTypes, LosePass
  <2>3. lost' \in [Nodes -> 0..MaxLost]
    BY <1>1, <2>1, <2>2 DEF TableTypes, LosePass
  <2> QED BY <1>1, <2>1, <2>3 DEF TableTypes, table
<1> QED BY <1>3, <1>4, <1>5, <1>6, <1>7, <1>8, <1>9, <1>10, <1>11 DEF Next, Sweep, Delete

\* The routes' table holds kinds of routes and their ages, and no row that a route
\* refers to goes without it.
LEMMA StepRouteTypes == TypeOK /\ [Next]_vars => RouteTypes'
<1> SUFFICES ASSUME TypeOK, [Next]_vars PROVE RouteTypes'
  OBVIOUS
<1>1. RouteTypes
  BY TypesInParts
<1>2. CASE UNCHANGED routes /\ rows \subseteq rows'
  BY <1>1, <1>2 DEF RouteTypes, Refs, Ends
<1>3. ASSUME NEW S, DeleteRows(S) PROVE RouteTypes'
  BY <1>1, <1>3 DEF RouteTypes, DeleteRows, Forget, Refs, Ends
<1>4. ASSUME NEW p \in Planners, NEW k \in Kinds, StoreRoute(p, k) PROVE RouteTypes'
  <2>1. routes' = [j \in DOMAIN routes \cup {k} |-> IF j = k THEN 0 ELSE routes[j]]
        /\ Refs(k) \subseteq rows /\ rows' = rows
    BY <1>4 DEF StoreRoute, table
  <2>2. DOMAIN routes' \subseteq Kinds /\ routes' \in [DOMAIN routes' -> 0..RouteTTL]
    BY <1>1, <2>1, Times DEF RouteTypes
  <2>3. \A j \in DOMAIN routes' : Refs(j) \subseteq rows
    BY <1>1, <2>1 DEF RouteTypes
  <2> QED BY <2>1, <2>2, <2>3 DEF RouteTypes, Refs, Ends
<1>5. CASE Tick
  <2>1. routes' = [k \in DOMAIN routes |-> Later(routes[k], RouteTTL)] /\ rows' = rows
    BY <1>5 DEF Tick
  <2>2. \A k \in DOMAIN routes : Later(routes[k], RouteTTL) \in 0..RouteTTL
    BY <1>1, Times, LaterBounds DEF RouteTypes
  <2>3. DOMAIN routes' \subseteq Kinds /\ routes' \in [DOMAIN routes' -> 0..RouteTTL]
    BY <1>1, <2>1, <2>2 DEF RouteTypes
  <2> QED BY <1>1, <2>1, <2>3 DEF RouteTypes, Refs, Ends
<1>6. ASSUME NEW n \in Nodes, Create(n) \/ Heartbeat(n) \/ MarkOffline(n) PROVE RouteTypes'
  BY <1>2, <1>6 DEF Create, Heartbeat, MarkOffline
<1>7. ASSUME NEW p \in Planners, StartPlan(p) \/ EndPlan(p) PROVE RouteTypes'
  BY <1>2, <1>7 DEF StartPlan, EndPlan, table
<1>8. CASE Scan \/ ScanFails \/ Restart \/ UNCHANGED vars
  BY <1>2, <1>8 DEF Scan, ScanFails, Restart, vars, table
<1> QED BY <1>3, <1>4, <1>5, <1>6, <1>7, <1>8 DEF Next, Sweep, Delete

\* The passes of the cleaner and of the calculations hold nodes.
LEMMA StepPassTypes == TypeOK /\ [Next]_vars => PassTypes'
<1> SUFFICES ASSUME TypeOK, [Next]_vars PROVE PassTypes'
  OBVIOUS
<1>1. PassTypes /\ rows \subseteq Nodes
  BY TypesInParts DEF TableTypes
<1>2. CASE UNCHANGED <<todo, sinceScan, planner>>
  BY <1>1, <1>2 DEF PassTypes, planner
<1>3. ASSUME NEW n \in Nodes, Create(n) \/ Heartbeat(n) PROVE PassTypes'
  BY <1>2, <1>3 DEF Create, Heartbeat, cleaner, planner
<1>4. ASSUME NEW n \in Nodes, MarkOffline(n) PROVE PassTypes'
  BY <1>1, <1>4 DEF MarkOffline, PassTypes, planner
<1>5. ASSUME NEW S, DeleteRows(S) PROVE PassTypes'
  BY <1>2, <1>5 DEF DeleteRows
<1>6. CASE Tick
  BY <1>1, <1>6, Times DEF Tick, PassTypes, planner
<1>7. CASE Scan
  BY <1>1, <1>7, Times DEF Scan, PassTypes, planner, Online
<1>8. ASSUME NEW p \in Planners, StartPlan(p) \/ EndPlan(p) PROVE PassTypes'
  BY <1>1, <1>8 DEF StartPlan, EndPlan, PassTypes, cleaner, Online
<1>9. ASSUME NEW p \in Planners, NEW k \in Kinds, StoreRoute(p, k) PROVE PassTypes'
  BY <1>2, <1>9 DEF StoreRoute, cleaner, planner
<1>10. CASE UNCHANGED vars
  BY <1>2, <1>10 DEF vars, cleaner
<1>11. CASE ScanFails
  BY <1>1, <1>11, Times DEF ScanFails, LosePass, PassTypes, planner
<1>12. CASE Restart
  BY <1>1, <1>12, Times DEF Restart, LosePass, PassTypes
<1> QED BY <1>3, <1>4, <1>5, <1>6, <1>7, <1>8, <1>9, <1>10, <1>11, <1>12 DEF Next, Sweep, Delete

\* TypeOK is inductive by itself.
LEMMA StepTypes == TypeOK /\ [Next]_vars => TypeOK'
<1> SUFFICES ASSUME TypeOK, [Next]_vars PROVE TypeOK'
  OBVIOUS
<1>1. TableTypes' /\ RouteTypes' /\ PassTypes'
  BY StepTableTypes, StepRouteTypes, StepPassTypes
<1> QED BY <1>1 DEF TypeOK, TableTypes, RouteTypes, PassTypes

-----------------------------------------------------------------------------
(* Silence.                                                                *)

\* What a step other than a tick does to a node: one that can be seen to be silent
\* was so before, at the same age and with no fewer lost passes, or is not stale.
SameAge(n) ==
  Vouched(n)' =>
    \/ age'[n] <= StaleAfter
    \/ Vouched(n) /\ age'[n] = age[n] /\ lost'[n] \in {lost[n], lost[n] + 1}

\* Only a tick makes anybody older.
LEMMA NobodyOlder ==
  ASSUME TypeOK, [Next]_vars, ~Tick, NEW n \in Nodes
  PROVE  SameAge(n)
<1>1. TableTypes /\ age[n] \in Nat
  BY TypesInParts, Times DEF TableTypes
<1> USE <1>1 DEF SameAge, Vouched, TableTypes
<1>2. CASE UNCHANGED <<rows, seen, age, lost>>
  BY <1>2
<1>3. ASSUME NEW m \in Nodes, Create(m) PROVE SameAge(n)
  BY <1>3 DEF Create, cleaner
<1>4. ASSUME NEW m \in Nodes, Heartbeat(m) PROVE SameAge(n)
  BY <1>4, Times DEF Heartbeat, SeenAgain
<1>5. ASSUME NEW m \in Nodes, MarkOffline(m) PROVE SameAge(n)
  BY <1>5 DEF MarkOffline, MarkFails
<1>6. ASSUME NEW S, DeleteRows(S) PROVE SameAge(n)
  BY <1>6 DEF DeleteRows, Forget
<1>7. CASE UNCHANGED vars
  BY <1>2, <1>7 DEF vars, table, cleaner
<1>8. ASSUME NEW p \in Planners, StartPlan(p) \/ EndPlan(p) \/ \E k \in Kinds : StoreRoute(p, k)
      PROVE  SameAge(n)
  BY <1>2, <1>8 DEF StartPlan, EndPlan, StoreRoute, table, cleaner
<1>9. CASE Scan
  <2>1. UNCHANGED <<rows, seen, age>>
        /\ lost'[n] = IF n \in Online /\ ~Stale(n) THEN 0 ELSE lost[n]
    BY <1>9 DEF Scan, table
  <2>2. Vouched(n) /\ ~Stale(n) => age[n] <= StaleAfter
    BY Times DEF Stale
  <2> QED BY <2>1, <2>2
<1>10. CASE ScanFails \/ Restart
  <2>1. UNCHANGED table /\ LosePass
    BY <1>10 DEF ScanFails, Restart
  <2> QED BY <2>1 DEF LosePass, table
<1> QED BY <1>3, <1>4, <1>5, <1>6, <1>7, <1>8, <1>9, <1>10 DEF Next, Sweep, Delete

\* A bound on a node's age, relative to its own, outlives every step but a tick.
LEMMA BoundKept ==
  ASSUME TypeOK, [Next]_vars, ~Tick, NEW n \in Nodes, NEW b \in Nat,
         Vouched(n) => age[n] <= SilentBound(n) + b
  PROVE  Vouched(n)' => age'[n] <= SilentBound(n)' + b
<1>1. SameAge(n)
  BY NobodyOlder
<1>2. TypeOK' /\ age[n] \in Nat /\ age'[n] \in Nat
  BY StepTypes, Times DEF TypeOK
<1>3. /\ lost[n] \in Nat /\ lost'[n] \in Nat
      /\ Slack(lost[n]) \in Nat /\ SilentBound(n) = StaleAfter + Slack(lost[n]) + ScanEvery
      /\ Slack(lost'[n]) \in Nat /\ SilentBound(n)' = StaleAfter + Slack(lost'[n]) + ScanEvery
  BY <1>2, Bounds
<1>4. CASE age'[n] <= StaleAfter
  BY <1>2, <1>3, <1>4, Times
<1>5. CASE Vouched(n) /\ age'[n] = age[n] /\ lost'[n] \in {lost[n], lost[n] + 1}
  <2>1. Slack(lost'[n]) >= Slack(lost[n])
    <3>1. CASE lost'[n] = lost[n]
      BY <1>3, <3>1
    <3>2. CASE lost'[n] = lost[n] + 1
      <4>1. Slack(lost'[n]) = Slack(lost[n]) + ScanEvery
        BY <1>3, <3>2, Slacks
      <4> QED BY <1>3, <4>1, Times
    <3> QED BY <1>5, <3>1, <3>2
  <2> QED BY <1>2, <1>3, <1>5, <2>1, Times
<1> QED BY <1>1, <1>4, <1>5 DEF SameAge

\* A tick makes everybody a tick older.
LEMMA EverybodyOlder ==
  ASSUME TypeOK, Tick, NEW n \in Nodes
  PROVE  /\ Vouched(n)' => Vouched(n) /\ age'[n] <= age[n] + 1 /\ age'[n] \in Nat
         /\ age[n] \in Nat /\ lost' = lost /\ SilentBound(n)' = SilentBound(n)
<1>1. TableTypes
  BY TypesInParts
<1>2. age[n] \in 0..(Retention + 1) /\ Retention + 1 \in Nat
  BY <1>1, Times DEF TableTypes
<1>3. Vouched(n)' => n \in rows /\ age'[n] = Later(age[n], Retention + 1)
  BY DEF Tick, Vouched
<1>4. Vouched(n)' => Vouched(n)
  BY DEF Tick, Vouched
<1>5. lost' = lost /\ SilentBound(n)' = SilentBound(n)
  BY DEF Tick, SilentBound
<1> QED BY <1>2, <1>3, <1>4, <1>5, LaterBounds

\* The cleaner's bound: a pass takes up whoever has been silent for too long, one
\* that is lost adds an interval, and the ticks until the next are counted.
LEMMA StepSilent == TypeOK /\ SilentInv /\ [Next]_vars => SilentInv'
<1> SUFFICES ASSUME TypeOK, SilentInv, [Next]_vars, NEW n \in Nodes PROVE SilentOf(n)'
  BY DEF SilentInv
<1>1. /\ SilentOf(n) /\ TableTypes /\ PassTypes
      /\ age[n] \in Nat /\ sinceScan \in 0..ScanEvery /\ rows \subseteq Nodes
  <2>1. TableTypes /\ PassTypes
    BY TypesInParts
  <2> QED BY <2>1, Times DEF SilentInv, TableTypes, PassTypes
<1>2. /\ TypeOK' /\ age'[n] \in Nat /\ sinceScan' \in Nat
      /\ lost[n] \in Nat /\ Slack(lost[n]) \in Nat
      /\ SilentBound(n) = StaleAfter + Slack(lost[n]) + ScanEvery
      /\ lost'[n] \in Nat /\ Slack(lost'[n]) \in Nat
      /\ SilentBound(n)' = StaleAfter + Slack(lost'[n]) + ScanEvery
  <2>1. TypeOK'
    BY StepTypes
  <2>2. age'[n] \in Nat /\ sinceScan' \in Nat
    BY <2>1, Times DEF TypeOK
  <2> QED BY <2>1, <2>2, Bounds
<1>3. ASSUME age'[n] <= StaleAfter PROVE SilentOf(n)'
  <2>1. age'[n] <= SilentBound(n)' /\ age'[n] <= StaleAfter + Slack(lost'[n]) + sinceScan'
    BY <1>2, <1>3, Times
  <2> QED BY <2>1 DEF SilentOf
<1>4. CASE Tick
  <2>1. todo = {} /\ todo' = {} /\ sinceScan' = sinceScan + 1 /\ sinceScan < ScanEvery
        /\ status' = status
    BY <1>4 DEF Tick
  <2>2. /\ Vouched(n)' => Vouched(n) /\ age'[n] <= age[n] + 1
        /\ lost' = lost
    BY <1>4, EverybodyOlder
  <2>3. Vouched(n)' /\ status'[n] = "online" => age'[n] <= StaleAfter + Slack(lost'[n]) + sinceScan'
    BY <1>1, <1>2, <2>1, <2>2, Times DEF SilentOf
  <2>4. sinceScan' <= ScanEvery
    BY <1>1, <2>1, Times
  <2>5. Vouched(n)' /\ status'[n] = "online" => age'[n] <= SilentBound(n)'
    BY <1>2, <2>3, <2>4, Times
  <2> QED BY <2>3, <2>5 DEF SilentOf
<1>5. CASE Scan
  <2>1. /\ todo = {} /\ todo' = {m \in Online : Stale(m)} /\ sinceScan' = 0
        /\ UNCHANGED <<rows, status, seen, age>>
        /\ lost'[n] = IF n \in Online /\ ~Stale(n) THEN 0 ELSE lost[n]
    BY <1>5 DEF Scan, table
  <2>2. CASE n \in todo'
    <3>1. lost'[n] = lost[n] /\ SilentBound(n)' = SilentBound(n)
      BY <1>2, <2>1, <2>2
    <3> QED BY <1>1, <2>1, <2>2, <3>1 DEF SilentOf, Vouched
  <2>3. CASE n \notin todo' /\ Vouched(n)' /\ status'[n] = "online"
    <3>1. age'[n] <= StaleAfter
      BY <1>1, <2>1, <2>3, Times DEF Vouched, Online, Stale
    <3> QED BY <1>3, <3>1
  <2> QED BY <2>2, <2>3 DEF SilentOf
<1>6. CASE UNCHANGED vars
  BY <1>1, <1>2, <1>6 DEF vars, table, cleaner, SilentOf, Vouched
<1>7. ASSUME NEW m \in Nodes, Create(m) PROVE SilentOf(n)'
  <2>1. CASE m = n
    <3>1. ~seen'[n]
      BY <1>1, <1>7, <2>1 DEF Create, TableTypes
    <3> QED BY <3>1 DEF SilentOf, Vouched
  <2>2. CASE m # n
    BY <1>1, <1>2, <1>7, <2>2 DEF Create, cleaner, SilentOf, Vouched, TableTypes
  <2> QED BY <2>1, <2>2
<1>8. ASSUME NEW m \in Nodes, Heartbeat(m) PROVE SilentOf(n)'
  <2>1. CASE m = n
    BY <1>1, <1>3, <1>8, <2>1, Times DEF Heartbeat, SeenAgain, TableTypes
  <2>2. CASE m # n
    BY <1>1, <1>2, <1>8, <2>2 DEF Heartbeat, SeenAgain, SilentOf, Vouched, TableTypes
  <2> QED BY <2>1, <2>2
<1>9. ASSUME NEW m \in Nodes, MarkOffline(m) PROVE SilentOf(n)'
  <2>1. UNCHANGED <<rows, seen, age, sinceScan>> /\ todo' = todo \ {m} /\ m \in todo
    BY <1>9 DEF MarkOffline
  <2>2. CASE m # n
    <3>1. lost'[n] = lost[n] /\ status'[n] = status[n]
      BY <1>1, <1>9, <2>2 DEF MarkOffline, MarkFails, TableTypes
    <3> QED BY <1>1, <1>2, <2>1, <2>2, <3>1 DEF SilentOf, Vouched
  <2>3. CASE m = n /\ ~(Vouched(n)' /\ status'[n] = "online")
    BY <2>3 DEF SilentOf
  <2>4. CASE m = n /\ Vouched(n)' /\ status'[n] = "online"
    <3>1. MarkFails(n)
      BY <1>1, <1>9, <2>1, <2>4 DEF MarkOffline, Vouched, TableTypes
    <3>2. lost'[n] = lost[n] + 1 /\ status'[n] = status[n]
      BY <1>1, <3>1 DEF MarkFails, TableTypes
    <3>3. age[n] <= SilentBound(n)
      BY <1>1, <2>1, <2>4, <3>2 DEF SilentOf, Vouched
    <3>4. Slack(lost'[n]) = Slack(lost[n]) + ScanEvery
      BY <1>2, <3>2, Slacks
    <3>5. age'[n] <= StaleAfter + Slack(lost'[n]) + sinceScan' /\ age'[n] <= SilentBound(n)'
      BY <1>1, <1>2, <2>1, <3>3, <3>4, Times
    <3> QED BY <3>5 DEF SilentOf
  <2> QED BY <2>2, <2>3, <2>4
<1>10. ASSUME NEW S, DeleteRows(S) PROVE SilentOf(n)'
  <2>1. n \in S \/ lost'[n] = lost[n]
    BY <1>10 DEF DeleteRows, Forget
  <2> QED BY <1>1, <1>2, <1>10, <2>1 DEF DeleteRows, Forget, SilentOf, Vouched
<1>11. ASSUME NEW p \in Planners, StartPlan(p) \/ EndPlan(p) \/ \E k \in Kinds : StoreRoute(p, k)
       PROVE  SilentOf(n)'
  BY <1>1, <1>2, <1>11 DEF StartPlan, EndPlan, StoreRoute, table, cleaner, SilentOf, Vouched
<1>12. CASE ScanFails \/ Restart
  <2>1. UNCHANGED <<rows, status, seen, age>> /\ sinceScan' = 0
        /\ lost'[n] = IF n \in Watched THEN lost[n] + 1 ELSE lost[n]
    BY <1>12 DEF ScanFails, Restart, LosePass, table
  <2>2. CASE n \notin Watched
    BY <2>1, <2>2 DEF SilentOf, Vouched, Watched, Online
  <2>3. CASE n \in Watched
    <3>1. age[n] <= SilentBound(n)
      BY <1>1, <2>3 DEF SilentOf, Vouched, Watched, Online
    <3>2. Slack(lost'[n]) = Slack(lost[n]) + ScanEvery
      BY <1>2, <2>1, <2>3, Slacks
    <3>3. age'[n] <= StaleAfter + Slack(lost'[n]) + sinceScan' /\ age'[n] <= SilentBound(n)'
      BY <1>1, <1>2, <2>1, <3>1, <3>2, Times
    <3> QED BY <3>3 DEF SilentOf
  <2> QED BY <2>2, <2>3
<1> QED BY <1>4, <1>5, <1>6, <1>7, <1>8, <1>9, <1>10, <1>11, <1>12 DEF Next, Sweep, Delete

\* Silence is bounded for the nodes a calculation has read, as long as it runs:
\* no tick passes.
LEMMA StepPlans == TypeOK /\ SilentInv /\ PlanInv /\ [Next]_vars => PlanInv'
<1> DEFINE PlanOf(p) == /\ p \notin busy => plan[p] = {}
                        /\ \A n \in plan[p] : Vouched(n) => age[n] <= SilentBound(n)
<1> SUFFICES ASSUME TypeOK, SilentInv, PlanInv, [Next]_vars, NEW p \in Planners
             PROVE  PlanOf(p)'
  BY DEF PlanInv
<1>1. TableTypes /\ plan \in [Planners -> SUBSET Nodes] /\ PlanOf(p)
  BY TypesInParts DEF PassTypes, PlanInv
<1>2. plan'[p] = {} => PlanOf(p)'
  OBVIOUS
<1>3. CASE Tick
  BY <1>1, <1>2, <1>3 DEF Tick, planner
<1>4. ASSUME ~Tick, NEW n \in Nodes, Vouched(n) => age[n] <= SilentBound(n)
      PROVE  Vouched(n)' => age'[n] <= SilentBound(n)'
  <2>1. age[n] \in Nat /\ age'[n] \in Nat /\ SilentBound(n) \in Nat /\ SilentBound(n)' \in Nat
    BY StepTypes, Bounds, Times DEF TypeOK
  <2>2. Vouched(n) => age[n] <= SilentBound(n) + 0
    BY <1>4, <2>1
  <2>3. Vouched(n)' => age'[n] <= SilentBound(n)' + 0
    BY <1>4, <2>2, BoundKept
  <2> QED BY <2>1, <2>3
<1>5. CASE ~Tick /\ plan'[p] = plan[p] /\ (p \notin busy' => p \notin busy)
  BY <1>1, <1>4, <1>5
<1>6. ASSUME NEW q \in Planners, StartPlan(q), ~Tick PROVE PlanOf(p)'
  <2>1. CASE q # p
    BY <1>1, <1>5, <1>6, <2>1 DEF StartPlan
  <2>2. CASE q = p
    <3>1. p \in busy' /\ plan'[p] = Online
      BY <1>1, <1>6, <2>2 DEF StartPlan
    <3>2. \A n \in Online : n \in Nodes /\ status[n] = "online"
      BY <1>1 DEF Online, TableTypes
    <3>3. \A n \in Online : Vouched(n) => age[n] <= SilentBound(n)
      BY <3>2 DEF SilentInv, SilentOf
    <3> QED BY <1>4, <1>6, <3>1, <3>2, <3>3
  <2> QED BY <2>1, <2>2
<1>7. ASSUME NEW q \in Planners, EndPlan(q), ~Tick PROVE PlanOf(p)'
  <2>1. CASE q # p
    BY <1>1, <1>5, <1>7, <2>1 DEF EndPlan
  <2>2. CASE q = p
    BY <1>1, <1>2, <1>7, <2>2 DEF EndPlan
  <2> QED BY <2>1, <2>2
<1>8. ASSUME NEW q \in Planners, NEW k \in Kinds, StoreRoute(q, k) PROVE UNCHANGED planner
  BY <1>8 DEF StoreRoute
<1>9. ASSUME NEW n \in Nodes, Create(n) \/ Heartbeat(n) \/ MarkOffline(n) PROVE UNCHANGED planner
  BY <1>9 DEF Create, Heartbeat, MarkOffline
<1>10. ASSUME NEW S, DeleteRows(S) PROVE UNCHANGED planner
  BY <1>10 DEF DeleteRows
<1>11. CASE ~Tick /\ UNCHANGED planner
  BY <1>5, <1>11 DEF planner
<1>12. CASE Scan \/ ScanFails \/ UNCHANGED vars
  BY <1>3, <1>11, <1>12 DEF Scan, ScanFails, vars
<1>13. CASE Restart
  BY <1>2, <1>13 DEF Restart
<1> QED BY <1>3, <1>6, <1>7, <1>8, <1>9, <1>10, <1>11, <1>12, <1>13 DEF Next, Sweep, Delete

\* A route is served for RouteTTL ticks, and with every one of them its nodes get
\* at most a tick more silent.
LEMMA StepRoutes == TypeOK /\ PlanInv /\ RouteInv /\ [Next]_vars => RouteInv'
<1> SUFFICES ASSUME TypeOK, PlanInv, RouteInv, [Next]_vars,
                    NEW k \in Served', NEW n \in Refs(k), Vouched(n)'
             PROVE  age'[n] <= SilentBound(n)' + routes'[k]
  BY DEF RouteInv, Refs, Ends
<1>1. /\ TableTypes /\ RouteTypes /\ RouteTypes' /\ TableTypes'
  BY TypesInParts, StepRouteTypes, StepTableTypes
<1>2. /\ k \in DOMAIN routes' /\ routes'[k] < RouteTTL /\ routes'[k] \in Nat /\ n \in Nodes
      /\ SilentBound(n) \in Nat
  BY <1>1, Times, Bounds DEF Served, RouteTypes, Vouched, TableTypes
<1>3. CASE Tick
  <2>1. k \in DOMAIN routes /\ routes'[k] = Later(routes[k], RouteTTL)
    BY <1>2, <1>3 DEF Tick
  <2>2. routes[k] \in 0..RouteTTL /\ routes[k] < RouteTTL /\ routes'[k] = routes[k] + 1
    BY <1>1, <1>2, <2>1, Times, LaterBounds DEF RouteTypes
  <2>3. /\ Vouched(n) /\ age'[n] <= age[n] + 1 /\ age'[n] \in Nat /\ age[n] \in Nat
        /\ SilentBound(n)' = SilentBound(n)
    BY <1>2, <1>3, EverybodyOlder
  <2>4. age[n] <= SilentBound(n) + routes[k]
    BY <2>1, <2>2, <2>3 DEF RouteInv, Served
  <2> QED BY <1>2, <2>2, <2>3, <2>4, Times
<1>4. ASSUME ~Tick, k \in DOMAIN routes, routes'[k] = routes[k]
      PROVE  age'[n] <= SilentBound(n)' + routes'[k]
  <2>1. Vouched(n) => age[n] <= SilentBound(n) + routes[k]
    BY <1>2, <1>4 DEF RouteInv, Served
  <2>2. routes[k] \in Nat
    BY <1>2, <1>4
  <2> QED BY <1>2, <1>4, <2>1, <2>2, BoundKept
<1>5. ASSUME NEW p \in Planners, NEW j \in Kinds, StoreRoute(p, j), ~Tick
      PROVE  age'[n] <= SilentBound(n)' + routes'[k]
  <2>1. CASE k = j
    <3>1. n \in plan[p]
      BY <1>5, <2>1 DEF StoreRoute
    <3>2. UNCHANGED <<rows, seen, age, lost>>
      BY <1>5 DEF StoreRoute, table, cleaner
    <3>3. Vouched(n) /\ age[n] <= SilentBound(n)
      BY <3>1, <3>2 DEF PlanInv, Vouched
    <3>4. SilentBound(n)' = SilentBound(n)
      BY <3>2 DEF SilentBound
    <3>5. routes'[k] = 0
      BY <1>2, <1>5, <2>1 DEF StoreRoute
    <3> QED BY <1>2, <3>2, <3>3, <3>4, <3>5
  <2>2. CASE k # j
    <3>1. k \in DOMAIN routes /\ routes'[k] = routes[k]
      BY <1>2, <1>5, <2>2 DEF StoreRoute
    <3> QED BY <1>4, <1>5, <3>1
  <2> QED BY <2>1, <2>2
<1>6. ASSUME NEW S, DeleteRows(S) PROVE k \in DOMAIN routes /\ routes'[k] = routes[k]
  BY <1>2, <1>6 DEF DeleteRows
<1>7. ASSUME NEW p \in Planners, StartPlan(p) \/ EndPlan(p) PROVE UNCHANGED routes
  BY <1>7 DEF StartPlan, EndPlan
<1>8. ASSUME NEW m \in Nodes, Create(m) \/ Heartbeat(m) \/ MarkOffline(m) PROVE UNCHANGED routes
  BY <1>8 DEF Create, Heartbeat, MarkOffline
<1>9. CASE ~Tick /\ UNCHANGED routes
  BY <1>2, <1>4, <1>9
<1>10. CASE Scan \/ ScanFails \/ Restart \/ UNCHANGED vars
  BY <1>3, <1>9, <1>10 DEF Scan, ScanFails, Restart, vars
<1> QED BY <1>3, <1>4, <1>5, <1>6, <1>7, <1>8, <1>9, <1>10 DEF Next, Sweep, Delete

-----------------------------------------------------------------------------
(* The theorems.                                                           *)

\* LifeInv is an invariant.
LEMMA LifeInvariant == Spec => []LifeInv
<1>1. LifeInv /\ [Next]_vars => LifeInv'
  BY StepTypes, StepSilent, StepPlans, StepRoutes DEF LifeInv
<1> QED BY <1>1, InitLife, PTL DEF Spec

(* TypeOK: the columns, passes and ages have their types, and a row that is
   gone has left nothing behind.                                           *)
THEOREM LifecycleTypes == Spec => []TypeOK
<1>1. LifeInv => TypeOK
  BY DEF LifeInv
<1> QED BY <1>1, LifeInvariant, PTL

(* SilentNodesOffline: whatever the times and the order of passes, marks and
   heartbeats, and whichever reads and updates fail, a node seen once is silent
   and online for no longer than StaleAfter, one interval and an interval for
   every pass that was lost on it.                                         *)
THEOREM SilentNodesGoOffline == Spec => []SilentNodesOffline
<1>1. LifeInv => SilentNodesOffline
  BY TypesInParts DEF LifeInv, SilentInv, SilentOf, Vouched, SilentNodesOffline, Online, TableTypes
<1> QED BY <1>1, LifeInvariant, PTL

(* RoutesFresh: no route is served through, to or from a node silent for that
   long and a route's lifetime, by any number of calculations at once.     *)
THEOREM RoutesStayFresh == Spec => []RoutesFresh
<1>1. LifeInv => RoutesFresh
  <2> SUFFICES ASSUME LifeInv, NEW k \in Served, NEW n \in Refs(k), seen[n]
               PROVE  age[n] < SilentBound(n) + RouteTTL
    BY DEF RoutesFresh
  <2>1. TypeOK /\ TableTypes /\ RouteTypes
    BY TypesInParts DEF LifeInv
  <2>2. n \in rows /\ n \in Nodes
    BY <2>1 DEF RouteTypes, TableTypes, Served
  <2>3. /\ age[n] \in Nat /\ routes[k] \in Nat /\ routes[k] < RouteTTL
        /\ SilentBound(n) \in Nat
    BY <2>1, <2>2, Times, Bounds DEF TableTypes, RouteTypes, Served
  <2>4. age[n] <= SilentBound(n) + routes[k]
    BY <2>2 DEF LifeInv, RouteInv, Vouched
  <2> QED BY <2>3, <2>4, Times
<1> QED BY <1>1, LifeInvariant, PTL

(* ExpiredAreOffline: a node that was ever seen is offline when the sweep may
   take it, as long as the passes lost on it leave the cleaner's bound within
   the retention.                                                          *)
THEOREM SweepTakesTheOffline == Spec => []ExpiredAreOffline
<1>1. LifeInv => ExpiredAreOffline
  <2> SUFFICES ASSUME LifeInv, NEW n \in Expired, seen[n], SilentBound(n) <= Retention,
                      status[n] # "offline"
               PROVE  FALSE
    BY DEF ExpiredAreOffline
  <2>1. TypeOK /\ TableTypes
    BY TypesInParts DEF LifeInv
  <2>2. n \in rows /\ n \in Nodes /\ age[n] > Retention
    BY <2>1 DEF Expired, TableTypes
  <2>3. age[n] \in Nat /\ SilentBound(n) \in Nat /\ status[n] = "online"
    BY <2>1, <2>2, Times, Bounds DEF TableTypes
  <2>4. age[n] <= SilentBound(n)
    BY <2>2, <2>3 DEF LifeInv, SilentInv, SilentOf, Vouched
  <2> QED BY <2>2, <2>3, <2>4, Times
<1> QED BY <1>1, LifeInvariant, PTL
=============================================================================
