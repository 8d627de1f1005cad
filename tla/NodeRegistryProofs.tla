------------------------- MODULE NodeRegistryProofs -------------------------
(***************************************************************************)
(* Proofs about NodeRegistry for any sets of accounts, devices, addresses  *)
(* and node ids, any number of handlers and any device limit.              *)
(***************************************************************************)
EXTENDS NodeRegistry, FiniteSetTheorems, TLAPS

(* The forms a table of nodes takes are functions into Row again.            *)
LEMMA DeletedTyped ==
  ASSUME TypeOK, NEW S
  PROVE  /\ DOMAIN Deleted(S) = Rows \ S
         /\ DOMAIN Deleted(S) \subseteq NodeIds
         /\ Deleted(S) \in [DOMAIN Deleted(S) -> Row]
         /\ \A n \in DOMAIN Deleted(S) : Deleted(S)[n] = nodes[n]
BY DEF TypeOK, Deleted, Rows

LEMMA OrphanedTyped ==
  ASSUME TypeOK, NEW S
  PROVE  /\ DOMAIN Orphaned(S) = DOMAIN alloc
         /\ Orphaned(S) \in [DOMAIN Orphaned(S) -> NodeIds \cup {NoNode}]
BY DEF TypeOK, Orphaned

LEMMA InitTyped == Init => TypeOK
<1> SUFFICES ASSUME Init PROVE TypeOK
  OBVIOUS
<1> USE DEF Init
<1>1. Rows = {} /\ nodes \in [Rows -> Row]
  BY DEF Rows
<1>2. DOMAIN alloc = {} /\ alloc \in [DOMAIN alloc -> NodeIds \cup {NoNode}]
  OBVIOUS
<1>3. pc \in [Handlers -> Labels] /\ \A h \in Handlers : pc[h] = "idle"
  BY DEF Labels
<1>4. Active = {}
  BY <1>3 DEF Active, Handlers
<1> QED BY <1>1, <1>2, <1>3, <1>4 DEF TypeOK, Handlers

(* A handler that answers keeps the types, whatever it does to the tables.    *)
LEMMA AnswerTyped ==
  ASSUME TypeOK, NEW h \in Handlers, Answer(h),
         DOMAIN nodes' \subseteq NodeIds, nodes' \in [DOMAIN nodes' -> Row],
         DOMAIN alloc' \subseteq IPs,
         alloc' \in [DOMAIN alloc' -> NodeIds \cup {NoNode}]
  PROVE  TypeOK'
<1> USE DEF TypeOK, Answer, Goto
<1>1. antifraud' \in BOOLEAN /\ pc' \in [Handlers -> Labels]
  BY DEF Labels
<1>2. /\ req' \in [Registrars -> Request \cup {NoRequest}]
      /\ node' \in [Handlers -> NodeIds \cup {NoNode}]
      /\ ip' \in [Registrars -> IPs \cup {NoIP}]
  OBVIOUS
<1>3. alone' \subseteq Active'
  BY DEF Active, Handlers
<1>4. ASSUME NEW r \in Registrars, r # h
      PROVE  pc'[r] = pc[r] /\ req'[r] = req[r] /\ ip'[r] = ip[r]
  BY <1>4 DEF Handlers
<1>5. \A r \in Registrars : r = h => pc'[r] = "idle"
  BY DEF Handlers
<1>6. \A r \in Registrars :
        /\ r \in Active' => req'[r] \in Request
        /\ pc'[r] \in {"create", "assign"} => ip'[r] \in IPs
        /\ pc'[r] \in {"lookup", "update", "ghosts", "count"} => req'[r].device \in Devices
  BY <1>4, <1>5 DEF Active
<1> QED BY <1>1, <1>2, <1>3, <1>6 DEF Rows

(* A handler that goes on to its next statement keeps its request; what it must
   hold there is for the caller to show.                                      *)
LEMMA MoveTyped ==
  ASSUME TypeOK, NEW r \in Registrars, NEW l \in Labels, Goto(r, l),
         UNCHANGED antifraud,
         DOMAIN nodes' \subseteq NodeIds, nodes' \in [DOMAIN nodes' -> Row],
         UNCHANGED alloc,
         l # "idle", alone' \subseteq alone \cup {r},
         req' \in [Registrars -> Request \cup {NoRequest}],
         ip' \in [Registrars -> IPs \cup {NoIP}],
         node' \in [Handlers -> NodeIds \cup {NoNode}],
         \A q \in Registrars \ {r} : req'[q] = req[q] /\ ip'[q] = ip[q],
         req'[r] \in Request,
         l \in {"create", "assign"} => ip'[r] \in IPs,
         l \in {"lookup", "update", "ghosts", "count"} => req'[r].device \in Devices
  PROVE  TypeOK'
<1> USE DEF TypeOK, Goto
<1>1. pc' \in [Handlers -> Labels] /\ pc'[r] = l
  BY DEF Handlers
<1>2. \A q \in Registrars \ {r} : pc'[q] = pc[q]
  BY DEF Handlers
<1>3. alone' \subseteq Active'
  BY <1>1, <1>2 DEF Active
<1>4. ASSUME NEW q \in Registrars
      PROVE  /\ q \in Active' => req'[q] \in Request
             /\ pc'[q] \in {"create", "assign"} => ip'[q] \in IPs
             /\ pc'[q] \in {"lookup", "update", "ghosts", "count"} => req'[q].device \in Devices
  <2>1. CASE q = r
    BY <2>1, <1>1
  <2>2. CASE q # r
    BY <2>2, <1>2 DEF Active
  <2> QED BY <2>1, <2>2
<1> QED BY <1>1, <1>3, <1>4 DEF Rows

(* A step that moves no registrar and touches no table but by deleting or
   releasing keeps the types.                                                 *)
LEMMA ElsewhereTyped ==
  ASSUME TypeOK, UNCHANGED <<antifraud, req, ip, alone>>,
         pc' \in [Handlers -> Labels],
         \A r \in Registrars : pc'[r] = pc[r],
         node' \in [Handlers -> NodeIds \cup {NoNode}],
         DOMAIN nodes' \subseteq NodeIds, nodes' \in [DOMAIN nodes' -> Row],
         DOMAIN alloc' \subseteq IPs,
         alloc' \in [DOMAIN alloc' -> NodeIds \cup {NoNode}]
  PROVE  TypeOK'
<1>1. Active' = Active
  BY DEF Active
<1> QED BY <1>1 DEF TypeOK, Rows

(* Deleting rows, or leaving the tables alone, keeps the tables typed.       *)
LEMMA TablesTyped ==
  ASSUME TypeOK, (\E S : DeleteRows(S)) \/ UNCHANGED tables
  PROVE  /\ DOMAIN nodes' \subseteq NodeIds /\ nodes' \in [DOMAIN nodes' -> Row]
         /\ DOMAIN alloc' \subseteq IPs
         /\ alloc' \in [DOMAIN alloc' -> NodeIds \cup {NoNode}]
         /\ \A n \in Rows' : n \in Rows /\ nodes'[n] = nodes[n]
<1>1. CASE UNCHANGED tables
  BY <1>1 DEF TypeOK, Rows, tables
<1>2. CASE \E S : DeleteRows(S)
  <2>1. PICK S : nodes' = Deleted(S) /\ alloc' = Orphaned(S)
    BY <1>2 DEF DeleteRows
  <2>2. Rows' = Rows \ S
    BY <2>1, DeletedTyped DEF Rows
  <2> QED BY <2>1, <2>2, DeletedTyped, OrphanedTyped DEF TypeOK, Rows
<1> QED BY <1>1, <1>2

LEMMA StepTyped == TypeOK /\ [Next]_vars => TypeOK'
<1> SUFFICES ASSUME TypeOK, [Next]_vars PROVE TypeOK'
  OBVIOUS
<1>0. \A r \in Registrars : r \in Handlers /\ r \notin Deleters
  BY HandlerAssumption DEF Handlers
<1>a. \A h \in Handlers : Answer(h) /\ UNCHANGED tables => TypeOK'
  BY AnswerTyped, TablesTyped
<1>1. ASSUME NEW r \in Registrars, RegisterNode(r) PROVE TypeOK'
  <2>a. r \in Handlers
    BY <1>0
  <2>b. /\ nodes \in [DOMAIN nodes -> Row] /\ DOMAIN nodes \subseteq NodeIds
        /\ node \in [Handlers -> NodeIds \cup {NoNode}]
        /\ req \in [Registrars -> Request \cup {NoRequest}]
        /\ ip \in [Registrars -> IPs \cup {NoIP}]
        /\ pc[r] # "idle" => req[r] \in Request
    BY DEF TypeOK, Rows, Active
  <2>1. ASSUME NEW a \in Accounts, NEW d \in Devices \cup {NoDevice}, Start(r, a, d)
        PROVE  TypeOK'
    <3>1. [account |-> a, device |-> d] \in Request
      BY DEF Request
    <3>2. req'[r].device = d /\ d = NoDevice => FirstStep(d) = "ip"
      BY <2>b, <2>1 DEF Start, FirstStep
    <3>3. FirstStep(d) \in {"lookup", "ip"}
      BY DEF FirstStep
    <3>4. FirstStep(d) = "lookup" => d \in Devices
      BY DEF FirstStep
    <3>5. /\ req'[r] = [account |-> a, device |-> d]
          /\ req' \in [Registrars -> Request \cup {NoRequest}]
          /\ \A q \in Registrars \ {r} : req'[q] = req[q] /\ ip'[q] = ip[q]
      BY <3>1, <2>b, <2>1 DEF Start
    <3>6. alone' \subseteq alone \cup {r}
      BY <2>1 DEF Start
    <3> QED BY <3>1, <3>3, <3>4, <3>5, <3>6, <2>1, <2>b, MoveTyped
            DEF Start, Labels, tables
  <2>2. ASSUME NEW n \in NodeIds, Found(r, n) PROVE TypeOK'
    <3>1. node' \in [Handlers -> NodeIds \cup {NoNode}] /\ req[r].device \in Devices
      BY <2>2, <2>b DEF Found, TypeOK
    <3> QED BY <3>1, <2>2, <2>b, MoveTyped DEF Found, Labels, tables
  <2>3. ASSUME NEW n \in NodeIds, Create(r, n) PROVE TypeOK'
    <3>1. req[r] \in Request /\ ip[r] \in IPs
      BY <2>3, <2>b DEF Create, TypeOK
    <3>2. [account |-> req[r].account, device |-> req[r].device,
           ip |-> ip[r], alone |-> r \in alone] \in Row
      <4>1. req[r].account \in Accounts /\ req[r].device \in Devices \cup {NoDevice}
        BY <3>1 DEF Request
      <4>2. (r \in alone) \in BOOLEAN
        OBVIOUS
      <4> QED BY <3>1, <4>1, <4>2 DEF Row
    <3>3. DOMAIN nodes' = Rows \cup {n} /\ nodes' \in [DOMAIN nodes' -> Row]
      BY <2>3, <2>b, <3>2 DEF Create, Rows
    <3>4. node' \in [Handlers -> NodeIds \cup {NoNode}]
      BY <2>3, <2>b DEF Create
    <3> QED BY <3>1, <3>3, <3>4, <2>3, <2>b, MoveTyped DEF Create, Labels, Rows
  <2>4. ASSUME NEW a \in IPs, FindAvailable(r, a) PROVE TypeOK'
    <3>1. /\ ip' \in [Registrars -> IPs \cup {NoIP}] /\ ip'[r] \in IPs
          /\ \A q \in Registrars \ {r} : ip'[q] = ip[q]
      BY <2>4, <2>b DEF FindAvailable
    <3> QED BY <3>1, <2>4, <2>b, MoveTyped DEF FindAvailable, Labels, tables
  <2>5. CASE FoundElsewhere(r)
    BY <2>5, <2>a, <1>a DEF FoundElsewhere
  <2>6. CASE NotFound(r) \/ LookupFails(r)
    <3>1. Goto(r, "count") /\ UNCHANGED <<antifraud, tables, locals>> /\ alone' \subseteq alone
      BY <2>6 DEF NotFound, LookupFails
    <3>2. req[r].device \in Devices /\ pc[r] # "idle"
      BY <2>6 DEF NotFound, LookupFails, TypeOK
    <3> QED BY <3>1, <3>2, <2>b, MoveTyped DEF Labels, tables, locals
  <2>7. CASE UpdateReregister(r)
    <3>1. pc[r] = "update" /\ req[r] \in Request /\ req[r].device \in Devices
      BY <2>7, <2>b DEF UpdateReregister, TypeOK
    <3>2. \A n \in Rows : [nodes[n] EXCEPT !.account = req[r].account] \in Row
      BY <3>1, <2>b DEF Rows, Row, Request
    <3>3. DOMAIN nodes' = Rows /\ nodes' \in [DOMAIN nodes' -> Row]
      BY <3>2, <2>7, <2>b DEF UpdateReregister, Rows
    <3> QED BY <3>1, <3>3, <2>7, <2>b, MoveTyped
            DEF UpdateReregister, Labels, locals, Rows
  <2>8. CASE DeleteOthers(r)
    BY <2>8, <2>a, TablesTyped, AnswerTyped DEF DeleteOthers
  <2>9. CASE CountDevices(r)
    BY <2>9, <2>b, MoveTyped DEF CountDevices, Labels, tables, locals
  <2>10. CASE LimitReached(r)
    BY <2>10, <2>a, <1>a DEF LimitReached
  <2>11. CASE AssignIP(r)
    <3>1. ip[r] \in IPs /\ node[r] \in NodeIds
      BY <2>11 DEF AssignIP, TypeOK
    <3>2. /\ DOMAIN alloc' = DOMAIN alloc \cup {ip[r]}
          /\ alloc' \in [DOMAIN alloc' -> NodeIds \cup {NoNode}]
      BY <2>11, <3>1 DEF AssignIP, Assigned, TypeOK
    <3>3. DOMAIN alloc' \subseteq IPs
      BY <3>1, <3>2 DEF TypeOK
    <3> QED BY <3>2, <3>3, <2>11, <2>a, <2>b, AnswerTyped DEF AssignIP
  <2>12. CASE AssignFails(r) \/ Fails(r)
    BY <2>12, <2>a, <1>a DEF AssignFails, Fails
  <2> QED BY <1>1, <2>1, <2>2, <2>3, <2>4, <2>5, <2>6, <2>7, <2>8, <2>9, <2>10,
             <2>11, <2>12 DEF RegisterNode
<1>2. ASSUME NEW x \in Deleters, DeregisterNode(x) PROVE TypeOK'
  <2>a. x \in Handlers /\ x \notin Registrars
    BY <1>0 DEF Handlers
  <2>b. /\ pc \in [Handlers -> Labels] /\ node \in [Handlers -> NodeIds \cup {NoNode}]
        /\ DOMAIN alloc \subseteq IPs /\ alloc \in [DOMAIN alloc -> NodeIds \cup {NoNode}]
        /\ DOMAIN nodes \subseteq NodeIds /\ nodes \in [DOMAIN nodes -> Row]
    BY DEF TypeOK, Rows
  <2>1. ASSUME NEW n \in NodeIds, StartDelete(x, n) PROVE TypeOK'
    <3>1. /\ pc' \in [Handlers -> Labels] /\ \A r \in Registrars : pc'[r] = pc[r]
          /\ node' \in [Handlers -> NodeIds \cup {NoNode}]
      BY <2>1, <2>a, <2>b, <1>0 DEF StartDelete, Goto, Labels
    <3> QED BY <3>1, <2>1, <2>b, ElsewhereTyped DEF StartDelete, tables
  <2>2. CASE Release(x)
    <3>1. /\ pc' \in [Handlers -> Labels] /\ \A r \in Registrars : pc'[r] = pc[r]
      BY <2>2, <2>a, <2>b, <1>0 DEF Release, Goto, Labels
    <3>2. DOMAIN alloc' \subseteq IPs /\ alloc' \in [DOMAIN alloc' -> NodeIds \cup {NoNode}]
      BY <2>2, <2>b DEF Release
    <3> QED BY <3>1, <3>2, <2>2, <2>b, ElsewhereTyped DEF Release, locals
  <2>3. CASE Delete(x)
    BY <2>3, <2>a, TablesTyped, AnswerTyped DEF Delete
  <2> QED BY <1>2, <2>1, <2>2, <2>3 DEF DeregisterNode
<1>3. ASSUME NEW S, DeleteStale(S) PROVE TypeOK'
  <2>1. /\ DOMAIN nodes' \subseteq NodeIds /\ nodes' \in [DOMAIN nodes' -> Row]
        /\ DOMAIN alloc' \subseteq IPs
        /\ alloc' \in [DOMAIN alloc' -> NodeIds \cup {NoNode}]
    BY <1>3, TablesTyped DEF DeleteStale
  <2> QED BY <2>1, <1>3, ElsewhereTyped DEF DeleteStale, locals, TypeOK
<1>4. CASE UNCHANGED vars
  BY <1>4 DEF vars, tables, locals, TypeOK, Rows, Active
<1> QED BY <1>1, <1>2, <1>3, <1>4 DEF Next

(* Every table and handler holds what its type says, and a handler has at each
   statement of RegisterNode what that statement needs.                       *)
THEOREM TypeCorrect == Spec => []TypeOK
<1> QED BY InitTyped, StepTyped, PTL DEF Spec

-----------------------------------------------------------------------------
(* What a step does to the rows and to the registrars.  Rows that stay keep
   their address and device, and under antifraud their account, because a
   registrar that is about to update a row of another account does not exist. *)

HeldInv ==
  \A r \in Registrars : node[r] \in Rows =>
    /\ pc[r] = "assign" => nodes[node[r]].ip = ip[r]
    /\ antifraud /\ pc[r] = "update" => nodes[node[r]].account = req[r].account

Kept(n) ==
  /\ n \in Rows
  /\ nodes'[n].ip = nodes[n].ip /\ nodes'[n].device = nodes[n].device
  /\ nodes'[n].alone = nodes[n].alone
  /\ antifraud => nodes'[n].account = nodes[n].account

Waits(q) ==
  /\ pc'[q] = pc[q] /\ node'[q] = node[q] /\ ip'[q] = ip[q] /\ req'[q] = req[q]
  /\ q \in alone' => q \in alone

LEMMA DeletingKeeps ==
  ASSUME TypeOK, (\E S : DeleteRows(S)) \/ UNCHANGED tables
  PROVE  \A n \in Rows' : Kept(n)
BY TablesTyped DEF Kept

LEMMA StepRows ==
  ASSUME TypeOK, HeldInv, [Next]_vars
  PROVE  \A n \in Rows' : Kept(n) \/ \E r \in Registrars : Create(r, n)
<1>a. UNCHANGED nodes => \A n \in Rows' : Kept(n)
  BY DEF Kept, Rows
<1>1. ASSUME NEW r \in Registrars, RegisterNode(r)
      PROVE  \A n \in Rows' : Kept(n) \/ Create(r, n)
  <2>1. CASE \E m \in NodeIds : Create(r, m)
    <3>1. PICK m \in NodeIds : Create(r, m)
      BY <2>1
    <3>2. Rows' = Rows \cup {m} /\ \A n \in Rows \ {m} : nodes'[n] = nodes[n]
      BY <3>1 DEF Create, Rows
    <3> QED BY <3>1, <3>2 DEF Kept
  <2>2. CASE UpdateReregister(r)
    <3>1. pc[r] = "update" /\ nodes \in [Rows -> Row]
      BY <2>2 DEF UpdateReregister, TypeOK
    <3>2. /\ Rows' = Rows
          /\ \A n \in Rows : nodes'[n] = IF n = node[r]
               THEN [nodes[n] EXCEPT !.account = req[r].account] ELSE nodes[n]
      BY <2>2 DEF UpdateReregister, Rows
    <3>3. ASSUME NEW n \in Rows PROVE Kept(n)
      <4>0. nodes[n] \in Row
        BY <3>1
      <4>1. CASE n = node[r]
        <5>1. nodes'[n] = [nodes[n] EXCEPT !.account = req[r].account]
          BY <3>2, <4>1
        <5>2. antifraud => nodes[n].account = req[r].account
          BY <3>1, <4>1 DEF HeldInv
        <5> QED BY <4>0, <5>1, <5>2 DEF Kept, Row
      <4>2. CASE n # node[r]
        BY <4>2, <3>2 DEF Kept
      <4> QED BY <4>1, <4>2
    <3> QED BY <3>2, <3>3
  <2>3. CASE DeleteOthers(r)
    BY <2>3, DeletingKeeps DEF DeleteOthers
  <2> QED BY <1>1, <2>1, <2>2, <2>3, <1>a
      DEF RegisterNode, Start, Found, FindAvailable, FoundElsewhere, NotFound, LookupFails,
          CountDevices, LimitReached, AssignIP, AssignFails, Fails, tables
<1>2. ASSUME NEW x \in Deleters, DeregisterNode(x) PROVE \A n \in Rows' : Kept(n)
  <2>1. CASE Delete(x)
    BY <2>1, DeletingKeeps DEF Delete
  <2> QED BY <1>2, <2>1, <1>a DEF DeregisterNode, StartDelete, Release, tables
<1>3. ASSUME NEW S, DeleteStale(S) PROVE \A n \in Rows' : Kept(n)
  BY <1>3, DeletingKeeps DEF DeleteStale
<1>4. CASE UNCHANGED vars
  BY <1>4, <1>a DEF vars, tables
<1> QED BY <1>1, <1>2, <1>3, <1>4 DEF Next

LEMMA StepWaits ==
  ASSUME TypeOK, [Next]_vars
  PROVE  /\ \A q \in Registrars : Waits(q) \/ RegisterNode(q)
         /\ \A q, r \in Registrars : q # r /\ RegisterNode(r) => Waits(q)
<1>0. /\ pc \in [Handlers -> Labels] /\ node \in [Handlers -> NodeIds \cup {NoNode}]
      /\ req \in [Registrars -> Request \cup {NoRequest}]
      /\ ip \in [Registrars -> IPs \cup {NoIP}]
      /\ \A r \in Registrars : r \in Handlers /\ r \notin Deleters
  BY HandlerAssumption DEF TypeOK, Handlers
<1>a. ASSUME NEW h \in Handlers, Answer(h), NEW q \in Registrars, q # h PROVE Waits(q)
  BY <1>a, <1>0 DEF Answer, Goto, Waits
<1>1. ASSUME NEW r \in Registrars, RegisterNode(r), NEW q \in Registrars, q # r
      PROVE  Waits(q)
  <2>0. r \in Handlers /\ q \in Handlers
    BY <1>0
  <2>1. CASE FoundElsewhere(r) \/ DeleteOthers(r) \/ LimitReached(r) \/ AssignIP(r)
               \/ AssignFails(r) \/ Fails(r)
    BY <2>0, <2>1, <1>1, <1>a
    DEF FoundElsewhere, DeleteOthers, LimitReached, AssignIP, AssignFails, Fails
  <2>2. CASE \E a \in Accounts, d \in Devices \cup {NoDevice} : Start(r, a, d)
    BY <2>2, <2>0, <1>0, <1>1 DEF Start, Goto, Waits
  <2>3. CASE \E n \in NodeIds : Found(r, n) \/ Create(r, n)
    BY <2>3, <2>0, <1>0, <1>1 DEF Found, Create, Goto, Waits
  <2>4. CASE \E a \in IPs : FindAvailable(r, a)
    BY <2>4, <2>0, <1>0, <1>1 DEF FindAvailable, Goto, Waits
  <2>5. CASE NotFound(r) \/ LookupFails(r) \/ UpdateReregister(r) \/ CountDevices(r)
    BY <2>5, <2>0, <1>0, <1>1
    DEF NotFound, LookupFails, UpdateReregister, CountDevices, Goto, Waits, locals
  <2> QED BY <1>1, <2>1, <2>2, <2>3, <2>4, <2>5 DEF RegisterNode
<1>2. ASSUME NEW x \in Deleters, DeregisterNode(x), NEW q \in Registrars
      PROVE  Waits(q)
  <2>0. x \in Handlers /\ q \in Handlers /\ q # x
    BY <1>0 DEF Handlers
  <2>1. CASE Delete(x)
    BY <2>1, <2>0, <1>a DEF Delete
  <2>2. CASE \E n \in NodeIds : StartDelete(x, n)
    BY <2>2, <2>0, <1>0 DEF StartDelete, Goto, Waits
  <2>3. CASE Release(x)
    BY <2>3, <2>0, <1>0 DEF Release, Goto, Waits, locals
  <2> QED BY <1>2, <2>1, <2>2, <2>3 DEF DeregisterNode
<1>3. ASSUME NEW S, DeleteStale(S), NEW q \in Registrars PROVE Waits(q)
  BY <1>3 DEF DeleteStale, Waits, locals
<1>4. ASSUME UNCHANGED vars, NEW q \in Registrars PROVE Waits(q)
  BY <1>4 DEF vars, locals, Waits
<1> QED BY <1>1, <1>2, <1>3, <1>4 DEF Next

LEMMA StepAntifraud == ASSUME [Next]_vars PROVE antifraud' = antifraud
BY DEF Next, vars, RegisterNode, DeregisterNode, Answer, Start, Found, Create, FindAvailable,
       FoundElsewhere, NotFound, LookupFails, UpdateReregister, DeleteOthers, CountDevices,
       LimitReached, AssignIP, AssignFails, Fails, StartDelete, Release, Delete, DeleteStale

(* How a registrar comes to the statements that rest on what it read.        *)
LEMMA ReachedBy ==
  ASSUME TypeOK, NEW q \in Registrars, RegisterNode(q)
  PROVE  /\ pc'[q] = "update" => \E n \in NodeIds : Found(q, n)
         /\ pc'[q] = "assign" => \E n \in NodeIds : Create(q, n)
         /\ pc'[q] = "count" => NotFound(q) \/ LookupFails(q)
         /\ pc'[q] = "create" => \E a \in IPs : FindAvailable(q, a)
         /\ pc'[q] = "ip" => \/ CountDevices(q)
                             \/ \E a \in Accounts : Start(q, a, NoDevice)
<1>0. pc \in [Handlers -> Labels] /\ q \in Handlers
  BY DEF TypeOK, Handlers
<1>a. Answer(q) => pc'[q] = "idle"
  BY <1>0 DEF Answer, Goto
<1>b. \A l : Goto(q, l) => pc'[q] = l
  BY <1>0 DEF Goto
<1>1. CASE FoundElsewhere(q) \/ DeleteOthers(q) \/ LimitReached(q) \/ AssignIP(q)
             \/ AssignFails(q) \/ Fails(q)
  BY <1>1, <1>a
  DEF FoundElsewhere, DeleteOthers, LimitReached, AssignIP, AssignFails, Fails
<1>2. CASE \E a \in Accounts, d \in Devices \cup {NoDevice} : Start(q, a, d)
  BY <1>2, <1>b, NullAssumption DEF Start, FirstStep
<1>3. CASE \E n \in NodeIds : Found(q, n) \/ Create(q, n)
  BY <1>3, <1>b DEF Found, Create
<1>4. CASE \E a \in IPs : FindAvailable(q, a)
  BY <1>4, <1>b DEF FindAvailable
<1>5. CASE NotFound(q) \/ LookupFails(q) \/ UpdateReregister(q) \/ CountDevices(q)
  BY <1>5, <1>b DEF NotFound, LookupFails, UpdateReregister, CountDevices
<1> QED BY <1>1, <1>2, <1>3, <1>4, <1>5 DEF RegisterNode

(* A created row is new to the table, to every handler and to the allocations,
   and holds what its registrar asked for.                                    *)
LEMMA CreateAdds ==
  ASSUME TypeOK, NEW r \in Registrars, NEW n, Create(r, n)
  PROVE  /\ n \in NodeIds /\ n \notin Rows /\ Rows' = Rows \cup {n}
         /\ \A h \in Handlers : node[h] # n
         /\ \A a \in DOMAIN alloc : alloc[a] # n
         /\ nodes'[n] = [account |-> req[r].account, device |-> req[r].device,
                         ip |-> ip[r], alone |-> r \in alone]
         /\ node'[r] = n /\ ip'[r] = ip[r] /\ req'[r] = req[r] /\ alone' = alone
         /\ pc[r] = "create" /\ pc'[r] = "assign" /\ UNCHANGED <<alloc, req>>
<1>1. /\ pc \in [Handlers -> Labels] /\ node \in [Handlers -> NodeIds \cup {NoNode}]
      /\ r \in Handlers
  BY DEF TypeOK, Handlers
<1> QED BY <1>1 DEF Create, Unreferenced, Rows, Goto

LEMMA InitHeld == Init => HeldInv
BY DEF Init, HeldInv, Handlers, Rows

LEMMA StepHeld == TypeOK /\ HeldInv /\ [Next]_vars => HeldInv'
<1> SUFFICES ASSUME TypeOK, HeldInv, [Next]_vars, NEW q \in Registrars, node'[q] \in Rows'
             PROVE  /\ pc'[q] = "assign" => nodes'[node'[q]].ip = ip'[q]
                    /\ antifraud' /\ pc'[q] = "update"
                         => nodes'[node'[q]].account = req'[q].account
  BY DEF HeldInv
<1>0. q \in Handlers /\ antifraud' = antifraud
  BY StepAntifraud DEF Handlers
<1>1. CASE Waits(q)
  <2>1. node[q] \in Rows'
    BY <1>1 DEF Waits
  <2>2. ASSUME NEW r \in Registrars, Create(r, node[q]) PROVE FALSE
    <3>1. \A h \in Handlers : node[h] # node[q]
      BY <2>2 DEF Create, Unreferenced
    <3> QED BY <3>1, <1>0
  <2>3. Kept(node[q])
    BY <2>1, <2>2, StepRows
  <2> QED BY <1>0, <1>1, <2>3 DEF Waits, Kept, HeldInv
<1>2. CASE RegisterNode(q)
  <2>1. ASSUME pc'[q] = "assign" PROVE nodes'[node'[q]].ip = ip'[q]
    <3>1. PICK n \in NodeIds : Create(q, n)
      BY <1>2, <2>1, ReachedBy
    <3>2. /\ nodes'[n] = [account |-> req[q].account, device |-> req[q].device,
                          ip |-> ip[q], alone |-> q \in alone]
          /\ node'[q] = n /\ ip'[q] = ip[q]
      BY <3>1, CreateAdds
    <3> QED BY <3>2
  <2>2. ASSUME antifraud, pc'[q] = "update"
        PROVE  nodes'[node'[q]].account = req'[q].account
    <3>1. PICK n \in NodeIds : Found(q, n)
      BY <1>2, <2>2, ReachedBy
    <3>2. node'[q] = n /\ UNCHANGED <<nodes, req>>
      BY <3>1, <1>0 DEF Found, tables, TypeOK
    <3>3. nodes[n].account = req[q].account
      BY <3>1, <2>2 DEF Found, Allowed
    <3> QED BY <3>2, <3>3
  <2> QED BY <1>0, <2>1, <2>2
<1> QED BY <1>1, <1>2, StepWaits

(* Under antifraud a node never moves to another account, although the account
   is checked on a copy of the row and written by a later statement.          *)
THEOREM DeviceStays == Spec => LinkedDeviceStays
<1>1. ASSUME TypeOK, HeldInv, [Next]_vars
      PROVE  [antifraud => \A n \in Rows \cap Rows' :
                nodes'[n].account = nodes[n].account]_vars
  <2>1. ASSUME antifraud, NEW n \in Rows \cap Rows'
        PROVE  nodes'[n].account = nodes[n].account
    <3>1. Kept(n)
      BY <1>1, StepRows, CreateAdds
    <3> QED BY <3>1, <2>1 DEF Kept
  <2> QED BY <2>1
<1>2. Spec => [](TypeOK /\ HeldInv)
  BY InitTyped, StepTyped, InitHeld, StepHeld, PTL DEF Spec
<1> QED BY <1>1, <1>2, PTL DEF Spec, LinkedDeviceStays

-----------------------------------------------------------------------------
(* ip_allocations.                                                           *)

LEMMA StepAllocations ==
  TypeOK /\ HeldInv /\ AllocationsTrue /\ [Next]_vars => AllocationsTrue'
<1> SUFFICES ASSUME TypeOK, HeldInv, AllocationsTrue, [Next]_vars,
                    NEW a \in DOMAIN alloc', alloc'[a] # NoNode
             PROVE  alloc'[a] \in Rows' /\ nodes'[alloc'[a]].ip = a
  BY DEF AllocationsTrue
<1>a. ASSUME a \in DOMAIN alloc, alloc'[a] = alloc[a], alloc[a] \in Rows'
      PROVE  alloc'[a] \in Rows' /\ nodes'[alloc'[a]].ip = a
  <2>1. \A r \in Registrars : ~Create(r, alloc[a])
    BY <1>a, CreateAdds
  <2>2. Kept(alloc[a])
    BY <1>a, <2>1, StepRows
  <2> QED BY <1>a, <2>2 DEF Kept, AllocationsTrue
<1>b. ASSUME Rows \subseteq Rows', UNCHANGED alloc
      PROVE  alloc'[a] \in Rows' /\ nodes'[alloc'[a]].ip = a
  BY <1>a, <1>b DEF AllocationsTrue
<1>c. ASSUME NEW S, DeleteRows(S)
      PROVE  alloc'[a] \in Rows' /\ nodes'[alloc'[a]].ip = a
  <2>1. Rows' = Rows \ S
    BY <1>c, DeletedTyped DEF DeleteRows, Rows
  <2>2. a \in DOMAIN alloc /\ alloc'[a] = alloc[a] /\ alloc[a] \notin S
    BY <1>c DEF DeleteRows, Orphaned
  <2> QED BY <1>a, <2>1, <2>2 DEF AllocationsTrue
<1>1. ASSUME NEW r \in Registrars, RegisterNode(r)
      PROVE  alloc'[a] \in Rows' /\ nodes'[alloc'[a]].ip = a
  <2>1. CASE \E n \in NodeIds : Create(r, n)
    BY <2>1, <1>b, CreateAdds
  <2>2. CASE UpdateReregister(r)
    BY <2>2, <1>b DEF UpdateReregister, Rows
  <2>3. CASE DeleteOthers(r)
    BY <2>3, <1>b, <1>c DEF DeleteOthers, tables, Rows
  <2>4. CASE AssignIP(r)
    <3>1. /\ DOMAIN alloc' = DOMAIN alloc \cup {ip[r]}
          /\ alloc'[a] = IF a = ip[r] THEN node[r] ELSE alloc[a]
          /\ Rows' = Rows /\ UNCHANGED nodes
      BY <2>4 DEF AssignIP, Assigned, Rows
    <3>2. node[r] \in Rows /\ nodes[node[r]].ip = ip[r]
      BY <2>4 DEF AssignIP, HeldInv
    <3> QED BY <3>1, <3>2 DEF AllocationsTrue
  <2> QED BY <1>1, <2>1, <2>2, <2>3, <2>4, <1>b
      DEF RegisterNode, Start, Found, FindAvailable, FoundElsewhere, NotFound, LookupFails,
          CountDevices, LimitReached, AssignFails, Fails, tables, Rows
<1>2. ASSUME NEW x \in Deleters, DeregisterNode(x)
      PROVE  alloc'[a] \in Rows' /\ nodes'[alloc'[a]].ip = a
  <2>1. CASE Delete(x)
    BY <2>1, <1>b, <1>c DEF Delete, tables, Rows
  <2>2. CASE Release(x)
    <3>1. Rows' = Rows /\ UNCHANGED nodes /\ a \in DOMAIN alloc /\ alloc'[a] = alloc[a]
      BY <2>2 DEF Release, Rows
    <3> QED BY <3>1 DEF AllocationsTrue
  <2> QED BY <1>2, <2>1, <2>2, <1>b DEF DeregisterNode, StartDelete, tables, Rows
<1>3. ASSUME NEW S, DeleteStale(S)
      PROVE  alloc'[a] \in Rows' /\ nodes'[alloc'[a]].ip = a
  BY <1>3, <1>c DEF DeleteStale
<1>4. CASE UNCHANGED vars
  BY <1>4, <1>b DEF vars, tables, Rows
<1> QED BY <1>1, <1>2, <1>3, <1>4 DEF Next

(* An allocation names a node that exists and has that address, or none.      *)
THEOREM AllocationsCorrect == Spec => []AllocationsTrue
<1>1. Init => AllocationsTrue
  BY DEF Init, AllocationsTrue
<1> QED BY <1>1, InitTyped, StepTyped, InitHeld, StepHeld, StepAllocations, PTL DEF Spec

-----------------------------------------------------------------------------
(* Registrations that nothing overlapped.  While a registrar is alone the
   address it was given stays free and the device it did not find stays out of
   the table: the other handlers only remove rows.                            *)

AloneInv ==
  \A r \in alone :
    /\ Active = {r}
    /\ pc[r] = "create" => \A n \in Rows : nodes[n].ip # ip[r]
    /\ pc[r] \in {"count", "ip", "create"} /\ req[r].device # NoDevice
         => \A n \in Rows : nodes[n].device # req[r].device

LEMMA FromIdle ==
  ASSUME NEW q \in Registrars, RegisterNode(q), pc[q] = "idle"
  PROVE  /\ \E a \in Accounts, d \in Devices \cup {NoDevice} : Start(q, a, d)
         /\ alone' = IF Active = {} THEN {q} ELSE {}
BY DEF RegisterNode, Start, Found, Create, FindAvailable, FoundElsewhere, NotFound,
       LookupFails, UpdateReregister, DeleteOthers, CountDevices, LimitReached, AssignIP,
       AssignFails, Fails

LEMMA FromActive ==
  ASSUME NEW q \in Registrars, RegisterNode(q), pc[q] # "idle"
  PROVE  alone' \subseteq alone
BY DEF RegisterNode, Start, Found, Create, FindAvailable, FoundElsewhere, NotFound,
       LookupFails, UpdateReregister, DeleteOthers, CountDevices, LimitReached, AssignIP,
       AssignFails, Fails, Answer, locals

LEMMA StepActive ==
  ASSUME TypeOK, TypeOK', AloneInv, [Next]_vars, NEW r \in alone'
  PROVE  Active' = {r}
<1>0. r \in Registrars /\ r \in Active' /\ alone \subseteq Active
  BY DEF TypeOK, Active
<1>1. ASSUME NEW q \in Registrars, q # r, q \in Active' PROVE FALSE
  <2>1. ASSUME RegisterNode(q) PROVE FALSE
    <3>1. Waits(r)
      BY <1>0, <1>1, <2>1, StepWaits
    <3>2. r \in alone
      BY <3>1 DEF Waits
    <3>3. Active = {r}
      BY <3>2 DEF AloneInv
    <3>4. pc[q] = "idle"
      BY <3>3, <1>1 DEF Active
    <3> QED BY <2>1, <3>3, <3>4, FromIdle
  <2>2. Waits(q)
    BY <2>1, StepWaits
  <2>3. q \in Active
    BY <1>1, <2>2 DEF Waits, Active
  <2>4. r \notin alone
    BY <1>1, <2>3 DEF AloneInv
  <2>5. RegisterNode(r)
    <3>1. ~Waits(r)
      BY <2>4 DEF Waits
    <3> QED BY <3>1, <1>0, StepWaits
  <2> QED BY <1>0, <2>3, <2>4, <2>5, FromIdle, FromActive
<1> QED BY <1>0, <1>1 DEF Active

LEMMA InitAlone == Init => AloneInv
BY DEF Init, AloneInv

LEMMA StepAlone == TypeOK /\ TypeOK' /\ HeldInv /\ AloneInv /\ [Next]_vars => AloneInv'
<1> SUFFICES ASSUME TypeOK, TypeOK', HeldInv, AloneInv, [Next]_vars, NEW r \in alone'
             PROVE  /\ Active' = {r}
                    /\ pc'[r] = "create" => \A n \in Rows' : nodes'[n].ip # ip'[r]
                    /\ pc'[r] \in {"count", "ip", "create"} /\ req'[r].device # NoDevice
                         => \A n \in Rows' : nodes'[n].device # req'[r].device
  BY DEF AloneInv
<1>0. r \in Registrars
  BY DEF TypeOK, Active
<1>1. CASE Waits(r)
  <2>1. r \in alone /\ pc'[r] = pc[r] /\ ip'[r] = ip[r] /\ req'[r] = req[r]
    BY <1>1 DEF Waits
  <2>2. ASSUME pc[r] # "assign", NEW n \in Rows' PROVE Kept(n)
    <3>1. ASSUME NEW q \in Registrars, Create(q, n) PROVE FALSE
      <4>1. pc[q] = "create" /\ pc'[q] = "assign"
        BY <3>1, CreateAdds
      <4>2. q \in Active
        BY <4>1 DEF Active
      <4> QED BY <4>1, <4>2, <2>1, <2>2 DEF AloneInv
    <3> QED BY <3>1, StepRows
  <2> QED BY <2>1, <2>2, StepActive DEF Kept, AloneInv
<1>2. CASE RegisterNode(r)
  <2>a. pc[r] # "idle" => r \in alone
    BY <1>0, <1>2, FromActive
  <2>1. ASSUME pc'[r] = "create"
        PROVE  /\ \A n \in Rows' : nodes'[n].ip # ip'[r]
               /\ req'[r].device # NoDevice
                    => \A n \in Rows' : nodes'[n].device # req'[r].device
    <3>1. PICK a \in IPs : FindAvailable(r, a)
      BY <1>0, <1>2, <2>1, ReachedBy
    <3>2. pc[r] = "ip" /\ Rows' = Rows /\ UNCHANGED <<nodes, req>> /\ ip'[r] = a
      BY <3>1, <1>0 DEF FindAvailable, tables, Rows, TypeOK
    <3>3. \A n \in Rows : nodes[n].ip # a
      BY <3>1 DEF FindAvailable, Available
    <3> QED BY <3>2, <3>3, <2>a DEF AloneInv
  <2>2. ASSUME pc'[r] = "ip", req'[r].device # NoDevice
        PROVE  \A n \in Rows' : nodes'[n].device # req'[r].device
    <3>1. \A a : ~Start(r, a, NoDevice)
      BY <2>2, <1>0 DEF Start, TypeOK
    <3>2. CountDevices(r)
      BY <1>0, <1>2, <2>2, <3>1, ReachedBy
    <3>3. pc[r] = "count" /\ Rows' = Rows /\ UNCHANGED <<nodes, req>>
      BY <3>2 DEF CountDevices, tables, locals, Rows
    <3> QED BY <3>3, <2>2, <2>a DEF AloneInv
  <2>3. ASSUME pc'[r] = "count"
        PROVE  \A n \in Rows' : nodes'[n].device # req'[r].device
    <3>1. NotFound(r)
      BY <1>0, <1>2, <2>3, ReachedBy DEF LookupFails
    <3>2. RowsOf(r) = {} /\ Rows' = Rows /\ UNCHANGED <<nodes, req>>
      BY <3>1 DEF NotFound, tables, locals, Rows
    <3> QED BY <3>2 DEF RowsOf
  <2> QED BY <2>1, <2>2, <2>3, StepActive
<1> QED BY <1>0, <1>1, <1>2, StepWaits

(* What a created row adds to a pair of rows.                                *)
LEMMA CreatedAlone ==
  ASSUME TypeOK, HeldInv, AloneInv, [Next]_vars,
         NEW r \in Registrars, NEW n, Create(r, n),
         NEW m \in Rows', m # n, nodes'[n].alone
  PROVE  /\ nodes'[m].ip # nodes'[n].ip
         /\ nodes'[n].device # NoDevice => nodes'[m].device # nodes'[n].device
<1>1. /\ nodes'[n] = [account |-> req[r].account, device |-> req[r].device,
                      ip |-> ip[r], alone |-> r \in alone]
      /\ pc[r] = "create" /\ m \in Rows
  BY CreateAdds
<1>2. nodes'[n].ip = ip[r] /\ nodes'[n].device = req[r].device /\ r \in alone
  <2>1. nodes'[n].ip = ip[r] /\ nodes'[n].device = req[r].device
    BY <1>1
  <2>2. ASSUME r \notin alone PROVE FALSE
    <3>1. (r \in alone) = FALSE
      BY <2>2, SMT
    <3>2. nodes'[n] = [account |-> req[r].account, device |-> req[r].device,
                       ip |-> ip[r], alone |-> FALSE]
      BY <1>1, <3>1, Zenon
    <3> QED BY <3>2
  <2> QED BY <2>1, <2>2
<1>3. Kept(m)
  <2>1. \A q \in Registrars : ~Create(q, m)
    BY <1>1, CreateAdds
  <2> QED BY <2>1, StepRows
<1>4. nodes'[m].ip = nodes[m].ip /\ nodes'[m].device = nodes[m].device
  BY <1>3 DEF Kept
<1> QED BY <1>1, <1>2, <1>4 DEF AloneInv

LEMMA StepDistinct ==
  TypeOK /\ HeldInv /\ AloneInv /\ AddressesDistinct /\ DevicesDistinct /\ [Next]_vars
    => AddressesDistinct' /\ DevicesDistinct'
<1> SUFFICES ASSUME TypeOK, HeldInv, AloneInv, AddressesDistinct, DevicesDistinct, [Next]_vars,
                    NEW m \in Rows', NEW n \in Rows', m # n,
                    nodes'[m].alone, nodes'[n].alone
             PROVE  /\ nodes'[m].ip # nodes'[n].ip
                    /\ nodes'[m].device = nodes'[n].device => nodes'[n].device = NoDevice
  BY DEF AddressesDistinct, DevicesDistinct
<1>1. CASE Kept(m) /\ Kept(n)
  BY <1>1 DEF Kept, AddressesDistinct, DevicesDistinct
<1>2. CASE \E r \in Registrars : Create(r, n)
  BY <1>2, CreatedAlone
<1>3. CASE \E r \in Registrars : Create(r, m)
  BY <1>3, CreatedAlone
<1> QED BY <1>1, <1>2, <1>3, StepRows

LEMMA RegistryInvariant ==
  Spec => [](TypeOK /\ HeldInv /\ AloneInv /\ AddressesDistinct /\ DevicesDistinct)
<1>1. Init => AddressesDistinct /\ DevicesDistinct
  BY DEF Init, AddressesDistinct, DevicesDistinct, Rows
<1> QED BY <1>1, InitTyped, StepTyped, InitHeld, StepHeld, InitAlone, StepAlone, StepDistinct,
           PTL DEF Spec

(* Registrations that never overlapped another share no mesh address, whatever
   statements of releases, deletions and assignments failed.                  *)
THEOREM AddressesUnique == Spec => []AddressesDistinct
BY RegistryInvariant, PTL

(* Registrations that never overlapped another, and whose lookups answered,
   leave one row per device.                                                  *)
THEOREM DevicesUnique == Spec => []DevicesDistinct
BY RegistryInvariant, PTL

-----------------------------------------------------------------------------
(* The device limit.  A registrar that passed the check and has not created its
   row yet stands for one device more: counting those in, the check of a
   registrar starts from at most MaxDevices - 1 rows.                         *)

Pending(a) ==
  {r \in Registrars : /\ pc[r] \in {"ip", "create"}
                      /\ req[r].account = a /\ req[r].device # NoDevice}

LimitInv ==
  antifraud => \A a \in Accounts :
    Cardinality(LinkedTo(a)) + Cardinality(Pending(a))
      <= MaxDevices + Cardinality(Registrars) - 1

LEMMA Sizes ==
  ASSUME TypeOK, NEW a
  PROVE  /\ IsFiniteSet(LinkedTo(a)) /\ Cardinality(LinkedTo(a)) \in Nat
         /\ IsFiniteSet(Pending(a)) /\ Cardinality(Pending(a)) \in Nat
         /\ Cardinality(Pending(a)) <= Cardinality(Registrars)
         /\ Cardinality(Registrars) \in Nat /\ MaxDevices \in Nat \ {0}
<1>1. IsFiniteSet(NodeIds) /\ IsFiniteSet(Registrars) /\ MaxDevices \in Nat \ {0}
  BY HandlerAssumption, LimitAssumption
<1>2. LinkedTo(a) \in SUBSET NodeIds
  BY DEF LinkedTo, TypeOK
<1>3. Pending(a) \in SUBSET Registrars
  BY DEF Pending
<1>4. IsFiniteSet(LinkedTo(a)) /\ IsFiniteSet(Pending(a))
      /\ Cardinality(Pending(a)) <= Cardinality(Registrars)
  BY <1>1, <1>2, <1>3, FS_Subset
<1> QED BY <1>1, <1>4, FS_CardinalityType

LEMMA InitLimit == Init => LimitInv
<1> SUFFICES ASSUME Init, NEW a \in Accounts
             PROVE  Cardinality(LinkedTo(a)) + Cardinality(Pending(a))
                      <= MaxDevices + Cardinality(Registrars) - 1
  BY DEF LimitInv
<1>1. LinkedTo(a) = {}
  BY DEF Init, LinkedTo, Rows
<1>2. Cardinality(LinkedTo(a)) = 0
  BY <1>1, FS_EmptySet
<1> QED BY <1>2, InitTyped, Sizes

LEMMA StepLimit == TypeOK /\ TypeOK' /\ HeldInv /\ LimitInv /\ [Next]_vars => LimitInv'
<1> SUFFICES ASSUME TypeOK, TypeOK', HeldInv, LimitInv, [Next]_vars, antifraud,
                    NEW a \in Accounts
             PROVE  Cardinality(LinkedTo(a)') + Cardinality(Pending(a)')
                      <= MaxDevices + Cardinality(Registrars) - 1
  BY StepAntifraud DEF LimitInv
<1> DEFINE L == LinkedTo(a)
           P == Pending(a)
<1>0. /\ IsFiniteSet(L) /\ IsFiniteSet(L') /\ IsFiniteSet(P) /\ IsFiniteSet(P')
      /\ Cardinality(L) \in Nat /\ Cardinality(L') \in Nat
      /\ Cardinality(P) \in Nat /\ Cardinality(P') \in Nat
      /\ Cardinality(P') <= Cardinality(Registrars)
      /\ Cardinality(Registrars) \in Nat /\ MaxDevices \in Nat \ {0}
  <2>1. L' \in SUBSET NodeIds
    BY DEF LinkedTo, TypeOK
  <2>2. P' \in SUBSET Registrars
    BY DEF Pending
  <2>3. IsFiniteSet(NodeIds) /\ IsFiniteSet(Registrars)
    BY HandlerAssumption
  <2>4. /\ IsFiniteSet(L) /\ Cardinality(L) \in Nat
        /\ IsFiniteSet(P) /\ Cardinality(P) \in Nat
        /\ Cardinality(Registrars) \in Nat /\ MaxDevices \in Nat \ {0}
    BY Sizes
  <2> HIDE DEF L, P
  <2>5. IsFiniteSet(L') /\ IsFiniteSet(P') /\ Cardinality(P') <= Cardinality(Registrars)
    BY <2>1, <2>2, <2>3, FS_Subset
  <2>6. Cardinality(L') \in Nat /\ Cardinality(P') \in Nat
    BY <2>5, FS_CardinalityType
  <2> QED BY <2>4, <2>5, <2>6
<1>a. Cardinality(L) + Cardinality(P) <= MaxDevices + Cardinality(Registrars) - 1
  BY DEF LimitInv
<1>1. ASSUME NEW r \in Registrars, CountDevices(r), req[r].account = a
      PROVE  Cardinality(L') + Cardinality(P') <= MaxDevices + Cardinality(Registrars) - 1
  <2>1. L' = L /\ Cardinality(L) < MaxDevices
    BY <1>1 DEF CountDevices, BelowLimit, LinkedTo, Rows, tables
  <2> QED BY <2>1, <1>0
<1>2. ASSUME NEW r \in Registrars, NEW n, Create(r, n), r \in P
      PROVE  Cardinality(L') + Cardinality(P') <= MaxDevices + Cardinality(Registrars) - 1
  <2>1. L' \subseteq L \cup {n}
    <3>1. ASSUME NEW m \in L', m # n PROVE m \in L
      <4>1. m \in Rows' /\ nodes'[m].account = a /\ nodes'[m].device # NoDevice
        BY <3>1 DEF LinkedTo
      <4>2. m \in Rows
        <5>1. Rows' = Rows \cup {n}
          BY <1>2, CreateAdds
        <5> QED BY <5>1, <3>1, <4>1
      <4>3. \A q \in Registrars : ~Create(q, m)
        BY <4>2, CreateAdds
      <4>4. Kept(m)
        BY <4>1, <4>3, StepRows
      <4> QED BY <4>1, <4>4 DEF Kept, LinkedTo
    <3> QED BY <3>1
  <2>2. P' \subseteq P \ {r}
    <3>1. ASSUME NEW q \in P' PROVE q \in P /\ q # r
      <4>1. /\ q \in Registrars /\ pc'[q] \in {"ip", "create"}
            /\ req'[q].account = a /\ req'[q].device # NoDevice
        BY <3>1 DEF Pending
      <4>2. pc'[r] = "assign"
        BY <1>2, CreateAdds
      <4>3. q # r
        BY <4>1, <4>2
      <4>4. RegisterNode(r)
        BY <1>2, CreateAdds DEF RegisterNode
      <4>5. Waits(q)
        BY <4>1, <4>3, <4>4, StepWaits
      <4> QED BY <4>1, <4>3, <4>5 DEF Waits, Pending
    <3> QED BY <3>1
  <2>a. r \in P
    BY <1>2
  <2>3. /\ IsFiniteSet(L \cup {n}) /\ Cardinality(L \cup {n}) <= Cardinality(L) + 1
        /\ IsFiniteSet(P \ {r}) /\ Cardinality(P \ {r}) = Cardinality(P) - 1
    <3> HIDE DEF L, P
    <3>1. /\ IsFiniteSet(L \cup {n})
          /\ Cardinality(L \cup {n}) = IF n \in L THEN Cardinality(L) ELSE Cardinality(L) + 1
      BY <1>0, FS_AddElement
    <3>2. /\ IsFiniteSet(P \ {r})
          /\ Cardinality(P \ {r}) = IF r \in P THEN Cardinality(P) - 1 ELSE Cardinality(P)
      BY <1>0, FS_RemoveElement
    <3> QED BY <3>1, <3>2, <2>a, <1>0
  <2>4. Cardinality(L') <= Cardinality(L \cup {n}) /\ Cardinality(P') <= Cardinality(P \ {r})
    <3> HIDE DEF L, P
    <3> QED BY <2>1, <2>2, <2>3, FS_Subset
  <2>5. Cardinality(L \cup {n}) \in Nat
    BY <2>3, FS_CardinalityType
  <2> HIDE DEF L, P
  <2> QED BY <2>3, <2>4, <2>5, <1>0, <1>a
<1>3. ASSUME \A r \in Registrars : ~(CountDevices(r) /\ req[r].account = a),
             \A r \in P : \A n : ~Create(r, n)
      PROVE  Cardinality(L') + Cardinality(P') <= MaxDevices + Cardinality(Registrars) - 1
  <2>1. L' \subseteq L
    <3>1. ASSUME NEW m \in L' PROVE m \in L
      <4>1. m \in Rows' /\ nodes'[m].account = a /\ nodes'[m].device # NoDevice
        BY <3>1 DEF LinkedTo
      <4>2. ASSUME NEW q \in Registrars, Create(q, m) PROVE FALSE
        <5>1. /\ nodes'[m] = [account |-> req[q].account, device |-> req[q].device,
                              ip |-> ip[q], alone |-> q \in alone]
              /\ pc[q] = "create"
          BY <4>2, CreateAdds
        <5>2. nodes'[m].account = req[q].account /\ nodes'[m].device = req[q].device
          BY <5>1
        <5>3. q \in P
          BY <4>1, <5>1, <5>2 DEF Pending
        <5> QED BY <4>2, <5>3, <1>3
      <4>3. Kept(m)
        BY <4>1, <4>2, StepRows
      <4> QED BY <4>1, <4>3 DEF Kept, LinkedTo
    <3> QED BY <3>1
  <2>2. P' \subseteq P
    <3>1. ASSUME NEW q \in P' PROVE q \in P
      <4>1. /\ q \in Registrars /\ pc'[q] \in {"ip", "create"}
            /\ req'[q].account = a /\ req'[q].device # NoDevice
        BY <3>1 DEF Pending
      <4>2. CASE Waits(q)
        BY <4>1, <4>2 DEF Waits, Pending
      <4>3. ASSUME RegisterNode(q) PROVE q \in P
        <5>1. CASE pc'[q] = "create"
          <6>1. PICK b \in IPs : FindAvailable(q, b)
            BY <4>1, <4>3, <5>1, ReachedBy
          <6> QED BY <4>1, <6>1 DEF FindAvailable, Pending
        <5>2. CASE pc'[q] = "ip"
          <6>1. ASSUME NEW b, Start(q, b, NoDevice) PROVE FALSE
            <7>1. q \in DOMAIN req
              BY <4>1 DEF TypeOK
            <7>2. req'[q].device = NoDevice
              BY <6>1, <7>1 DEF Start
            <7> QED BY <7>2, <4>1
          <6>2. CountDevices(q)
            BY <4>1, <4>3, <5>2, <6>1, ReachedBy
          <6>3. req[q].account = a
            BY <4>1, <6>2 DEF CountDevices, locals
          <6> QED BY <6>2, <6>3, <4>1, <1>3
        <5> QED BY <4>1, <5>1, <5>2
      <4> QED BY <4>1, <4>2, <4>3, StepWaits
    <3> QED BY <3>1
  <2>3. Cardinality(L') <= Cardinality(L) /\ Cardinality(P') <= Cardinality(P)
    <3> HIDE DEF L, P
    <3> QED BY <2>1, <2>2, <1>0, FS_Subset
  <2> HIDE DEF L, P
  <2> QED BY <2>3, <1>0, <1>a
<1>4. \A r \in P : r \in Registrars
  BY DEF Pending
<1> QED BY <1>1, <1>2, <1>3, <1>4

(* Under antifraud an account never has more than MaxDevices - 1 devices and one
   for each registration that may run at a time, although the limit is checked
   first and the row created later.                                           *)
THEOREM LimitBounded == Spec => []LimitOvershootBounded
<1>1. TypeOK /\ LimitInv => LimitOvershootBounded
  <2> SUFFICES ASSUME TypeOK, LimitInv, antifraud, NEW a \in Accounts
               PROVE  Cardinality(LinkedTo(a)) <= MaxDevices + Cardinality(Registrars) - 1
    BY DEF LimitOvershootBounded
  <2> QED BY Sizes DEF LimitInv
<1> QED BY <1>1, InitTyped, StepTyped, InitHeld, StepHeld, InitLimit, StepLimit, PTL DEF Spec
=============================================================================
