---------------------------- MODULE NodeRegistry ----------------------------
(***************************************************************************)
(* Registration, migration and removal of nodes: NodeService.RegisterNode  *)
(* and DeregisterNode over the tables nodes and ip_allocations, as the     *)
(* migrations leave them: device_id has no unique index (009), internal_ip *)
(* never had one, and a deleted node leaves its ip_allocations row behind  *)
(* with node_id NULL.                                                      *)
(*                                                                         *)
(* A handler runs one SQL statement per step, with no transaction around   *)
(* them, so handlers interleave between statements; any statement may      *)
(* fail.  last_seen is left out: a heartbeat can make any row of a device  *)
(* its most recently active one, so the lookup may return any of them.     *)
(* A node id is used again once nothing refers to it; UUIDs are not, and   *)
(* nothing can tell.                                                       *)
(***************************************************************************)
EXTENDS Naturals, FiniteSets

CONSTANTS
  Accounts,
  NoAccount,
  Devices,      \* device_id values
  NoDevice,     \* the empty device_id, stored as NULL
  NodeIds,      \* bound: nodes alive at a time
  NoNode,       \* NULL, and the id of no node
  IPs,          \* addresses of the mesh network
  NoIP,
  Registrars,   \* POST .../nodes/register handlers, each used again and again
  Deleters,     \* DELETE .../nodes/{id} handlers
  MaxDevices,   \* maxDevicesPerAccount
  LookupErrors  \* whether the lookup of a device may fail

ASSUME LimitAssumption == MaxDevices \in Nat \ {0} /\ LookupErrors \in BOOLEAN
ASSUME NullAssumption ==
  NoAccount \notin Accounts /\ NoDevice \notin Devices /\ NoNode \notin NodeIds /\ NoIP \notin IPs
ASSUME HandlerAssumption ==
  Registrars \cap Deleters = {} /\ IsFiniteSet(Registrars) /\ IsFiniteSet(NodeIds)

VARIABLES
  antifraud,   \* ANTIFRAUD_ENABLED, read at start
  nodes,       \* the rows of nodes, by id
  alloc,       \* the rows of ip_allocations: address -> node_id or NULL
  pc,          \* where each handler is
  req,         \* req[r]: the account and device of the request
  node,        \* node[h]: the node a handler found, made or deletes
  ip,          \* ip[r]: the address FindAvailable returned
  alone        \* registrars none of whose lookups failed and that no other
               \* registrar has overlapped so far

tables == <<nodes, alloc>>
locals == <<req, node, ip>>
vars   == <<antifraud, tables, pc, locals, alone>>

Handlers == Registrars \cup Deleters
Request  == [account : Accounts, device : Devices \cup {NoDevice}]
NoRequest == [account |-> NoAccount, device |-> NoDevice]
Row      == [account : Accounts, device : Devices \cup {NoDevice},
             ip : IPs, alone : BOOLEAN]

Rows == DOMAIN nodes

Init ==
  /\ antifraud \in BOOLEAN
  /\ nodes = [n \in {} |-> NoNode]
  /\ alloc = [a \in {} |-> NoNode]
  /\ pc = [h \in Handlers |-> "idle"]
  /\ req = [r \in Registrars |-> NoRequest]
  /\ node = [h \in Handlers |-> NoNode]
  /\ ip = [r \in Registrars |-> NoIP]
  /\ alone = {}

Goto(h, l) == pc' = [pc EXCEPT ![h] = l]

Active == {r \in Registrars : pc[r] # "idle"}

\* The handler answers; what it knew is gone.
Answer(h) ==
  /\ Goto(h, "idle")
  /\ node' = [node EXCEPT ![h] = NoNode]
  /\ ip' = [r \in Registrars |-> IF r = h THEN NoIP ELSE ip[r]]
  /\ req' = [r \in Registrars |-> IF r = h THEN NoRequest ELSE req[r]]
  /\ alone' = alone \ {h}
  /\ UNCHANGED antifraud

-----------------------------------------------------------------------------
(* The tables.                                                             *)

Deleted(S)  == [n \in Rows \ S |-> nodes[n]]

\* Fault: ip_allocations.node_id references nothing.
FaultyOrphaned(S) == alloc

\* ON DELETE SET NULL.
Orphaned(S) == [a \in DOMAIN alloc |-> IF alloc[a] \in S THEN NoNode ELSE alloc[a]]

DeleteRows(S) == nodes' = Deleted(S) /\ alloc' = Orphaned(S)

\* Fault: the per-account lookup, GetByDeviceID.
FaultyRowsOf(r) ==
  {n \in Rows : nodes[n].device = req[r].device /\ nodes[n].account = req[r].account}

RowsOf(r) == {n \in Rows : nodes[n].device = req[r].device}

LinkedTo(a) == {n \in Rows : nodes[n].account = a /\ nodes[n].device # NoDevice}

\* Fault: only ip_allocations is consulted.
FaultyAvailable == IPs \ DOMAIN alloc

Available == IPs \ (DOMAIN alloc \cup {nodes[n].ip : n \in Rows})

Unreferenced ==
  NodeIds \ (Rows \cup {node[h] : h \in Handlers} \cup {alloc[a] : a \in DOMAIN alloc})

-----------------------------------------------------------------------------
(* RegisterNode.                                                           *)

\* Fault: a request without a device_id is looked up like any other.
FaultyFirstStep(d) == "lookup"

FirstStep(d) == IF d = NoDevice THEN "ip" ELSE "lookup"

Start(r, a, d) ==
  /\ pc[r] = "idle"
  /\ req' = [req EXCEPT ![r] = [account |-> a, device |-> d]]
  /\ Goto(r, FirstStep(d))
  /\ alone' = IF Active = {} THEN {r} ELSE {}
  /\ UNCHANGED <<antifraud, tables, node, ip>>

\* Fault: a device of another account is migrated under antifraud too.
FaultyAllowed(r, n) == TRUE

Allowed(r, n) == nodes[n].account = req[r].account \/ ~antifraud

FoundElsewhere(r) ==
  /\ pc[r] = "lookup"
  /\ \E n \in RowsOf(r) : ~Allowed(r, n)
  /\ Answer(r)
  /\ UNCHANGED tables

Found(r, n) ==
  /\ pc[r] = "lookup"
  /\ n \in RowsOf(r)
  /\ Allowed(r, n)
  /\ node' = [node EXCEPT ![r] = n]
  /\ Goto(r, "update")
  /\ UNCHANGED <<antifraud, tables, req, ip, alone>>

NotFound(r) ==
  /\ pc[r] = "lookup"
  /\ RowsOf(r) = {}
  /\ Goto(r, "count")
  /\ UNCHANGED <<antifraud, tables, locals, alone>>

\* The error of the lookup is dropped: as if there were no row.
LookupFails(r) ==
  /\ LookupErrors
  /\ pc[r] = "lookup"
  /\ Goto(r, "count")
  /\ alone' = alone \ {r}
  /\ UNCHANGED <<antifraud, tables, locals>>

\* An UPDATE by id: of no row, without an error, when it is gone meanwhile.
UpdateReregister(r) ==
  /\ pc[r] = "update"
  /\ nodes' = [n \in Rows |-> IF n = node[r]
                 THEN [nodes[n] EXCEPT !.account = req[r].account] ELSE nodes[n]]
  /\ Goto(r, "ghosts")
  /\ UNCHANGED <<antifraud, alloc, locals, alone>>

\* Best effort: the answer is the same if it fails.
DeleteOthers(r) ==
  /\ pc[r] = "ghosts"
  /\ DeleteRows(RowsOf(r) \ {node[r]}) \/ UNCHANGED tables
  /\ Answer(r)

\* Fault: one device too many.
FaultyBelowLimit(a) == Cardinality(LinkedTo(a)) <= MaxDevices

BelowLimit(a) == Cardinality(LinkedTo(a)) < MaxDevices

CountDevices(r) ==
  /\ pc[r] = "count"
  /\ BelowLimit(req[r].account)
  /\ Goto(r, "ip")
  /\ UNCHANGED <<antifraud, tables, locals, alone>>

LimitReached(r) ==
  /\ pc[r] = "count"
  /\ ~BelowLimit(req[r].account)
  /\ Answer(r)
  /\ UNCHANGED tables

FindAvailable(r, a) ==
  /\ pc[r] = "ip"
  /\ a \in Available
  /\ ip' = [ip EXCEPT ![r] = a]
  /\ Goto(r, "create")
  /\ UNCHANGED <<antifraud, tables, req, node, alone>>

Create(r, n) ==
  /\ pc[r] = "create"
  /\ n \in Unreferenced
  /\ nodes' = [m \in Rows \cup {n} |-> IF m = n
                 THEN [account |-> req[r].account, device |-> req[r].device,
                       ip |-> ip[r], alone |-> r \in alone]
                 ELSE nodes[m]]
  /\ node' = [node EXCEPT ![r] = n]
  /\ Goto(r, "assign")
  /\ UNCHANGED <<antifraud, alloc, req, ip, alone>>

\* INSERT ... ON CONFLICT (ip) DO UPDATE.
Assigned(r) == [a \in DOMAIN alloc \cup {ip[r]} |-> IF a = ip[r] THEN node[r] ELSE alloc[a]]

\* node_id references nodes: the statement fails when the node is gone.
AssignIP(r) ==
  /\ pc[r] = "assign"
  /\ node[r] \in Rows
  /\ alloc' = Assigned(r)
  /\ Answer(r)
  /\ UNCHANGED nodes

\* Only a warning: the node is there, its address is in no allocation row.
AssignFails(r) ==
  /\ pc[r] = "assign"
  /\ Answer(r)
  /\ UNCHANGED tables

\* Any other statement fails, no address is free, or the public key is already
\* that of another row: an error is answered.
Fails(r) ==
  /\ pc[r] \in {"update", "count", "ip", "create"}
  /\ Answer(r)
  /\ UNCHANGED tables

-----------------------------------------------------------------------------
(* Removal.                                                                *)

StartDelete(x, n) ==
  /\ pc[x] = "idle"
  /\ n \in Rows
  /\ node' = [node EXCEPT ![x] = n]
  /\ Goto(x, "release")
  /\ UNCHANGED <<antifraud, tables, req, ip, alone>>

\* A failed release is only logged.
Release(x) ==
  /\ pc[x] = "release"
  /\ \/ alloc' = [a \in {b \in DOMAIN alloc : alloc[b] # node[x]} |-> alloc[a]]
     \/ UNCHANGED alloc
  /\ Goto(x, "delete")
  /\ UNCHANGED <<antifraud, nodes, locals, alone>>

Delete(x) ==
  /\ pc[x] = "delete"
  /\ DeleteRows({node[x]}) \/ UNCHANGED tables
  /\ Answer(x)

\* OfflineNodeDeleter's sweep: the rows past their retention, in one statement.
DeleteStale(S) ==
  /\ S # {}
  /\ DeleteRows(S)
  /\ UNCHANGED <<antifraud, pc, locals, alone>>

-----------------------------------------------------------------------------

RegisterNode(r) ==
  \/ \E a \in Accounts, d \in Devices \cup {NoDevice} : Start(r, a, d)
  \/ \E n \in NodeIds : Found(r, n) \/ Create(r, n)
  \/ \E a \in IPs : FindAvailable(r, a)
  \/ FoundElsewhere(r) \/ NotFound(r) \/ LookupFails(r)
  \/ UpdateReregister(r) \/ DeleteOthers(r)
  \/ CountDevices(r) \/ LimitReached(r)
  \/ AssignIP(r) \/ AssignFails(r) \/ Fails(r)

DeregisterNode(x) ==
  (\E n \in NodeIds : StartDelete(x, n)) \/ Release(x) \/ Delete(x)

Next ==
  \/ \E r \in Registrars : RegisterNode(r)
  \/ \E x \in Deleters : DeregisterNode(x)
  \/ \E S \in SUBSET Rows : DeleteStale(S)

Spec == Init /\ [][Next]_vars

-----------------------------------------------------------------------------

Labels == {"idle", "lookup", "update", "ghosts", "count", "ip", "create", "assign",
           "release", "delete"}

(* Types, and what a handler holds at each point of RegisterNode. *)
TypeOK ==
  /\ antifraud \in BOOLEAN
  /\ Rows \subseteq NodeIds /\ nodes \in [Rows -> Row]
  /\ DOMAIN alloc \subseteq IPs /\ alloc \in [DOMAIN alloc -> NodeIds \cup {NoNode}]
  /\ pc \in [Handlers -> Labels]
  /\ req \in [Registrars -> Request \cup {NoRequest}]
  /\ node \in [Handlers -> NodeIds \cup {NoNode}]
  /\ ip \in [Registrars -> IPs \cup {NoIP}]
  /\ alone \subseteq Active
  /\ \A r \in Registrars :
       /\ r \in Active => req[r] \in Request
       /\ pc[r] \in {"create", "assign"} => ip[r] \in IPs
       /\ pc[r] \in {"lookup", "update", "ghosts", "count"} => req[r].device \in Devices

(* ip_allocations never names a node that is gone, or one with another address:
   late AssignIP calls, conflicts on the same address and cascades included.  *)
AllocationsTrue ==
  \A a \in DOMAIN alloc : alloc[a] # NoNode => alloc[a] \in Rows /\ nodes[alloc[a]].ip = a

(* Two nodes have one mesh address only when a registration overlapped another:
   the address of a node whose AssignIP, release or delete failed half-way is
   never handed out again.                                                    *)
AddressesDistinct ==
  \A m, n \in Rows : m # n /\ nodes[m].ip = nodes[n].ip
                       => ~nodes[m].alone \/ ~nodes[n].alone

(* A device has two rows only when a registration overlapped another or its
   lookup failed: reinstalls and account switches in sequence make no ghosts. *)
DevicesDistinct ==
  \A m, n \in Rows :
    m # n /\ nodes[m].device = nodes[n].device /\ nodes[m].device # NoDevice
      => ~nodes[m].alone \/ ~nodes[n].alone

(* The device limit is counted and then acted on, so that it is no limit for
   registrations that overlap (AntifraudPromises); what still bounds an account's
   devices under antifraud is how many registrations can overlap.             *)
LimitOvershootBounded ==
  antifraud => \A a \in Accounts :
    Cardinality(LinkedTo(a)) <= MaxDevices + Cardinality(Registrars) - 1

(* Under antifraud a linked device stays with its account, whatever else is in
   flight between the lookup and the update.                                  *)
LinkedDeviceStays ==
  [][antifraud => \A n \in Rows \cap Rows' : nodes'[n].account = nodes[n].account]_vars

\* RegisterNode's first promise, and its second: a device is a node with a
\* device_id.
OneRowPerDevice ==
  \A m, n \in Rows :
    nodes[m].device = nodes[n].device /\ nodes[m].device # NoDevice => m = n
DeviceLimitKept == \A a \in Accounts : Cardinality(LinkedTo(a)) <= MaxDevices

(* node_service.go promises, for RegisterNode under antifraud: "there is at most
   one row in nodes per device_id", and of those "at most maxDevicesPerAccount
   per account".                                                              *)
AntifraudPromises == antifraud => OneRowPerDevice /\ DeviceLimitKept
=============================================================================
