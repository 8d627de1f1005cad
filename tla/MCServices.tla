----------------------------- MODULE MCServices -----------------------------
(***************************************************************************)
(* The components beside the mesh and the node tables, checked in one run. *)
(* They have no state in common, so that every behaviour of the run is one *)
(* component's, chosen at the start, while the others stand still in an    *)
(* initial state.                                                          *)
(***************************************************************************)
EXTENDS RelayRegistry, AccountProvisioning, MCUdpRelay, TcpRelay, ExitNode

VARIABLE part       \* the component that runs

Parts == {"relays", "accounts", "udp", "tcp", "exit"}

Capacities == [r \in Relays |-> 1]

Init ==
  /\ part \in Parts
  /\ RelayInit /\ AccountInit /\ UdpInit /\ TcpInit /\ ExitInit
  /\ cpKey \in {NoKey, CHOOSE k \in MeshKeys : TRUE}     \* keys are alike
  /\ part # "relays" => cpKey = NoKey /\ \A r \in Relays : row[r].age = NoRow
  /\ part # "accounts" => \A c \in Clients : client[c].email = CHOOSE e \in Emails : TRUE

\* A step of component p, whose variables are not among others.
Step(p, Action, others) == part = p /\ Action /\ UNCHANGED <<part, others>>

Next ==
  \/ Step("relays", RelayNext, <<accountVars, udpVars, tcpVars, exitVars>>)
  \/ Step("accounts", AccountNext, <<relayVars, udpVars, tcpVars, exitVars>>)
  \/ Step("udp", UdpNext, <<relayVars, accountVars, tcpVars, exitVars>>)
  \/ Step("tcp", TcpNext, <<relayVars, accountVars, udpVars, exitVars>>)
  \/ Step("exit", ExitNext, <<relayVars, accountVars, udpVars, tcpVars>>)

\* The fairness each component states is required of the one that runs.
Fairness ==
  /\ WF_relayVars(part = "relays" /\ \E h \in Handlers : Handle(h))
  /\ WF_relayVars(part = "relays" /\ \E r \in Relays : Register(r))
  /\ WF_relayVars(part = "relays" /\ \E d \in Devices : Dial(d))
  /\ SF_relayVars(part = "relays" /\ Minute)
  /\ \A c \in Clients : WF_accountVars(part = "accounts" /\ Progress(c))
  /\ WF_tcpVars(part = "tcp" /\ Copying)
  /\ WF_exitVars(part = "exit" /\ Working)

(* The components' type invariants.                                          *)
ServicesTypeOK == RelayTypeOK /\ AccountTypeOK /\ UdpTypeOK /\ TcpTypeOK /\ ExitTypeOK

(* What was stored once is not changed by a request that overlapped the one that
   stored it: a relay's credentials, and an account's link to its user.      *)
StoredStays == CredentialsStable /\ LinkStable

(* A relay struck off the allowlist is no longer offered to devices in the end. *)
StruckOffUnlisted == part = "relays" => StruckOffLeaves

(* A TCP connection ends, with both its goroutines.                          *)
TcpConnectionsEnd == part = "tcp" => ConnectionsEnd

(* Clients that keep trying to register end with a linked account.           *)
ClientsEndLinked == part = "accounts" => RetriesEndLinked

(* An exit node that is down, and has a token, comes to serve again.         *)
ExitNodeServes == part = "exit" => RestartsServe

Spec ==
  /\ Init
  /\ [][Next]_<<part, relayVars, accountVars, udpVars, tcpVars, exitVars>>
  /\ Fairness
=============================================================================
