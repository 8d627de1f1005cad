--------------------------- MODULE RelayRegistry ---------------------------
(***************************************************************************)
(* Relays announce themselves to the control plane, which keeps one row    *)
(* with credentials per relay, tells them the key mesh tokens are checked  *)
(* with, and hands devices the best relay with a token minted for them.    *)
(*                                                                         *)
(*   relay-node/registration/register.go     the beat and the relay's key  *)
(*   control-plane/handler/node.go           RegisterRelay                 *)
(*   control-plane/db/metrics_repo.go        relay_servers                 *)
(*   control-plane/service/route_service.go  endpoints and mesh tokens     *)
(*   relay-node/mesh/dispatcher.go           the check of a hello          *)
(*                                                                         *)
(* Time passes in minutes.  A request is answered, or fails, within the    *)
(* minute it is made in.  A handler goes on when the relay that asked has  *)
(* restarted, so two of them can work on one row.                          *)
(***************************************************************************)
EXTENDS Integers, FiniteSets

CONSTANTS
  Relays, NoRelay,  \* the (address, port) pairs relays announce
  Capacity,         \* [Relays -> Nat]: what they declare, cut to the maximum
  Handlers,         \* RegisterRelay requests in progress at once
  NoHandler,
  Devices,          \* nodes that dial relays
  MeshKeys, NoKey,  \* values of the control plane's MESH_AUTH_KEY, and none
  Beat,             \* minutes between registrations of a relay
  Fresh,            \* minutes a row stays visible after a registration
  MaxPairs,         \* bound: credentials generated
  MaxRekeys,        \* bound: new key pairs of a device
  MaxRestarts,      \* bound: restarts of relays
  MaxRotations      \* bound: restarts of the control plane

ASSUME RelayAssumption ==
  /\ Capacity \in [Relays -> Nat]
  /\ NoRelay \notin Relays /\ NoHandler \notin Handlers /\ NoKey \notin MeshKeys
  /\ Beat \in Nat \ {0} /\ Fresh \in Nat /\ 2 * Beat < Fresh
  /\ {MaxPairs, MaxRekeys, MaxRestarts, MaxRotations} \subseteq Nat

VARIABLES
  row,              \* relay_servers: credentials, and minutes since last_seen
  pairs,            \* credentials generated so far
  handler,          \* the requests being handled
  cpKey,            \* MESH_AUTH_KEY of the running control plane
  rotated,          \* minutes since it was started, up to Beat
  allowed,          \* the addresses in the allowlist file
  relay,            \* the relays' registrars
  device,           \* a device's key pair, and the endpoint it is to dial
  restarts, rotations

relayVars == <<row, pairs, handler, cpKey, rotated, allowed, relay, device,
               restarts, rotations>>

------------------------------------------------------------------------------
\* Credentials of generation 0 are the empty columns of a row from before
\* migration 007; an age of NoRow is an address without a row.
NoRow == -1
NoCreds == [uuid |-> 0, priv |-> 0, pub |-> 0]
NoToken == [pub |-> 0, key |-> NoKey]
FreeHandler == [at |-> "free", for |-> NoRelay, creds |-> NoCreds]

\* A registrar that has just been started: its first registration is due, and
\* it has missed all there could have been.
Started == [at |-> "waiting", by |-> NoHandler, due |-> 0, key |-> NoKey, missed |-> 2]

RelayInit ==
  /\ row \in [Relays -> {[creds |-> NoCreds, age |-> a] : a \in {NoRow, Fresh}}]
  /\ pairs = 0
  /\ handler = [h \in Handlers |-> FreeHandler]
  /\ cpKey \in MeshKeys \cup {NoKey}
  /\ rotated = Beat
  /\ allowed = Relays
  /\ relay = [r \in Relays |-> Started]
  /\ device = [d \in Devices |->
                 [pub |-> 1, token |-> NoToken, relay |-> NoRelay]]
  /\ restarts = 0 /\ rotations = 0

------------------------------------------------------------------------------
\* The relay's registrar.

More(n, most) == IF n < most THEN n + 1 ELSE most

\* Fault: the registrar keeps waiting for its handler.
FaultyMissed(s) == [s EXCEPT !.missed = More(@, 2)]

\* A registration that failed, for whatever reason, changes nothing but the
\* time of the next one: the key stays what it was.
Missed(s) == [s EXCEPT !.at = "waiting", !.by = NoHandler, !.missed = More(@, 2)]

\* Fault: a key that was set is never set again.
FaultyAnswered(s, key) ==
  [s EXCEPT !.at = "waiting", !.by = NoHandler, !.missed = 0,
            !.key = IF @ = NoKey THEN key ELSE @]

Answered(s, key) ==
  [s EXCEPT !.at = "waiting", !.by = NoHandler, !.missed = 0, !.key = key]

Due(r) == relay[r].at = "waiting" /\ relay[r].due = 0

\* Fault: the allowlist of the start is used.
FaultyAllowed(r) == r \in Relays

\* checkRelayAllowed: the file is read at every registration.
Allowed(r) == r \in allowed

Ask(r, h) ==
  /\ Due(r) /\ handler[h].at = "free" /\ Allowed(r)
  /\ relay' = [relay EXCEPT ![r].at = "asking", ![r].by = h, ![r].due = Beat]
  /\ handler' = [handler EXCEPT ![h] = [FreeHandler EXCEPT !.at = "read", !.for = r]]
  /\ UNCHANGED <<row, pairs, cpKey, rotated, allowed, device, restarts, rotations>>

\* The control plane is out of reach, or answers 403.
AskFails(r) ==
  /\ Due(r)
  /\ relay' = [relay EXCEPT ![r] = [Missed(@) EXCEPT !.due = Beat]]
  /\ UNCHANGED <<row, pairs, handler, cpKey, rotated, allowed, device, restarts,
                 rotations>>

\* The process is killed and started again: its key is gone, and nobody waits
\* for the answer to its request any more.
RelayRestart(r) ==
  /\ restarts < MaxRestarts
  /\ relay' = [relay EXCEPT ![r] = Started]
  /\ restarts' = restarts + 1
  /\ UNCHANGED <<row, pairs, handler, cpKey, rotated, allowed, device, rotations>>

------------------------------------------------------------------------------
\* UpsertWithCredentials, a statement at a time.

Complete(creds) == creds.uuid # 0 /\ creds.priv # 0

FindCredentials(h) ==
  LET creds == row[handler[h].for].creds IN
  /\ handler[h].at = "read" /\ Complete(creds)
  /\ handler' = [handler EXCEPT ![h].at = "refresh", ![h].creds = creds]
  /\ UNCHANGED <<row, pairs, cpKey, rotated, allowed, relay, device, restarts,
                 rotations>>

GenerateCredentials(h) ==
  LET n == pairs + 1 IN
  /\ handler[h].at = "read" /\ ~Complete(row[handler[h].for].creds)
  /\ pairs < MaxPairs /\ pairs' = n
  /\ handler' = [handler EXCEPT ![h].at = "insert",
                                ![h].creds = [uuid |-> n, priv |-> n, pub |-> n]]
  /\ UNCHANGED <<row, cpKey, rotated, allowed, relay, device, restarts, rotations>>

\* Fault: last_seen is not updated with the rest.
FaultyRefreshed(old) == old

Refreshed(old) == [old EXCEPT !.age = 0]

Refresh(h) ==
  /\ handler[h].at = "refresh"
  /\ row' = [row EXCEPT ![handler[h].for] = Refreshed(@)]
  /\ handler' = [handler EXCEPT ![h].at = "answer"]
  /\ UNCHANGED <<pairs, cpKey, rotated, allowed, relay, device, restarts, rotations>>

\* Fault: one column is overwritten.
FaultyKept(old, new) ==
  [c \in DOMAIN old |-> IF c # "pub" /\ old[c] # 0 THEN old[c] ELSE new[c]]

\* ON CONFLICT DO UPDATE: a column that holds a value keeps it.
Kept(old, new) == [c \in DOMAIN old |-> IF old[c] = 0 THEN new[c] ELSE old[c]]

Insert(h) ==
  /\ handler[h].at = "insert"
  /\ row' = [row EXCEPT ![handler[h].for] =
               [creds |-> Kept(@.creds, handler[h].creds), age |-> 0]]
  /\ handler' = [handler EXCEPT ![h].at = "back"]
  /\ UNCHANGED <<pairs, cpKey, rotated, allowed, relay, device, restarts, rotations>>

\* Fault: the credentials generated are answered, not read back.
FaultyStored(h) == handler[h].creds

\* The credentials as the row holds them by now.
Stored(h) == row[handler[h].for].creds

ReadBack(h) ==
  /\ handler[h].at = "back"
  /\ handler' = [handler EXCEPT ![h].at = "answer", ![h].creds = Stored(h)]
  /\ UNCHANGED <<row, pairs, cpKey, rotated, allowed, relay, device, restarts,
                 rotations>>

\* What becomes of the relays that wait for a handler in H, when it is over.
Over(H, Outcome(_)) ==
  relay' = [r \in Relays |-> IF relay[r].by \in H THEN Outcome(relay[r]) ELSE relay[r]]

\* A statement fails, or the caller is gone and its context with it: 500.
HandlerFails(h) ==
  /\ handler[h].at \in {"read", "refresh", "insert", "back"}
  /\ handler' = [handler EXCEPT ![h] = FreeHandler]
  /\ Over({h}, Missed)
  /\ UNCHANGED <<row, pairs, cpKey, rotated, allowed, device, restarts, rotations>>

Answer(h) ==
  LET Keyed(s) == Answered(s, cpKey) IN
  /\ handler[h].at = "answer"
  /\ handler' = [handler EXCEPT ![h] = FreeHandler]
  /\ Over({h}, Keyed)
  /\ UNCHANGED <<row, pairs, cpKey, rotated, allowed, device, restarts, rotations>>

AnswerLost(h) ==
  /\ handler[h].at = "answer"
  /\ handler' = [handler EXCEPT ![h] = FreeHandler]
  /\ Over({h}, Missed)
  /\ UNCHANGED <<row, pairs, cpKey, rotated, allowed, device, restarts, rotations>>

\* The operator restarts the control plane, perhaps with another key: requests
\* in progress end.
ControlPlaneRestart(key) ==
  /\ rotations < MaxRotations /\ rotations' = rotations + 1
  /\ cpKey' = key /\ rotated' = 0
  /\ handler' = [h \in Handlers |-> FreeHandler]
  /\ Over(Handlers, Missed)
  /\ UNCHANGED <<row, pairs, allowed, device, restarts>>

StrikeOff(r) ==
  /\ allowed' = allowed \ {r} /\ r \in allowed
  /\ UNCHANGED <<row, pairs, handler, cpKey, rotated, relay, device, restarts,
                 rotations>>

------------------------------------------------------------------------------
\* Endpoints and tokens.  A device dials within a minute of asking: the seven
\* days a token is good for are left out.

Dialling(d) == device[d].relay # NoRelay

Listed(r) == row[r].age \in 0..(Fresh - 1) /\ Capacity[r] > 0

\* active_sessions is 0 in every row: the ranking is by capacity alone.
GetBestAvailable ==
  {r \in Relays : Listed(r) /\ \A q \in Relays : Listed(q) => Capacity[q] <= Capacity[r]}

issueMeshToken(pub) ==
  IF cpKey = NoKey THEN NoToken ELSE [pub |-> pub, key |-> cpKey]

Fetch(d, token) ==
  /\ ~Dialling(d)
  /\ \E r \in GetBestAvailable :
       device' = [device EXCEPT ![d].token = token, ![d].relay = r]
  /\ UNCHANGED <<row, pairs, handler, cpKey, rotated, allowed, relay, restarts,
                 rotations>>

\* GET /routes/optimal?from=d: the token is for d's public key.
GetOptimal(d) == Fetch(d, issueMeshToken(device[d].pub))

\* GET /routes/relay: the caller's node comes from its JWT, and no JWT names a
\* node, so that no token is issued; nor is one when the lookup of the node of
\* /routes/optimal fails.
GetRelay(d) == Fetch(d, NoToken)

\* authenticate and verifyMeshToken.
Accepts(key, pub, token) ==
  \/ key = NoKey
  \/ token # NoToken /\ token.key = key /\ token.pub = pub
Admitted(d) == Accepts(relay[device[d].relay].key, device[d].pub, device[d].token)

\* What comes of an accepted hello is MeshDispatcher's business.
Dial(d) ==
  /\ Dialling(d)
  /\ device' = [device EXCEPT ![d].token = NoToken, ![d].relay = NoRelay]
  /\ UNCHANGED <<row, pairs, handler, cpKey, rotated, allowed, relay, restarts,
                 rotations>>

\* A device registers again with a new key pair (NodeRegistry's
\* UpdateReregister); its token is still for the old one.
Rekey(d) ==
  /\ device[d].pub <= MaxRekeys
  /\ device' = [device EXCEPT ![d].pub = @ + 1]
  /\ UNCHANGED <<row, pairs, handler, cpKey, rotated, allowed, relay, restarts,
                 rotations>>

------------------------------------------------------------------------------
\* Nothing that takes less than a minute is left unfinished when one passes.
Pending ==
  \/ \E h \in Handlers : handler[h].at # "free"
  \/ \E r \in Relays : Due(r)
  \/ \E d \in Devices : Dialling(d)

Minute ==
  /\ ~Pending
  /\ row' = [r \in Relays |->
               [row[r] EXCEPT !.age = IF @ = NoRow THEN @ ELSE More(@, Fresh)]]
  /\ rotated' = More(rotated, Beat)
  /\ relay' = [r \in Relays |-> [relay[r] EXCEPT !.due = @ - 1]]
  /\ UNCHANGED <<pairs, handler, cpKey, allowed, device, restarts, rotations>>

Handle(h) ==
  \/ FindCredentials(h) \/ GenerateCredentials(h) \/ Refresh(h) \/ Insert(h)
  \/ ReadBack(h) \/ HandlerFails(h) \/ Answer(h) \/ AnswerLost(h)

Register(r) == (\E h \in Handlers : Ask(r, h)) \/ AskFails(r)

RelayNext ==
  \/ \E r \in Relays : Register(r) \/ RelayRestart(r) \/ StrikeOff(r)
  \/ \E h \in Handlers : Handle(h)
  \/ \E key \in MeshKeys \cup {NoKey} : ControlPlaneRestart(key)
  \/ \E d \in Devices : GetOptimal(d) \/ GetRelay(d) \/ Dial(d) \/ Rekey(d)
  \/ Minute

RelaySpec == RelayInit /\ [][RelayNext]_relayVars

\* Handlers and registrars run on, calls end, and time passes: no lock or
\* queue of theirs can hold a minute up, however often devices call.
RelayFairness ==
  /\ WF_relayVars(\E h \in Handlers : Handle(h))
  /\ WF_relayVars(\E r \in Relays : Register(r))
  /\ WF_relayVars(\E d \in Devices : Dial(d))
  /\ SF_relayVars(Minute)

------------------------------------------------------------------------------
CredsSet == [uuid : 0..MaxPairs, priv : 0..MaxPairs, pub : 0..MaxPairs]
TokenSet == [pub : 0..(MaxRekeys + 1), key : MeshKeys \cup {NoKey}]

(* Type invariant; a relay that asks is the one its handler works for.       *)
RelayTypeOK ==
  /\ row \in [Relays -> [creds : CredsSet, age : {NoRow} \cup 0..Fresh]]
  /\ pairs \in 0..MaxPairs
  /\ handler \in [Handlers ->
       [at : {"free", "read", "refresh", "insert", "back", "answer"},
        for : Relays \cup {NoRelay}, creds : CredsSet]]
  /\ cpKey \in MeshKeys \cup {NoKey}
  /\ rotated \in 0..Beat
  /\ allowed \subseteq Relays
  /\ relay \in [Relays ->
       [at : {"waiting", "asking"}, by : Handlers \cup {NoHandler}, due : 0..Beat,
        key : MeshKeys \cup {NoKey}, missed : 0..2]]
  /\ device \in [Devices ->
       [pub : 1..(MaxRekeys + 1), token : TokenSet, relay : Relays \cup {NoRelay}]]
  /\ restarts \in 0..MaxRestarts /\ rotations \in 0..MaxRotations
  /\ \A r \in Relays : relay[r].at = "asking" =>
       relay[r].by \in Handlers /\ handler[relay[r].by].for = r

(* metrics_repo.go, 007_relay_reality_credentials.sql: the credentials of a
   relay, once generated, never change, whatever registrations overlap: devices
   and relays keep configurations made from them.                            *)
CredentialsStable ==
  [][\A r \in Relays : Complete(row[r].creds) => row'[r].creds = row[r].creds]_relayVars

(* A registration is answered with the row's credentials, all of them from one
   generation, also when another registration of the address stored its own in
   between.                                                                  *)
AnswersStored ==
  \A h \in Handlers : handler[h].at = "answer" =>
    /\ handler[h].creds = row[handler[h].for].creds
    /\ \A c \in DOMAIN NoCreds : handler[h].creds[c] = handler[h].creds.pub

(* A relay that has registered, and has missed no more than one registration
   since, is offered to devices: the five minutes a row is visible bridge one
   beat of two minutes that fails.                                           *)
StaysListed ==
  \A r \in Relays : relay[r].missed <= 1 => row[r].age \in 0..(Fresh - 1)

(* register.go: a rotated mesh key reaches a relay with its next registration. A
   device that dials the endpoint /routes/optimal has just given it is turned
   away only by a relay that missed a registration, in the two minutes after a
   restart of the control plane, or with a key pair registered since.        *)
FreshTokensAdmitted ==
  \A d \in Devices :
    LET r == relay[device[d].relay] IN
    Dialling(d) /\ device[d].token # NoToken /\ ~Admitted(d) =>
      \/ rotated < Beat
      \/ r.missed > 0 \/ r.due = 0 \/ r.at = "asking"
      \/ device[d].token.pub # device[d].pub

(* relay_allowlist.go: an address taken off the file is no longer offered to
   devices, once what it registered before has run out.                      *)
StruckOffLeaves ==
  \A r \in Relays : r \notin allowed ~> ~Listed(r)
=============================================================================
