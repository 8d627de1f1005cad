------------------------------ MODULE UdpRelay ------------------------------
(***************************************************************************)
(* The UDP relay: one loop receives datagrams into one buffer and starts a *)
(* goroutine for each, which reads the destination and then the payload    *)
(* from that buffer while the loop may be receiving the next datagram into *)
(* it, and enters the pair of addresses in the session table.              *)
(*                                                                         *)
(*   relay-node/relay/forwarder.go   ListenAndServe, handlePacket          *)
(*   relay-node/relay/session.go     SessionTable                          *)
(*                                                                         *)
(* Datagrams are numbered in the order they arrive in; those shorter than  *)
(* seven bytes change nothing and are left out.  Time passes in periods of *)
(* the cleanup (30 s), within which a goroutine ends.                      *)
(***************************************************************************)
EXTENDS Integers, Sequences, FiniteSets

CONSTANTS
  Sources,          \* addresses datagrams come from
  Hosts, Ports,     \* of the destinations in their headers
  Targets,          \* the destinations peers really name
  Slots,            \* goroutines at once
  SessionCapacity,  \* of the session table
  StaleAfter,       \* periods until a session is stale
  MaxDatagrams      \* bound: datagrams that arrive

Address == [host : Hosts, port : Ports]

ASSUME UdpAssumption ==
  /\ Sources # {} /\ Address # {} /\ Targets \subseteq Address
  /\ SessionCapacity \in Nat /\ StaleAfter \in Nat /\ MaxDatagrams \in Nat

VARIABLES
  loop,             \* ListenAndServe: "reading", "copying", "closed"
  stopping,         \* ctx is cancelled
  header,           \* the destination in each datagram that has arrived
  buf, incoming,    \* the datagram the buffer holds, the one being copied in
  slot,             \* the goroutines
  sessions,         \* the table: periods since LastSeen, or NoSession
  cleanup           \* the cleanup of this period is still to run

udpVars == <<loop, stopping, header, buf, incoming, slot, sessions, cleanup>>

------------------------------------------------------------------------------
NoDatagram == 0
NoSession == -1
Keys == Sources \X Address

\* A goroutine that has ended keeps what it sent until its slot is used again.
NewSlot(n, src) ==
  [at |-> "parse", own |-> n, src |-> src, dst |-> CHOOSE a \in Address : TRUE,
   sent |-> {}]
EndedSlot == [NewSlot(NoDatagram, CHOOSE s \in Sources : TRUE) EXCEPT !.at = "ended"]

UdpInit ==
  /\ loop = "reading" /\ stopping = FALSE
  /\ header = << >>
  /\ buf = NoDatagram /\ incoming = NoDatagram
  /\ slot = [g \in Slots |-> EndedSlot]
  /\ sessions = [k \in Keys |-> NoSession]
  /\ cleanup = FALSE

------------------------------------------------------------------------------
\* ListenAndServe.

\* A datagram for dst arrives while the loop is in ReadFromUDP: its bytes begin
\* to replace what the buffer holds.
Arrive(dst) ==
  /\ loop = "reading" /\ Len(header) < MaxDatagrams
  /\ loop' = "copying"
  /\ header' = Append(header, dst) /\ incoming' = Len(header) + 1
  /\ UNCHANGED <<stopping, buf, slot, sessions, cleanup>>

\* ReadFromUDP returns, and a goroutine is started on the buffer itself.
Spawn(g, src) ==
  /\ loop = "copying" /\ slot[g].at = "ended"
  /\ loop' = "reading"
  /\ buf' = incoming /\ incoming' = NoDatagram
  /\ slot' = [slot EXCEPT ![g] = NewSlot(incoming, src)]
  /\ UNCHANGED <<stopping, header, sessions, cleanup>>

Cancel ==
  /\ ~stopping /\ stopping' = TRUE
  /\ UNCHANGED <<loop, header, buf, incoming, slot, sessions, cleanup>>

\* The next turn of the loop, at the latest when the read deadline of five
\* seconds ends ReadFromUDP, sees ctx and closes the socket.
Close ==
  /\ stopping /\ loop = "reading" /\ loop' = "closed"
  /\ UNCHANGED <<stopping, header, buf, incoming, slot, sessions, cleanup>>

------------------------------------------------------------------------------
\* handlePacket.

\* The datagrams whose bytes a read of the buffer can return.
Visible == {buf, incoming} \ {NoDatagram}

\* The six bytes of the header are read one after the other.
Destination ==
  [host : {header[n].host : n \in Visible}, port : {header[n].port : n \in Visible}]

Parse(g) ==
  /\ slot[g].at = "parse"
  /\ \E dst \in Destination :
       slot' = [slot EXCEPT ![g].dst = dst, ![g].at = "lookup"]
  /\ UNCHANGED <<loop, stopping, header, buf, incoming, sessions, cleanup>>

Key(g) == <<slot[g].src, slot[g].dst>>
InTable(k) == sessions[k] # NoSession
Count == Cardinality({k \in Keys : InTable(k)})

\* Fault: LastSeen is set only when the session is created.
FaultySeen(k) == IF InTable(k) THEN sessions ELSE [sessions EXCEPT ![k] = 0]

\* LastSeen = time.Now()
Seen(k) == [sessions EXCEPT ![k] = 0]

\* GetOrCreate under the read lock.
Lookup(g) ==
  /\ slot[g].at = "lookup"
  /\ \/ /\ InTable(Key(g))
        /\ sessions' = Seen(Key(g))
        /\ slot' = [slot EXCEPT ![g].at = "send"]
     \/ /\ ~InTable(Key(g))
        /\ slot' = [slot EXCEPT ![g].at = "create"]
        /\ UNCHANGED sessions
  /\ UNCHANGED <<loop, stopping, header, buf, incoming, cleanup>>

Full == Count >= SessionCapacity

\* GetOrCreate under the write lock: another goroutine may have created the
\* session in between, or taken the last place.
Create(g) ==
  /\ slot[g].at = "create"
  /\ \/ /\ InTable(Key(g)) \/ ~Full
        /\ sessions' = Seen(Key(g))
        /\ slot' = [slot EXCEPT ![g].at = "send"]
     \/ /\ ~InTable(Key(g)) /\ Full
        /\ slot' = [slot EXCEPT ![g].at = "ended"]
        /\ UNCHANGED sessions
  /\ UNCHANGED <<loop, stopping, header, buf, incoming, cleanup>>

\* WriteToUDP copies the payload out of the buffer, whatever it holds by then;
\* on a closed socket it fails.
Send(g) ==
  /\ slot[g].at = "send"
  /\ \E parts \in SUBSET Visible :
       /\ parts = {} <=> loop = "closed"
       /\ slot' = [slot EXCEPT ![g].at = "ended", ![g].sent = parts]
  /\ UNCHANGED <<loop, stopping, header, buf, incoming, sessions, cleanup>>

------------------------------------------------------------------------------
\* The cleanup goroutine.

Stale(k) == sessions[k] > StaleAfter

CleanStale ==
  /\ cleanup /\ cleanup' = FALSE
  /\ sessions' = [k \in Keys |-> IF Stale(k) THEN NoSession ELSE sessions[k]]
  /\ UNCHANGED <<loop, stopping, header, buf, incoming, slot>>

CleanupStops ==
  /\ stopping /\ cleanup /\ cleanup' = FALSE
  /\ UNCHANGED <<loop, stopping, header, buf, incoming, slot, sessions>>

Period ==
  /\ ~cleanup /\ ~stopping /\ cleanup' = TRUE
  /\ \A g \in Slots : slot[g].at = "ended"
  /\ sessions' = [k \in Keys |-> IF InTable(k) THEN sessions[k] + 1 ELSE NoSession]
  /\ UNCHANGED <<loop, stopping, header, buf, incoming, slot>>

------------------------------------------------------------------------------
Forwarding(g) == Parse(g) \/ Lookup(g) \/ Create(g) \/ Send(g)

UdpNext ==
  \/ \E dst \in Targets : Arrive(dst)
  \/ \E g \in Slots, src \in Sources : Spawn(g, src)
  \/ Cancel \/ Close
  \/ \E g \in Slots : Forwarding(g)
  \/ CleanStale \/ CleanupStops \/ Period

UdpSpec == UdpInit /\ [][UdpNext]_udpVars

------------------------------------------------------------------------------
(* Type invariant.                                                           *)
UdpTypeOK ==
  /\ loop \in {"reading", "copying", "closed"}
  /\ stopping \in BOOLEAN /\ cleanup \in BOOLEAN
  /\ header \in Seq(Targets) /\ Len(header) <= MaxDatagrams
  /\ buf \in 0..Len(header) /\ incoming \in 0..Len(header)
  /\ loop = "copying" <=> incoming # NoDatagram
  /\ sessions \in [Keys -> {NoSession} \cup 0..(StaleAfter + 1)]
  /\ slot \in [Slots ->
       [at : {"parse", "lookup", "create", "send", "ended"}, own : 0..Len(header),
        src : Sources, dst : Address, sent : SUBSET (1..Len(header))]]

(* session.go: however goroutines and the cleanup, every 30 seconds with a limit
   of two minutes, meet in the table, it never holds more sessions than its
   capacity, the session of a datagram stays while it is being forwarded, and
   one that nobody uses is gone a period after it became stale.              *)
SessionsSound ==
  /\ Count <= SessionCapacity
  /\ \A g \in Slots : slot[g].at = "send" => InTable(Key(g))
  /\ ~stopping /\ ~cleanup => \A k \in Keys : sessions[k] <= StaleAfter

(* forwarder.go: "first 6 bytes of the payload contain the destination", "the
   rest is the encrypted WireGuard packet": each datagram is forwarded to the
   destination in its own header, and nothing but its own payload.           *)
ForwardsOwnPacket ==
  \A g \in Slots : LET s == slot[g] IN s.at = "ended" /\ s.sent # {} =>
    s.sent = {s.own} /\ s.dst = header[s.own]
=============================================================================
