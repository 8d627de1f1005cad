-------------------------- MODULE MeshDispatcher --------------------------
(***************************************************************************)
(* relay-node/mesh/dispatcher.go: one goroutine per TCP stream, a session  *)
(* table keyed by WireGuard pubkey under d.mu, and a write lock per        *)
(* session under which a forwarder writes a frame in two pieces.           *)
(*                                                                         *)
(* A stream is one TCP connection (a member of Conns, used once; a client  *)
(* that reconnects uses another).  What the remote end does -- send a      *)
(* frame, stall, hang up -- is a nondeterministic choice.  A datagram is   *)
(* its destination pubkey and an id; the bytes on a stream are the pieces  *)
(* the dispatcher writes: a header, a body, or the torn part of a write    *)
(* that failed.  Whether a HELLO is accepted is decided by authenticate(), *)
(* which is a choice here.  A definition named Faulty... is a plausible    *)
(* bug: no specification uses it, it shows that a property can fail.       *)
(***************************************************************************)
EXTENDS Integers, Sequences, SequencesExt

CONSTANTS
  Pubkeys,        \* WireGuard public keys
  Conns,          \* TCP streams
  MaxSessions,    \* maxSessionsPerPubkey
  MaxDatagrams,   \* bound: datagrams read over a behaviour
  NoKey, NoConn, NoDatagram

ASSUME CapAssumption == MaxSessions \in Nat \ {0}
ASSUME BoundAssumption == MaxDatagrams \in Nat
ASSUME NullAssumption ==
  NoKey \notin Pubkeys /\ NoConn \notin Conns

VARIABLES
  cancelled,  \* ctx is done
  pc,         \* where the goroutine of each stream is
  key,        \* session.pubkey
  closed,     \* streams on which the dispatcher called conn.Close
  sessions,   \* d.sessions: the streams of each pubkey, oldest first
  rr,         \* d.rr
  writeMu,    \* the stream whose goroutine holds session.writeMu
  dgram,      \* the datagram a goroutine is forwarding
  target,     \* the session it picked for it
  wire,       \* the pieces written to each stream
  sent        \* datagrams read so far

table   == <<key, closed, sessions>>
forward == <<rr, dgram, target>>
output  == <<writeMu, wire>>
bounds  == <<cancelled, sent>>
vars    == <<pc, table, forward, output, bounds>>

Datagram == [from : Conns, dst : Pubkeys, id : 1..MaxDatagrams]

\* Faults: the frame is forwarded verbatim; the prefix is not a pubkey.
FaultyHeader(src, d)    == [part |-> "hdr", src |-> d.dst, d |-> d]
UnmappedHeader(src, d)  == [part |-> "hdr", src |-> d.from, d |-> d]

Header(src, d) == [part |-> "hdr", src |-> src, d |-> d]
Body(d)        == [part |-> "body", d |-> d]
Torn           == [part |-> "torn"]

Piece == [part : {"hdr"}, src : Pubkeys, d : Datagram]
           \cup [part : {"body"}, d : Datagram] \cup {Torn}

Labels == {"new", "hello", "register", "loop", "read", "pick", "lock", "hdr",
           "body", "unregister", "close", "done"}

InTable(c) == \E p \in Pubkeys : c \in ToSet(sessions[p])

Goto(c, l) == pc' = [pc EXCEPT ![c] = l]

\* A step of the goroutine that changes nothing else.
Move(c, from, to) ==
  /\ pc[c] = from
  /\ Goto(c, to)
  /\ UNCHANGED <<table, forward, output, bounds>>

Init ==
  /\ cancelled = FALSE
  /\ pc = [c \in Conns |-> "new"]
  /\ key = [c \in Conns |-> NoKey]
  /\ closed = {}
  /\ sessions = [p \in Pubkeys |-> <<>>]
  /\ rr = 0
  /\ writeMu = [c \in Conns |-> NoConn]
  /\ dgram = [c \in Conns |-> NoDatagram]
  /\ target = [c \in Conns |-> NoConn]
  /\ wire = [c \in Conns |-> <<>>]
  /\ sent = 0

-----------------------------------------------------------------------------
(* The listener.                                                           *)

Cancel ==
  /\ ~cancelled
  /\ cancelled' = TRUE
  /\ UNCHANGED <<pc, sent, table, forward, output>>

\* A connection accepted after ctx is done and before the listener is closed is
\* like one accepted just before Cancel: accepting does not look at ctx.
Accept(c) == ~cancelled /\ Move(c, "new", "hello")

-----------------------------------------------------------------------------
(* HELLO.                                                                  *)

HelloAccepted(c, p) ==
  /\ pc[c] = "hello"
  /\ key' = [key EXCEPT ![c] = p]
  /\ Goto(c, "register")
  /\ UNCHANGED <<closed, sessions, forward, output, bounds>>

\* The 10 s read deadline, a read error, another frame type, or a HELLO that
\* authenticate rejects: no session was registered, the connection is closed.
HelloRejected(c) == Move(c, "hello", "close")

\* Faults: the evicted stream is not closed; the newest is dropped instead.
FaultyEvicted(list) == {}
FaultyKept(list) ==
  IF Len(list) >= MaxSessions THEN SubSeq(list, 1, Len(list) - 1) ELSE list

Evicted(list) == IF Len(list) >= MaxSessions THEN {Head(list)} ELSE {}
Kept(list)    == IF Len(list) >= MaxSessions THEN Tail(list) ELSE list

Register(c) ==
  LET list == sessions[key[c]] IN
  /\ pc[c] = "register"
  /\ closed' = closed \cup Evicted(list)
  /\ sessions' = [sessions EXCEPT ![key[c]] = Append(Kept(list), c)]
  /\ Goto(c, "loop")
  /\ UNCHANGED <<key, forward, output, bounds>>

-----------------------------------------------------------------------------
(* The read loop.                                                          *)

CheckContext(c) ==
  Move(c, "loop", IF cancelled THEN "unregister" ELSE "read")

ReadDatagram(c, dst) ==
  /\ pc[c] = "read"
  /\ c \notin closed
  /\ sent < MaxDatagrams
  /\ sent' = sent + 1
  /\ dgram' = [dgram EXCEPT ![c] = [from |-> c, dst |-> dst, id |-> sent + 1]]
  /\ Goto(c, "pick")
  /\ UNCHANGED <<cancelled, rr, target, table, output>>

\* A frame of another type, or a DATAGRAM too short to hold a pubkey and a byte.
ReadIgnored(c) == c \notin closed /\ Move(c, "read", "loop")

\* Fault: a read error is treated like an ignored frame.
FaultyReadError(c) == Move(c, "read", "loop")

\* The remote end hung up, the frame length is zero, or the connection was
\* closed by an eviction or by a forwarder whose write failed.
ReadError(c) == Move(c, "read", "unregister")

-----------------------------------------------------------------------------
(* forward.                                                                *)

\* The cursor moves before it is used, and only when the peer has a session.
Chosen(list, cursor) == list[(cursor % Len(list)) + 1]

PickTarget(c) ==
  LET list == sessions[dgram[c].dst] IN
  /\ pc[c] = "pick"
  /\ list # <<>>
  /\ rr' = rr + 1
  /\ target' = [target EXCEPT ![c] = Chosen(list, rr + 1)]
  /\ Goto(c, "lock")
  /\ UNCHANGED <<dgram, table, output, bounds>>

\* forward returns: the goroutine is back in its loop and holds nothing.
Return(c) ==
  /\ dgram' = [dgram EXCEPT ![c] = NoDatagram]
  /\ target' = [target EXCEPT ![c] = NoConn]
  /\ Goto(c, "loop")

PeerOffline(c) ==
  /\ pc[c] = "pick"
  /\ sessions[dgram[c].dst] = <<>>
  /\ Return(c)
  /\ UNCHANGED <<rr, table, output, bounds>>

\* Fault: the frame is written without taking the session's write lock.
FaultyLockTarget(c) ==
  /\ pc[c] = "lock"
  /\ writeMu' = [writeMu EXCEPT ![target[c]] = c]
  /\ Goto(c, "hdr")
  /\ UNCHANGED <<wire, table, forward, bounds>>

LockTarget(c) ==
  /\ pc[c] = "lock"
  /\ writeMu[target[c]] = NoConn
  /\ writeMu' = [writeMu EXCEPT ![target[c]] = c]
  /\ Goto(c, "hdr")
  /\ UNCHANGED <<wire, table, forward, bounds>>

Unlock(c) == writeMu' = [writeMu EXCEPT ![target[c]] = NoConn]

Written(t, piece) == wire' = [wire EXCEPT ![t] = Append(@, piece)]

WriteHeader(c) ==
  /\ pc[c] = "hdr"
  /\ target[c] \notin closed
  /\ Written(target[c], Header(key[c], dgram[c]))
  /\ Goto(c, "body")
  /\ UNCHANGED <<writeMu, table, forward, bounds>>

WriteBody(c) ==
  /\ pc[c] = "body"
  /\ target[c] \notin closed
  /\ Written(target[c], Body(dgram[c]))
  /\ Unlock(c)
  /\ Return(c)
  /\ UNCHANGED <<rr, table, bounds>>

\* Fault: no write deadline, so only a closed connection ends a write.
FaultyWriteFails(c) ==
  /\ pc[c] \in {"hdr", "body"}
  /\ target[c] \in closed
  /\ Unlock(c)
  /\ Return(c)
  /\ UNCHANGED <<rr, wire, table, bounds>>

\* Either write fails: the connection is closed, or the 5 s write deadline
\* expires with part of the piece sent, or the remote end reset it.
WriteFails(c) ==
  /\ pc[c] \in {"hdr", "body"}
  /\ \/ UNCHANGED wire
     \/ target[c] \notin closed /\ Written(target[c], Torn)
  /\ closed' = closed \cup {target[c]}
  /\ Unlock(c)
  /\ Return(c)
  /\ UNCHANGED <<key, sessions, rr, bounds>>

-----------------------------------------------------------------------------
(* The deferred calls: unregister, then Close.                             *)

\* Fault: the oldest stream of the pubkey is removed, whichever ended.
FaultyWithout(list, c) == IF list = <<>> THEN list ELSE Tail(list)

Without(list, c) ==
  IF \E i \in 1..Len(list) : list[i] = c
  THEN RemoveAt(list, CHOOSE i \in 1..Len(list) : list[i] = c)
  ELSE list

Unregister(c) ==
  /\ pc[c] = "unregister"
  /\ sessions' = [sessions EXCEPT ![key[c]] = Without(@, c)]
  /\ Goto(c, "close")
  /\ UNCHANGED <<key, closed, forward, output, bounds>>

CloseConn(c) ==
  /\ pc[c] = "close"
  /\ closed' = closed \cup {c}
  /\ Goto(c, "done")
  /\ UNCHANGED <<key, sessions, forward, output, bounds>>

\* Every goroutine has returned and the listener accepts no more: the program
\* may stop here, and only here.
Stopped ==
  /\ cancelled
  /\ \A c \in Conns : pc[c] \in {"new", "done"}
  /\ UNCHANGED vars

-----------------------------------------------------------------------------

Handler(c) ==
  \/ Accept(c) \/ HelloRejected(c) \/ Register(c)
  \/ \E p \in Pubkeys : HelloAccepted(c, p) \/ ReadDatagram(c, p)
  \/ CheckContext(c) \/ ReadIgnored(c) \/ ReadError(c)
  \/ PickTarget(c) \/ PeerOffline(c) \/ LockTarget(c)
  \/ WriteHeader(c) \/ WriteBody(c) \/ WriteFails(c)
  \/ Unregister(c) \/ CloseConn(c)

Next == Cancel \/ Stopped \/ \E c \in Conns : Handler(c)

Spec == Init /\ [][Next]_vars

\* What the runtime and the deadlines guarantee, and nothing of the remote end:
\* HELLO and each write end by their deadline, a read ends once the connection
\* is closed, a goroutine that can run does, and sync.Mutex starves nobody.
Fairness ==
  \A c \in Conns :
    /\ WF_vars(HelloRejected(c)) /\ WF_vars(Register(c))
    /\ WF_vars(CheckContext(c)) /\ WF_vars(c \in closed /\ ReadError(c))
    /\ WF_vars(PickTarget(c)) /\ WF_vars(PeerOffline(c))
    /\ SF_vars(LockTarget(c)) /\ WF_vars(WriteFails(c))
    /\ WF_vars(Unregister(c)) /\ WF_vars(CloseConn(c))

FairSpec == Spec /\ Fairness

-----------------------------------------------------------------------------

InForward == {"pick", "lock", "hdr", "body"}
Registered == {"loop", "read", "unregister"} \cup InForward

(* Types, and what a goroutine holds at each point of handleConn and forward. *)
TypeOK ==
  /\ cancelled \in BOOLEAN
  /\ pc \in [Conns -> Labels]
  /\ key \in [Conns -> Pubkeys \cup {NoKey}]
  /\ closed \in SUBSET Conns
  /\ sessions \in [Pubkeys -> Seq(Conns)]
  /\ rr \in Nat
  /\ writeMu \in [Conns -> Conns \cup {NoConn}]
  /\ dgram \in [Conns -> Datagram \cup {NoDatagram}]
  /\ target \in [Conns -> Conns \cup {NoConn}]
  /\ wire \in [Conns -> Seq(Piece)]
  /\ sent \in 0..MaxDatagrams
  /\ \A c \in Conns :
       /\ pc[c] \in Registered \cup {"register"} => key[c] \in Pubkeys
       /\ pc[c] \in InForward => dgram[c] \in Datagram
       /\ pc[c] \in InForward \ {"pick"} => target[c] \in Conns

(* The session table of d.mu: no pubkey exceeds the cap, no stream is listed
   twice or under a pubkey it did not announce, and every listed stream has a
   live goroutine whose deferred unregister will take it out again.          *)
SessionTableSound ==
  \A p \in Pubkeys :
    /\ Len(sessions[p]) <= MaxSessions
    /\ IsInjective(sessions[p])
    /\ \A c \in ToSet(sessions[p]) : key[c] = p /\ pc[c] \in Registered

(* A session that is past register and whose connection the dispatcher has not
   closed can be picked by forward: an eviction, an unregister or a failed
   write of another goroutine never hides a live stream.                     *)
LiveSessionsRoutable ==
  \A c \in Conns :
    pc[c] \in Registered \ {"unregister"} /\ c \notin closed
      => c \in ToSet(sessions[key[c]])

WriterOf(t) == {c \in Conns : pc[c] \in {"hdr", "body"} /\ target[c] = t}

(* What a peer reads: every body directly follows the header of the same
   datagram, labelled with the sender's pubkey; an unfinished frame is the
   last thing on a closed stream or belongs to the one writer inside forward. *)
FramesWhole ==
  \A t \in Conns :
    LET s == wire[t] IN
    /\ \A i \in 1..Len(s) : s[i].part = "body" =>
         i > 1 /\ s[i - 1] = Header(key[s[i].d.from], s[i].d)
    /\ \A i \in 1..Len(s) : s[i].part = "hdr" =>
         \/ i < Len(s) /\ s[i + 1].part \in {"body", "torn"}
         \/ i = Len(s) /\ (t \in closed \/ \E c \in WriterOf(t) :
                               pc[c] = "body" /\ dgram[c] = s[i].d)
    /\ \A i \in 1..Len(s) : s[i].part = "torn" => i = Len(s) /\ t \in closed

(* A stream leaves the table by its own unregister, or by an eviction that
   closes it in the same critical section.                                   *)
RemovalClosesOrEnds ==
  [][\A c \in Conns : InTable(c) /\ ~InTable(c)' =>
       pc[c] = "unregister" \/ c \in closed']_vars

(* Refinement: seen from the peers, the two-piece writes under writeMu are
   whole frames delivered at most once, to a stream of the destination.      *)
FramesOn(s) ==
  {[src |-> s[i - 1].src, d |-> s[i].d] :
     i \in {j \in 2..Len(s) : s[j].part = "body"}}

Delivery == INSTANCE MeshDelivery WITH
  owner     <- key,
  accepted  <- {dgram[c] : c \in {x \in Conns : pc[x] \in InForward}},
  delivered <- [c \in Conns |-> FramesOn(wire[c])]

DeliversFrames == Delivery!Spec

(* A stream that was closed -- evicted, or broken by a writer -- leaves the
   table, although only its own goroutine removes it and that goroutine may be
   blocked writing to another stream.                                        *)
ClosedStreamsLeave ==
  \A c \in Conns : (c \in closed /\ InTable(c)) ~> ~InTable(c)

(* No forward blocks for ever behind a peer that does not read: every write
   ends by its deadline and every waiter gets writeMu.                       *)
ForwardReturns == \A c \in Conns : (pc[c] = "pick") ~> (pc[c] = "loop")
=============================================================================
