------------------------------ MODULE TcpRelay ------------------------------
(***************************************************************************)
(* One connection of the TCP fallback: two goroutines, one copying the     *)
(* frames of the client to UDP, the other framing datagrams for the        *)
(* client, that share nothing but the two sockets.                         *)
(*                                                                         *)
(*   relay-node/transport/tcp.go   ListenAndServe, handleConnection        *)
(*                                                                         *)
(* The client's stream is a sequence of numbered chunks, the length and    *)
(* the body of each frame in turn.  A read with a deadline may end without *)
(* data whenever there is none: how long it waits is left open.            *)
(***************************************************************************)
EXTENDS Integers, Sequences

CONSTANTS
  MaxFrames,        \* bound: frames the client sends
  MaxReplies        \* bound: datagrams that come back

ASSUME TcpAssumption == MaxFrames \in Nat /\ MaxReplies \in Nat

VARIABLES
  gone,             \* the client is
  sent, taken,      \* chunks the client has sent, and up has read
  up,               \* the goroutine TCP -> UDP
  frame,            \* the chunks it has read of the frame it is at
  out,              \* the frames it has sent to the destination
  down,             \* handleConnection, which becomes UDP -> TCP
  replies, reply,   \* datagrams that have come back, the one down has read
  written,          \* frames written to the client, whole or cut off
  cancelled         \* ctx

tcpVars == <<gone, sent, taken, up, frame, out, down, replies, reply, written,
             cancelled>>

NoHeader == -1

TcpInit ==
  /\ gone = FALSE /\ sent = NoHeader /\ taken = 0
  /\ up = "none" /\ frame = << >> /\ out = << >>
  /\ down = "header" /\ replies = 0 /\ reply = 0 /\ written = << >>
  /\ cancelled = FALSE

\* Both sockets are closed when handleConnection returns.
SocketsOpen == down # "ended"
Return == down' = "ended"

------------------------------------------------------------------------------
\* The two ends.

SendHeader ==
  /\ ~gone /\ sent = NoHeader /\ sent' = 0
  /\ UNCHANGED <<gone, taken, up, frame, out, down, replies, reply, written, cancelled>>

SendChunk ==
  /\ ~gone /\ sent \in 0..(2 * MaxFrames - 1) /\ sent' = sent + 1
  /\ UNCHANGED <<gone, taken, up, frame, out, down, replies, reply, written, cancelled>>

HangUp ==
  /\ ~gone /\ gone' = TRUE
  /\ UNCHANGED <<sent, taken, up, frame, out, down, replies, reply, written, cancelled>>

Reply ==
  /\ up # "none" /\ replies < MaxReplies /\ replies' = replies + 1
  /\ UNCHANGED <<gone, sent, taken, up, frame, out, down, reply, written, cancelled>>

CancelTcp ==
  /\ ~cancelled /\ cancelled' = TRUE
  /\ UNCHANGED <<gone, sent, taken, up, frame, out, down, replies, reply, written>>

------------------------------------------------------------------------------
\* handleConnection: the header is awaited without a deadline.

ReadHeader ==
  /\ down = "header"
  /\ \/ sent # NoHeader /\ down' = "loop" /\ up' = "loop"
     \/ (sent # NoHeader \/ gone)   \* DialUDP or the read failed
        /\ Return /\ UNCHANGED up
  /\ UNCHANGED <<gone, sent, taken, frame, out, replies, reply, written, cancelled>>

DownLoop ==
  /\ down = "loop"
  /\ IF cancelled THEN Return ELSE down' = "read"
  /\ UNCHANGED <<gone, sent, taken, up, frame, out, replies, reply, written, cancelled>>

\* Fault: at the deadline it goes on.
FaultyReadReply ==
  /\ down = "read"
  /\ \/ \E d \in (reply + 1)..replies : reply' = d /\ down' = "write"
     \/ down' = "loop" /\ UNCHANGED reply
  /\ UNCHANGED <<gone, sent, taken, up, frame, out, replies, written, cancelled>>

\* The datagrams that wait are read in order; the kernel may drop some.  The
\* read fails at its deadline, or with what the last send brought about.
ReadReply ==
  /\ down = "read"
  /\ \/ \E d \in (reply + 1)..replies : reply' = d /\ down' = "write"
     \/ Return /\ UNCHANGED reply
  /\ UNCHANGED <<gone, sent, taken, up, frame, out, replies, written, cancelled>>

\* Length and payload in one Write; at the deadline, part of it may be written.
Written(d, whole) == Append(written, [reply |-> d, whole |-> whole])

WriteReply ==
  /\ down = "write"
  /\ \/ down' = "loop" /\ written' = Written(reply, TRUE)
     \/ Return /\ written' \in {written, Written(reply, FALSE)}
  /\ UNCHANGED <<gone, sent, taken, up, frame, out, replies, reply, cancelled>>

------------------------------------------------------------------------------
\* TCP -> UDP.

UpLoop ==
  /\ up = "loop"
  /\ up' = IF cancelled THEN "ended" ELSE "length"
  /\ frame' = << >>
  /\ UNCHANGED <<gone, sent, taken, out, down, replies, reply, written, cancelled>>

ReadChunk ==
  /\ up \in {"length", "body"} /\ SocketsOpen /\ taken < sent
  /\ taken' = taken + 1 /\ frame' = Append(frame, taken + 1)
  /\ up' = IF up = "length" THEN "body" ELSE "send"
  /\ UNCHANGED <<gone, sent, out, down, replies, reply, written, cancelled>>

\* The deadline, the end of the stream, or the socket is closed.
NothingToRead == ~SocketsOpen \/ taken = sent \/ gone
\* Fault: a deadline is taken for a pause between frames.
FaultyAfterError == "loop"

AfterError == "ended"

ReadError ==
  /\ up \in {"length", "body"} /\ NothingToRead
  /\ up' = AfterError
  /\ UNCHANGED <<gone, sent, taken, frame, out, down, replies, reply, written, cancelled>>

\* An error of Write is ignored: the frame is lost.
SendFrame ==
  /\ up = "send" /\ up' = "loop"
  /\ \/ UNCHANGED out
     \/ SocketsOpen /\ out' = Append(out, frame)
  /\ UNCHANGED <<gone, sent, taken, frame, down, replies, reply, written, cancelled>>

------------------------------------------------------------------------------
Upward == UpLoop \/ ReadChunk \/ ReadError \/ SendFrame
Downward == ReadHeader \/ DownLoop \/ ReadReply \/ WriteReply
Copying == Upward \/ Downward

TcpNext ==
  \/ SendHeader \/ SendChunk \/ HangUp \/ Reply \/ CancelTcp
  \/ Copying

TcpSpec == TcpInit /\ [][TcpNext]_tcpVars

\* Goroutines go on; reads end, at the latest at their deadline.
TcpFairness == WF_tcpVars(Copying)

------------------------------------------------------------------------------
(* Type invariant.                                                           *)
TcpTypeOK ==
  /\ gone \in BOOLEAN
  /\ sent \in NoHeader..(2 * MaxFrames) /\ taken \in 0..(2 * MaxFrames)
  /\ up \in {"none", "loop", "length", "body", "send", "ended"}
  /\ frame \in Seq(1..sent) /\ Len(frame) <= 2
  /\ out \in Seq(Seq(1..sent)) /\ Len(out) <= MaxFrames
  /\ down \in {"header", "loop", "read", "write", "ended"}
  /\ replies \in 0..MaxReplies /\ reply \in 0..replies
  /\ written \in Seq([reply : 1..MaxReplies, whole : BOOLEAN])
  /\ cancelled \in BOOLEAN

\* The destination gets frames of the client, whole and in their order.
UploadsFramed ==
  \A i \in 1..Len(out) :
    /\ \E n \in 1..MaxFrames : out[i] = <<2 * n - 1, 2 * n>>
    /\ \A j \in 1..(i - 1) : out[j][1] < out[i][1]

\* The client gets whole frames in the order of the datagrams; only the last
\* thing written may be cut off.
DownloadsFramed ==
  \A i \in 1..Len(written) :
    /\ i < Len(written) => written[i].whole
    /\ \A j \in 1..(i - 1) : written[j].reply < written[i].reply

(* tcp.go: "clients send framed packets". However chunks, pauses and deadlines
   fall, neither direction gets out of step: a goroutine that gave up in the
   middle of a frame never reads on, and nothing follows one that was cut off. *)
FramesInStep == UploadsFramed /\ DownloadsFramed

(* Once its header is read, a connection whose destination stops sending ends,
   and both goroutines with it, whatever the client does: it may go on sending,
   stall in the middle of a frame, or vanish without a word.                 *)
ConnectionsEnd == up # "none" ~> up = "ended" /\ down = "ended"
=============================================================================
