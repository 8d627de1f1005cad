--------------------------- MODULE MeshDelivery ---------------------------
(***************************************************************************)
(* What the mesh dispatcher promises to the peers on either side of it,    *)
(* without sockets, locks or goroutines: a datagram read from a stream is  *)
(* delivered, whole and at most once, to one stream that announced the     *)
(* datagram's destination pubkey, labelled with the pubkey its own stream  *)
(* announced -- or it is dropped (WireGuard retransmits).                  *)
(***************************************************************************)
EXTENDS Naturals

CONSTANTS Pubkeys, Conns, NoKey, Datagram

VARIABLES
  owner,      \* owner[c]: the pubkey stream c announced, NoKey before that
  accepted,   \* datagrams read from a stream and not yet decided
  delivered   \* delivered[c]: whole frames put on stream c

vars == <<owner, accepted, delivered>>

Frame == [src : Pubkeys, d : Datagram]

Init ==
  /\ owner = [c \in Conns |-> NoKey]
  /\ accepted = {}
  /\ delivered = [c \in Conns |-> {}]

Announce(c, p) ==
  /\ owner[c] = NoKey
  /\ owner' = [owner EXCEPT ![c] = p]
  /\ UNCHANGED <<accepted, delivered>>

\* A datagram is new: it was neither accepted nor delivered before.
Accept(d) ==
  /\ owner[d.from] # NoKey
  /\ d \notin accepted
  /\ \A c \in Conns : \A f \in delivered[c] : f.d # d
  /\ accepted' = accepted \cup {d}
  /\ UNCHANGED <<owner, delivered>>

Deliver(d, c) ==
  /\ d \in accepted
  /\ owner[c] = d.dst
  /\ accepted' = accepted \ {d}
  /\ delivered' =
       [delivered EXCEPT ![c] = @ \cup {[src |-> owner[d.from], d |-> d]}]
  /\ UNCHANGED owner

Drop(d) ==
  /\ d \in accepted
  /\ accepted' = accepted \ {d}
  /\ UNCHANGED <<owner, delivered>>

Next ==
  \/ \E c \in Conns, p \in Pubkeys : Announce(c, p)
  \/ \E d \in Datagram : Accept(d) \/ Drop(d)
  \/ \E d \in Datagram, c \in Conns : Deliver(d, c)

Spec == Init /\ [][Next]_vars
=============================================================================
