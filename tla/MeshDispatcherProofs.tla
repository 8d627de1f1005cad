----------------------- MODULE MeshDispatcherProofs -----------------------
(***************************************************************************)
(* Proofs about MeshDispatcher for any set of streams and pubkeys and any  *)
(* cap: the session table (TableInv), the frames on the wire (FrameInv),   *)
(* how streams leave the table, and the refinement of MeshDelivery.        *)
(***************************************************************************)
EXTENDS MeshDispatcher, SequenceTheorems, TLAPS

LEMMA CursorInRange ==
  ASSUME NEW a \in Nat, NEW n \in Nat, n > 0
  PROVE  (a % n) + 1 \in 1..n
<1>1. a % n \in 0..(n - 1)
  OBVIOUS
<1> QED BY <1>1

(* Evicting the oldest entry of a list makes room for one more, keeps the
   others and their order, and drops exactly the evicted stream.             *)
LEMMA KeptMakesRoom ==
  ASSUME NEW list \in Seq(Conns), Len(list) <= MaxSessions, IsInjective(list)
  PROVE  /\ Kept(list) \in Seq(Conns)
         /\ Len(Kept(list)) < MaxSessions
         /\ IsInjective(Kept(list))
         /\ ToSet(Kept(list)) = ToSet(list) \ Evicted(list)
         /\ Evicted(list) \subseteq Conns
<1>1. CASE Len(list) >= MaxSessions
  <2>1. list # <<>>
    BY <1>1, EmptySeq, CapAssumption
  <2>2. /\ Kept(list) = Tail(list)
        /\ Evicted(list) = {Head(list)}
    BY <1>1 DEF Kept, Evicted
  <2>3. /\ Tail(list) \in Seq(Conns)
        /\ Len(Tail(list)) = Len(list) - 1
        /\ \A i \in 1..Len(Tail(list)) : Tail(list)[i] = list[i + 1]
        /\ Head(list) \in Conns
        /\ Head(list) = list[1]
    BY <2>1, HeadTailProperties
  <2>4. DOMAIN list = 1..Len(list) /\ DOMAIN Tail(list) = 1..Len(Tail(list))
        /\ Len(list) \in Nat /\ Len(list) > 0
    BY <2>3, <2>1, LenProperties, EmptySeq
  <2>5. IsInjective(Tail(list))
    BY <2>3, <2>4 DEF IsInjective
  <2>6. ToSet(Tail(list)) = ToSet(list) \ {Head(list)}
    <3>1. ASSUME NEW x \in ToSet(Tail(list))
          PROVE  x \in ToSet(list) \ {Head(list)}
      <4>1. PICK i \in 1..Len(Tail(list)) : x = Tail(list)[i]
        BY <2>4 DEF ToSet
      <4>2. x = list[i + 1] /\ i + 1 \in 1..Len(list) /\ i + 1 # 1
        BY <4>1, <2>3, <2>4
      <4>3. x # list[1]
        BY <4>2, <2>4 DEF IsInjective
      <4> QED BY <4>2, <4>3, <2>3, <2>4 DEF ToSet
    <3>2. ASSUME NEW x \in ToSet(list) \ {Head(list)}
          PROVE  x \in ToSet(Tail(list))
      <4>1. PICK i \in 1..Len(list) : x = list[i]
        BY <2>4 DEF ToSet
      <4>2. i # 1
        BY <4>1, <2>3
      <4>3. i - 1 \in 1..Len(Tail(list)) /\ Tail(list)[i - 1] = list[i]
        BY <4>1, <4>2, <2>3, <2>4
      <4> QED BY <4>1, <4>3, <2>4 DEF ToSet
    <3> QED BY <3>1, <3>2
  <2> QED BY <2>2, <2>3, <2>4, <2>5, <2>6, CapAssumption
<1>2. CASE ~(Len(list) >= MaxSessions)
  BY <1>2, LenProperties, CapAssumption DEF Kept, Evicted
<1> QED BY <1>1, <1>2

(* Appending a stream that is not listed keeps the list free of duplicates.  *)
LEMMA AppendFresh ==
  ASSUME NEW list \in Seq(Conns), NEW c \in Conns, IsInjective(list),
         c \notin ToSet(list)
  PROVE  /\ Append(list, c) \in Seq(Conns)
         /\ Len(Append(list, c)) = Len(list) + 1
         /\ IsInjective(Append(list, c))
         /\ ToSet(Append(list, c)) = ToSet(list) \cup {c}
<1>1. /\ Append(list, c) \in Seq(Conns)
      /\ Len(Append(list, c)) = Len(list) + 1
      /\ \A i \in 1..Len(list) : Append(list, c)[i] = list[i]
      /\ Append(list, c)[Len(list) + 1] = c
  BY AppendProperties
<1>2. /\ DOMAIN list = 1..Len(list) /\ Len(list) \in Nat
      /\ DOMAIN Append(list, c) = 1..(Len(list) + 1)
  BY <1>1, LenProperties
<1>3. IsInjective(Append(list, c))
  BY <1>1, <1>2 DEF IsInjective, ToSet
<1>4. ToSet(Append(list, c)) = ToSet(list) \cup {c}
  BY <1>1, <1>2 DEF ToSet
<1> QED BY <1>1, <1>3, <1>4

LEMMA WithoutTyped ==
  ASSUME NEW list \in Seq(Conns), NEW c \in Conns
  PROVE  Without(list, c) \in Seq(Conns)
<1>1. CASE \E i \in 1..Len(list) : list[i] = c
  <2> DEFINE k == CHOOSE i \in 1..Len(list) : list[i] = c
  <2>1. k \in 1..Len(list) /\ Without(list, c) = RemoveAt(list, k)
    BY <1>1 DEF Without
  <2> HIDE DEF k
  <2>2. /\ k \in Int /\ Len(list) \in Nat
        /\ \A i \in 1..(k - 1) : list[i] \in Conns
        /\ \A i \in (k + 1)..Len(list) : list[i] \in Conns
    BY <2>1, ElementOfSeq, LenProperties
  <2>3. SubSeq(list, 1, k - 1) \in Seq(Conns)
    BY <2>2, SubSeqProperties
  <2>4. SubSeq(list, k + 1, Len(list)) \in Seq(Conns)
    BY <2>2, SubSeqProperties
  <2> QED BY <2>1, <2>3, <2>4, ConcatProperties DEF RemoveAt
<1>2. CASE ~(\E i \in 1..Len(list) : list[i] = c)
  BY <1>2 DEF Without
<1> QED BY <1>1, <1>2

(* unregister removes the stream itself and nothing else.                    *)
LEMMA WithoutRemoves ==
  ASSUME NEW list \in Seq(Conns), NEW c \in Conns, IsInjective(list)
  PROVE  /\ Without(list, c) \in Seq(Conns)
         /\ Len(Without(list, c)) <= Len(list)
         /\ IsInjective(Without(list, c))
         /\ ToSet(Without(list, c)) = ToSet(list) \ {c}
<1>0. DOMAIN list = 1..Len(list) /\ Len(list) \in Nat
  BY LenProperties
<1>1. CASE \E i \in 1..Len(list) : list[i] = c
  <2> DEFINE k == CHOOSE i \in 1..Len(list) : list[i] = c
             front == SubSeq(list, 1, k - 1)
             back == SubSeq(list, k + 1, Len(list))
  <2>1. k \in 1..Len(list) /\ list[k] = c
    BY <1>1
  <2>2. Without(list, c) = front \o back
    BY <1>1 DEF Without, RemoveAt
  <2> HIDE DEF k
  <2>3. \A i \in 1..Len(list) : list[i] \in Conns
    BY ElementOfSeq
  <2>4. /\ front \in Seq(Conns) /\ Len(front) = k - 1
        /\ \A i \in 1..(k - 1) : front[i] = list[i]
    BY <2>1, <2>3, <1>0, SubSeqProperties
  <2>5. /\ back \in Seq(Conns) /\ Len(back) = Len(list) - k
        /\ \A i \in 1..(Len(list) - k) : back[i] = list[k + i]
    <3>1. \A i \in (k + 1)..Len(list) : list[i] \in Conns
      BY <2>1, <2>3
    <3>2. /\ back \in Seq(Conns)
          /\ Len(back) = IF k + 1 <= Len(list) THEN Len(list) - (k + 1) + 1 ELSE 0
          /\ \A i \in 1..(Len(list) - (k + 1) + 1) : back[i] = list[(k + 1) + i - 1]
      BY <3>1, <2>1, <1>0, SubSeqProperties
    <3>3. Len(list) - (k + 1) + 1 = Len(list) - k /\ k \in Int /\ Len(list) \in Int
      BY <2>1, <1>0
    <3> HIDE DEF back
    <3>4. Len(back) = Len(list) - k
      <4>1. k \in 1..Len(list)
        BY <2>1
      <4>2. CASE k + 1 <= Len(list)
        BY <4>2, <3>2, <3>3
      <4>3. CASE ~(k + 1 <= Len(list))
        <5>1. k <= Len(list) /\ k \in Int /\ Len(list) \in Int
          BY <4>1, <1>0
        <5>2. k = Len(list)
          BY <5>1, <4>3
        <5>3. Len(list) - k = 0
          BY <5>1, <5>2
        <5> QED BY <5>3, <4>3, <3>2
      <4> QED BY <4>2, <4>3
    <3>5. ASSUME NEW i \in 1..(Len(list) - k)
          PROVE  back[i] = list[k + i]
      <4>1. (k + 1) + i - 1 = k + i
        BY <3>3
      <4>2. back[i] = list[(k + 1) + i - 1]
        BY <3>2, <3>3
      <4> QED BY <4>1, <4>2
    <3> QED BY <3>2, <3>4, <3>5
  <2> HIDE DEF front, back
  <2> DEFINE rest == front \o back
  <2>6. /\ rest \in Seq(Conns) /\ Len(rest) = Len(list) - 1
        /\ \A i \in 1..(Len(list) - 1) :
             rest[i] = IF i < k THEN list[i] ELSE list[i + 1]
    <3>1. /\ rest \in Seq(Conns) /\ Len(rest) = Len(front) + Len(back)
          /\ \A i \in 1..(Len(front) + Len(back)) :
               rest[i] = IF i <= Len(front) THEN front[i] ELSE back[i - Len(front)]
      BY <2>4, <2>5, ConcatProperties
    <3>2. Len(front) + Len(back) = Len(list) - 1
      BY <2>1, <2>4, <2>5, <1>0
    <3>3. ASSUME NEW i \in 1..(Len(list) - 1)
          PROVE  rest[i] = IF i < k THEN list[i] ELSE list[i + 1]
      <4>1. CASE i < k
        BY <4>1, <3>1, <3>2, <2>1, <2>4, <1>0
      <4>2. CASE ~(i < k)
        <5>1. i - (k - 1) \in 1..(Len(list) - k) /\ k + (i - (k - 1)) = i + 1
          BY <4>2, <2>1, <1>0
        <5>2. rest[i] = back[i - (k - 1)]
          BY <4>2, <3>1, <3>2, <2>1, <2>4, <1>0
        <5> QED BY <4>2, <5>1, <5>2, <2>5
      <4> QED BY <4>1, <4>2
    <3> QED BY <3>1, <3>2, <3>3
  <2>7. DOMAIN rest = 1..(Len(list) - 1)
    BY <2>6, LenProperties
  <2> HIDE DEF rest
  <2>8. IsInjective(rest)
    <3> DEFINE at(i) == IF i < k THEN i ELSE i + 1
    <3>1. \A i \in 1..(Len(list) - 1) : at(i) \in 1..Len(list) /\ rest[i] = list[at(i)]
      BY <2>1, <2>6, <1>0
    <3>2. \A i, j \in 1..(Len(list) - 1) : at(i) = at(j) => i = j
      BY <2>1, <1>0
    <3> HIDE DEF at
    <3> QED BY <3>1, <3>2, <2>7, <1>0 DEF IsInjective
  <2>9. ToSet(rest) = ToSet(list) \ {c}
    <3>1. ASSUME NEW x \in ToSet(rest)
          PROVE  x \in ToSet(list) \ {c}
      <4>1. PICK i \in 1..(Len(list) - 1) : x = rest[i]
        BY <2>7 DEF ToSet
      <4>2. PICK j \in 1..Len(list) : x = list[j] /\ j # k
        <5>1. CASE i < k
          BY <5>1, <4>1, <2>6, <2>1, <1>0
        <5>2. CASE ~(i < k)
          BY <5>2, <4>1, <2>6, <2>1, <1>0
        <5> QED BY <5>1, <5>2
      <4>3. x # c
        BY <4>2, <2>1, <1>0 DEF IsInjective
      <4> QED BY <4>2, <4>3, <1>0 DEF ToSet
    <3>2. ASSUME NEW x \in ToSet(list) \ {c}
          PROVE  x \in ToSet(rest)
      <4>1. PICK j \in 1..Len(list) : x = list[j] /\ j # k
        BY <2>1, <1>0 DEF ToSet
      <4>2. PICK i \in 1..(Len(list) - 1) : rest[i] = list[j]
        <5>1. CASE j < k
          BY <5>1, <2>6, <2>1, <1>0
        <5>2. CASE ~(j < k)
          <6>1. j - 1 \in 1..(Len(list) - 1) /\ ~(j - 1 < k) /\ (j - 1) + 1 = j
            BY <5>2, <4>1, <2>1, <1>0
          <6> QED BY <6>1, <2>6
        <5> QED BY <5>1, <5>2
      <4> QED BY <4>1, <4>2, <2>7 DEF ToSet
    <3> QED BY <3>1, <3>2
  <2> QED BY <2>2, <2>6, <2>8, <2>9, <1>0 DEF rest
<1>2. CASE ~(\E i \in 1..Len(list) : list[i] = c)
  BY <1>2, <1>0 DEF Without, ToSet
<1> QED BY <1>1, <1>2

-----------------------------------------------------------------------------
(* Typing.                                                                   *)

LEMMA InitTyped == Init => TypeOK
<1> SUFFICES ASSUME Init PROVE TypeOK
  OBVIOUS
<1>1. sessions \in [Pubkeys -> Seq(Conns)] /\ wire \in [Conns -> Seq(Piece)]
  BY EmptySeq DEF Init
<1>2. sent \in 0..MaxDatagrams
  BY BoundAssumption DEF Init
<1> QED BY <1>1, <1>2 DEF Init, TypeOK, Labels, Registered, InForward

LEMMA StepTyped == TypeOK /\ [Next]_vars => TypeOK'
<1> SUFFICES ASSUME TypeOK, [Next]_vars PROVE TypeOK'
  OBVIOUS
<1> USE DEF TypeOK, Labels, Registered, InForward, Goto, Move, table, forward,
            output, bounds
<1>1. CASE UNCHANGED vars
  BY <1>1 DEF vars
<1>2. CASE Cancel
  BY <1>2 DEF Cancel
<1>3. CASE Stopped
  BY <1>3 DEF Stopped, vars
<1>4. ASSUME NEW c \in Conns, Handler(c) PROVE TypeOK'
  <2>1. CASE Accept(c)
    BY <2>1 DEF Accept
  <2>2. CASE HelloRejected(c)
    BY <2>2 DEF HelloRejected
  <2>3. CASE Register(c)
    <3>1. key[c] \in Pubkeys
      BY <2>3 DEF Register
    <3> DEFINE list == sessions[key[c]]
    <3>2. list \in Seq(Conns)
      BY <3>1
    <3>3. Kept(list) \in Seq(Conns) /\ Evicted(list) \subseteq Conns
      <4>1. CASE list = <<>>
        BY <4>1, <3>2, CapAssumption, EmptySeq DEF Kept, Evicted
      <4>2. CASE list # <<>>
        BY <4>2, <3>2, HeadTailProperties DEF Kept, Evicted
      <4> QED BY <4>1, <4>2
    <3>4. Append(Kept(list), c) \in Seq(Conns)
      BY <3>3, AppendProperties
    <3>5. closed' \in SUBSET Conns /\ sessions' \in [Pubkeys -> Seq(Conns)]
      BY <2>3, <3>3, <3>4 DEF Register
    <3> QED BY <2>3, <3>1, <3>5 DEF Register
  <2>4. ASSUME NEW p \in Pubkeys, HelloAccepted(c, p) PROVE TypeOK'
    BY <2>4 DEF HelloAccepted
  <2>5. ASSUME NEW p \in Pubkeys, ReadDatagram(c, p) PROVE TypeOK'
    <3>1. sent' \in 0..MaxDatagrams /\ sent + 1 \in 1..MaxDatagrams
      BY <2>5, BoundAssumption DEF ReadDatagram
    <3>2. [from |-> c, dst |-> p, id |-> sent + 1] \in Datagram
      BY <3>1 DEF Datagram
    <3> QED BY <2>5, <3>1, <3>2 DEF ReadDatagram
  <2>6. CASE CheckContext(c)
    BY <2>6 DEF CheckContext
  <2>7. CASE ReadIgnored(c)
    BY <2>7 DEF ReadIgnored
  <2>8. CASE ReadError(c)
    BY <2>8 DEF ReadError
  <2>9. CASE PickTarget(c)
    <3> DEFINE list == sessions[dgram[c].dst]
    <3>1. dgram[c].dst \in Pubkeys /\ list \in Seq(Conns) /\ list # <<>>
      <4>1. dgram[c] \in Datagram /\ list # <<>>
        BY <2>9 DEF PickTarget
      <4> QED BY <4>1 DEF Datagram
    <3>2. Len(list) \in Nat /\ Len(list) > 0 /\ rr + 1 \in Nat
      BY <3>1, EmptySeq
    <3>3. ((rr + 1) % Len(list)) + 1 \in 1..Len(list)
      BY <3>2, CursorInRange
    <3>4. Chosen(list, rr + 1) \in Conns
      BY <3>1, <3>3, ElementOfSeq DEF Chosen
    <3> QED BY <2>9, <3>4 DEF PickTarget
  <2>10. CASE PeerOffline(c)
    BY <2>10 DEF PeerOffline, Return
  <2>11. CASE LockTarget(c)
    BY <2>11 DEF LockTarget
  <2>12. CASE WriteHeader(c)
    <3>1. Header(key[c], dgram[c]) \in Piece
      BY <2>12 DEF WriteHeader, Header, Piece
    <3>2. wire' \in [Conns -> Seq(Piece)]
      BY <2>12, <3>1, AppendProperties DEF WriteHeader, Written
    <3> QED BY <2>12, <3>2 DEF WriteHeader
  <2>13. CASE WriteBody(c)
    <3>1. Body(dgram[c]) \in Piece
      BY <2>13 DEF WriteBody, Body, Piece
    <3>2. wire' \in [Conns -> Seq(Piece)]
      BY <2>13, <3>1, AppendProperties DEF WriteBody, Written
    <3> QED BY <2>13, <3>2 DEF WriteBody, Return, Unlock
  <2>14. CASE WriteFails(c)
    <3>1. wire' \in [Conns -> Seq(Piece)]
      <4>1. Torn \in Piece /\ target[c] \in Conns
        BY <2>14 DEF Piece, WriteFails
      <4>2. Append(wire[target[c]], Torn) \in Seq(Piece)
        BY <4>1, AppendProperties
      <4>3. CASE UNCHANGED wire
        BY <4>3
      <4>4. CASE Written(target[c], Torn)
        BY <4>1, <4>2, <4>4 DEF Written
      <4> QED BY <2>14, <4>3, <4>4 DEF WriteFails
    <3> QED BY <2>14, <3>1 DEF WriteFails, Return, Unlock
  <2>15. CASE Unregister(c)
    <3> DEFINE list == sessions[key[c]]
    <3>1. key[c] \in Pubkeys /\ list \in Seq(Conns)
      BY <2>15 DEF Unregister
    <3>2. Without(list, c) \in Seq(Conns)
      BY <3>1, WithoutTyped
    <3> QED BY <2>15, <3>1, <3>2 DEF Unregister
  <2>16. CASE CloseConn(c)
    BY <2>16 DEF CloseConn
  <2> QED BY <1>4, <2>1, <2>2, <2>3, <2>4, <2>5, <2>6, <2>7, <2>8, <2>9, <2>10,
             <2>11, <2>12, <2>13, <2>14, <2>15, <2>16 DEF Handler
<1> QED BY <1>1, <1>2, <1>3, <1>4 DEF Next

(* Every variable keeps its type in every behaviour, and a goroutine inside
   forward always has a datagram and, once it has picked, a target stream.   *)
THEOREM TypeCorrect == Spec => []TypeOK
<1>1. Init => TypeOK
  BY InitTyped
<1>2. TypeOK /\ [Next]_vars => TypeOK'
  BY StepTyped
<1> QED BY <1>1, <1>2, PTL DEF Spec

-----------------------------------------------------------------------------
(* The session table.                                                        *)

TableInv == TypeOK /\ SessionTableSound /\ LiveSessionsRoutable

LEMMA InitTable == Init => TableInv
<1> SUFFICES ASSUME Init PROVE SessionTableSound /\ LiveSessionsRoutable
  BY InitTyped DEF TableInv
<1>1. SessionTableSound
  BY EmptySeq, CapAssumption DEF Init, SessionTableSound, IsInjective, ToSet
<1>2. LiveSessionsRoutable
  BY DEF Init, LiveSessionsRoutable, Registered, InForward
<1> QED BY <1>1, <1>2

(* A step that leaves the table and the announced keys alone, keeps registered
   goroutines registered and closes no more than it says preserves the table.  *)
LEMMA TableUntouched ==
  ASSUME TableInv, TypeOK',
         UNCHANGED sessions,
         closed \subseteq closed',
         \A x \in Conns : pc[x] \in Registered => pc'[x] \in Registered /\ key'[x] = key[x],
         \A x \in Conns : pc'[x] \in Registered \ {"unregister"}
                           => pc[x] \in Registered \ {"unregister"}
  PROVE  TableInv'
<1>1. SessionTableSound'
  BY DEF TableInv, SessionTableSound, TypeOK, ToSet
<1>2. LiveSessionsRoutable'
  BY DEF TableInv, LiveSessionsRoutable, TypeOK
<1> QED BY <1>1, <1>2 DEF TableInv

LEMMA RegisterKeepsTable ==
  ASSUME TableInv, TypeOK', NEW c \in Conns, Register(c)
  PROVE  TableInv'
<1> DEFINE p == key[c]
           list == sessions[p]
           new == Append(Kept(list), c)
<1>1. /\ pc[c] = "register" /\ p \in Pubkeys /\ list \in Seq(Conns)
      /\ key' = key
      /\ closed' = closed \cup Evicted(list)
      /\ sessions' = [sessions EXCEPT ![p] = new]
      /\ pc' = [pc EXCEPT ![c] = "loop"]
  BY DEF TableInv, TypeOK, Register, Goto, table
<1>2. \A q \in Pubkeys : c \notin ToSet(sessions[q])
  BY <1>1 DEF TableInv, SessionTableSound, Registered, InForward
<1>3. Len(list) <= MaxSessions /\ IsInjective(list)
  BY <1>1 DEF TableInv, SessionTableSound
<1>4. /\ Kept(list) \in Seq(Conns)
      /\ Len(Kept(list)) < MaxSessions
      /\ IsInjective(Kept(list))
      /\ ToSet(Kept(list)) = ToSet(list) \ Evicted(list)
  BY <1>1, <1>3, KeptMakesRoom
<1>5. /\ Len(new) = Len(Kept(list)) + 1
      /\ IsInjective(new)
      /\ ToSet(new) = ToSet(Kept(list)) \cup {c}
  BY <1>1, <1>2, <1>4, AppendFresh
<1>6. Len(new) <= MaxSessions
  BY <1>4, <1>5, LenProperties, CapAssumption
<1>7. /\ sessions'[p] = new
      /\ \A q \in Pubkeys : q # p => sessions'[q] = sessions[q]
  BY <1>1 DEF TableInv, TypeOK
<1>8. \A x \in Conns : pc'[x] = IF x = c THEN "loop" ELSE pc[x]
  BY <1>1 DEF TableInv, TypeOK
<1> HIDE DEF new
<1>9. SessionTableSound'
  <2> SUFFICES ASSUME NEW q \in Pubkeys
               PROVE  /\ Len(sessions'[q]) <= MaxSessions
                      /\ IsInjective(sessions'[q])
                      /\ \A x \in ToSet(sessions'[q]) :
                           key[x] = q /\ pc'[x] \in Registered
    BY <1>1 DEF SessionTableSound
  <2>1. \A x \in ToSet(sessions[q]) : x \in Conns /\ key[x] = q /\ pc[x] \in Registered
    BY DEF TableInv, SessionTableSound, TypeOK, ToSet
  <2>2. CASE q = p
    <3>1. \A x \in ToSet(new) : x = c \/ x \in ToSet(sessions[q])
      BY <2>2, <1>4, <1>5
    <3>2. \A x \in ToSet(new) : key[x] = q /\ pc'[x] \in Registered
      BY <3>1, <2>1, <2>2, <1>8 DEF Registered
    <3> QED BY <2>2, <3>2, <1>5, <1>6, <1>7
  <2>3. CASE q # p
    <3>1. \A x \in ToSet(sessions[q]) : key[x] = q /\ pc'[x] \in Registered
      BY <2>1, <1>8 DEF Registered
    <3> QED BY <2>3, <3>1, <1>7 DEF TableInv, SessionTableSound
  <2> QED BY <2>2, <2>3
<1>10. LiveSessionsRoutable'
  <2> SUFFICES ASSUME NEW x \in Conns, pc'[x] \in Registered \ {"unregister"},
                      x \notin closed'
               PROVE  x \in ToSet(sessions'[key[x]])
    BY <1>1 DEF LiveSessionsRoutable
  <2>1. CASE x = c
    BY <2>1, <1>5, <1>7
  <2>2. CASE x # c
    <3>1. x \in ToSet(sessions[key[x]]) /\ key[x] \in Pubkeys
      BY <2>2, <1>1, <1>8 DEF TableInv, LiveSessionsRoutable, TypeOK
    <3>2. CASE key[x] = p
      BY <3>1, <3>2, <1>1, <1>4, <1>5, <1>7
    <3>3. CASE key[x] # p
      BY <3>1, <3>3, <1>7
    <3> QED BY <3>2, <3>3
  <2> QED BY <2>1, <2>2
<1> QED BY <1>9, <1>10 DEF TableInv

LEMMA UnregisterKeepsTable ==
  ASSUME TableInv, TypeOK', NEW c \in Conns, Unregister(c)
  PROVE  TableInv'
<1> DEFINE p == key[c]
           list == sessions[p]
           new == Without(list, c)
<1>1. /\ pc[c] = "unregister" /\ p \in Pubkeys /\ list \in Seq(Conns)
      /\ key' = key
      /\ closed' = closed
      /\ sessions' = [sessions EXCEPT ![p] = new]
      /\ pc' = [pc EXCEPT ![c] = "close"]
  BY DEF TableInv, TypeOK, Unregister, Goto, Registered, table
<1>2. Len(list) <= MaxSessions /\ IsInjective(list)
  BY <1>1 DEF TableInv, SessionTableSound
<1>3. /\ new \in Seq(Conns)
      /\ Len(new) <= Len(list)
      /\ IsInjective(new)
      /\ ToSet(new) = ToSet(list) \ {c}
  BY <1>1, <1>2, WithoutRemoves
<1>4. Len(new) <= MaxSessions
  BY <1>1, <1>2, <1>3, LenProperties, CapAssumption
<1>5. /\ sessions'[p] = new
      /\ \A q \in Pubkeys : q # p => sessions'[q] = sessions[q]
  BY <1>1 DEF TableInv, TypeOK
<1>6. \A x \in Conns : pc'[x] = IF x = c THEN "close" ELSE pc[x]
  BY <1>1 DEF TableInv, TypeOK
<1> HIDE DEF new
<1>7. SessionTableSound'
  <2> SUFFICES ASSUME NEW q \in Pubkeys
               PROVE  /\ Len(sessions'[q]) <= MaxSessions
                      /\ IsInjective(sessions'[q])
                      /\ \A x \in ToSet(sessions'[q]) :
                           key[x] = q /\ pc'[x] \in Registered
    BY <1>1 DEF SessionTableSound
  <2>1. \A x \in ToSet(sessions[q]) : x \in Conns /\ key[x] = q /\ pc[x] \in Registered
    BY DEF TableInv, SessionTableSound, TypeOK, ToSet
  <2>2. CASE q = p
    BY <2>1, <2>2, <1>3, <1>4, <1>5, <1>6
  <2>3. CASE q # p
    <3>1. c \notin ToSet(sessions[q])
      BY <2>1, <2>3
    <3>2. \A x \in ToSet(sessions[q]) : key[x] = q /\ pc'[x] \in Registered
      BY <3>1, <2>1, <1>6
    <3> QED BY <2>3, <3>2, <1>5 DEF TableInv, SessionTableSound
  <2> QED BY <2>2, <2>3
<1>8. LiveSessionsRoutable'
  <2> SUFFICES ASSUME NEW x \in Conns, pc'[x] \in Registered \ {"unregister"},
                      x \notin closed'
               PROVE  x \in ToSet(sessions'[key[x]])
    BY <1>1 DEF LiveSessionsRoutable
  <2>1. x # c
    BY <1>6 DEF Registered, InForward
  <2>2. x \in ToSet(sessions[key[x]]) /\ key[x] \in Pubkeys
    BY <2>1, <1>1, <1>6 DEF TableInv, LiveSessionsRoutable, TypeOK
  <2> QED BY <2>1, <2>2, <1>3, <1>5
<1> QED BY <1>7, <1>8 DEF TableInv

LEMMA StepTable == TableInv /\ [Next]_vars => TableInv'
<1> SUFFICES ASSUME TableInv, [Next]_vars PROVE TableInv'
  OBVIOUS
<1>0. TypeOK /\ TypeOK'
  BY StepTyped DEF TableInv
<1> USE DEF Goto, Move, Return, Registered, InForward, table, forward, output, bounds
<1>1. CASE UNCHANGED vars \/ Stopped
  BY <1>0, <1>1, TableUntouched DEF vars, Stopped
<1>2. CASE Cancel
  BY <1>0, <1>2, TableUntouched DEF Cancel
<1>3. ASSUME NEW c \in Conns, Handler(c) PROVE TableInv'
  <2>1. CASE Accept(c)
    BY <1>0, <2>1, TableUntouched DEF Accept, TypeOK
  <2>2. CASE HelloRejected(c)
    BY <1>0, <2>2, TableUntouched DEF HelloRejected, TypeOK
  <2>3. CASE Register(c)
    BY <1>0, <2>3, RegisterKeepsTable
  <2>4. ASSUME NEW p \in Pubkeys, HelloAccepted(c, p) PROVE TableInv'
    BY <1>0, <2>4, TableUntouched DEF HelloAccepted, TypeOK
  <2>5. ASSUME NEW p \in Pubkeys, ReadDatagram(c, p) PROVE TableInv'
    BY <1>0, <2>5, TableUntouched DEF ReadDatagram, TypeOK
  <2>6. CASE CheckContext(c)
    BY <1>0, <2>6, TableUntouched DEF CheckContext, TypeOK
  <2>7. CASE ReadIgnored(c)
    BY <1>0, <2>7, TableUntouched DEF ReadIgnored, TypeOK
  <2>8. CASE ReadError(c)
    BY <1>0, <2>8, TableUntouched DEF ReadError, TypeOK
  <2>9. CASE PickTarget(c)
    BY <1>0, <2>9, TableUntouched DEF PickTarget, TypeOK
  <2>10. CASE PeerOffline(c)
    BY <1>0, <2>10, TableUntouched DEF PeerOffline, TypeOK
  <2>11. CASE LockTarget(c)
    BY <1>0, <2>11, TableUntouched DEF LockTarget, TypeOK
  <2>12. CASE WriteHeader(c)
    BY <1>0, <2>12, TableUntouched DEF WriteHeader, TypeOK
  <2>13. CASE WriteBody(c)
    BY <1>0, <2>13, TableUntouched DEF WriteBody, TypeOK
  <2>14. CASE WriteFails(c)
    BY <1>0, <2>14, TableUntouched DEF WriteFails, TypeOK
  <2>15. CASE Unregister(c)
    BY <1>0, <2>15, UnregisterKeepsTable
  <2>16. CASE CloseConn(c)
    BY <1>0, <2>16, TableUntouched DEF CloseConn, TypeOK
  <2> QED BY <1>3, <2>1, <2>2, <2>3, <2>4, <2>5, <2>6, <2>7, <2>8, <2>9, <2>10,
             <2>11, <2>12, <2>13, <2>14, <2>15, <2>16 DEF Handler
<1> QED BY <1>1, <1>2, <1>3 DEF Next

(* The session table is sound for every cap, every number of streams and every
   interleaving of registrations, evictions, forwards and disconnects.        *)
THEOREM TableSound == Spec => []SessionTableSound
<1>1. TableInv => SessionTableSound
  BY DEF TableInv
<1> QED BY <1>1, InitTable, StepTable, PTL DEF Spec

(* A registered stream that nobody closed can always be picked by forward.    *)
THEOREM LiveRoutable == Spec => []LiveSessionsRoutable
<1>1. TableInv => LiveSessionsRoutable
  BY DEF TableInv
<1> QED BY <1>1, InitTable, StepTable, PTL DEF Spec

-----------------------------------------------------------------------------
(* Forwarding: whose datagram a goroutine has, and the lock it writes under.  *)

Writing == {"hdr", "body"}

ForwardInv ==
  /\ \A c \in Conns : pc[c] \in {"new", "hello"} => key[c] = NoKey
  /\ \A c \in Conns : pc[c] \in InForward => dgram[c].from = c /\ dgram[c].id <= sent
  /\ \A c \in Conns : pc[c] \in InForward \ {"pick"} => key[target[c]] = dgram[c].dst
  /\ \A c \in Conns : pc[c] \in Writing => writeMu[target[c]] = c

\* A datagram that was read: its stream has announced a pubkey.
WasRead(d) == key[d.from] \in Pubkeys /\ d.id <= sent

WireInv ==
  /\ \A t \in Conns : \A i \in 1..Len(wire[t]) :
       wire[t][i].part # "torn" => WasRead(wire[t][i].d)
  /\ \A c \in Conns : pc[c] = "body" =>
       LET s == wire[target[c]] IN
       Len(s) > 0 /\ s[Len(s)] = Header(key[c], dgram[c])

FrameInv == TableInv /\ ForwardInv /\ WireInv /\ FramesWhole

(* Once announced, a pubkey stays.                                           *)
LEMMA KeyStays ==
  ASSUME TypeOK, ForwardInv, [Next]_vars, NEW c \in Conns, key[c] \in Pubkeys
  PROVE  key'[c] = key[c]
<1> USE DEF Goto, Move, Return, table, forward, output, bounds
<1>1. CASE UNCHANGED vars \/ Stopped \/ Cancel
  BY <1>1 DEF vars, Stopped, Cancel
<1>2. ASSUME NEW x \in Conns, Handler(x) PROVE key'[c] = key[c]
  <2>1. ASSUME NEW p \in Pubkeys, HelloAccepted(x, p) PROVE key'[c] = key[c]
    BY <2>1, NullAssumption DEF HelloAccepted, ForwardInv, TypeOK
  <2>2. CASE Accept(x) \/ HelloRejected(x) \/ Register(x) \/ CheckContext(x)
             \/ ReadIgnored(x) \/ ReadError(x) \/ PickTarget(x) \/ PeerOffline(x)
             \/ LockTarget(x) \/ WriteHeader(x) \/ WriteBody(x) \/ WriteFails(x)
             \/ Unregister(x) \/ CloseConn(x) \/ \E p \in Pubkeys : ReadDatagram(x, p)
    BY <2>2 DEF Accept, HelloRejected, Register, CheckContext, ReadIgnored, ReadError,
                PickTarget, PeerOffline, LockTarget, WriteHeader, WriteBody, WriteFails,
                Unregister, CloseConn, ReadDatagram
  <2> QED BY <1>2, <2>1, <2>2 DEF Handler
<1> QED BY <1>1, <1>2 DEF Next

\* No goroutine is in forward yet.
LEMMA InitForward == Init => ForwardInv
BY DEF Init, ForwardInv, InForward, Writing

(* A step that brings no goroutine further in forward, and touches nothing else
   of it.                                                                    *)
LEMMA ForwardUntouched ==
  ASSUME ForwardInv, UNCHANGED <<key, dgram, target, writeMu, sent>>,
         \A x \in Conns : pc'[x] \in InForward => pc[x] = pc'[x],
         \A x \in Conns : pc'[x] \in {"new", "hello"} => pc[x] \in {"new", "hello"}
  PROVE  ForwardInv'
BY DEF ForwardInv, InForward, Writing

\* Every step keeps what a goroutine in forward holds.
LEMMA StepForward ==
  TableInv /\ TypeOK' /\ ForwardInv /\ [Next]_vars => ForwardInv'
<1> SUFFICES ASSUME TableInv, TypeOK', ForwardInv, [Next]_vars PROVE ForwardInv'
  OBVIOUS
<1>0. TypeOK
  BY DEF TableInv
<1> USE DEF ForwardInv, Goto, Move, Return, InForward, Registered, Writing, table, forward,
            output, bounds
<1>1. CASE UNCHANGED vars \/ Stopped \/ Cancel
  BY <1>1 DEF vars, Stopped, Cancel
<1>2. ASSUME NEW c \in Conns, Handler(c) PROVE ForwardInv'
  <2>1. CASE Accept(c)
    BY <1>0, <2>1, ForwardUntouched DEF Accept, TypeOK
  <2>2. CASE HelloRejected(c) \/ ReadIgnored(c) \/ ReadError(c) \/ CheckContext(c)
    BY <1>0, <2>2, ForwardUntouched
       DEF HelloRejected, ReadIgnored, ReadError, CheckContext, TypeOK
  <2>3. CASE Register(c) \/ Unregister(c) \/ CloseConn(c)
    BY <1>0, <2>3, ForwardUntouched DEF Register, Unregister, CloseConn, TypeOK
  <2>4. ASSUME NEW p \in Pubkeys, HelloAccepted(c, p) PROVE ForwardInv'
    <3>1. ASSUME NEW x \in Conns, pc[x] \in InForward \ {"pick"}
          PROVE  key[target[x]] \in Pubkeys /\ target[x] \in Conns
      BY <1>0, <3>1 DEF TypeOK, Datagram
    <3>2. \A x \in Conns : key[x] \in Pubkeys => key'[x] = key[x]
      BY <1>0, <2>4, NullAssumption DEF HelloAccepted, TypeOK
    <3>3. \A x \in Conns : pc'[x] \in InForward => pc[x] = pc'[x]
      BY <1>0, <2>4 DEF HelloAccepted, TypeOK
    <3>4. \A x \in Conns : pc'[x] \in InForward \ {"pick"} => key'[target'[x]] = dgram'[x].dst
      BY <2>4, <3>1, <3>2, <3>3 DEF HelloAccepted
    <3> QED BY <1>0, <2>4, <3>3, <3>4 DEF HelloAccepted, TypeOK
  <2>5. ASSUME NEW p \in Pubkeys, ReadDatagram(c, p) PROVE ForwardInv'
    <3>1. \A x \in Conns : pc[x] \in InForward => dgram[x].id <= sent'
      <4>1. \A x \in Conns : pc[x] \in InForward => dgram[x].id \in Nat
        BY <1>0, BoundAssumption DEF TypeOK, Datagram
      <4>2. sent \in Nat /\ sent' = sent + 1
        BY <1>0, <2>5, BoundAssumption DEF ReadDatagram, TypeOK
      <4> QED BY <4>1, <4>2
    <3> QED BY <1>0, <2>5, <3>1, BoundAssumption DEF ReadDatagram, TypeOK
  <2>6. CASE PickTarget(c)
    <3> DEFINE list == sessions[dgram[c].dst]
    <3>1. dgram[c].dst \in Pubkeys /\ list \in Seq(Conns) /\ list # <<>>
      <4>1. dgram[c] \in Datagram /\ list # <<>>
        BY <1>0, <2>6 DEF PickTarget, TypeOK
      <4> QED BY <1>0, <4>1 DEF Datagram, TypeOK
    <3>2. Len(list) \in Nat /\ Len(list) > 0 /\ rr + 1 \in Nat
      BY <1>0, <3>1, EmptySeq DEF TypeOK
    <3>3. ((rr + 1) % Len(list)) + 1 \in 1..Len(list)
      BY <3>2, CursorInRange
    <3>4. Chosen(list, rr + 1) \in ToSet(list)
      BY <3>1, <3>3, LenProperties DEF Chosen, ToSet
    <3>5. key[Chosen(list, rr + 1)] = dgram[c].dst
      BY <3>1, <3>4 DEF TableInv, SessionTableSound
    <3> QED BY <1>0, <2>6, <3>5 DEF PickTarget, TypeOK
  <2>7. CASE PeerOffline(c)
    BY <1>0, <2>7 DEF PeerOffline, TypeOK
  <2>8. CASE LockTarget(c)
    BY <1>0, <2>8, NullAssumption DEF LockTarget, TypeOK
  <2>9. CASE WriteHeader(c)
    BY <1>0, <2>9 DEF WriteHeader, TypeOK
  <2>10. CASE WriteBody(c) \/ WriteFails(c)
    <3>1. /\ pc[c] \in Writing /\ UNCHANGED <<key, sent>>
          /\ pc' = [pc EXCEPT ![c] = "loop"]
          /\ dgram' = [dgram EXCEPT ![c] = NoDatagram]
          /\ target' = [target EXCEPT ![c] = NoConn]
          /\ writeMu' = [writeMu EXCEPT ![target[c]] = NoConn]
      BY <2>10 DEF WriteBody, WriteFails, Unlock
    <3>2. \A x \in Conns : pc'[x] \in InForward =>
             x # c /\ pc'[x] = pc[x] /\ dgram'[x] = dgram[x] /\ target'[x] = target[x]
      BY <1>0, <3>1 DEF TypeOK
    <3>3. ASSUME NEW x \in Conns, pc'[x] \in Writing PROVE writeMu'[target'[x]] = x
      <4>1. target[x] # target[c]
        BY <3>1, <3>2, <3>3
      <4> QED BY <1>0, <3>1, <3>2, <3>3, <4>1 DEF TypeOK
    <3>4. \A x \in Conns : pc'[x] \in {"new", "hello"} => key'[x] = NoKey
      BY <1>0, <3>1 DEF TypeOK
    <3> QED BY <3>1, <3>2, <3>3, <3>4
  <2> QED BY <1>2, <2>1, <2>2, <2>3, <2>4, <2>5, <2>6, <2>7, <2>8, <2>9, <2>10 DEF Handler
<1> QED BY <1>1, <1>2 DEF Next

ReadOn(t) == \A i \in 1..Len(wire[t]) : wire[t][i].part # "torn" => WasRead(wire[t][i].d)

WholeOn(t) ==
  LET s == wire[t] IN
  /\ \A i \in 1..Len(s) : s[i].part = "body" =>
       i > 1 /\ s[i - 1] = Header(key[s[i].d.from], s[i].d)
  /\ \A i \in 1..Len(s) : s[i].part = "hdr" =>
       \/ i < Len(s) /\ s[i + 1].part \in {"body", "torn"}
       \/ i = Len(s) /\ (t \in closed \/ \E c \in WriterOf(t) :
                             pc[c] = "body" /\ dgram[c] = s[i].d)
  /\ \A i \in 1..Len(s) : s[i].part = "torn" => i = Len(s) /\ t \in closed

HeaderLast(c) ==
  LET s == wire[target[c]] IN Len(s) > 0 /\ s[Len(s)] = Header(key[c], dgram[c])

\* The two invariants, one stream and one writer at a time.
LEMMA ByStream ==
  /\ FramesWhole <=> \A t \in Conns : WholeOn(t)
  /\ WireInv <=> /\ \A t \in Conns : ReadOn(t)
                 /\ \A c \in Conns : pc[c] = "body" => HeaderLast(c)
BY DEF FramesWhole, WireInv, WholeOn, ReadOn, HeaderLast

\* The same of the next state.
LEMMA ByStreamNext ==
  /\ FramesWhole' <=> \A t \in Conns : WholeOn(t)'
  /\ WireInv' <=> /\ \A t \in Conns : ReadOn(t)'
                  /\ \A c \in Conns : pc'[c] = "body" => HeaderLast(c)'
BY DEF FramesWhole, WireInv, WholeOn, ReadOn, HeaderLast

\* What was read stays read, with the same key.
KeepsRead ==
  /\ \A c \in Conns : key[c] \in Pubkeys => key'[c] = key[c]
  /\ sent' \in Nat /\ sent <= sent'

\* A datagram that was read stays read.
LEMMA StepKeepsRead ==
  ASSUME TypeOK, TypeOK', ForwardInv, [Next]_vars
  PROVE  KeepsRead
<1>1. \A c \in Conns : key[c] \in Pubkeys => key'[c] = key[c]
  BY KeyStays
<1>2. sent \in Nat /\ sent' \in Nat
  BY BoundAssumption DEF TypeOK
<1>3. sent' = sent \/ sent' = sent + 1
  <2> USE DEF Goto, Move, table, forward, output, bounds
  <2>1. CASE UNCHANGED vars \/ Stopped \/ Cancel
    BY <2>1 DEF vars, Stopped, Cancel
  <2>2. ASSUME NEW x \in Conns, Handler(x) PROVE sent' = sent \/ sent' = sent + 1
    BY <2>2 DEF Handler, Accept, HelloRejected, HelloAccepted, Register, CheckContext,
                ReadIgnored, ReadError, PickTarget, PeerOffline, LockTarget, WriteHeader,
                WriteBody, WriteFails, Unregister, CloseConn, ReadDatagram
  <2> QED BY <2>1, <2>2 DEF Next
<1> QED BY <1>1, <1>2, <1>3 DEF KeepsRead

\* Its stream keeps the pubkey, and ids only grow.
LEMMA WasReadStays ==
  ASSUME TypeOK, KeepsRead, NEW d \in Datagram, WasRead(d)
  PROVE  WasRead(d)' /\ key'[d.from] = key[d.from]
<1>1. d.from \in Conns /\ d.id \in Nat /\ sent \in Nat
  BY BoundAssumption DEF Datagram, TypeOK
<1> QED BY <1>1 DEF WasRead, KeepsRead

\* What the fields of a piece are.
LEMMA PieceTyped ==
  ASSUME TypeOK, NEW t \in Conns, NEW i \in 1..Len(wire[t])
  PROVE  /\ wire[t] \in Seq(Piece) /\ Len(wire[t]) \in Nat
         /\ wire[t][i] \in Piece
         /\ wire[t][i].part \in {"hdr", "body", "torn"}
         /\ wire[t][i].part # "torn" => wire[t][i].d \in Datagram
<1>1. wire[t] \in Seq(Piece) /\ Len(wire[t]) \in Nat
  BY LenProperties DEF TypeOK
<1>2. wire[t][i] \in Piece
  BY <1>1, ElementOfSeq
<1> QED BY <1>1, <1>2 DEF Piece, Torn

(* A stream on which nothing is written.                                     *)
LEMMA StreamUntouched ==
  ASSUME TypeOK, KeepsRead, NEW t \in Conns, ReadOn(t), WholeOn(t),
         wire'[t] = wire[t],
         t \in closed => t \in closed',
         \A x \in WriterOf(t) : pc[x] = "body" =>
           t \in closed' \/ (pc'[x] = "body" /\ target'[x] = t /\ dgram'[x] = dgram[x])
  PROVE  ReadOn(t)' /\ WholeOn(t)'
<1> DEFINE s == wire[t]
<1>1. \A i \in 1..Len(s) : s[i].part # "torn" =>
        WasRead(s[i].d)' /\ key'[s[i].d.from] = key[s[i].d.from]
  BY PieceTyped, WasReadStays DEF ReadOn
<1>2. ReadOn(t)'
  BY <1>1 DEF ReadOn
<1>3. \A i \in 1..Len(s) : s[i].part = "body" =>
        i > 1 /\ s[i - 1] = Header(key'[s[i].d.from], s[i].d)
  BY <1>1 DEF WholeOn
<1>4. ASSUME NEW i \in 1..Len(s), s[i].part = "hdr"
      PROVE  \/ i < Len(s) /\ s[i + 1].part \in {"body", "torn"}
             \/ i = Len(s) /\ (t \in closed' \/ \E c \in WriterOf(t)' :
                                   pc'[c] = "body" /\ dgram'[c] = s[i].d)
  BY <1>4 DEF WholeOn, WriterOf
<1>5. \A i \in 1..Len(s) : s[i].part = "torn" => i = Len(s) /\ t \in closed'
  BY DEF WholeOn
<1>6. WholeOn(t)'
  BY <1>3, <1>4, <1>5 DEF WholeOn, Header
<1> QED BY <1>2, <1>6

\* The step of c writes nothing and leaves c, and all others, with the frame it had.
LEMMA WiresUntouched ==
  ASSUME FrameInv, TypeOK, KeepsRead, UNCHANGED wire, closed \subseteq closed',
         \A x \in Conns : pc[x] = "body" <=> pc'[x] = "body",
         \A x \in Conns : pc[x] = "body" =>
           key'[x] = key[x] /\ target'[x] = target[x] /\ dgram'[x] = dgram[x]
  PROVE  WireInv' /\ FramesWhole'
<1>1. ASSUME NEW t \in Conns PROVE ReadOn(t)' /\ WholeOn(t)'
  <2>1. ReadOn(t) /\ WholeOn(t)
    BY ByStream DEF FrameInv
  <2>2. \A x \in WriterOf(t) : x \in Conns /\ target[x] = t
    BY DEF WriterOf
  <2> QED BY <2>1, <2>2, StreamUntouched
<1>2. ASSUME NEW x \in Conns, pc'[x] = "body" PROVE HeaderLast(x)'
  <2>1. HeaderLast(x)
    BY <1>2, ByStream DEF FrameInv
  <2> QED BY <1>2, <2>1 DEF HeaderLast, Header
<1> QED BY <1>1, <1>2, ByStreamNext

\* The elements of a sequence with one more.
LEMMA AppendAt ==
  ASSUME NEW S, NEW s \in Seq(S), NEW e \in S
  PROVE  /\ Append(s, e) \in Seq(S) /\ Len(s) \in Nat
         /\ Len(Append(s, e)) = Len(s) + 1
         /\ \A i \in 1..Len(s) : Append(s, e)[i] = s[i]
         /\ Append(s, e)[Len(s) + 1] = e
BY AppendProperties, LenProperties

\* The pieces there were before another is appended to an open stream.
LEMMA WroteOn ==
  ASSUME TypeOK, TypeOK', KeepsRead, NEW t \in Conns, ReadOn(t), WholeOn(t), t \notin closed,
         NEW e \in Piece, wire'[t] = Append(wire[t], e),
         e.part # "torn" => key'[e.d.from] \in Pubkeys /\ e.d.id <= sent',
         e.part = "body" =>
           /\ Len(wire[t]) > 0
           /\ wire[t][Len(wire[t])] = Header(key'[e.d.from], e.d),
         Len(wire[t]) > 0 /\ wire[t][Len(wire[t])].part = "hdr" => e.part \in {"body", "torn"},
         e.part = "hdr" => \E c \in WriterOf(t)' : pc'[c] = "body" /\ dgram'[c] = e.d,
         e.part = "torn" => t \in closed'
  PROVE  ReadOn(t)' /\ WholeOn(t)'
<1> DEFINE s == wire[t]
           new == wire'[t]
           n == Len(s)
           ReadNext(d) == key'[d.from] \in Pubkeys /\ d.id <= sent'
<1>1. /\ n \in Nat /\ Len(new) = n + 1
      /\ \A i \in 1..n : new[i] = s[i]
      /\ new[n + 1] = e
  BY AppendAt, PieceTyped DEF TypeOK
<1>2. \A i \in 1..n : s[i].part # "torn" =>
        ReadNext(s[i].d) /\ key'[s[i].d.from] = key[s[i].d.from]
  BY PieceTyped, WasReadStays DEF ReadOn, WasRead
<1>3. \A i \in 1..(n + 1) : i \in 1..n \/ i = n + 1
  BY <1>1
<1> HIDE DEF new, n
<1>4. \A i \in 1..Len(new) : new[i].part # "torn" => ReadNext(new[i].d)
  BY <1>1, <1>2, <1>3
<1>5. ASSUME NEW i \in 1..Len(new), new[i].part = "body"
      PROVE  i > 1 /\ new[i - 1] = Header(key'[new[i].d.from], new[i].d)
  <2>1. CASE i \in 1..n
    <3>1. i > 1 /\ s[i - 1] = Header(key[s[i].d.from], s[i].d)
      BY <1>1, <1>5, <2>1 DEF WholeOn, n
    <3>2. i - 1 \in 1..n
      BY <1>1, <2>1, <3>1
    <3> QED BY <1>1, <1>2, <1>5, <2>1, <3>1, <3>2
  <2>2. CASE i = n + 1
    BY <1>1, <1>5, <2>2 DEF n
  <2> QED BY <1>1, <1>3, <2>1, <2>2
<1>6. ASSUME NEW i \in 1..Len(new), new[i].part = "hdr"
      PROVE  \/ i < Len(new) /\ new[i + 1].part \in {"body", "torn"}
             \/ i = Len(new) /\ (t \in closed' \/ \E c \in WriterOf(t)' :
                                     pc'[c] = "body" /\ dgram'[c] = new[i].d)
  <2>1. CASE i \in 1..n
    <3>1. CASE i = n
      <4>1. i < Len(new) /\ new[i + 1] = e /\ s[n].part = "hdr" /\ n > 0
        BY <1>1, <1>6, <2>1, <3>1
      <4> QED BY <4>1 DEF n
    <3>2. CASE i # n
      <4>1. i < n /\ s[i + 1].part \in {"body", "torn"}
        BY <1>1, <1>6, <2>1, <3>2 DEF WholeOn, n
      <4>2. i + 1 \in 1..n /\ i < Len(new)
        BY <1>1, <2>1, <4>1
      <4> QED BY <1>1, <4>1, <4>2
    <3> QED BY <3>1, <3>2
  <2>2. CASE i = n + 1
    BY <1>1, <1>6, <2>2
  <2> QED BY <1>1, <1>3, <2>1, <2>2
<1>7. ASSUME NEW i \in 1..Len(new), new[i].part = "torn"
      PROVE  i = Len(new) /\ t \in closed'
  <2>1. CASE i \in 1..n
    BY <1>1, <1>7, <2>1 DEF WholeOn, n
  <2>2. CASE i = n + 1
    BY <1>1, <1>7, <2>2
  <2> QED BY <1>1, <1>3, <2>1, <2>2
<1>8. ReadOn(t)'
  BY <1>4 DEF ReadOn, WasRead, new
<1>9. WholeOn(t)'
  <2>1. \A i \in 1..Len(new) : new[i].part = "body" =>
          i > 1 /\ new[i - 1] = Header(key'[new[i].d.from], new[i].d)
    BY <1>5
  <2>2. \A i \in 1..Len(new) : new[i].part = "hdr" =>
             \/ i < Len(new) /\ new[i + 1].part \in {"body", "torn"}
             \/ i = Len(new) /\ (t \in closed' \/ \E c \in WriterOf(t)' :
                                     pc'[c] = "body" /\ dgram'[c] = new[i].d)
    BY <1>6
  <2>3. \A i \in 1..Len(new) : new[i].part = "torn" => i = Len(new) /\ t \in closed'
    BY <1>7
  <2> QED BY <2>1, <2>2, <2>3 DEF WholeOn, Header, new
<1> QED BY <1>8, <1>9

\* The write lock: c is the only one that writes to its target.
LEMMA OneWriter ==
  ASSUME ForwardInv, NEW c \in Conns, pc[c] \in Writing
  PROVE  WriterOf(target[c]) = {c}
BY DEF ForwardInv, Writing, WriterOf

\* At the head of a frame, the last piece on an open stream is no header.
LEMMA NoHeaderLast ==
  ASSUME TypeOK, ForwardInv, NEW c \in Conns, pc[c] = "hdr", WholeOn(target[c]),
         target[c] \notin closed,
         Len(wire[target[c]]) > 0
  PROVE  wire[target[c]][Len(wire[target[c]])].part # "hdr"
<1>1. target[c] \in Conns
  BY DEF TypeOK, InForward
<1>2. Len(wire[target[c]]) \in 1..Len(wire[target[c]])
  BY <1>1, LenProperties DEF TypeOK
<1>3. WriterOf(target[c]) = {c}
  BY OneWriter DEF Writing
<1>4. Len(wire[target[c]]) \in Nat
  BY <1>2
<1> QED BY <1>2, <1>3, <1>4 DEF WholeOn

\* A header starts a frame of the one writer the stream has.
LEMMA WriteHeaderKeepsFrames ==
  ASSUME FrameInv, TypeOK', KeepsRead, NEW c \in Conns, WriteHeader(c)
  PROVE  WireInv' /\ FramesWhole'
<1>0. PICK t \in Conns : t = target[c]
  BY DEF FrameInv, TableInv, TypeOK, WriteHeader, InForward
<1>e. PICK e : e = Header(key[c], dgram[c])
  OBVIOUS
<1>1. /\ pc[c] = "hdr" /\ t = target[c] /\ t \notin closed
      /\ key[c] \in Pubkeys /\ dgram[c] \in Datagram /\ dgram[c].from = c
      /\ UNCHANGED <<key, closed, dgram, target, sent>>
      /\ pc' = [pc EXCEPT ![c] = "body"]
      /\ wire' = [wire EXCEPT ![t] = Append(@, e)]
  BY <1>0, <1>e DEF FrameInv, TableInv, ForwardInv, TypeOK, WriteHeader, Written, Goto, table, forward,
         output, bounds, InForward, Registered
<1>2. TypeOK /\ ForwardInv /\ \A x \in Conns : ReadOn(x) /\ WholeOn(x)
  BY ByStream DEF FrameInv, TableInv
<1>3. e \in Piece /\ e.part = "hdr" /\ e.d = dgram[c]
  BY <1>e, <1>1 DEF Header, Piece
<1>4. key'[e.d.from] \in Pubkeys /\ e.d.id <= sent'
  BY <1>1, <1>2, <1>3 DEF ForwardInv, InForward
<1>5. WriterOf(t) = {c}
  BY <1>1, <1>2, OneWriter DEF Writing
<1>6. /\ wire'[t] = Append(wire[t], e)
      /\ \A x \in Conns : x # t => wire'[x] = wire[x]
      /\ \A x \in Conns : pc'[x] = IF x = c THEN "body" ELSE pc[x]
  BY <1>1, <1>2 DEF TypeOK
<1>7. ReadOn(t)' /\ WholeOn(t)'
  <2>1. Len(wire[t]) > 0 => wire[t][Len(wire[t])].part # "hdr"
    BY <1>1, <1>2, NoHeaderLast
  <2>2. c \in WriterOf(t)' /\ pc'[c] = "body" /\ dgram'[c] = e.d
    BY <1>1, <1>3, <1>6 DEF WriterOf
  <2> QED BY <1>1, <1>2, <1>3, <1>4, <1>6, <2>1, <2>2, WroteOn
<1>8. ASSUME NEW x \in Conns, x # t PROVE ReadOn(x)' /\ WholeOn(x)'
  <2>1. \A y \in WriterOf(x) : y \in Conns /\ target[y] = x /\ y # c
    BY <1>1, <1>8 DEF WriterOf
  <2> QED BY <1>1, <1>2, <1>6, <1>8, <2>1, StreamUntouched
<1>9. ASSUME NEW x \in Conns, pc'[x] = "body" PROVE HeaderLast(x)'
  <2>1. CASE x = c
    <3>1. wire[t] \in Seq(Piece)
      BY <1>1, <1>2 DEF TypeOK
    <3>2. /\ Len(wire'[t]) > 0
          /\ wire'[t][Len(wire'[t])] = e
      BY <3>1, <1>3, <1>6, AppendAt
    <3> QED BY <2>1, <3>2, <1>1, <1>e DEF HeaderLast, Header
  <2>2. CASE x # c
    <3>1. pc[x] = "body" /\ HeaderLast(x) /\ target[x] \in Conns
      BY <1>2, <1>6, <1>9, <2>2, ByStream DEF FrameInv, TypeOK, InForward
    <3>2. target[x] # t
      BY <3>1, <1>5, <2>2 DEF WriterOf
    <3> QED BY <3>1, <3>2, <1>1, <1>6 DEF HeaderLast, Header
  <2> QED BY <2>1, <2>2
<1> QED BY <1>7, <1>8, <1>9, ByStreamNext

\* The body goes directly behind the header of its datagram.
LEMMA WriteBodyKeepsFrames ==
  ASSUME FrameInv, TypeOK', KeepsRead, NEW c \in Conns, WriteBody(c)
  PROVE  WireInv' /\ FramesWhole'
<1>0. PICK t \in Conns : t = target[c]
  BY DEF FrameInv, TableInv, TypeOK, WriteBody, InForward
<1>e. PICK e : e = Body(dgram[c])
  OBVIOUS
<1>1. /\ pc[c] = "body" /\ t = target[c] /\ t \notin closed
      /\ key[c] \in Pubkeys /\ dgram[c] \in Datagram /\ dgram[c].from = c
      /\ UNCHANGED <<key, closed, sent>>
      /\ pc' = [pc EXCEPT ![c] = "loop"]
      /\ dgram' = [dgram EXCEPT ![c] = NoDatagram]
      /\ target' = [target EXCEPT ![c] = NoConn]
      /\ wire' = [wire EXCEPT ![t] = Append(@, e)]
  BY <1>0, <1>e DEF FrameInv, TableInv, ForwardInv, TypeOK, WriteBody, Written, Goto, Return,
         table, bounds, InForward, Registered
<1>2. TypeOK /\ ForwardInv /\ \A x \in Conns : ReadOn(x) /\ WholeOn(x)
  BY ByStream DEF FrameInv, TableInv
<1>3. e \in Piece /\ e.part = "body" /\ e.d = dgram[c]
  BY <1>e, <1>1 DEF Body, Piece
<1>4. key'[e.d.from] \in Pubkeys /\ e.d.id <= sent'
  BY <1>1, <1>2, <1>3 DEF ForwardInv, InForward
<1>5. WriterOf(t) = {c}
  BY <1>1, <1>2, OneWriter DEF Writing
<1>6. /\ wire'[t] = Append(wire[t], e)
      /\ \A x \in Conns : x # t => wire'[x] = wire[x]
      /\ \A x \in Conns : x # c =>
           pc'[x] = pc[x] /\ dgram'[x] = dgram[x] /\ target'[x] = target[x]
      /\ pc'[c] = "loop"
  BY <1>1, <1>2 DEF TypeOK
<1>7. ReadOn(t)' /\ WholeOn(t)'
  <2>1. HeaderLast(c)
    BY <1>1, ByStream DEF FrameInv
  <2>2. Len(wire[t]) > 0 /\ wire[t][Len(wire[t])] = Header(key'[e.d.from], e.d)
    BY <1>1, <1>3, <2>1 DEF HeaderLast
  <2> QED BY <1>1, <1>2, <1>3, <1>4, <1>6, <2>2, WroteOn
<1>8. ASSUME NEW x \in Conns, x # t PROVE ReadOn(x)' /\ WholeOn(x)'
  <2>1. \A y \in WriterOf(x) : y \in Conns /\ target[y] = x /\ y # c
    BY <1>1, <1>8 DEF WriterOf
  <2> QED BY <1>1, <1>2, <1>6, <1>8, <2>1, StreamUntouched
<1>9. ASSUME NEW x \in Conns, pc'[x] = "body" PROVE HeaderLast(x)'
  <2>1. x # c /\ pc[x] = "body"
    BY <1>6, <1>9
  <2>2. HeaderLast(x) /\ target[x] \in Conns
    BY <1>2, <2>1, ByStream DEF FrameInv, TypeOK, InForward
  <2>3. target[x] # t
    BY <1>5, <2>1 DEF WriterOf
  <2> QED BY <2>1, <2>2, <2>3, <1>1, <1>6 DEF HeaderLast, Header
<1> QED BY <1>7, <1>8, <1>9, ByStreamNext

\* A write that failed may leave a torn piece behind, and closes the stream.
LEMMA WriteFailsKeepsFrames ==
  ASSUME FrameInv, TypeOK', KeepsRead, NEW c \in Conns, WriteFails(c)
  PROVE  WireInv' /\ FramesWhole'
<1>0. PICK t \in Conns : t = target[c]
  BY DEF FrameInv, TableInv, TypeOK, WriteFails, InForward
<1>1. /\ pc[c] \in Writing /\ t = target[c]
      /\ UNCHANGED <<key, sent>> /\ closed' = closed \cup {t}
      /\ pc' = [pc EXCEPT ![c] = "loop"]
      /\ dgram' = [dgram EXCEPT ![c] = NoDatagram]
      /\ target' = [target EXCEPT ![c] = NoConn]
      /\ \/ UNCHANGED wire
         \/ t \notin closed /\ wire' = [wire EXCEPT ![t] = Append(@, Torn)]
  BY <1>0 DEF FrameInv, TableInv, TypeOK, WriteFails, Written, Goto, Return, bounds, Writing
<1>2. TypeOK /\ ForwardInv /\ \A x \in Conns : ReadOn(x) /\ WholeOn(x)
  BY ByStream DEF FrameInv, TableInv
<1>3. Torn \in Piece /\ Torn.part = "torn"
  BY DEF Torn, Piece
<1>5. WriterOf(t) = {c}
  BY <1>1, <1>2, OneWriter
<1>6. /\ \A x \in Conns : x # t => wire'[x] = wire[x]
      /\ \A x \in Conns : x # c =>
           pc'[x] = pc[x] /\ dgram'[x] = dgram[x] /\ target'[x] = target[x]
      /\ pc'[c] = "loop"
  BY <1>1, <1>2 DEF TypeOK
<1>7. ReadOn(t)' /\ WholeOn(t)'
  <2>1. CASE UNCHANGED wire
    BY <2>1, <1>1, <1>2, StreamUntouched
  <2>2. CASE t \notin closed /\ wire' = [wire EXCEPT ![t] = Append(@, Torn)]
    <3>1. wire'[t] = Append(wire[t], Torn)
      BY <1>2, <2>2 DEF TypeOK
    <3> QED BY <1>1, <1>2, <1>3, <2>2, <3>1, WroteOn
  <2> QED BY <1>1, <2>1, <2>2
<1>8. ASSUME NEW x \in Conns, x # t PROVE ReadOn(x)' /\ WholeOn(x)'
  <2>1. \A y \in WriterOf(x) : y \in Conns /\ target[y] = x /\ y # c
    BY <1>1, <1>8 DEF WriterOf
  <2> QED BY <1>1, <1>2, <1>6, <1>8, <2>1, StreamUntouched
<1>9. ASSUME NEW x \in Conns, pc'[x] = "body" PROVE HeaderLast(x)'
  <2>1. x # c /\ pc[x] = "body"
    BY <1>6, <1>9
  <2>2. HeaderLast(x) /\ target[x] \in Conns
    BY <1>2, <2>1, ByStream DEF FrameInv, TypeOK, InForward
  <2>3. target[x] # t
    BY <1>5, <2>1 DEF WriterOf
  <2> QED BY <2>1, <2>2, <2>3, <1>1, <1>6 DEF HeaderLast, Header
<1> QED BY <1>7, <1>8, <1>9, ByStreamNext

\* Nothing is written yet.
LEMMA InitFrames == Init => FrameInv
<1> SUFFICES ASSUME Init PROVE WireInv /\ FramesWhole
  BY InitTable, InitForward DEF FrameInv
<1>1. \A t \in Conns : wire[t] = << >> /\ Len(wire[t]) = 0 /\ pc[t] = "new"
  BY DEF Init
<1> QED BY <1>1 DEF WireInv, FramesWhole

\* FrameInv is inductive.
LEMMA StepFrames == FrameInv /\ [Next]_vars => FrameInv'
<1> SUFFICES ASSUME FrameInv, [Next]_vars PROVE FrameInv'
  OBVIOUS
<1>0. TypeOK /\ TypeOK' /\ TableInv' /\ ForwardInv /\ ForwardInv' /\ KeepsRead
  BY StepTyped, StepTable, StepForward, StepKeepsRead DEF FrameInv, TableInv
<1> SUFFICES WireInv' /\ FramesWhole'
  BY <1>0 DEF FrameInv
<1> USE DEF Goto, Move, Return, InForward, table, forward, output, bounds
<1>1. CASE UNCHANGED vars \/ Stopped \/ Cancel
  <2>1. UNCHANGED <<pc, key, closed, dgram, target, wire>>
    BY <1>1 DEF vars, Stopped, Cancel
  <2> QED BY <1>0, <2>1, WiresUntouched
<1>2. ASSUME NEW c \in Conns, Handler(c) PROVE WireInv' /\ FramesWhole'
  <2>1. CASE Accept(c) \/ HelloRejected(c) \/ CheckContext(c) \/ ReadIgnored(c) \/ ReadError(c)
    BY <1>0, <2>1, WiresUntouched
       DEF Accept, HelloRejected, CheckContext, ReadIgnored, ReadError, TypeOK
  <2>2. CASE Register(c) \/ Unregister(c) \/ CloseConn(c)
    BY <1>0, <2>2, WiresUntouched DEF Register, Unregister, CloseConn, TypeOK
  <2>3. ASSUME NEW p \in Pubkeys, HelloAccepted(c, p) PROVE WireInv' /\ FramesWhole'
    BY <1>0, <2>3, WiresUntouched DEF HelloAccepted, TypeOK
  <2>4. ASSUME NEW p \in Pubkeys, ReadDatagram(c, p) PROVE WireInv' /\ FramesWhole'
    BY <1>0, <2>4, WiresUntouched DEF ReadDatagram, TypeOK
  <2>5. CASE PickTarget(c)
    BY <1>0, <2>5, WiresUntouched DEF PickTarget, TypeOK
  <2>6. CASE PeerOffline(c)
    BY <1>0, <2>6, WiresUntouched DEF PeerOffline, TypeOK
  <2>7. CASE LockTarget(c)
    BY <1>0, <2>7, WiresUntouched DEF LockTarget, TypeOK
  <2>8. CASE WriteHeader(c)
    BY <1>0, <2>8, WriteHeaderKeepsFrames
  <2>9. CASE WriteBody(c)
    BY <1>0, <2>9, WriteBodyKeepsFrames
  <2>10. CASE WriteFails(c)
    BY <1>0, <2>10, WriteFailsKeepsFrames
  <2> QED BY <1>2, <2>1, <2>2, <2>3, <2>4, <2>5, <2>6, <2>7, <2>8, <2>9, <2>10 DEF Handler
<1> QED BY <1>1, <1>2 DEF Next

(* Whatever writers, failing writes and evictions meet on a stream, its peer
   reads whole frames, each with its own sender's pubkey, up to the end.      *)
THEOREM FramesStayWhole == Spec => []FramesWhole
<1>1. FrameInv => FramesWhole
  BY DEF FrameInv
<1> QED BY <1>1, InitFrames, StepFrames, PTL DEF Spec

-----------------------------------------------------------------------------
(* Leaving the table.                                                        *)

(* A stream leaves the table by its own unregister, or closed by an eviction. *)
THEOREM RemovalCorrect == Spec => RemovalClosesOrEnds
<1> DEFINE Leaves == \A c \in Conns : InTable(c) /\ ~InTable(c)' =>
                       pc[c] = "unregister" \/ c \in closed'
<1>1. TableInv /\ [Next]_vars => Leaves
  <2> SUFFICES ASSUME TableInv, [Next]_vars, NEW c \in Conns, InTable(c), ~InTable(c)'
               PROVE  pc[c] = "unregister" \/ c \in closed'
    OBVIOUS
  <2>0. TypeOK
    BY DEF TableInv
  <2>1. PICK p \in Pubkeys : c \in ToSet(sessions[p]) /\ c \notin ToSet(sessions'[p])
    BY DEF InTable, ToSet
  <2> USE DEF Goto, Move, Return, table, forward, output, bounds
  <2>2. PICK x \in Conns : Register(x) \/ Unregister(x)
    <3>1. sessions' # sessions
      BY <2>1
    <3>2. ~(UNCHANGED vars \/ Stopped \/ Cancel)
      BY <3>1 DEF vars, Stopped, Cancel
    <3>3. PICK x \in Conns : Handler(x)
      BY <3>2 DEF Next
    <3> QED BY <3>1, <3>3
            DEF Handler, Accept, HelloRejected, HelloAccepted, CheckContext, ReadIgnored,
                ReadError, PickTarget, PeerOffline, LockTarget, WriteHeader, WriteBody,
                WriteFails, CloseConn, ReadDatagram
  <2>3. p = key[x]
    BY <2>0, <2>1, <2>2 DEF Register, Unregister, TypeOK, Registered
  <2> DEFINE list == sessions[p]
  <2>4. list \in Seq(Conns) /\ Len(list) <= MaxSessions /\ IsInjective(list)
    BY <2>0 DEF TableInv, SessionTableSound, TypeOK
  <2>5. CASE Register(x)
    <3>1. /\ sessions'[p] = Append(Kept(list), x)
          /\ closed' = closed \cup Evicted(list) /\ pc[x] = "register"
      BY <2>0, <2>3, <2>5 DEF Register, TypeOK
    <3>2. ToSet(Kept(list)) = ToSet(list) \ Evicted(list) /\ IsInjective(Kept(list))
          /\ Kept(list) \in Seq(Conns)
      BY <2>4, KeptMakesRoom
    <3>3. x \notin ToSet(list)
      BY <3>1 DEF TableInv, SessionTableSound, Registered, InForward
    <3>4. ToSet(Append(Kept(list), x)) = ToSet(Kept(list)) \cup {x}
      BY <3>2, <3>3, AppendFresh
    <3> QED BY <2>1, <3>1, <3>2, <3>4
  <2>6. CASE Unregister(x)
    <3>1. sessions'[p] = Without(list, x) /\ pc[x] = "unregister"
      BY <2>0, <2>3, <2>6 DEF Unregister, TypeOK
    <3>2. ToSet(Without(list, x)) = ToSet(list) \ {x}
      BY <2>4, WithoutRemoves
    <3> QED BY <2>1, <3>1, <3>2
  <2> QED BY <2>2, <2>5, <2>6
<1>2. TableInv /\ [Next]_vars => [Leaves]_vars
  BY <1>1
<1> QED BY <1>2, InitTable, StepTable, PTL DEF Spec, RemovalClosesOrEnds

-----------------------------------------------------------------------------
(* The refinement of MeshDelivery.                                           *)

\* The values of MeshDelivery's variables.
Accepted == {dgram[c] : c \in {x \in Conns : pc[x] \in InForward}}
Delivered == [c \in Conns |-> FramesOn(wire[c])]

\* The i-th piece ends a frame.
LEMMA FramesOnSeq ==
  ASSUME NEW s \in Seq(Piece), NEW f
  PROVE  f \in FramesOn(s) <=>
           \E i \in 2..Len(s) : s[i].part = "body" /\ f = [src |-> s[i - 1].src, d |-> s[i].d]
BY DEF FramesOn

LEMMA AppendFrames ==
  ASSUME NEW s \in Seq(Piece), NEW e \in Piece
  PROVE  /\ e.part # "body" => FramesOn(Append(s, e)) = FramesOn(s)
         /\ e.part = "body" /\ Len(s) > 0 =>
              FramesOn(Append(s, e)) = FramesOn(s) \cup {[src |-> s[Len(s)].src, d |-> e.d]}
<1> DEFINE n == Len(s)
           new == Append(s, e)
           frame(i) == [src |-> new[i - 1].src, d |-> new[i].d]
<1>1. /\ new \in Seq(Piece) /\ n \in Nat /\ Len(new) = n + 1
      /\ \A i \in 1..n : new[i] = s[i]
      /\ new[n + 1] = e
  BY AppendAt
<1> HIDE DEF new, n
<1>2. \A i \in 2..n : i \in 1..n /\ i - 1 \in 1..n /\ i \in 2..(n + 1)
  BY <1>1
<1>3. \A i \in 2..(n + 1) : i \in 2..n \/ (i = n + 1 /\ n > 0)
  BY <1>1
<1>4. n > 0 => n + 1 \in 2..(n + 1) /\ (n + 1) - 1 = n /\ n \in 1..n
  BY <1>1
<1>5. ASSUME NEW f PROVE f \in FramesOn(s) => f \in FramesOn(new)
  <2>1. \A i \in 2..n : s[i] = new[i] /\ s[i - 1] = new[i - 1]
    BY <1>1, <1>2
  <2>2. SUFFICES ASSUME f \in FramesOn(s) PROVE f \in FramesOn(new)
    OBVIOUS
  <2>3. PICK i \in 2..n : s[i].part = "body" /\ f = [src |-> s[i - 1].src, d |-> s[i].d]
    BY <2>2, FramesOnSeq DEF n
  <2>4. i \in 2..(n + 1) /\ new[i].part = "body" /\ f = frame(i)
    BY <1>2, <2>1, <2>3
  <2> QED BY <1>1, <2>4, FramesOnSeq
<1>6. ASSUME NEW f, f \in FramesOn(new), f \notin FramesOn(s)
      PROVE  e.part = "body" /\ n > 0 /\ f = [src |-> s[n].src, d |-> e.d]
  <2>1. PICK i \in 2..(n + 1) : new[i].part = "body" /\ f = frame(i)
    BY <1>1, <1>6, FramesOnSeq
  <2>2. i \notin 2..n
    BY <1>1, <1>2, <1>6, <2>1, FramesOnSeq DEF n
  <2> QED BY <1>1, <1>3, <1>4, <2>1, <2>2
<1>7. e.part = "body" /\ n > 0 => [src |-> s[n].src, d |-> e.d] \in FramesOn(new)
  BY <1>1, <1>4, FramesOnSeq
<1> QED BY <1>5, <1>6, <1>7 DEF new, n

\* A step that brings no goroutine into forward or out of it.
LEMMA AcceptedUntouched ==
  ASSUME \A x \in Conns : (pc[x] \in InForward) <=> (pc'[x] \in InForward),
         \A x \in Conns : pc[x] \in InForward => dgram'[x] = dgram[x]
  PROVE  Accepted' = Accepted
BY DEF Accepted

\* The datagrams in forward are those of different goroutines, and different.
LEMMA AcceptedLess ==
  ASSUME TypeOK, ForwardInv, NEW c \in Conns, pc[c] \in InForward,
         pc'[c] \notin InForward,
         \A x \in Conns : x # c => pc'[x] = pc[x] /\ dgram'[x] = dgram[x]
  PROVE  dgram[c] \in Accepted /\ Accepted' = Accepted \ {dgram[c]}
<1>1. \A x \in Conns : pc[x] \in InForward /\ x # c => dgram[x] # dgram[c]
  BY DEF ForwardInv
<1> QED BY <1>1 DEF Accepted

\* The steps of MeshDelivery, each from its own parameters.
LEMMA DeliverySteps ==
  /\ \A d \in Datagram : Delivery!Accept(d) \/ Delivery!Drop(d) => Delivery!Next
  /\ \A d \in Datagram, c \in Conns : Delivery!Deliver(d, c) => Delivery!Next
BY Zenon DEF Delivery!Next

\* Initial states map to initial states.
LEMMA DeliveryInit == Init => Delivery!Init
<1> SUFFICES ASSUME Init PROVE Delivery!Init
  OBVIOUS
<1>1. FramesOn(<< >>) = {}
  <2>1. << >> \in Seq(Piece) /\ 2..Len(<< >>) = {}
    BY EmptySeq
  <2> QED BY <2>1 DEF FramesOn
<1> QED BY <1>1 DEF Init, Delivery!Init, InForward

\* A step that leaves keys, wires and datagrams in forward alone is a stutter.
LEMMA Stutters ==
  ASSUME UNCHANGED <<key, wire>>, Accepted' = Accepted
  PROVE  UNCHANGED Delivery!vars
BY DEF Delivery!vars, Accepted

\* Each step maps to a step of MeshDelivery or to a stutter.
LEMMA DeliveryStep == FrameInv /\ FrameInv' /\ [Next]_vars => [Delivery!Next]_(Delivery!vars)
<1> SUFFICES ASSUME FrameInv, FrameInv', [Next]_vars PROVE Delivery!Next \/ UNCHANGED Delivery!vars
  BY DEF Delivery!Next
<1>0. /\ TypeOK /\ ForwardInv
      /\ \A t \in Conns : wire[t] \in Seq(Piece)
  BY DEF FrameInv, TableInv, TypeOK
<1> USE DEF Goto, Move, Return, InForward, Registered, table, forward, output, bounds
<1>1. CASE UNCHANGED vars \/ Stopped \/ Cancel
  <2>1. UNCHANGED <<pc, dgram, key, wire>>
    BY <1>1 DEF vars, Stopped, Cancel
  <2> QED BY <2>1, Stutters DEF Accepted
<1>2. ASSUME NEW c \in Conns, Handler(c) PROVE Delivery!Next \/ UNCHANGED Delivery!vars
  <2>1. CASE Accept(c) \/ HelloRejected(c) \/ CheckContext(c) \/ ReadIgnored(c) \/ ReadError(c)
    BY <1>0, <2>1, AcceptedUntouched, Stutters
       DEF Accept, HelloRejected, CheckContext, ReadIgnored, ReadError, TypeOK
  <2>2. CASE Register(c) \/ Unregister(c) \/ CloseConn(c)
    BY <1>0, <2>2, AcceptedUntouched, Stutters DEF Register, Unregister, CloseConn, TypeOK
  <2>3. ASSUME NEW p \in Pubkeys, HelloAccepted(c, p) PROVE Delivery!Next
    <3>1. Accepted' = Accepted
      BY <1>0, <2>3, AcceptedUntouched DEF HelloAccepted, TypeOK
    <3>2. key[c] = NoKey
      BY <1>0, <2>3 DEF HelloAccepted, ForwardInv
    <3>3. Delivery!Announce(c, p)
      BY <2>3, <3>1, <3>2 DEF HelloAccepted, Delivery!Announce, Accepted
    <3> QED BY <3>3 DEF Delivery!Next
  <2>4. ASSUME NEW p \in Pubkeys, ReadDatagram(c, p) PROVE Delivery!Next
    <3> DEFINE dg == [from |-> c, dst |-> p, id |-> sent + 1]
    <3>a. /\ dg \in Datagram /\ dg.from = c /\ dg.id = sent + 1
      BY <1>0, <2>4, BoundAssumption DEF ReadDatagram, TypeOK, Datagram
    <3>b. PICK d \in Datagram : d = dg
      BY <3>a
    <3>1. /\ pc[c] = "read" /\ pc' = [pc EXCEPT ![c] = "pick"]
          /\ dgram' = [dgram EXCEPT ![c] = d] /\ UNCHANGED <<key, wire>>
          /\ sent \in Nat /\ sent + 1 \in 1..MaxDatagrams
      BY <1>0, <2>4, <3>b, BoundAssumption DEF ReadDatagram, TypeOK
    <3>2. d \in Datagram /\ d.from = c /\ d.id = sent + 1
      BY <3>a, <3>b
    <3>3. key[c] \in Pubkeys /\ key[d.from] # NoKey
      BY <1>0, <3>1, <3>2, NullAssumption DEF TypeOK
    <3>4. \A x \in Conns : pc[x] \in InForward => dgram[x] # d
      BY <1>0, <3>1, <3>2 DEF ForwardInv
    <3>5. Accepted' = Accepted \cup {d} /\ d \notin Accepted
      BY <1>0, <3>1, <3>4 DEF Accepted, TypeOK
    <3>6. ASSUME NEW x \in Conns, NEW f \in FramesOn(wire[x]) PROVE f.d # d
      <4>1. PICK i \in 2..Len(wire[x]) :
              wire[x][i].part = "body" /\ f = [src |-> wire[x][i - 1].src, d |-> wire[x][i].d]
        BY <1>0, FramesOnSeq
      <4>2. i \in 1..Len(wire[x])
        BY <1>0, LenProperties
      <4>3. wire[x][i].d.id <= sent
        BY <4>1, <4>2 DEF FrameInv, WireInv, WasRead
      <4> QED BY <3>1, <3>2, <4>1, <4>3
    <3>7. Delivery!Accept(d)
      BY <3>1, <3>2, <3>3, <3>5, <3>6 DEF Delivery!Accept, Accepted
    <3> QED BY <3>2, <3>7, DeliverySteps
  <2>5. CASE PickTarget(c) \/ LockTarget(c)
    BY <1>0, <2>5, AcceptedUntouched, Stutters DEF PickTarget, LockTarget, TypeOK
  <2>6. CASE PeerOffline(c)
    <3>1. pc[c] = "pick" /\ pc' = [pc EXCEPT ![c] = "loop"] /\ UNCHANGED <<key, wire>>
          /\ dgram' = [dgram EXCEPT ![c] = NoDatagram]
      BY <2>6 DEF PeerOffline
    <3>2. dgram[c] \in Accepted /\ Accepted' = Accepted \ {dgram[c]} /\ dgram[c] \in Datagram
      BY <1>0, <3>1, AcceptedLess DEF TypeOK
    <3>3. PICK d \in Datagram : d = dgram[c]
      BY <3>2
    <3>4. Delivery!Drop(d)
      BY <3>1, <3>2, <3>3 DEF Delivery!Drop, Accepted
    <3> QED BY <3>4, DeliverySteps
  <2>7. CASE WriteHeader(c)
    <3> DEFINE e == Header(key[c], dgram[c])
    <3>1. /\ target[c] \in Conns /\ e \in Piece /\ e.part # "body"
          /\ wire' = [wire EXCEPT ![target[c]] = Append(@, e)]
      BY <1>0, <2>7 DEF WriteHeader, Written, Header, Piece, TypeOK
    <3> HIDE DEF e
    <3>2. FramesOn(Append(wire[target[c]], e)) = FramesOn(wire[target[c]])
      BY <1>0, <3>1, AppendFrames
    <3>3. \A x \in Conns : FramesOn(wire'[x]) = FramesOn(wire[x])
      BY <1>0, <3>1, <3>2 DEF TypeOK
    <3>4. Accepted' = Accepted /\ key' = key
      BY <1>0, <2>7, AcceptedUntouched DEF WriteHeader, TypeOK
    <3> QED BY <3>3, <3>4 DEF Delivery!vars, Accepted
  <2>8. CASE WriteBody(c)
    <3>1. target[c] \in Conns /\ dgram[c] \in Datagram
      BY <1>0, <2>8 DEF WriteBody, TypeOK
    <3>2. PICK t \in Conns : t = target[c]
      BY <3>1
    <3>3. PICK d \in Datagram : d = dgram[c]
      BY <3>1
    <3> DEFINE e == Body(d)
               f == [src |-> key[d.from], d |-> d]
    <3>4. /\ pc[c] = "body" /\ d.from = c
          /\ e \in Piece /\ e.part = "body" /\ e.d = d
          /\ wire' = [wire EXCEPT ![t] = Append(@, e)]
          /\ key' = key /\ key[t] = d.dst
          /\ pc' = [pc EXCEPT ![c] = "loop"] /\ dgram' = [dgram EXCEPT ![c] = NoDatagram]
      BY <1>0, <2>8, <3>2, <3>3 DEF WriteBody, Written, Body, Piece, TypeOK, ForwardInv
    <3>5. Len(wire[t]) > 0 /\ wire[t][Len(wire[t])] = Header(key[c], d)
      BY <3>2, <3>3, <3>4 DEF FrameInv, WireInv
    <3>6. wire[t][Len(wire[t])].src = key[d.from]
      BY <3>4, <3>5 DEF Header
    <3>7. d \in Accepted /\ Accepted' = Accepted \ {d}
      BY <1>0, <3>3, <3>4, AcceptedLess DEF TypeOK
    <3> HIDE DEF e
    <3>8. FramesOn(Append(wire[t], e)) = FramesOn(wire[t]) \cup {f}
      BY <1>0, <3>4, <3>5, <3>6, AppendFrames
    <3>9. [x \in Conns |-> FramesOn(wire'[x])] =
            [[x \in Conns |-> FramesOn(wire[x])] EXCEPT ![t] = @ \cup {f}]
      BY <1>0, <3>4, <3>8 DEF TypeOK
    <3>10. Delivery!Deliver(d, t)
      BY <3>4, <3>7, <3>9 DEF Delivery!Deliver, Accepted
    <3> QED BY <3>10, DeliverySteps
  <2>9. CASE WriteFails(c)
    <3>1. /\ pc[c] \in Writing /\ pc' = [pc EXCEPT ![c] = "loop"] /\ key' = key
          /\ dgram' = [dgram EXCEPT ![c] = NoDatagram] /\ target[c] \in Conns
          /\ wire' = wire \/ wire' = [wire EXCEPT ![target[c]] = Append(@, Torn)]
      BY <1>0, <2>9 DEF WriteFails, Written, Writing, TypeOK
    <3>2. dgram[c] \in Accepted /\ Accepted' = Accepted \ {dgram[c]} /\ dgram[c] \in Datagram
      BY <1>0, <3>1, AcceptedLess DEF TypeOK, Writing
    <3>3. Torn \in Piece /\ Torn.part # "body"
      BY DEF Torn, Piece
    <3>4. FramesOn(Append(wire[target[c]], Torn)) = FramesOn(wire[target[c]])
      BY <1>0, <3>1, <3>3, AppendFrames
    <3>5. \A x \in Conns : FramesOn(wire'[x]) = FramesOn(wire[x])
      BY <1>0, <3>1, <3>4 DEF TypeOK
    <3>6. PICK d \in Datagram : d = dgram[c]
      BY <3>2
    <3>7. Delivery!Drop(d)
      BY <3>1, <3>2, <3>5, <3>6 DEF Delivery!Drop, Accepted
    <3> QED BY <3>7, DeliverySteps
  <2> QED BY <1>2, <2>1, <2>2, <2>3, <2>4, <2>5, <2>6, <2>7, <2>8, <2>9 DEF Handler
<1> QED BY <1>1, <1>2 DEF Next

(* The dispatcher delivers a datagram whole, at most once, to a stream that
   announced its destination, under its sender's pubkey, or drops it: every step
   of the goroutines is a step of MeshDelivery or none.                       *)
THEOREM DeliveryImplemented == Spec => DeliversFrames
<1>1. FrameInv /\ FrameInv' /\ [Next]_vars => [Delivery!Next]_(Delivery!vars)
  BY DeliveryStep
<1> QED BY <1>1, DeliveryInit, InitFrames, StepFrames, PTL DEF Spec, DeliversFrames, Delivery!Spec
=============================================================================
