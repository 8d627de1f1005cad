---------------------------- MODULE ServicesProofs ----------------------------
(***************************************************************************)
(* Proofs about the components that MCServices checks in one run.  First   *)
(* the data path: UdpRelay for any addresses, goroutines and capacity of   *)
(* the table, TcpRelay for any number of frames and replies, ExitNode for  *)
(* any addresses, keys and number of faults, each with its own inductive   *)
(* invariant: UdpInv, TcpInv and ExitInv.  At the end, what holds of all   *)
(* of them together, with the theorems about relays and accounts.          *)
(***************************************************************************)
EXTENDS MCServices, RelayRegistryProofs, AccountProvisioningProofs, SequenceTheorems,
  FiniteSetTheorems, TLAPS

-----------------------------------------------------------------------------
(* UdpRelay: types.                                                          *)

SlotType(n) ==
  [at : {"parse", "lookup", "create", "send", "ended"}, own : 0..n,
   src : Sources, dst : Address, sent : SUBSET (1..n)]

\* A goroutine's slot remains well typed when more datagrams arrive.
LEMMA SlotTypeGrows ==
  ASSUME NEW n \in Nat, NEW s \in SlotType(n)
  PROVE  s \in SlotType(n + 1)
<1>1. 0..n \subseteq 0..(n + 1) /\ 1..n \subseteq 1..(n + 1)
  OBVIOUS
<1> QED BY <1>1 DEF SlotType

\* A slot that is started, one that moves on, and what it may be given.
LEMMA SlotTyped ==
  ASSUME NEW n \in Nat
  PROVE  /\ \A m \in 0..n, src \in Sources : NewSlot(m, src) \in SlotType(n)
         /\ EndedSlot \in SlotType(n) /\ EndedSlot.at = "ended"
         /\ \A s \in SlotType(n) :
              /\ \A l \in {"parse", "lookup", "create", "send", "ended"} :
                   [s EXCEPT !.at = l] \in SlotType(n)
              /\ \A a \in Address : [s EXCEPT !.dst = a, !.at = "lookup"] \in SlotType(n)
              /\ \A p \in SUBSET (1..n) :
                   [s EXCEPT !.at = "ended", !.sent = p] \in SlotType(n)
<1>1. (CHOOSE a \in Address : TRUE) \in Address /\ (CHOOSE s \in Sources : TRUE) \in Sources
  BY UdpAssumption
<1>2. \A m \in 0..n, src \in Sources : NewSlot(m, src) \in SlotType(n)
  BY <1>1 DEF NewSlot, SlotType
<1>3. ASSUME NEW s \in SlotType(n) PROVE
        /\ \A l \in {"parse", "lookup", "create", "send", "ended"} :
             [s EXCEPT !.at = l] \in SlotType(n) /\ [s EXCEPT !.at = l].at = l
        /\ \A a \in Address : [s EXCEPT !.dst = a] \in SlotType(n)
        /\ \A p \in SUBSET (1..n) : [s EXCEPT !.sent = p] \in SlotType(n)
  BY <1>3 DEF SlotType
<1>4. EndedSlot \in SlotType(n) /\ EndedSlot.at = "ended"
  <2>1. NewSlot(NoDatagram, CHOOSE s \in Sources : TRUE) \in SlotType(n)
    <3>1. NoDatagram \in 0..n
      BY DEF NoDatagram
    <3> QED BY <1>1, <1>2, <3>1
  <2> QED BY <1>3, <2>1 DEF EndedSlot
<1>5. ASSUME NEW s \in SlotType(n), NEW a \in Address, NEW p \in SUBSET (1..n)
      PROVE  /\ [s EXCEPT !.dst = a, !.at = "lookup"] \in SlotType(n)
             /\ [s EXCEPT !.at = "ended", !.sent = p] \in SlotType(n)
  <2>1. [s EXCEPT !.dst = a, !.at = "lookup"] = [[s EXCEPT !.dst = a] EXCEPT !.at = "lookup"]
    OBVIOUS
  <2>2. [s EXCEPT !.at = "ended", !.sent = p] = [[s EXCEPT !.at = "ended"] EXCEPT !.sent = p]
    OBVIOUS
  <2> QED BY <1>3, <2>1, <2>2
<1> QED BY <1>2, <1>3, <1>4, <1>5

\* The destination a goroutine reads is put together from headers that arrived.
LEMMA DestinationTyped ==
  ASSUME UdpTypeOK
  PROVE  Destination \subseteq Address /\ Visible \subseteq 1..Len(header)
<1>1. Len(header) \in Nat /\ \A n \in 1..Len(header) : header[n] \in Address
  BY LenProperties, ElementOfSeq, UdpAssumption DEF UdpTypeOK
<1>2. Visible \subseteq 1..Len(header)
  BY <1>1 DEF UdpTypeOK, Visible, NoDatagram
<1> QED BY <1>1, <1>2 DEF Destination, Address

\* UdpTypeOK in three parts: what arrives, the table, the goroutines.
ArrivalTypes ==
  /\ loop \in {"reading", "copying", "closed"}
  /\ stopping \in BOOLEAN /\ cleanup \in BOOLEAN
  /\ header \in Seq(Targets) /\ Len(header) <= MaxDatagrams
  /\ buf \in 0..Len(header) /\ incoming \in 0..Len(header)
  /\ loop = "copying" <=> incoming # NoDatagram

TableTypes == sessions \in [Keys -> {NoSession} \cup 0..(StaleAfter + 1)]

SlotTypes == slot \in [Slots -> SlotType(Len(header))]

\* UdpTypeOK is their conjunction.
LEMMA TypesInParts ==
  /\ UdpTypeOK <=> ArrivalTypes /\ TableTypes /\ SlotTypes
  /\ UdpTypeOK' <=> ArrivalTypes' /\ TableTypes' /\ SlotTypes'
BY DEF UdpTypeOK, ArrivalTypes, TableTypes, SlotTypes, SlotType

\* A goroutine forwards under a session used within this period; what a period
\* made stale, the cleanup of that period still has to take away.
TableInUse ==
  /\ \A g \in Slots : slot[g].at = "send" => sessions[Key(g)] = 0
  /\ ~stopping /\ ~cleanup => \A k \in Keys : sessions[k] <= StaleAfter

\* The sessions there are: never more than the table holds.
Table == {k \in Keys : InTable(k)}

CapacityInv == IsFiniteSet(Table) /\ Cardinality(Table) <= SessionCapacity

UdpInv == UdpTypeOK /\ TableInUse /\ CapacityInv

\* Nothing has arrived, and the table is empty.
LEMMA InitUdp == UdpInit => UdpInv
<1> SUFFICES ASSUME UdpInit PROVE UdpInv
  OBVIOUS
<1>1. << >> \in Seq(Targets) /\ Len(<< >>) = 0
  BY EmptySeq
<1>2. EndedSlot \in SlotType(0) /\ EndedSlot.at = "ended"
  BY SlotTyped
<1>3. UdpTypeOK
  <2>1. header \in Seq(Targets) /\ Len(header) = 0
    BY <1>1 DEF UdpInit
  <2>2. ArrivalTypes
    <3>1. loop = "reading" /\ incoming = 0 /\ buf = 0 /\ stopping = FALSE /\ cleanup = FALSE
      BY DEF UdpInit, NoDatagram
    <3>2. loop = "copying" <=> incoming # NoDatagram
      BY <3>1 DEF NoDatagram
    <3>3. stopping \in BOOLEAN /\ cleanup \in BOOLEAN
      BY DEF UdpInit
    <3>4. Len(header) <= MaxDatagrams /\ buf \in 0..Len(header) /\ incoming \in 0..Len(header)
      BY <2>1, <3>1, UdpAssumption
    <3>5. loop \in {"reading", "copying", "closed"}
      BY <3>1
    <3> QED BY <2>1, <3>2, <3>3, <3>4, <3>5 DEF ArrivalTypes
  <2>3. TableTypes
    BY UdpAssumption DEF UdpInit, TableTypes
  <2>4. SlotTypes
    BY <1>2, <2>1 DEF UdpInit, SlotTypes
  <2> QED BY <2>2, <2>3, <2>4, TypesInParts
<1>4. TableInUse
  BY <1>2, UdpAssumption DEF UdpInit, TableInUse, NoSession
<1>5. Table = {}
  BY DEF UdpInit, Table, InTable
<1>6. CapacityInv
  BY <1>5, FS_EmptySet, UdpAssumption DEF CapacityInv
<1> QED BY <1>3, <1>4, <1>6 DEF UdpInv

\* The first part.
LEMMA StepArrivals == UdpTypeOK /\ [UdpNext]_udpVars => ArrivalTypes'
<1> SUFFICES ASSUME UdpTypeOK, [UdpNext]_udpVars PROVE ArrivalTypes'
  OBVIOUS
<1>0. ArrivalTypes /\ Len(header) \in Nat
  BY TypesInParts, LenProperties DEF ArrivalTypes
<1>1. CASE UNCHANGED udpVars
  BY <1>0, <1>1 DEF udpVars, ArrivalTypes
<1>2. ASSUME NEW dst \in Targets, Arrive(dst) PROVE ArrivalTypes'
  <2>1. header' \in Seq(Targets) /\ Len(header') = Len(header) + 1
    BY <1>0, <1>2, AppendProperties DEF Arrive, ArrivalTypes
  <2> QED BY <1>0, <1>2, <2>1, UdpAssumption DEF Arrive, ArrivalTypes, NoDatagram
<1>3. ASSUME NEW g \in Slots, NEW src \in Sources, Spawn(g, src) PROVE ArrivalTypes'
  BY <1>0, <1>3 DEF Spawn, ArrivalTypes, NoDatagram
<1>4. CASE Cancel \/ Close \/ CleanStale \/ CleanupStops \/ Period
  BY <1>0, <1>4 DEF Cancel, Close, CleanStale, CleanupStops, Period, ArrivalTypes
<1>5. ASSUME NEW g \in Slots, Forwarding(g) PROVE ArrivalTypes'
  BY <1>0, <1>5 DEF Forwarding, Parse, Lookup, Create, Send, ArrivalTypes
<1> QED BY <1>1, <1>2, <1>3, <1>4, <1>5 DEF UdpNext

\* The third part.
LEMMA StepSlotTypes == UdpTypeOK /\ [UdpNext]_udpVars => SlotTypes'
<1> SUFFICES ASSUME UdpTypeOK, [UdpNext]_udpVars PROVE SlotTypes'
  OBVIOUS
<1>0. SlotTypes /\ ArrivalTypes /\ Len(header) \in Nat
  BY TypesInParts, LenProperties DEF ArrivalTypes
<1>1. CASE UNCHANGED udpVars
  BY <1>0, <1>1 DEF udpVars, SlotTypes
<1>2. ASSUME NEW dst \in Targets, Arrive(dst) PROVE SlotTypes'
  <2>1. Len(header') = Len(header) + 1 /\ slot' = slot
    BY <1>0, <1>2, AppendProperties DEF Arrive, ArrivalTypes
  <2> QED BY <1>0, <2>1, SlotTypeGrows DEF SlotTypes
<1>3. ASSUME NEW g \in Slots, NEW src \in Sources, Spawn(g, src) PROVE SlotTypes'
  BY <1>0, <1>3, SlotTyped DEF Spawn, ArrivalTypes, SlotTypes
<1>4. CASE Cancel \/ Close \/ CleanStale \/ CleanupStops \/ Period
  BY <1>0, <1>4 DEF Cancel, Close, CleanStale, CleanupStops, Period, SlotTypes
<1>5. ASSUME NEW g \in Slots, Forwarding(g) PROVE SlotTypes'
  <2>1. slot[g] \in SlotType(Len(header))
    BY <1>0 DEF SlotTypes
  <2>2. ASSUME NEW s, s \in SlotType(Len(header)), header' = header,
               slot' = [slot EXCEPT ![g] = s]
        PROVE  SlotTypes'
    BY <1>0, <2>2 DEF SlotTypes
  <2>3. CASE Parse(g)
    <3>1. PICK a \in Address :
                slot' = [slot EXCEPT ![g] = [slot[g] EXCEPT !.dst = a, !.at = "lookup"]]
      BY <1>0, <2>3, DestinationTyped DEF Parse, SlotTypes
    <3> QED BY <1>0, <2>1, <2>2, <2>3, <3>1, SlotTyped DEF Parse
  <2>4. CASE Lookup(g) \/ Create(g)
    BY <1>0, <2>1, <2>2, <2>4, SlotTyped DEF Lookup, Create
  <2>5. CASE Send(g)
    <3>1. PICK p \in SUBSET (1..Len(header)) :
            slot' = [slot EXCEPT ![g] = [slot[g] EXCEPT !.at = "ended", !.sent = p]]
      BY <1>0, <2>5, DestinationTyped DEF Send, SlotTypes
    <3> QED BY <1>0, <2>1, <2>2, <2>5, <3>1, SlotTyped DEF Send
  <2> QED BY <1>5, <2>3, <2>4, <2>5 DEF Forwarding
<1> QED BY <1>1, <1>2, <1>3, <1>4, <1>5 DEF UdpNext

-----------------------------------------------------------------------------
(* UdpRelay: the session table.                                              *)

\* A goroutine works for a pair of addresses.
LEMMA KeyTyped == UdpTypeOK => \A g \in Slots : Key(g) \in Keys
BY DEF UdpTypeOK, Key, Keys

\* A step that touches no session and brings no goroutine to its send.
LEMMA TableUntouched ==
  ASSUME TableInUse, TableTypes, CapacityInv, sessions' = sessions,
         stopping => stopping', cleanup => cleanup' \/ stopping',
         \A g \in Slots : slot'[g].at = "send" => slot'[g] = slot[g]
  PROVE  TableInUse' /\ TableTypes' /\ CapacityInv'
<1>1. CapacityInv' /\ TableTypes'
  BY DEF CapacityInv, TableTypes, Table, InTable
<1> QED BY <1>1 DEF TableInUse, Key

\* GetOrCreate finds or enters the session of g.
LEMMA SessionSeen ==
  ASSUME UdpTypeOK, TableInUse, CapacityInv, NEW g \in Slots,
         InTable(Key(g)) \/ ~Full, sessions' = Seen(Key(g)),
         slot' = [slot EXCEPT ![g].at = "send"], UNCHANGED <<stopping, cleanup>>
  PROVE  TableInUse' /\ TableTypes' /\ CapacityInv'
<1>1. /\ sessions \in [Keys -> {NoSession} \cup 0..(StaleAfter + 1)]
      /\ StaleAfter \in Nat /\ SessionCapacity \in Nat /\ Key(g) \in Keys
      /\ sessions' = [sessions EXCEPT ![Key(g)] = 0]
  BY KeyTyped, UdpAssumption DEF UdpTypeOK, Seen
<1>2. TableTypes'
  BY <1>1 DEF TableTypes
<1>3. \A x \in Slots : Key(x)' = Key(x) /\ (x # g => slot'[x] = slot[x])
  BY DEF UdpTypeOK, Key
<1>4. TableInUse'
  <2>1. ASSUME NEW x \in Slots, slot'[x].at = "send" PROVE sessions'[Key(x)'] = 0
    BY <1>1, <1>3, <2>1, KeyTyped DEF TableInUse
  <2>2. ASSUME ~stopping', ~cleanup', NEW k \in Keys PROVE sessions'[k] <= StaleAfter
    BY <1>1, <2>2 DEF TableInUse
  <2> QED BY <2>1, <2>2 DEF TableInUse
<1>5. Table' = Table \cup {Key(g)}
  BY <1>1 DEF Table, InTable, NoSession
<1>6. CapacityInv'
  <2>1. CASE InTable(Key(g))
    <3>1. Table' = Table
      BY <1>1, <1>5, <2>1 DEF Table
    <3> QED BY <3>1 DEF CapacityInv
  <2>2. CASE ~InTable(Key(g))
    <3>1. Key(g) \notin Table /\ Cardinality(Table) < SessionCapacity
      BY <2>2, <1>1, FS_CardinalityType DEF Table, Full, Count, CapacityInv
    <3>2. /\ IsFiniteSet(Table \cup {Key(g)})
          /\ Cardinality(Table \cup {Key(g)}) = Cardinality(Table) + 1
      BY <3>1, FS_AddElement DEF CapacityInv
    <3> QED BY <1>1, <1>5, <3>1, <3>2, FS_CardinalityType DEF CapacityInv
  <2> QED BY <2>1, <2>2
<1> QED BY <1>2, <1>4, <1>6

\* Fewer sessions, or the same ones a period older.
LEMMA TableShrinks ==
  ASSUME CapacityInv, Table' \subseteq Table
  PROVE  CapacityInv'
<1>1. IsFiniteSet(Table') /\ Cardinality(Table') <= Cardinality(Table)
  BY FS_Subset DEF CapacityInv
<1> QED BY <1>1, UdpAssumption, FS_CardinalityType DEF CapacityInv

\* The second part, and the invariants of the table.
LEMMA StepTables ==
  UdpInv /\ [UdpNext]_udpVars => TableInUse' /\ TableTypes' /\ CapacityInv'
<1> SUFFICES ASSUME UdpInv, [UdpNext]_udpVars PROVE TableInUse' /\ TableTypes' /\ CapacityInv'
  OBVIOUS
<1>0. /\ UdpTypeOK /\ TableInUse /\ CapacityInv /\ TableTypes /\ SlotTypes
      /\ sessions \in [Keys -> {NoSession} \cup 0..(StaleAfter + 1)]
      /\ StaleAfter \in Nat
  BY TypesInParts, UdpAssumption DEF UdpInv, TableTypes
<1>1. CASE UNCHANGED udpVars
  BY <1>0, <1>1, TableUntouched DEF udpVars
<1>2. CASE Cancel \/ Close \/ CleanupStops \/ \E dst \in Targets : Arrive(dst)
  BY <1>0, <1>2, TableUntouched DEF Cancel, Close, CleanupStops, Arrive
<1>3. ASSUME NEW g \in Slots, NEW src \in Sources, Spawn(g, src)
      PROVE  TableInUse' /\ TableTypes' /\ CapacityInv'
  BY <1>0, <1>3, TableUntouched DEF Spawn, NewSlot, SlotTypes
<1>4. ASSUME NEW g \in Slots, Forwarding(g) PROVE TableInUse' /\ TableTypes' /\ CapacityInv'
  <2>0. slot[g] \in SlotType(Len(header))
    BY <1>0 DEF SlotTypes
  <2>1. ASSUME \/ slot' = [slot EXCEPT ![g].at = "create"]
               \/ slot' = [slot EXCEPT ![g].at = "ended"],
               UNCHANGED <<sessions, stopping, cleanup>>
        PROVE  TableInUse' /\ TableTypes' /\ CapacityInv'
    <3>1. \A x \in Slots : slot'[x].at = "send" => slot'[x] = slot[x]
      BY <1>0, <2>0, <2>1 DEF SlotType, SlotTypes
    <3> QED BY <1>0, <2>1, <3>1, TableUntouched
  <2>2. CASE Parse(g)
    <3>1. \A x \in Slots : slot'[x].at = "send" => slot'[x] = slot[x]
      BY <1>0, <2>0, <2>2 DEF Parse, SlotType, SlotTypes
    <3> QED BY <1>0, <2>2, <3>1, TableUntouched DEF Parse
  <2>3. CASE Send(g)
    <3>1. \A x \in Slots : slot'[x].at = "send" => slot'[x] = slot[x]
      BY <1>0, <2>0, <2>3 DEF Send, SlotType, SlotTypes
    <3> QED BY <1>0, <2>3, <3>1, TableUntouched DEF Send
  <2>4. CASE Lookup(g)
    BY <1>0, <2>1, <2>4, SessionSeen DEF Lookup
  <2>5. CASE Create(g)
    BY <1>0, <2>1, <2>5, SessionSeen DEF Create
  <2> QED BY <1>4, <2>2, <2>3, <2>4, <2>5 DEF Forwarding
<1>5. CASE CleanStale
  <2>1. \A k \in Keys : sessions'[k] = IF sessions[k] > StaleAfter THEN NoSession ELSE sessions[k]
    BY <1>5 DEF CleanStale, Stale
  <2>2. Table' \subseteq Table
    BY <2>1 DEF Table, InTable
  <2>3. TableTypes'
    BY <1>0, <1>5, <2>1 DEF TableTypes, CleanStale
  <2>4. TableInUse'
    BY <1>0, <1>5, <2>1, KeyTyped DEF TableInUse, CleanStale, Key, NoSession
  <2> QED BY <1>0, <2>2, <2>3, <2>4, TableShrinks
<1>6. CASE Period
  <2>1. \A k \in Keys : /\ sessions[k] <= StaleAfter
                        /\ sessions'[k] = IF sessions[k] # NoSession THEN sessions[k] + 1
                                           ELSE NoSession
    BY <1>0, <1>6 DEF Period, InTable, TableInUse
  <2>2. Table' \subseteq Table
    BY <2>1 DEF Table, InTable
  <2>3. TableTypes'
    BY <1>0, <1>6, <2>1 DEF TableTypes, Period, NoSession
  <2>4. TableInUse'
    BY <1>0, <1>6 DEF TableInUse, Period
  <2> QED BY <1>0, <2>2, <2>3, <2>4, TableShrinks
<1> QED BY <1>1, <1>2, <1>3, <1>4, <1>5, <1>6 DEF UdpNext

\* UdpInv is inductive.
LEMMA StepUdp == UdpInv /\ [UdpNext]_udpVars => UdpInv'
BY StepArrivals, StepSlotTypes, StepTables, TypesInParts DEF UdpInv

(* UdpTypeOK: a goroutine holds only datagrams that have arrived.           *)
THEOREM UdpTypes == UdpSpec => []UdpTypeOK
<1>1. UdpInv => UdpTypeOK
  BY DEF UdpInv
<1> QED BY <1>1, InitUdp, StepUdp, PTL DEF UdpSpec

(* SessionsSound (session.go): the table never holds more than its capacity, a
   goroutine forwards only under a session that is in the table, and after the
   cleanup of a period no stale session is left.                             *)
THEOREM UdpSessionsSound == UdpSpec => []SessionsSound
<1>1. UdpInv => SessionsSound
  BY KeyTyped DEF UdpInv, TableInUse, CapacityInv, Table, SessionsSound, Count, InTable, NoSession
<1> QED BY <1>1, InitUdp, StepUdp, PTL DEF UdpSpec

------------------------------------------------------------------------------
(* TcpRelay.                                                                 *)

\* The frame up is at, by where it is.
UpInv ==
  /\ taken <= sent \/ taken = 0
  /\ up \in {"none", "loop", "length"} => \E n \in 0..MaxFrames : taken = 2 * n
  /\ up = "length" => frame = << >>
  /\ up = "body" => \E n \in 1..MaxFrames : taken = 2 * n - 1 /\ frame = <<2 * n - 1>>
  /\ up = "send" => \E n \in 1..MaxFrames : taken = 2 * n /\ frame = <<2 * n - 1, 2 * n>>

\* What was sent is made of frames that lie before the present one.
OutInv ==
  /\ UploadsFramed
  /\ 2 * Len(out) <= taken
  /\ \A i \in 1..Len(out) : out[i][1] < taken
  /\ up = "send" => 2 * Len(out) + 2 <= taken /\ \A i \in 1..Len(out) : out[i][1] < taken - 1

\* What was written comes before the present reply, and is whole while down goes on.
DownInv ==
  /\ DownloadsFramed
  /\ down = "header" => up = "none"
  /\ down # "ended" => \A i \in 1..Len(written) : written[i].whole /\ written[i].reply <= reply
  /\ down = "write" => reply >= 1 /\ \A i \in 1..Len(written) : written[i].reply < reply

TcpInv == TcpTypeOK /\ UpInv /\ OutInv /\ DownInv

\* What Append does.
LEMMA AppendFacts ==
  ASSUME NEW S, NEW s \in Seq(S), NEW e \in S
  PROVE  /\ Append(s, e) \in Seq(S) /\ Len(Append(s, e)) = Len(s) + 1
         /\ \A i \in 1..Len(s) : Append(s, e)[i] = s[i]
         /\ Append(s, e)[Len(s) + 1] = e
  OBVIOUS

\* A body after a length.
LEMMA AppendToOne == ASSUME NEW a, NEW b PROVE Append(<<a>>, b) = <<a, b>>
<1> DEFINE S == {a, b}
<1>1. <<a>> \in Seq(S) /\ <<a, b>> \in Seq(S) /\ b \in S
  OBVIOUS
<1>2. /\ Append(<<a>>, b) \in Seq(S) /\ Len(Append(<<a>>, b)) = 2
      /\ Append(<<a>>, b)[1] = a /\ Append(<<a>>, b)[2] = b
  BY <1>1
<1>3. Len(<<a, b>>) = 2 /\ <<a, b>>[1] = a /\ <<a, b>>[2] = b
  OBVIOUS
<1>4. \A i \in 1..2 : Append(<<a>>, b)[i] = <<a, b>>[i]
  BY <1>2, <1>3
<1> QED BY <1>1, <1>2, <1>3, <1>4, SeqEqual

\* Elements of a sequence.
LEMMA ElementsTyped ==
  ASSUME NEW S, NEW s \in Seq(S)
  PROVE  Len(s) \in Nat /\ \A i \in 1..Len(s) : s[i] \in S
  OBVIOUS

\* What is written to the client has a number.
LEMMA WrittenNumbered ==
  ASSUME TcpInv
  PROVE  Len(written) \in Nat /\ \A i \in 1..Len(written) : written[i].reply \in 1..MaxReplies
<1>1. written \in Seq([reply : 1..MaxReplies, whole : BOOLEAN])
  BY DEF TcpInv, TcpTypeOK
<1>2. \A i \in 1..Len(written) : written[i] \in [reply : 1..MaxReplies, whole : BOOLEAN]
  BY <1>1, ElementsTyped
<1> QED BY <1>1, <1>2

\* Nothing sent and nothing read.
LEMMA TcpInitHolds == ASSUME TcpInit PROVE TcpInv
<1> USE TcpAssumption
<1>1. Len(out) = 0 /\ Len(written) = 0 /\ Len(frame) = 0
  BY DEF TcpInit
<1>2. TcpTypeOK
  <2>1. frame \in Seq(1..sent) /\ out \in Seq(Seq(1..sent))
    BY EmptySeq DEF TcpInit
  <2>2. written \in Seq([reply : 1..MaxReplies, whole : BOOLEAN])
    BY EmptySeq DEF TcpInit
  <2>5. replies \in 0..MaxReplies /\ reply \in 0..replies /\ taken \in 0..(2 * MaxFrames)
    BY DEF TcpInit
  <2>6. sent \in NoHeader..(2 * MaxFrames)
    BY DEF TcpInit, NoHeader
  <2>3. /\ gone \in BOOLEAN /\ cancelled \in BOOLEAN
        /\ up \in {"none", "loop", "length", "body", "send", "ended"}
        /\ down \in {"header", "loop", "read", "write", "ended"}
    BY DEF TcpInit
  <2>4. Len(frame) <= 2 /\ Len(out) <= MaxFrames
    BY <1>1
  <2> QED BY <2>1, <2>2, <2>3, <2>4, <2>5, <2>6 DEF TcpTypeOK
<1>3. UpInv
  <2>1. 0 \in 0..MaxFrames /\ taken = 2 * 0
    BY DEF TcpInit
  <2> QED BY <2>1 DEF TcpInit, UpInv
<1>4. OutInv /\ DownInv
  BY <1>1 DEF TcpInit, OutInv, DownInv, UploadsFramed, DownloadsFramed
<1> QED BY <1>2, <1>3, <1>4 DEF TcpInv

\* The client's end, and what comes from the network.
LEMMA OutsideKeeps ==
  ASSUME TcpInv, SendHeader \/ SendChunk \/ HangUp \/ Reply \/ CancelTcp
  PROVE  TcpInv'
<1> USE TcpAssumption
<1>1. UNCHANGED <<taken, up, frame, out, down, reply, written>>
  BY DEF SendHeader, SendChunk, HangUp, Reply, CancelTcp
<1>2. /\ gone' \in BOOLEAN /\ cancelled' \in BOOLEAN
      /\ sent' \in NoHeader..(2 * MaxFrames) /\ sent' >= sent
      /\ replies' \in 0..MaxReplies /\ replies' >= replies
  <2>1. /\ gone \in BOOLEAN /\ cancelled \in BOOLEAN
        /\ sent \in NoHeader..(2 * MaxFrames) /\ replies \in 0..MaxReplies
    BY DEF TcpInv, TcpTypeOK
  <2>2. CASE SendHeader
    BY <2>1, <2>2 DEF SendHeader, NoHeader
  <2>3. CASE SendChunk
    BY <2>1, <2>3 DEF SendChunk, NoHeader
  <2>4. CASE HangUp
    BY <2>1, <2>4 DEF HangUp, NoHeader
  <2>6. CASE CancelTcp
    BY <2>1, <2>6 DEF CancelTcp, NoHeader
  <2>5. CASE Reply
    BY <2>1, <2>5 DEF Reply, NoHeader
  <2> QED BY <2>2, <2>3, <2>4, <2>5, <2>6
<1>3. Seq(1..sent) \subseteq Seq(1..sent')
  BY <1>2 DEF TcpInv, TcpTypeOK, NoHeader
<1>4. Seq(Seq(1..sent)) \subseteq Seq(Seq(1..sent'))
  BY <1>3
<1>5. TcpTypeOK'
  BY <1>1, <1>2, <1>3, <1>4 DEF TcpInv, TcpTypeOK, NoHeader
<1>6. UpInv'
  BY <1>1, <1>2 DEF TcpInv, UpInv, TcpTypeOK, NoHeader
<1>7. OutInv' /\ DownInv'
  BY <1>1 DEF TcpInv, OutInv, DownInv, UploadsFramed, DownloadsFramed
<1> QED BY <1>5, <1>6, <1>7 DEF TcpInv

\* What the downward goroutine leaves alone.
LEMMA UpwardStands ==
  ASSUME TcpInv, UNCHANGED <<sent, taken, up, frame, out>>
  PROVE  UpInv' /\ OutInv'
  BY DEF TcpInv, UpInv, OutInv, UploadsFramed

\* What the upward goroutine leaves alone.
LEMMA DownwardStands ==
  ASSUME TcpInv, UNCHANGED <<down, reply, written>>, up' = "none" <=> up = "none"
  PROVE  DownInv'
  BY DEF TcpInv, DownInv, DownloadsFramed

\* Both goroutines start at the beginning of a frame.
LEMMA ReadHeaderKeeps == ASSUME TcpInv, ReadHeader PROVE TcpInv'
<1> USE TcpAssumption
<1>1. TcpTypeOK'
  BY DEF TcpInv, TcpTypeOK, ReadHeader, Return
<1>2. UpInv' /\ OutInv' /\ DownInv'
  BY DEF TcpInv, TcpTypeOK, ReadHeader, Return, UpInv, OutInv, DownInv, UploadsFramed,
    DownloadsFramed
<1> QED BY <1>1, <1>2 DEF TcpInv

\* One step of handleConnection.
LEMMA DownLoopKeeps == ASSUME TcpInv, DownLoop PROVE TcpInv'
<1>1. TcpTypeOK'
  BY DEF TcpInv, TcpTypeOK, DownLoop, Return
<1>2. UpInv' /\ OutInv'
  BY UpwardStands DEF DownLoop
<1>3. DownInv'
  BY DEF TcpInv, TcpTypeOK, DownLoop, Return, DownInv, DownloadsFramed
<1> QED BY <1>1, <1>2, <1>3 DEF TcpInv

\* The datagram that is read is later than those before it.
LEMMA ReadReplyKeeps == ASSUME TcpInv, ReadReply PROVE TcpInv'
<1> USE TcpAssumption
<1>1. TcpTypeOK'
  BY DEF TcpInv, TcpTypeOK, ReadReply, Return
<1>2. UpInv' /\ OutInv'
  BY UpwardStands DEF ReadReply
<1>3. DownInv'
  <2>1. reply' \in Nat /\ reply \in Nat /\ reply' >= reply /\ (down' = "write" => reply' > reply)
    BY DEF TcpInv, TcpTypeOK, ReadReply, Return
  <2>2. \A i \in 1..Len(written) : written[i].whole /\ written[i].reply <= reply
    BY DEF ReadReply, TcpInv, DownInv
  <2>3. down' \in {"write", "ended"} /\ written' = written
    BY DEF ReadReply, Return
  <2>4. DownloadsFramed'
    BY <2>3 DEF TcpInv, DownInv, DownloadsFramed
  <2> QED BY <2>1, <2>2, <2>3, <2>4, WrittenNumbered DEF DownInv
<1> QED BY <1>1, <1>2, <1>3 DEF TcpInv

\* A frame that is cut off is the last one.
LEMMA WriteReplyKeeps == ASSUME TcpInv, WriteReply PROVE TcpInv'
<1> USE TcpAssumption
<1> DEFINE Frame == [reply : 1..MaxReplies, whole : BOOLEAN]
<1>1. reply \in 1..MaxReplies
  BY DEF TcpInv, TcpTypeOK, DownInv, WriteReply
<1>2. PICK w \in BOOLEAN :
        /\ written' \in {written, Append(written, [reply |-> reply, whole |-> w])}
        /\ down' \in {"loop", "ended"} /\ (down' = "loop" => w)
  BY DEF WriteReply, Written, Return
<1>3. [reply |-> reply, whole |-> w] \in Frame
  BY <1>1
<1>4. written \in Seq(Frame)
  BY DEF TcpInv, TcpTypeOK
<1> HIDE DEF Frame
<1>8. written' \in Seq(Frame)
  BY <1>2, <1>3, <1>4, AppendFacts
<1>5. TcpTypeOK'
  BY <1>2, <1>8 DEF TcpInv, TcpTypeOK, WriteReply, Frame
<1>6. UpInv' /\ OutInv'
  BY UpwardStands DEF WriteReply
<1>7. DownInv'
  <2>1. CASE UNCHANGED written
    <3>1. down' = "ended"
      BY <2>1, <1>4 DEF WriteReply, Written, Return
    <3> QED BY <2>1, <3>1 DEF TcpInv, DownInv, DownloadsFramed, WriteReply
  <2>2. CASE written' = Append(written, [reply |-> reply, whole |-> w])
    <3>1. /\ Len(written') = Len(written) + 1
          /\ \A i \in 1..Len(written) : written'[i] = written[i]
          /\ written'[Len(written) + 1] = [reply |-> reply, whole |-> w]
      BY <2>2, <1>3, <1>4, AppendFacts
    <3>2. \A i \in 1..Len(written) : written[i].whole /\ written[i].reply < reply
      BY DEF WriteReply, TcpInv, DownInv
    <3>3. Len(written) \in Nat /\ \A i \in 1..Len(written) : written[i].reply \in Int
      BY WrittenNumbered
    <3>6. \A i \in 1..Len(written), j \in 1..Len(written) :
            j < i => written[j].reply < written[i].reply
      BY <3>3 DEF TcpInv, DownInv, DownloadsFramed
    <3>4. DownloadsFramed'
      BY <3>1, <3>2, <3>3, <3>6 DEF DownloadsFramed
    <3>5. down' # "ended" =>
            \A i \in 1..Len(written') : written'[i].whole /\ written'[i].reply <= reply
      BY <3>1, <3>2, <3>3, <1>1, <1>2, <1>4
    <3> QED BY <3>4, <3>5, <1>2 DEF DownInv, WriteReply
  <2> QED BY <2>1, <2>2, <1>2
<1> QED BY <1>5, <1>6, <1>7 DEF TcpInv

\* Between frames nothing of a frame is held.
LEMMA UpLoopKeeps == ASSUME TcpInv, UpLoop PROVE TcpInv'
<1> USE TcpAssumption
<1>1. TcpTypeOK'
  BY DEF TcpInv, TcpTypeOK, UpLoop
<1>2. UpInv'
  BY DEF TcpInv, TcpTypeOK, UpLoop, UpInv
<1>3. OutInv'
  BY DEF TcpInv, UpLoop, OutInv, UploadsFramed
<1>4. DownInv'
  BY DownwardStands DEF UpLoop
<1> QED BY <1>1, <1>2, <1>3, <1>4 DEF TcpInv

\* A chunk is a length when an even number came before it, and a body otherwise.
LEMMA ReadChunkKeeps == ASSUME TcpInv, ReadChunk PROVE TcpInv'
<1> USE TcpAssumption
<1>1. /\ taken \in Nat /\ sent \in Nat /\ taken < sent /\ taken' = taken + 1
      /\ UNCHANGED <<out, sent>>
  BY DEF TcpInv, TcpTypeOK, ReadChunk, NoHeader
<1>2. \A i \in 1..Len(out) : out[i][1] \in Int
  BY DEF TcpInv, OutInv, UploadsFramed
<1>3. CASE up = "length"
  <2>1. PICK n \in 0..MaxFrames : taken = 2 * n
    BY <1>3 DEF TcpInv, UpInv
  <2>2. n + 1 \in 1..MaxFrames /\ taken' = 2 * (n + 1) - 1
    BY <1>1, <2>1 DEF TcpInv, TcpTypeOK
  <2>3. frame' = <<taken'>> /\ up' = "body"
    BY <1>1, <1>3 DEF TcpInv, UpInv, ReadChunk
  <2>4. UpInv'
    BY <1>1, <2>2, <2>3 DEF UpInv
  <2>5. OutInv'
    BY <1>1, <1>2, <2>3 DEF TcpInv, TcpTypeOK, OutInv, UploadsFramed
  <2>6. frame' \in Seq(1..sent) /\ Len(frame') = 1
    BY <1>1, <2>3
  <2>7. TcpTypeOK'
    BY <1>1, <2>2, <2>3, <2>6 DEF TcpInv, TcpTypeOK, ReadChunk
  <2>8. DownInv'
    BY <1>3, <2>3, DownwardStands DEF ReadChunk
  <2> QED BY <2>4, <2>5, <2>7, <2>8 DEF TcpInv
<1>4. CASE up = "body"
  <2>1. PICK n \in 1..MaxFrames : taken = 2 * n - 1 /\ frame = <<2 * n - 1>>
    BY <1>4 DEF TcpInv, UpInv
  <2>2. taken' = 2 * n
    BY <1>1, <2>1
  <2>3. frame' = <<2 * n - 1, 2 * n>> /\ up' = "send"
    <3>1. frame' = Append(frame, 2 * n) /\ up' = "send"
      BY <1>1, <1>4, <2>2 DEF ReadChunk
    <3> QED BY <3>1, <2>1, AppendToOne
  <2>4. UpInv'
    BY <1>1, <2>2, <2>3 DEF UpInv
  <2>5. Len(out) \in Nat /\ 2 * Len(out) <= 2 * n - 1
    BY <2>1 DEF TcpInv, TcpTypeOK, OutInv
  <2>6. 2 * Len(out) + 2 <= 2 * n
    BY <2>5
  <2>7. OutInv'
    <3>1. \A i \in 1..Len(out) : out[i][1] < taken' - 1
      BY <1>1, <1>2 DEF TcpInv, OutInv
    <3>2. \A i \in 1..Len(out) : out[i][1] < taken'
      BY <3>1, <1>1, <1>2
    <3>3. UploadsFramed'
      BY <1>1 DEF TcpInv, OutInv, UploadsFramed
    <3> QED BY <3>1, <3>2, <3>3, <1>1, <2>2, <2>5, <2>6 DEF OutInv
  <2>8. frame' \in Seq(1..sent) /\ Len(frame') = 2
    BY <1>1, <2>1, <2>2, <2>3
  <2>9. TcpTypeOK'
    BY <1>1, <2>2, <2>3, <2>8 DEF TcpInv, TcpTypeOK, ReadChunk
  <2>10. DownInv'
    BY <1>4, <2>3, DownwardStands DEF ReadChunk
  <2> QED BY <2>4, <2>7, <2>9, <2>10 DEF TcpInv
<1> QED BY <1>3, <1>4 DEF ReadChunk

\* A goroutine that failed in a frame reads no more.
LEMMA ReadErrorKeeps == ASSUME TcpInv, ReadError PROVE TcpInv'
<1>1. TcpTypeOK'
  BY DEF TcpInv, TcpTypeOK, ReadError, AfterError
<1>2. UpInv' /\ OutInv'
  BY DEF TcpInv, ReadError, AfterError, UpInv, OutInv, UploadsFramed
<1>3. DownInv'
  BY DownwardStands DEF ReadError, AfterError
<1> QED BY <1>1, <1>2, <1>3 DEF TcpInv

\* The frame that is sent comes after all that were sent before.
LEMMA SendFrameKeeps == ASSUME TcpInv, SendFrame PROVE TcpInv'
<1> USE TcpAssumption
<1>1. PICK n \in 1..MaxFrames : taken = 2 * n /\ frame = <<2 * n - 1, 2 * n>>
  BY DEF TcpInv, UpInv, SendFrame
<1>2. /\ out \in Seq(Seq(1..sent)) /\ frame \in Seq(1..sent) /\ Len(out) \in Nat
      /\ 2 * Len(out) + 2 <= taken
  BY DEF TcpInv, TcpTypeOK, OutInv, SendFrame
<1>3. UpInv' /\ DownInv'
  BY <1>1, DownwardStands DEF TcpInv, UpInv, SendFrame
<1>4. CASE UNCHANGED out
  <2>1. TcpTypeOK'
    BY <1>4 DEF TcpInv, TcpTypeOK, SendFrame
  <2>2. OutInv'
    BY <1>4 DEF TcpInv, SendFrame, OutInv, UploadsFramed
  <2> QED BY <2>1, <2>2, <1>3 DEF TcpInv
<1>5. CASE out' = Append(out, frame)
  <2>1. /\ Len(out') = Len(out) + 1 /\ out' \in Seq(Seq(1..sent))
        /\ \A i \in 1..Len(out) : out'[i] = out[i]
        /\ out'[Len(out) + 1] = frame
    BY <1>2, <1>5
  <2>2. Len(out') <= MaxFrames
    BY <1>1, <1>2, <2>1
  <2>3. TcpTypeOK'
    BY <2>1, <2>2 DEF TcpInv, TcpTypeOK, SendFrame
  <2>4. \A i \in 1..Len(out) : out[i][1] < taken - 1
    BY DEF TcpInv, OutInv, SendFrame
  <2>5. frame[1] = taken - 1
    BY <1>1
  <2>6. UploadsFramed'
    <3>1. out'[Len(out) + 1] = <<2 * n - 1, 2 * n>>
      BY <1>1, <2>1
    <3>2. \A i \in 1..Len(out) : \E k \in 1..MaxFrames : out[i] = <<2 * k - 1, 2 * k>>
      BY DEF TcpInv, OutInv, UploadsFramed
    <3>3. \A i \in 1..Len(out), j \in 1..Len(out) : j < i => out[j][1] < out[i][1]
      BY <1>2 DEF TcpInv, OutInv, UploadsFramed
    <3> SUFFICES ASSUME NEW i \in 1..Len(out')
                 PROVE  /\ \E k \in 1..MaxFrames : out'[i] = <<2 * k - 1, 2 * k>>
                        /\ \A j \in 1..(i - 1) : out'[j][1] < out'[i][1]
      BY DEF UploadsFramed
    <3>4. CASE i \in 1..Len(out)
      <4>1. \A j \in 1..(i - 1) : j \in 1..Len(out) /\ j < i
        BY <3>4, <1>2
      <4> QED BY <3>2, <3>3, <3>4, <4>1, <2>1
    <3>5. CASE i = Len(out) + 1
      <4>1. \A j \in 1..(i - 1) : j \in 1..Len(out)
        BY <3>5, <1>2
      <4>2. out'[i] = frame /\ frame = <<2 * n - 1, 2 * n>>
        BY <3>5, <2>1, <1>1
      <4>3. \A j \in 1..(i - 1) : out'[j][1] < out'[i][1]
        BY <4>1, <4>2, <2>1, <2>4, <2>5
      <4> QED BY <4>2, <4>3
    <3>6. i \in 1..Len(out) \/ i = Len(out) + 1
      BY <2>1, <1>2
    <3> QED BY <3>4, <3>5, <3>6
  <2>7. \A i \in 1..Len(out) : out[i][1] < taken
    BY DEF TcpInv, OutInv
  <2>8. \A i \in 1..Len(out') : out'[i][1] < taken
    <3>1. taken - 1 < taken
      BY <1>1
    <3>2. \A i \in 1..Len(out') : i \in 1..Len(out) \/ i = Len(out) + 1
      BY <1>2, <2>1
    <3> QED BY <3>1, <3>2, <2>1, <2>5, <2>7
  <2>9. 2 * Len(out') <= taken
    BY <1>1, <1>2, <2>1
  <2>10. taken' = taken /\ up' = "loop"
    BY DEF SendFrame
  <2>11. OutInv'
    BY <2>6, <2>8, <2>9, <2>10 DEF OutInv
  <2> QED BY <2>3, <2>11, <1>3 DEF TcpInv
<1> QED BY <1>4, <1>5 DEF SendFrame

\* TcpInv is inductive.
LEMMA TcpInvKept == ASSUME TcpInv, [TcpNext]_tcpVars PROVE TcpInv'
<1>1. CASE UNCHANGED tcpVars
  <2>1. TcpTypeOK'
    BY <1>1 DEF tcpVars, TcpInv, TcpTypeOK
  <2>2. UpInv' /\ OutInv' /\ DownInv'
    BY <1>1, UpwardStands, DownwardStands DEF tcpVars
  <2> QED BY <2>1, <2>2 DEF TcpInv
<1>2. CASE Upward
  BY <1>2, UpLoopKeeps, ReadChunkKeeps, ReadErrorKeeps, SendFrameKeeps DEF Upward
<1>3. CASE Downward
  BY <1>3, ReadHeaderKeeps, DownLoopKeeps, ReadReplyKeeps, WriteReplyKeeps DEF Downward
<1> QED BY <1>1, <1>2, <1>3, OutsideKeeps DEF TcpNext, Copying

(* TcpTypeOK.                                                                *)
THEOREM TcpTypes == TcpSpec => []TcpTypeOK
<1>1. TcpInv => TcpTypeOK
  BY DEF TcpInv
<1> QED BY TcpInitHolds, TcpInvKept, <1>1, PTL DEF TcpSpec

(* FramesInStep: wherever pauses, deadlines and errors fall, the destination
   gets whole frames in order and the client gets whole frames in order but
   for the last.                                                              *)
THEOREM TcpFramesInStep == TcpSpec => []FramesInStep
<1>1. TcpInv => FramesInStep
  BY DEF TcpInv, OutInv, DownInv, FramesInStep
<1> QED BY TcpInitHolds, TcpInvKept, <1>1, PTL DEF TcpSpec

------------------------------------------------------------------------------
(* ExitNode.                                                                 *)

\* Copies of a rule the process that runs has added and not yet tried to delete.
Held(i) == \/ proc.at = "nat" /\ i < proc.next
           \/ proc.at = "running"
           \/ proc.at = "disable" /\ i >= proc.next

\* The interface is brought up once there is none, and then stands until it is
\* removed.
SettingUp == proc.at = "setup" /\ proc.next > 1
Up == proc.at \in {"peers", "nat", "running", "disable", "teardown"}
IfaceInv ==
  /\ proc.at \in {"nat", "disable"} => proc.next \in RuleNumbers
  /\ SettingUp => iface.done = proc.next - 1
  /\ Up => iface.done = SetupCommands
  /\ proc.at \in {"leaving", "stopped"} => iface.done = 0 \/ undone > 0
  /\ iface.done = 0 => iface.owner = NoPeers

\* A rule has one copy more than commands failed if the process holds one of it,
\* or if it ended and left its interface too, which blocks the next start.
Starting == Down \/ proc.at \in {"login", "register"} \/ (proc.at = "setup" /\ proc.next = 1)
LeftBehind == iface.done > 0 /\ Starting
RulesInv ==
  /\ undone <= troubles
  /\ \A i \in RuleNumbers :
       /\ Held(i) => rules[i] >= 1
       /\ rules[i] <= 1 + undone
       /\ Held(i) \/ rules[i] <= undone \/ (LeftBehind /\ proc.at # "stopped")

\* The traffic for the address of k goes to a node the answer lists there.
Routed(k) == update.list[k] # NoAddress => iface.owner[update.list[k]] \in Sharing(k)

\* While the interface comes up, nothing of the answer has been applied.
PeersInv ==
  /\ proc.at = "setup" => \A k \in PeerKeys \ update.todo : update.list[k] = NoAddress
  /\ iface.done > 0 => \A k \in PeerKeys \ (update.todo \cup update.failed) : Routed(k)

ExitInv == ExitTypeOK /\ IfaceInv /\ RulesInv /\ PeersInv

\* ExitTypeOK by name: main, the interface, the answer.
ProcType ==
  [at : {"stopped", "failed", "login", "register", "setup", "peers", "nat",
         "running", "disable", "teardown", "leaving"}, next : 1..SetupCommands]
\* Whose traffic goes where.
Owners == [Addresses -> PeerKeys \cup {NoPeer}]
IfaceType == [done : 0..SetupCommands, owner : Owners]
UpdateType ==
  [list : PeerLists, todo : SUBSET PeerKeys, failed : SUBSET PeerKeys,
   vless : BOOLEAN, on : BOOLEAN]

\* Nobody has an address.
LEMMA NoPeersTyped == NoPeers \in Owners
  BY DEF NoPeers, Owners

\* What a process that ends leaves unchanged, and what it resets.
LEMMA NoUpdateFacts ==
  /\ NoUpdate.todo = {} /\ NoUpdate.failed = {}
  /\ NoUpdate \in UpdateType
  /\ \A k \in PeerKeys : NoUpdate.list[k] = NoAddress
  BY DEF NoUpdate, PeerLists, UpdateType

\* There is no interface.
LEMMA NoInterfaceFacts ==
  /\ NoInterface.done = 0 /\ NoInterface.owner = NoPeers
  /\ NoInterface \in IfaceType
  BY NoPeersTyped DEF NoInterface, SetupCommands, IfaceType, Owners

\* An answer that is about to be applied.
LEMMA ApplyingFacts ==
  ASSUME NEW list \in PeerLists, NEW v \in BOOLEAN
  PROVE  /\ Applying(list, v) \in UpdateType
         /\ Applying(list, v).list = list /\ Applying(list, v).failed = {}
         /\ Applying(list, v).todo = {k \in PeerKeys : list[k] # NoAddress}
  BY DEF Applying, UpdateType

\* A host on which nothing has run.
LEMMA ExitInitHolds == ASSUME ExitInit PROVE ExitInv
<1> USE ExitAssumption
<1>1. proc.at = "stopped" /\ proc.next = 1
  BY DEF ExitInit
<1>2. ExitTypeOK
  <2>1. proc \in ProcType
    BY NoUpdateFacts, NoInterfaceFacts DEF ExitInit, SetupCommands, ProcType
  <2>2. tokenFile \in {"none", "valid", "expired"} /\ session \in {"none", "valid", "expired"}
    BY NoUpdateFacts, NoInterfaceFacts DEF ExitInit
  <2>3. iface \in IfaceType
    BY NoUpdateFacts, NoInterfaceFacts DEF ExitInit, SetupCommands, IfaceType, Owners
  <2>4. rules \in [RuleNumbers -> 0..(MaxTroubles + 1)]
    BY NoUpdateFacts, NoInterfaceFacts DEF ExitInit, SetupCommands
  <2>5. update \in UpdateType
    BY NoUpdateFacts, NoInterfaceFacts DEF ExitInit, UpdateType
  <2>6. vless \in BOOLEAN
    BY NoUpdateFacts, NoInterfaceFacts DEF ExitInit
  <2>7. troubles \in 0..MaxTroubles /\ undone \in 0..MaxTroubles
    BY NoUpdateFacts, NoInterfaceFacts DEF ExitInit
  <2> QED BY <2>1, <2>2, <2>3, <2>4, <2>5, <2>6, <2>7
      DEF ExitTypeOK, ProcType, IfaceType, Owners, UpdateType
<1>3. IfaceInv
  BY <1>1, NoInterfaceFacts DEF ExitInit, IfaceInv, SettingUp, Up
<1>4. RulesInv
  BY <1>1, NoInterfaceFacts DEF ExitInit, RulesInv, Held, LeftBehind
<1>5. PeersInv
  BY <1>1, NoInterfaceFacts, NoUpdateFacts DEF ExitInit, PeersInv
<1> QED BY <1>2, <1>3, <1>4, <1>5 DEF ExitInv

\* The process ends: by itself, or on an error, or killed.
LEMMA FatalKeeps ==
  ASSUME ExitInv, Fatal, troubles' \in troubles..MaxTroubles
  PROVE  ExitInv'
<1> USE ExitAssumption, NoUpdateFacts
<1>1. proc'.at = "failed" /\ proc'.next = 1 /\ UNCHANGED <<iface, rules, undone, tokenFile>>
  BY DEF Fatal, Ends, At
<1>2. ExitTypeOK'
  <2>1. proc' \in ProcType
    BY DEF ExitInv, ExitTypeOK, Fatal, Ends, At, SetupCommands, ProcType
  <2>2. tokenFile' \in {"none", "valid", "expired"} /\ session' \in {"none", "valid", "expired"}
    BY DEF ExitInv, ExitTypeOK, Fatal, Ends
  <2>3. iface' \in IfaceType
    BY DEF ExitInv, ExitTypeOK, Fatal, SetupCommands, IfaceType, Owners
  <2>4. rules' \in [RuleNumbers -> 0..(MaxTroubles + 1)]
    BY <1>1 DEF ExitInv, ExitTypeOK, Fatal, SetupCommands
  <2>5. update' \in UpdateType
    BY DEF ExitInv, ExitTypeOK, Fatal, Ends, UpdateType
  <2>6. vless' \in BOOLEAN
    BY DEF ExitInv, ExitTypeOK, Fatal, Ends
  <2>7. troubles' \in 0..MaxTroubles /\ undone' \in 0..MaxTroubles
    BY <1>1 DEF ExitInv, ExitTypeOK, Fatal
  <2> QED BY <2>1, <2>2, <2>3, <2>4, <2>5, <2>6, <2>7
      DEF ExitTypeOK, ProcType, IfaceType, Owners, UpdateType
<1>3. IfaceInv'
  BY <1>1 DEF ExitInv, IfaceInv, SettingUp, Up
<1>4. RulesInv'
  BY <1>1 DEF ExitInv, ExitTypeOK, IfaceInv, RulesInv, Held, LeftBehind, Starting, Down,
    SettingUp, Up, SetupCommands
<1>5. PeersInv'
  BY <1>1 DEF Fatal, Ends, PeersInv, Routed, OnList, Sharing
<1> QED BY <1>2, <1>3, <1>4, <1>5 DEF ExitInv

\* main returns.
LEMMA LeaveKeeps == ASSUME ExitInv, Leave PROVE ExitInv'
<1> USE ExitAssumption, NoUpdateFacts
<1>1. /\ proc'.at = "stopped" /\ proc'.next = 1
      /\ UNCHANGED <<iface, rules, undone, tokenFile, troubles>>
  BY DEF Leave, Ends, At
<1>2. ExitTypeOK'
  <2>1. proc' \in ProcType
    BY DEF ExitInv, ExitTypeOK, Leave, Ends, At, SetupCommands, ProcType
  <2>2. tokenFile' \in {"none", "valid", "expired"} /\ session' \in {"none", "valid", "expired"}
    BY DEF ExitInv, ExitTypeOK, Leave, Ends
  <2>3. iface' \in IfaceType
    BY DEF ExitInv, ExitTypeOK, Leave, SetupCommands, IfaceType, Owners
  <2>4. rules' \in [RuleNumbers -> 0..(MaxTroubles + 1)]
    BY <1>1 DEF ExitInv, ExitTypeOK, Leave, SetupCommands
  <2>5. update' \in UpdateType
    BY DEF ExitInv, ExitTypeOK, Leave, Ends, UpdateType
  <2>6. vless' \in BOOLEAN
    BY DEF ExitInv, ExitTypeOK, Leave, Ends
  <2>7. troubles' \in 0..MaxTroubles /\ undone' \in 0..MaxTroubles
    BY <1>1 DEF ExitInv, ExitTypeOK, Leave
  <2> QED BY <2>1, <2>2, <2>3, <2>4, <2>5, <2>6, <2>7
      DEF ExitTypeOK, ProcType, IfaceType, Owners, UpdateType
<1>3. IfaceInv'
  BY <1>1 DEF ExitInv, IfaceInv, SettingUp, Up, Leave
<1>4. RulesInv'
  BY <1>1 DEF ExitInv, ExitTypeOK, IfaceInv, RulesInv, Held, LeftBehind, Starting, Down,
    SettingUp, Up, Leave
<1>5. PeersInv'
  BY <1>1 DEF Leave, Ends, PeersInv, Routed, OnList, Sharing
<1> QED BY <1>2, <1>3, <1>4, <1>5 DEF ExitInv

\* A process starts over what the last one left.
LEMMA StartKeeps == ASSUME ExitInv, Start PROVE ExitInv'
<1> USE ExitAssumption
<1>1. ExitTypeOK'
  BY DEF ExitInv, ExitTypeOK, Start, At, Down, SetupCommands
<1>2. IfaceInv'
  BY DEF ExitInv, ExitTypeOK, IfaceInv, SettingUp, Up, Start, At, SetupCommands, RuleNumbers,
    Down
<1>3. RulesInv'
  BY DEF ExitInv, ExitTypeOK, IfaceInv, RulesInv, Held, LeftBehind, Starting, Start, At,
    RuleNumbers, Down
<1>4. PeersInv'
  BY DEF ExitInv, ExitTypeOK, IfaceInv, PeersInv, Routed, OnList, Sharing, Start, At, Down
<1> QED BY <1>1, <1>2, <1>3, <1>4 DEF ExitInv

\* The host is not touched.
LEMMA InteractiveLoginKeeps == ASSUME ExitInv, InteractiveLogin PROVE ExitInv'
<1> USE ExitAssumption
<1>1. ExitTypeOK'
  BY DEF ExitInv, ExitTypeOK, InteractiveLogin, At, Trouble, SetupCommands
<1>2. IfaceInv'
  BY DEF ExitInv, ExitTypeOK, IfaceInv, SettingUp, Up, InteractiveLogin, At, Trouble,
    SetupCommands, RuleNumbers
<1>3. RulesInv'
  BY DEF ExitInv, ExitTypeOK, IfaceInv, RulesInv, Held, LeftBehind, Starting, InteractiveLogin,
    At, Trouble, RuleNumbers, Down
<1>4. PeersInv'
  BY DEF ExitInv, ExitTypeOK, IfaceInv, PeersInv, Routed, OnList, Sharing, InteractiveLogin,
    At, Trouble
<1> QED BY <1>1, <1>2, <1>3, <1>4 DEF ExitInv

\* The answer is kept for later.
LEMMA RegisterNodeKeeps == ASSUME ExitInv, RegisterNode PROVE ExitInv'
<1> USE ExitAssumption, ApplyingFacts
<1>1. ExitTypeOK'
  BY DEF ExitInv, ExitTypeOK, RegisterNode, At, SetupCommands, UpdateType
<1>2. IfaceInv'
  BY DEF ExitInv, ExitTypeOK, IfaceInv, SettingUp, Up, RegisterNode, At, SetupCommands,
    RuleNumbers
<1>3. RulesInv'
  BY DEF ExitInv, ExitTypeOK, IfaceInv, RulesInv, Held, LeftBehind, Starting, RegisterNode, At,
    RuleNumbers, Down
<1>4. PeersInv'
  BY DEF ExitInv, ExitTypeOK, IfaceInv, PeersInv, Routed, OnList, Sharing, RegisterNode, At
<1> QED BY <1>1, <1>2, <1>3, <1>4 DEF ExitInv

\* The first command finds no interface, so that no rule has more copies than failures.
LEMMA SetupCommandKeeps == ASSUME ExitInv, SetupCommand PROVE ExitInv'
<1> USE ExitAssumption
<1>1. ExitTypeOK'
  BY DEF ExitInv, ExitTypeOK, SetupCommand, At, SetupCommands, Blocked
<1>2. IfaceInv'
  BY DEF ExitInv, ExitTypeOK, IfaceInv, SettingUp, Up, SetupCommand, At, SetupCommands,
    RuleNumbers, Blocked
<1>3. RulesInv'
  BY DEF ExitInv, ExitTypeOK, IfaceInv, RulesInv, Held, LeftBehind, Starting, SetupCommand, At,
    SetupCommands, RuleNumbers, Down, Blocked
<1>4. PeersInv'
  BY DEF ExitInv, ExitTypeOK, IfaceInv, PeersInv, Routed, OnList, Sharing, SetupCommand, At,
    SetupCommands, Blocked
<1> QED BY <1>1, <1>2, <1>3, <1>4 DEF ExitInv

\* main goes on to the rules.
LEMMA PeersAddedKeeps == ASSUME ExitInv, PeersAdded PROVE ExitInv'
<1> USE ExitAssumption, NoUpdateFacts
<1>1. ExitTypeOK'
  BY DEF ExitInv, ExitTypeOK, PeersAdded, At, SetupCommands, UpdateType
<1>2. IfaceInv'
  BY DEF ExitInv, ExitTypeOK, IfaceInv, SettingUp, Up, PeersAdded, At, SetupCommands,
    RuleNumbers
<1>3. RulesInv'
  BY DEF ExitInv, ExitTypeOK, IfaceInv, RulesInv, Held, LeftBehind, Starting, PeersAdded, At,
    RuleNumbers, Down
<1>4. PeersInv'
  BY DEF ExitInv, ExitTypeOK, IfaceInv, PeersInv, Routed, OnList, Sharing, PeersAdded, At
<1> QED BY <1>1, <1>2, <1>3, <1>4 DEF ExitInv

\* A rule gets one copy.
LEMMA EnableCommandKeeps == ASSUME ExitInv, EnableCommand PROVE ExitInv'
<1> USE ExitAssumption
<1>1. ExitTypeOK'
  <2>1. proc' \in ProcType
    BY DEF ExitInv, ExitTypeOK, EnableCommand, At, SetupCommands, IfaceInv, RuleNumbers,
      ProcType
  <2>2. tokenFile' \in {"none", "valid", "expired"} /\ session' \in {"none", "valid", "expired"}
    BY DEF ExitInv, ExitTypeOK, EnableCommand
  <2>3. iface' \in IfaceType
    BY DEF ExitInv, ExitTypeOK, EnableCommand, SetupCommands, IfaceType, Owners
  <2>4. rules' \in [RuleNumbers -> 0..(MaxTroubles + 1)]
    <3>1. proc.next \in RuleNumbers
      BY DEF ExitInv, IfaceInv, EnableCommand
    <3>2. rules[proc.next] <= undone
      BY <3>1 DEF ExitInv, ExitTypeOK, RulesInv, Held, LeftBehind, Starting, Down,
        EnableCommand, RuleNumbers
    <3>3. rules[proc.next] \in Nat /\ rules[proc.next] + 1 <= MaxTroubles + 1
      BY <3>1, <3>2 DEF ExitInv, ExitTypeOK
    <3> QED BY <3>1, <3>3 DEF ExitInv, ExitTypeOK, EnableCommand
  <2>5. update' \in UpdateType
    BY DEF ExitInv, ExitTypeOK, EnableCommand, UpdateType
  <2>6. vless' \in BOOLEAN
    BY DEF ExitInv, ExitTypeOK, EnableCommand
  <2>7. troubles' \in 0..MaxTroubles /\ undone' \in 0..MaxTroubles
    BY DEF ExitInv, ExitTypeOK, EnableCommand, RulesInv
  <2> QED BY <2>1, <2>2, <2>3, <2>4, <2>5, <2>6, <2>7
      DEF ExitTypeOK, ProcType, IfaceType, Owners, UpdateType
<1>2. IfaceInv'
  BY DEF ExitInv, ExitTypeOK, IfaceInv, SettingUp, Up, EnableCommand, At, SetupCommands,
    RuleNumbers
<1>3. RulesInv'
  BY DEF ExitInv, ExitTypeOK, IfaceInv, RulesInv, Held, LeftBehind, Starting, EnableCommand,
    At, RuleNumbers, Down
<1>4. PeersInv'
  BY DEF ExitInv, ExitTypeOK, IfaceInv, PeersInv, Routed, OnList, Sharing, EnableCommand, At
<1> QED BY <1>1, <1>2, <1>3, <1>4 DEF ExitInv

\* A new answer: all of it is to be applied.
LEMMA HeartbeatKeeps == ASSUME NEW v \in BOOLEAN, ExitInv, Heartbeat(v) PROVE ExitInv'
<1> USE ExitAssumption, ApplyingFacts
<1>1. ExitTypeOK'
  BY DEF ExitInv, ExitTypeOK, Heartbeat, UpdateType
<1>2. IfaceInv'
  BY DEF ExitInv, ExitTypeOK, IfaceInv, SettingUp, Up, Heartbeat, SetupCommands, RuleNumbers
<1>3. RulesInv'
  BY DEF ExitInv, ExitTypeOK, IfaceInv, RulesInv, Held, LeftBehind, Starting, Heartbeat,
    RuleNumbers, Down
<1>4. PeersInv'
  BY DEF ExitInv, ExitTypeOK, IfaceInv, PeersInv, Routed, OnList, Sharing, Heartbeat
<1> QED BY <1>1, <1>2, <1>3, <1>4 DEF ExitInv

\* The two ways AddPeer changes update.
Added(u, a) == [u EXCEPT !.todo = @ \ {a}]
NotAdded(u, a) == [u EXCEPT !.todo = @ \ {a}, !.failed = @ \cup {a}]

\* Their fields.
LEMMA AddedFacts ==
  ASSUME NEW a \in PeerKeys,
         NEW u \in UpdateType
  PROVE  /\ Added(u, a) \in UpdateType
         /\ Added(u, a).list = u.list /\ Added(u, a).todo = u.todo \ {a}
         /\ Added(u, a).failed = u.failed
  BY DEF Added, UpdateType

\* Their fields.
LEMMA NotAddedFacts ==
  ASSUME NEW a \in PeerKeys,
         NEW u \in UpdateType
  PROVE  /\ NotAdded(u, a) \in UpdateType
         /\ NotAdded(u, a).list = u.list /\ NotAdded(u, a).todo = u.todo \ {a}
         /\ NotAdded(u, a).failed = u.failed \cup {a}
<1>1. /\ NotAdded(u, a).list = u.list /\ NotAdded(u, a).todo = u.todo \ {a}
      /\ NotAdded(u, a).failed = u.failed \cup {a}
  BY DEF NotAdded, UpdateType
<1>2. u.failed \cup {a} \in SUBSET PeerKeys /\ u.todo \ {a} \in SUBSET PeerKeys
  BY DEF UpdateType
<1>3. NotAdded(u, a) \in UpdateType
  BY <1>2 DEF NotAdded, UpdateType
<1> QED BY <1>1, <1>3

\* A key that takes over an address leaves none that the answer gives another node.
LEMMA AddPeerKeeps == ASSUME NEW a \in PeerKeys, ExitInv, AddPeer(a) PROVE ExitInv'
<1> USE ExitAssumption
<1>5. update \in UpdateType
  BY DEF ExitInv, ExitTypeOK, UpdateType
<1>6. \/ /\ update' = Added(update, a)
         /\ iface' = [iface EXCEPT !.owner = Assigned(@, update.list[a], a)]
      \/ update' = NotAdded(update, a) /\ UNCHANGED iface
  BY DEF AddPeer, Added, NotAdded
<1>7. update'.list = update.list /\ UNCHANGED proc
  BY <1>5, <1>6, AddedFacts, NotAddedFacts DEF AddPeer
<1>1. ExitTypeOK'
  <2>1. proc' \in ProcType
    BY DEF ExitInv, ExitTypeOK, AddPeer, ProcType
  <2>2. tokenFile' \in {"none", "valid", "expired"} /\ session' \in {"none", "valid", "expired"}
    BY DEF ExitInv, ExitTypeOK, AddPeer
  <2>3. iface' \in IfaceType
    BY DEF ExitInv, ExitTypeOK, AddPeer, Assigned, IfaceType, Owners
  <2>4. rules' \in [RuleNumbers -> 0..(MaxTroubles + 1)]
    BY DEF ExitInv, ExitTypeOK, AddPeer, Trouble
  <2>5. update' \in UpdateType
    BY <1>5, <1>6, AddedFacts, NotAddedFacts
  <2>6. vless' \in BOOLEAN
    BY DEF ExitInv, ExitTypeOK, AddPeer
  <2>7. troubles' \in 0..MaxTroubles /\ undone' \in 0..MaxTroubles
    BY DEF ExitInv, ExitTypeOK, AddPeer, Trouble
  <2> QED BY <2>1, <2>2, <2>3, <2>4, <2>5, <2>6, <2>7
      DEF ExitTypeOK, ProcType, IfaceType, Owners, UpdateType
<1>2. IfaceInv'
  BY DEF ExitInv, ExitTypeOK, IfaceInv, SettingUp, Up, AddPeer, Trouble, SetupCommands,
    RuleNumbers, Leaving, AddsPeers
<1>3. RulesInv'
  BY DEF ExitInv, ExitTypeOK, IfaceInv, RulesInv, Held, LeftBehind, Starting, AddPeer, Trouble,
    RuleNumbers, Down, Leaving, AddsPeers
<1>4. PeersInv'
  <2>1. proc'.at # "setup"
    BY <1>7 DEF AddPeer, AddsPeers, Leaving
  <2>2. iface \in IfaceType /\ update.list \in PeerLists
    BY <1>5 DEF ExitInv, ExitTypeOK, IfaceType, Owners, UpdateType
  <2>3. \A k \in PeerKeys : Sharing(k)' = Sharing(k)
    BY <1>7 DEF Sharing, OnList
  <2> SUFFICES ASSUME iface'.done > 0, NEW k \in PeerKeys \ (update'.todo \cup update'.failed),
                      update.list[k] # NoAddress
               PROVE  iface'.owner[update.list[k]] \in Sharing(k)
    BY <1>7, <2>1, <2>3 DEF PeersInv, Routed
  <2>4. update.list[k] \in Addresses
    BY <2>2 DEF PeerLists
  <2>5. CASE update' = NotAdded(update, a) /\ UNCHANGED iface
    <3>1. k \in PeerKeys \ (update.todo \cup update.failed)
      BY <1>5, <2>5, NotAddedFacts
    <3> QED BY <2>5, <3>1 DEF ExitInv, PeersInv, Routed
  <2>6. CASE update' = Added(update, a)
             /\ iface' = [iface EXCEPT !.owner = Assigned(@, update.list[a], a)]
    <3>1. /\ iface'.owner = Assigned(iface.owner, update.list[a], a)
          /\ iface'.done = iface.done
      BY <2>2, <2>6 DEF IfaceType
    <3>2. CASE update.list[k] = update.list[a]
      <4>1. iface'.owner[update.list[k]] = a
        BY <2>4, <3>1, <3>2 DEF Assigned
      <4> QED BY <3>2, <4>1 DEF Sharing, OnList
    <3>3. CASE update.list[k] # update.list[a]
      <4>1. k \in PeerKeys \ (update.todo \cup update.failed)
        BY <1>5, <2>6, <3>3, AddedFacts
      <4>2. iface.owner[update.list[k]] \in Sharing(k)
        BY <3>1, <4>1 DEF ExitInv, PeersInv, Routed
      <4>3. iface.owner[update.list[k]] # a
        BY <3>3, <4>2 DEF Sharing
      <4>4. iface'.owner[update.list[k]] = iface.owner[update.list[k]]
        BY <2>4, <3>1, <3>3, <4>3 DEF Assigned
      <4> QED BY <4>2, <4>4
    <3> QED BY <3>2, <3>3
  <2> QED BY <1>6, <2>5, <2>6
<1> QED BY <1>1, <1>2, <1>3, <1>4 DEF ExitInv

\* The answer has been applied.
LEMMA ToggleKeeps == ASSUME ExitInv, Toggle PROVE ExitInv'
<1> USE ExitAssumption, NoUpdateFacts
<1>1. ExitTypeOK'
  BY DEF ExitInv, ExitTypeOK, Toggle, UpdateType
<1>2. IfaceInv'
  BY DEF ExitInv, ExitTypeOK, IfaceInv, SettingUp, Up, Toggle, SetupCommands, RuleNumbers,
    Leaving, AddsPeers
<1>3. RulesInv'
  BY DEF ExitInv, ExitTypeOK, IfaceInv, RulesInv, Held, LeftBehind, Starting, Toggle,
    RuleNumbers, Down, Leaving, AddsPeers
<1>4. PeersInv'
  BY DEF ExitInv, ExitTypeOK, IfaceInv, PeersInv, Routed, OnList, Sharing, Toggle, Leaving,
    AddsPeers
<1> QED BY <1>1, <1>2, <1>3, <1>4 DEF ExitInv

\* main begins to take down what it holds.
LEMMA SignalKeeps == ASSUME ExitInv, Signal PROVE ExitInv'
<1> USE ExitAssumption
<1>1. ExitTypeOK'
  BY DEF ExitInv, ExitTypeOK, Signal, At, SetupCommands
<1>2. IfaceInv'
  BY DEF ExitInv, ExitTypeOK, IfaceInv, SettingUp, Up, Signal, At, SetupCommands, RuleNumbers
<1>3. RulesInv'
  BY DEF ExitInv, ExitTypeOK, IfaceInv, RulesInv, Held, LeftBehind, Starting, Signal, At,
    RuleNumbers, Down
<1>4. PeersInv'
  BY DEF ExitInv, ExitTypeOK, IfaceInv, PeersInv, Routed, OnList, Sharing, Signal, At
<1> QED BY <1>1, <1>2, <1>3, <1>4 DEF ExitInv

\* A copy that is not deleted is a failure more.
LEMMA DisableCommandKeeps == ASSUME ExitInv, DisableCommand PROVE ExitInv'
<1> USE ExitAssumption
<1>1. ExitTypeOK'
  <2>1. proc' \in ProcType
    BY DEF ExitInv, ExitTypeOK, DisableCommand, At, SetupCommands, IfaceInv, RuleNumbers,
      ProcType
  <2>2. tokenFile' \in {"none", "valid", "expired"} /\ session' \in {"none", "valid", "expired"}
    BY DEF ExitInv, ExitTypeOK, DisableCommand
  <2>3. iface' \in IfaceType
    BY DEF ExitInv, ExitTypeOK, DisableCommand, SetupCommands, IfaceType, Owners
  <2>4. rules' \in [RuleNumbers -> 0..(MaxTroubles + 1)]
    BY DEF ExitInv, ExitTypeOK, DisableCommand, Deleted, Trouble, RulesInv, RuleNumbers
  <2>5. update' \in UpdateType
    BY DEF ExitInv, ExitTypeOK, DisableCommand, UpdateType
  <2>6. vless' \in BOOLEAN
    BY DEF ExitInv, ExitTypeOK, DisableCommand
  <2>7. troubles' \in 0..MaxTroubles /\ undone' \in 0..MaxTroubles
    BY DEF ExitInv, ExitTypeOK, DisableCommand, Trouble, RulesInv
  <2> QED BY <2>1, <2>2, <2>3, <2>4, <2>5, <2>6, <2>7
      DEF ExitTypeOK, ProcType, IfaceType, Owners, UpdateType
<1>2. IfaceInv'
  BY DEF ExitInv, ExitTypeOK, IfaceInv, SettingUp, Up, DisableCommand, At, Trouble,
    SetupCommands, RuleNumbers, Deleted
<1>3. RulesInv'
  BY DEF ExitInv, ExitTypeOK, IfaceInv, RulesInv, Held, LeftBehind, Starting, DisableCommand,
    At, Trouble, RuleNumbers, Down, Deleted
<1>4. PeersInv'
  BY DEF ExitInv, ExitTypeOK, IfaceInv, PeersInv, Routed, OnList, Sharing, DisableCommand,
    At, Trouble, Deleted
<1> QED BY <1>1, <1>2, <1>3, <1>4 DEF ExitInv

\* So is an interface that stays.
LEMMA TeardownKeeps == ASSUME ExitInv, Teardown PROVE ExitInv'
<1> USE ExitAssumption, NoInterfaceFacts
<1>1. ExitTypeOK'
  <2>1. proc' \in ProcType
    BY DEF ExitInv, ExitTypeOK, Teardown, At, SetupCommands, IfaceInv, ProcType
  <2>2. tokenFile' \in {"none", "valid", "expired"} /\ session' \in {"none", "valid", "expired"}
    BY DEF ExitInv, ExitTypeOK, Teardown
  <2>3. iface' \in IfaceType
    BY DEF ExitInv, ExitTypeOK, Teardown, Removed, SetupCommands, IfaceType, Owners
  <2>4. rules' \in [RuleNumbers -> 0..(MaxTroubles + 1)]
    BY DEF ExitInv, ExitTypeOK, Teardown, Trouble, SetupCommands, RulesInv
  <2>5. update' \in UpdateType
    BY DEF ExitInv, ExitTypeOK, Teardown, UpdateType
  <2>6. vless' \in BOOLEAN
    BY DEF ExitInv, ExitTypeOK, Teardown
  <2>7. troubles' \in 0..MaxTroubles /\ undone' \in 0..MaxTroubles
    BY DEF ExitInv, ExitTypeOK, Teardown, Trouble, RulesInv
  <2> QED BY <2>1, <2>2, <2>3, <2>4, <2>5, <2>6, <2>7
      DEF ExitTypeOK, ProcType, IfaceType, Owners, UpdateType
<1>2. IfaceInv'
  BY DEF ExitInv, ExitTypeOK, IfaceInv, SettingUp, Up, Teardown, At, Trouble, SetupCommands,
    RuleNumbers, Removed
<1>3. RulesInv'
  BY DEF ExitInv, ExitTypeOK, IfaceInv, RulesInv, Held, LeftBehind, Starting, Teardown, At,
    Trouble, RuleNumbers, Down, Removed
<1>4. PeersInv'
  BY DEF ExitInv, ExitTypeOK, IfaceInv, PeersInv, Routed, OnList, Sharing, Teardown, At,
    Trouble, Removed
<1> QED BY <1>1, <1>2, <1>3, <1>4 DEF ExitInv

\* Nothing is left on the host.
LEMMA RebootKeeps == ASSUME ExitInv, Reboot PROVE ExitInv'
<1> USE ExitAssumption, NoUpdateFacts, NoInterfaceFacts
<1>1. ExitTypeOK'
  <2>1. proc' \in ProcType
    BY DEF ExitInv, ExitTypeOK, Reboot, Ends, At, SetupCommands, ProcType
  <2>2. tokenFile' \in {"none", "valid", "expired"} /\ session' \in {"none", "valid", "expired"}
    BY DEF ExitInv, ExitTypeOK, Reboot, Ends
  <2>3. iface' \in IfaceType
    BY DEF ExitInv, ExitTypeOK, Reboot, SetupCommands, IfaceType, Owners
  <2>4. rules' \in [RuleNumbers -> 0..(MaxTroubles + 1)]
    BY DEF ExitInv, ExitTypeOK, Reboot, Trouble, SetupCommands
  <2>5. update' \in UpdateType
    BY DEF ExitInv, ExitTypeOK, Reboot, Ends, UpdateType
  <2>6. vless' \in BOOLEAN
    BY DEF ExitInv, ExitTypeOK, Reboot, Ends
  <2>7. troubles' \in 0..MaxTroubles /\ undone' \in 0..MaxTroubles
    BY DEF ExitInv, ExitTypeOK, Reboot, Trouble
  <2> QED BY <2>1, <2>2, <2>3, <2>4, <2>5, <2>6, <2>7
      DEF ExitTypeOK, ProcType, IfaceType, Owners, UpdateType
<1>2. IfaceInv'
  BY DEF ExitInv, ExitTypeOK, IfaceInv, SettingUp, Up, Reboot, At, Trouble, SetupCommands,
    RuleNumbers, Ends
<1>3. RulesInv'
  BY DEF ExitInv, ExitTypeOK, IfaceInv, RulesInv, Held, LeftBehind, Starting, Reboot, At,
    Trouble, RuleNumbers, Down, Ends
<1>4. PeersInv'
  BY DEF ExitInv, ExitTypeOK, IfaceInv, PeersInv, Routed, OnList, Sharing, Reboot, At,
    Trouble, RuleNumbers, Ends
<1> QED BY <1>1, <1>2, <1>3, <1>4 DEF ExitInv

\* Tokens do not concern the host.
LEMMA ExpireKeeps == ASSUME ExitInv, Expire PROVE ExitInv'
<1> USE ExitAssumption
<1>1. ExitTypeOK'
  BY DEF ExitInv, ExitTypeOK, Expire, SetupCommands
<1>2. IfaceInv'
  BY DEF ExitInv, ExitTypeOK, IfaceInv, SettingUp, Up, Expire, SetupCommands, RuleNumbers
<1>3. RulesInv'
  BY DEF ExitInv, ExitTypeOK, IfaceInv, RulesInv, Held, LeftBehind, Starting, Expire,
    RuleNumbers, Down
<1>4. PeersInv'
  BY DEF ExitInv, ExitTypeOK, IfaceInv, PeersInv, Routed, OnList, Sharing, Expire
<1> QED BY <1>1, <1>2, <1>3, <1>4 DEF ExitInv

\* The errors that end the process.
LEMMA FailuresKeep ==
  ASSUME ExitInv, LoginFails \/ RegisterFails \/ SetupFails \/ EnableFails \/ Kill
  PROVE  ExitInv'
<1>1. troubles \in Nat /\ troubles <= MaxTroubles /\ MaxTroubles \in Nat
  BY ExitAssumption DEF ExitInv, ExitTypeOK
<1>2. Fatal /\ (UNCHANGED troubles \/ Trouble)
  BY DEF LoginFails, RegisterFails, SetupFails, EnableFails, Kill
<1>3. troubles' \in troubles..MaxTroubles
  BY <1>1, <1>2 DEF Trouble
<1> QED BY <1>2, <1>3, FatalKeeps

\* ExitInv is inductive.
LEMMA ExitInvKept == ASSUME ExitInv, [ExitNext]_exitVars PROVE ExitInv'
<1>1. CASE UNCHANGED exitVars
  <2>1. ExitTypeOK'
    BY <1>1 DEF ExitInv, ExitTypeOK, exitVars
  <2>2. IfaceInv'
    BY <1>1 DEF ExitInv, IfaceInv, SettingUp, Up, exitVars
  <2>3. RulesInv'
    BY <1>1 DEF ExitInv, RulesInv, Held, LeftBehind, Starting, Down, exitVars
  <2>4. PeersInv'
    BY <1>1 DEF ExitInv, PeersInv, Routed, OnList, Sharing, exitVars
  <2> QED BY <2>1, <2>2, <2>3, <2>4 DEF ExitInv
<1>2. CASE StartUp \/ LogIn
  BY <1>2, StartKeeps, InteractiveLoginKeeps, RegisterNodeKeeps, SetupCommandKeeps,
    PeersAddedKeeps, EnableCommandKeeps, FailuresKeep DEF StartUp, LogIn
<1>3. CASE ShutDown
  BY <1>3, DisableCommandKeeps, TeardownKeeps, LeaveKeeps DEF ShutDown
<1>4. CASE \E k \in PeerKeys : AddPeer(k)
  BY <1>4, AddPeerKeeps
<1>5. CASE \E v \in BOOLEAN : Heartbeat(v)
  BY <1>5, HeartbeatKeeps
<1>6. CASE Signal \/ Toggle \/ Kill \/ Reboot \/ Expire
  BY <1>6, SignalKeeps, ToggleKeeps, FailuresKeep, RebootKeeps, ExpireKeeps
<1> QED BY <1>1, <1>2, <1>3, <1>4, <1>5, <1>6 DEF ExitNext, Working

(* ExitTypeOK: no rule ever has more copies than failures and one.           *)
THEOREM ExitTypes == ExitSpec => []ExitTypeOK
<1>1. ExitInv => ExitTypeOK
  BY DEF ExitInv
<1> QED BY ExitInitHolds, ExitInvKept, <1>1, PTL DEF ExitSpec

(* HostSound: a node that serves has its interface and every rule, and one that
   was told to stop and met no error leaves nothing behind, whatever earlier
   processes died of.                                                         *)
THEOREM HostStaysSound == ExitSpec => []HostSound
<1>1. ExitInv => HostSound
  <2> SUFFICES ASSUME ExitInv PROVE HostSound
    OBVIOUS
  <2>1. ServingComplete
    BY DEF ExitInv, IfaceInv, RulesInv, Held, Up, ServingComplete
  <2>2. StoppedClean
    <3> SUFFICES ASSUME proc.at = "stopped", undone = 0
                 PROVE  iface = NoInterface /\ \A i \in RuleNumbers : rules[i] = 0
      BY DEF StoppedClean
    <3>1. iface.done = 0 /\ iface.owner = NoPeers
      BY DEF ExitInv, IfaceInv
    <3>2. iface = NoInterface
      BY <3>1 DEF ExitInv, ExitTypeOK, NoInterface
    <3>3. \A i \in RuleNumbers : rules[i] = 0
      BY ExitAssumption DEF ExitInv, ExitTypeOK, RulesInv, Held
    <3> QED BY <3>2, <3>3
  <2> QED BY <2>1, <2>2 DEF HostSound
<1> QED BY ExitInitHolds, ExitInvKept, <1>1, PTL DEF ExitSpec

(* CurrentPeersRouted: once an answer is applied, the traffic for the address of
   each of its nodes goes to a present key the answer lists at that address.   *)
THEOREM PeersStayRouted == ExitSpec => []CurrentPeersRouted
<1>1. ExitInv => CurrentPeersRouted
  BY DEF ExitInv, PeersInv, Routed, OnList, CurrentPeersRouted
<1> QED BY ExitInitHolds, ExitInvKept, <1>1, PTL DEF ExitSpec

------------------------------------------------------------------------------
(* The components of MCServices together.                                    *)

\* A step of the whole is a step of each component, or leaves it alone.
LEMMA StepsOfParts ==
  ASSUME [Next]_<<part, relayVars, accountVars, udpVars, tcpVars, exitVars>>
  PROVE  /\ [RelayNext]_relayVars /\ [AccountNext]_accountVars /\ [UdpNext]_udpVars
         /\ [TcpNext]_tcpVars /\ [ExitNext]_exitVars
  BY DEF Next, Step

\* A behaviour of the whole is one of each component.
LEMMA SpecOfParts ==
  Spec => RelaySpec /\ AccountSpec /\ UdpSpec /\ TcpSpec /\ ExitSpec
<1>1. Init => RelayInit /\ AccountInit /\ UdpInit /\ TcpInit /\ ExitInit
  BY DEF Init
<1>2. [Next]_<<part, relayVars, accountVars, udpVars, tcpVars, exitVars>>
      => /\ [RelayNext]_relayVars /\ [AccountNext]_accountVars /\ [UdpNext]_udpVars
         /\ [TcpNext]_tcpVars /\ [ExitNext]_exitVars
  BY StepsOfParts
<1> QED BY <1>1, <1>2, PTL DEF Spec, RelaySpec, AccountSpec, UdpSpec, TcpSpec, ExitSpec

(* ServicesTypeOK: the components' types hold when they are run as the run does. *)
THEOREM ServicesTypes == Spec => []ServicesTypeOK
<1>1. RelayTypeOK /\ AccountTypeOK /\ UdpTypeOK /\ TcpTypeOK /\ ExitTypeOK => ServicesTypeOK
  BY DEF ServicesTypeOK
<1> QED BY <1>1, SpecOfParts, RelayTypes, AccountTypesHold, UdpTypes, TcpTypes, ExitTypes, PTL

(* StoredStays: neither a relay's credentials nor an account's link is changed
   by a request that overlapped the one that stored it.                      *)
THEOREM StoredIsKept == Spec => StoredStays
BY SpecOfParts, CredentialsStay, LinksAreStable, PTL DEF StoredStays
===============================================================================
