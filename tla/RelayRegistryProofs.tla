----------------------- MODULE RelayRegistryProofs -----------------------
(***************************************************************************)
(* Proofs about RelayRegistry for any number of relays, requests at once   *)
(* and devices, and for any beat and visibility with 2 * Beat < Fresh:     *)
(* what a request has in hand, how old a row can be, and which key a relay *)
(* and a token hold.  Each part has an invariant of its own, on top of the *)
(* one that says which request is for which relay.                         *)
(***************************************************************************)
EXTENDS RelayRegistry, TLAPS

-----------------------------------------------------------------------------
(* Records.                                                                  *)

\* The records RelayTypeOK is made of, each under a name.
RowType == [creds : CredsSet, age : {NoRow} \cup 0..Fresh]

HandlerLabels == {"free", "read", "refresh", "insert", "back", "answer"}

HandlerType == [at : HandlerLabels, for : Relays \cup {NoRelay}, creds : CredsSet]

RegistrarType ==
  [at : {"waiting", "asking"}, by : Handlers \cup {NoHandler}, due : 0..Beat,
   key : MeshKeys \cup {NoKey}, missed : 0..2]

DeviceType ==
  [pub : 1..(MaxRekeys + 1), token : TokenSet, relay : Relays \cup {NoRelay}]

\* What the assumption says of the numbers.
LEMMA Numbers ==
  /\ Beat \in Nat /\ Beat >= 1 /\ Fresh \in Nat /\ 2 * Beat < Fresh
  /\ MaxPairs \in Nat /\ MaxRekeys \in Nat /\ MaxRestarts \in Nat /\ MaxRotations \in Nat
  /\ NoRow = -1
BY RelayAssumption DEF NoRow

\* The records of the initial state, of a free handler and of a relay just started.
LEMMA EmptyRecords ==
  /\ NoCreds \in CredsSet /\ NoToken \in TokenSet
  /\ FreeHandler \in HandlerType /\ FreeHandler.at = "free" /\ FreeHandler.for = NoRelay
  /\ Started \in RegistrarType /\ Started.at = "waiting" /\ Started.by = NoHandler
  /\ Started.missed = 2
<1>1. NoCreds \in CredsSet
  BY Numbers DEF NoCreds, CredsSet
<1>2. NoToken \in TokenSet
  BY Numbers DEF NoToken, TokenSet
<1>3. FreeHandler \in HandlerType /\ FreeHandler.at = "free" /\ FreeHandler.for = NoRelay
  BY <1>1 DEF FreeHandler, HandlerType, HandlerLabels
<1>4. /\ Started \in RegistrarType /\ Started.at = "waiting" /\ Started.by = NoHandler
      /\ Started.missed = 2
  BY Numbers DEF Started, RegistrarType
<1> QED BY <1>1, <1>2, <1>3, <1>4

\* A request at its next statement, with the same credentials or with others.
Placed(s, l) == [s EXCEPT !.at = l]
With(s, l, c) == [s EXCEPT !.at = l, !.creds = c]

\* A statement that ends leaves a record of a handler, with the relay it is for.
LEMMA HandlerRecords ==
  ASSUME NEW s \in HandlerType, NEW l \in HandlerLabels, NEW c \in CredsSet
  PROVE  /\ Placed(s, l) \in HandlerType /\ Placed(s, l).at = l /\ Placed(s, l).for = s.for
         /\ Placed(s, l).creds = s.creds
         /\ With(s, l, c) \in HandlerType /\ With(s, l, c).at = l
         /\ With(s, l, c).for = s.for /\ With(s, l, c).creds = c
<1>1. /\ Placed(s, l) \in HandlerType /\ Placed(s, l).at = l /\ Placed(s, l).for = s.for
      /\ Placed(s, l).creds = s.creds
  BY DEF HandlerType, Placed
<1>2. With(s, l, c) \in HandlerType
  BY DEF HandlerType, With
<1>3. With(s, l, c).at = l
  BY DEF HandlerType, With
<1>4. With(s, l, c).for = s.for
  BY DEF HandlerType, With
<1>5. With(s, l, c).creds = c
  BY DEF HandlerType, With
<1> QED BY <1>1, <1>2, <1>3, <1>4, <1>5

\* A request for r that has just been received.
Received(r) == [FreeHandler EXCEPT !.at = "read", !.for = r]

\* A request that is received is at its first statement.
LEMMA ReceivedRecord ==
  ASSUME NEW r \in Relays
  PROVE  Received(r) \in HandlerType /\ Received(r).at = "read" /\ Received(r).for = r
BY EmptyRecords DEF FreeHandler, HandlerType, HandlerLabels, Received

\* Counting up to a bound.
LEMMA MoreBounds ==
  ASSUME NEW m \in Nat, NEW n \in 0..m
  PROVE  More(n, m) \in 0..m /\ More(n, m) >= n /\ More(n, m) <= n + 1
         /\ (n < m => More(n, m) = n + 1)
BY DEF More

\* What the fields of a registrar are.
LEMMA RegistrarFields ==
  ASSUME NEW s \in RegistrarType
  PROVE  /\ s.at \in {"waiting", "asking"} /\ s.by \in Handlers \cup {NoHandler}
         /\ s.due \in 0..Beat /\ s.key \in MeshKeys \cup {NoKey} /\ s.missed \in 0..2
         /\ More(s.missed, 2) \in 0..2
BY MoreBounds DEF RegistrarType

\* A registrar whose next request is due at another time.
DueAt(s, n) == [s EXCEPT !.due = n]

\* Only the time of the next request changes.
LEMMA DueRecord ==
  ASSUME NEW s \in RegistrarType, NEW n \in 0..Beat
  PROVE  /\ DueAt(s, n) \in RegistrarType /\ DueAt(s, n).due = n
         /\ DueAt(s, n).at = s.at /\ DueAt(s, n).by = s.by
         /\ DueAt(s, n).key = s.key /\ DueAt(s, n).missed = s.missed
BY DEF RegistrarType, DueAt

\* A request failed.
LEMMA MissedRecord ==
  ASSUME NEW s \in RegistrarType
  PROVE  /\ Missed(s) \in RegistrarType
         /\ Missed(s).at = "waiting" /\ Missed(s).by = NoHandler /\ Missed(s).due = s.due
         /\ Missed(s).key = s.key /\ Missed(s).missed = More(s.missed, 2)
<1> USE RegistrarFields DEF RegistrarType, Missed
<1>1. Missed(s) \in RegistrarType
  OBVIOUS
<1>2. Missed(s).at = "waiting"
  OBVIOUS
<1>3. Missed(s).by = NoHandler
  OBVIOUS
<1>4. Missed(s).due = s.due /\ Missed(s).key = s.key
  OBVIOUS
<1>5. Missed(s).missed = More(s.missed, 2)
  OBVIOUS
<1> QED BY <1>1, <1>2, <1>3, <1>4, <1>5

\* A request was answered with key k.
LEMMA AnsweredRecord ==
  ASSUME NEW s \in RegistrarType, NEW k \in MeshKeys \cup {NoKey}
  PROVE  /\ Answered(s, k) \in RegistrarType
         /\ Answered(s, k).at = "waiting" /\ Answered(s, k).by = NoHandler
         /\ Answered(s, k).due = s.due /\ Answered(s, k).key = k /\ Answered(s, k).missed = 0
<1> USE DEF RegistrarType, Answered
<1>1. Answered(s, k) \in RegistrarType
  <2>1. PICK m \in 0..2 : m = 0
    OBVIOUS
  <2>2. PICK a \in RegistrarType : a = [s EXCEPT !.at = "waiting", !.by = NoHandler]
    OBVIOUS
  <2>3. Answered(s, k) = [a EXCEPT !.missed = m, !.key = k]
    BY <2>1, <2>2
  <2> QED BY <2>3
<1>2. Answered(s, k).at = "waiting"
  OBVIOUS
<1>3. Answered(s, k).by = NoHandler
  OBVIOUS
<1>4. Answered(s, k).due = s.due
  OBVIOUS
<1>5. Answered(s, k).key = k
  OBVIOUS
<1>6. Answered(s, k).missed = 0
  OBVIOUS
<1> QED BY <1>1, <1>2, <1>3, <1>4, <1>5, <1>6

\* A registrar makes its request.
AskedBy(s, h) == [s EXCEPT !.at = "asking", !.by = h, !.due = Beat]

\* A registrar that asks keeps its key, and has set the time of its next request.
LEMMA AskingRecord ==
  ASSUME NEW s \in RegistrarType, NEW h \in Handlers
  PROVE  /\ AskedBy(s, h) \in RegistrarType
         /\ AskedBy(s, h).at = "asking" /\ AskedBy(s, h).by = h /\ AskedBy(s, h).due = Beat
         /\ AskedBy(s, h).key = s.key /\ AskedBy(s, h).missed = s.missed
<1> USE Numbers DEF RegistrarType, AskedBy
<1>1. AskedBy(s, h) \in RegistrarType
  <2>1. PICK a \in RegistrarType : a = [s EXCEPT !.at = "asking", !.by = h]
    OBVIOUS
  <2>2. AskedBy(s, h) = [a EXCEPT !.due = Beat]
    BY <2>1
  <2> QED BY <2>2
<1>2. AskedBy(s, h).at = "asking"
  OBVIOUS
<1>3. AskedBy(s, h).by = h
  OBVIOUS
<1>4. AskedBy(s, h).due = Beat
  OBVIOUS
<1>5. AskedBy(s, h).key = s.key
  OBVIOUS
<1>6. AskedBy(s, h).missed = s.missed
  OBVIOUS
<1> QED BY <1>1, <1>2, <1>3, <1>4, <1>5, <1>6

\* A device's next endpoint and token, and a new key pair.
Given(s, t, r) == [s EXCEPT !.token = t, !.relay = r]
Rekeyed(s) == [s EXCEPT !.pub = @ + 1]

\* A device that has asked or dialled keeps its key pair.
LEMMA GivenRecord ==
  ASSUME NEW s \in DeviceType, NEW t \in TokenSet, NEW r \in Relays \cup {NoRelay}
  PROVE  /\ Given(s, t, r) \in DeviceType /\ Given(s, t, r).token = t
         /\ Given(s, t, r).relay = r /\ Given(s, t, r).pub = s.pub
<1>1. Given(s, t, r) \in DeviceType
  BY DEF DeviceType, Given
<1>2. Given(s, t, r).token = t
  BY DEF DeviceType, Given
<1>3. Given(s, t, r).relay = r
  BY DEF DeviceType, Given
<1>4. Given(s, t, r).pub = s.pub
  BY DEF DeviceType, Given
<1> QED BY <1>1, <1>2, <1>3, <1>4

\* A device with a new key pair keeps its endpoint and the token for the old one.
LEMMA RekeyedRecord ==
  ASSUME NEW s \in DeviceType, s.pub <= MaxRekeys
  PROVE  /\ Rekeyed(s) \in DeviceType /\ Rekeyed(s).token = s.token
         /\ Rekeyed(s).relay = s.relay
<1>1. s.pub + 1 \in 1..(MaxRekeys + 1)
  BY Numbers DEF DeviceType
<1> QED BY <1>1 DEF DeviceType, Rekeyed

-----------------------------------------------------------------------------
(* The invariants.                                                           *)

\* RelayTypeOK, one part for each kind of state.
RowTypes == row \in [Relays -> RowType]
HandlerTypes == handler \in [Handlers -> HandlerType]
RegistrarTypes == relay \in [Relays -> RegistrarType]
DeviceTypes == device \in [Devices -> DeviceType]

CounterTypes ==
  /\ pairs \in 0..MaxPairs
  /\ cpKey \in MeshKeys \cup {NoKey}
  /\ rotated \in 0..Beat
  /\ allowed \subseteq Relays
  /\ restarts \in 0..MaxRestarts /\ rotations \in 0..MaxRotations

\* A request is for a relay until it is over, and a relay that asks waits for
\* the handler of its own request.
RequestInv ==
  /\ \A h \in Handlers : handler[h].at = "free" <=> handler[h].for = NoRelay
  /\ \A r \in Relays :
       IF relay[r].at = "asking"
       THEN relay[r].by \in Handlers /\ handler[relay[r].by].for = r
       ELSE relay[r].by = NoHandler

RequestsInv ==
  RowTypes /\ HandlerTypes /\ RegistrarTypes /\ DeviceTypes /\ CounterTypes /\ RequestInv

\* RelayTypeOK is a part of RequestsInv.
LEMMA RequestsAreTyped == RequestsInv => RelayTypeOK
BY DEF RequestsInv, RowTypes, HandlerTypes, RegistrarTypes, DeviceTypes, CounterTypes,
       RequestInv, RelayTypeOK, RowType, HandlerType, HandlerLabels, RegistrarType, DeviceType

\* Nobody asks in an initial state.
LEMMA InitRequests == RelayInit => RequestsInv
<1> SUFFICES ASSUME RelayInit PROVE RequestsInv
  OBVIOUS
<1>1. RowTypes
  <2>1. \A a \in {NoRow, Fresh} : [creds |-> NoCreds, age |-> a] \in RowType
    BY EmptyRecords, Numbers DEF RowType
  <2> QED BY <2>1 DEF RelayInit, RowTypes
<1>2. HandlerTypes /\ RegistrarTypes
  BY EmptyRecords DEF RelayInit, HandlerTypes, RegistrarTypes
<1>3. DeviceTypes
  <2>1. [pub |-> 1, token |-> NoToken, relay |-> NoRelay] \in DeviceType
    BY EmptyRecords, Numbers DEF DeviceType
  <2> QED BY <2>1 DEF RelayInit, DeviceTypes
<1>4. CounterTypes
  BY Numbers DEF RelayInit, CounterTypes
<1>5. RequestInv
  BY EmptyRecords DEF RelayInit, RequestInv
<1> QED BY <1>1, <1>2, <1>3, <1>4, <1>5 DEF RequestsInv

-----------------------------------------------------------------------------
(* What each step does to the requests and the registrars.                   *)

\* Only h changes.
OnlyHandler(h) == \A x \in Handlers : x # h => handler'[x] = handler[x]

\* A free handler takes the request of a relay that is due.
LEMMA AskStep ==
  ASSUME RequestsInv, NEW r \in Relays, NEW h \in Handlers, Ask(r, h)
  PROVE  /\ HandlerTypes' /\ OnlyHandler(h)
         /\ handler[h].at = "free" /\ handler'[h].at = "read" /\ handler'[h].for = r
         /\ RegistrarTypes' /\ \A x \in Relays : x # r => relay'[x] = relay[x]
         /\ relay[r].at = "waiting" /\ relay[r].due = 0
         /\ relay'[r].at = "asking" /\ relay'[r].by = h /\ relay'[r].due = Beat
         /\ relay'[r].key = relay[r].key /\ relay'[r].missed = relay[r].missed
         /\ UNCHANGED <<row, pairs, cpKey, rotated, allowed, device, restarts, rotations>>
<1>1. /\ handler \in [Handlers -> HandlerType] /\ relay \in [Relays -> RegistrarType]
      /\ handler[h] \in HandlerType /\ relay[r] \in RegistrarType
  BY DEF RequestsInv, HandlerTypes, RegistrarTypes
<1> DEFINE o == AskedBy(relay[r], h)
           s == Received(r)
<1>2. relay' = [relay EXCEPT ![r] = o] /\ handler' = [handler EXCEPT ![h] = s]
  BY <1>1 DEF Ask, AskedBy, Received
<1>3. /\ o \in RegistrarType /\ o.at = "asking" /\ o.by = h /\ o.due = Beat
      /\ o.key = relay[r].key /\ o.missed = relay[r].missed
  BY <1>1, AskingRecord
<1>4. s \in HandlerType /\ s.at = "read" /\ s.for = r
  BY ReceivedRecord
<1> HIDE DEF o, s
<1>5. /\ HandlerTypes' /\ OnlyHandler(h) /\ handler'[h] = s
  BY <1>1, <1>2, <1>4 DEF HandlerTypes, OnlyHandler
<1>6. RegistrarTypes' /\ relay'[r] = o /\ \A x \in Relays : x # r => relay'[x] = relay[x]
  BY <1>1, <1>2, <1>3 DEF RegistrarTypes
<1>7. /\ handler[h].at = "free" /\ relay[r].at = "waiting" /\ relay[r].due = 0
      /\ UNCHANGED <<row, pairs, cpKey, rotated, allowed, device, restarts, rotations>>
  BY DEF Ask, Due
<1> QED BY <1>3, <1>4, <1>5, <1>6, <1>7

\* A request that reaches nobody is a missed one, and the next is due a beat later.
LEMMA AskFailsStep ==
  ASSUME RequestsInv, NEW r \in Relays, AskFails(r)
  PROVE  /\ RegistrarTypes' /\ \A x \in Relays : x # r => relay'[x] = relay[x]
         /\ relay[r].at = "waiting" /\ relay[r].due = 0
         /\ relay'[r].at = "waiting" /\ relay'[r].by = NoHandler /\ relay'[r].due = Beat
         /\ relay'[r].key = relay[r].key /\ relay'[r].missed = More(relay[r].missed, 2)
         /\ UNCHANGED <<row, pairs, handler, cpKey, rotated, allowed, device, restarts,
                        rotations>>
<1>1. relay \in [Relays -> RegistrarType] /\ relay[r] \in RegistrarType
  BY DEF RequestsInv, RegistrarTypes
<1>2. Beat \in 0..Beat
  BY Numbers
<1> DEFINE m == Missed(relay[r])
           o == DueAt(m, Beat)
<1>3. relay' = [relay EXCEPT ![r] = o]
  BY DEF AskFails, DueAt
<1>4. /\ m \in RegistrarType /\ m.at = "waiting" /\ m.by = NoHandler
      /\ m.key = relay[r].key /\ m.missed = More(relay[r].missed, 2)
  BY <1>1, MissedRecord
<1> HIDE DEF m
<1>5. /\ o \in RegistrarType /\ o.at = "waiting" /\ o.by = NoHandler
      /\ o.due = Beat /\ o.key = relay[r].key /\ o.missed = More(relay[r].missed, 2)
  BY <1>2, <1>4, DueRecord
<1> HIDE DEF o
<1> QED BY <1>1, <1>3, <1>5 DEF AskFails, Due, RegistrarTypes

\* A relay that is started again has a registrar like at first.
LEMMA RelayRestartStep ==
  ASSUME RequestsInv, NEW r \in Relays, RelayRestart(r)
  PROVE  /\ RegistrarTypes' /\ \A x \in Relays : x # r => relay'[x] = relay[x]
         /\ relay'[r] = Started
         /\ UNCHANGED <<row, pairs, handler, cpKey, rotated, allowed, device, rotations>>
BY EmptyRecords DEF RequestsInv, RegistrarTypes, RelayRestart

\* The statements of UpsertWithCredentials.
Statement(h) ==
  \/ FindCredentials(h) \/ GenerateCredentials(h) \/ Refresh(h) \/ Insert(h) \/ ReadBack(h)

\* A statement moves its own request on, and no registrar.
LEMMA StatementStep ==
  ASSUME RequestsInv, NEW h \in Handlers, Statement(h)
  PROVE  /\ HandlerTypes' /\ OnlyHandler(h) /\ handler'[h].for = handler[h].for
         /\ handler[h].at # "free" /\ handler'[h].at # "free" /\ handler[h].for \in Relays
         /\ FindCredentials(h) =>
              /\ handler'[h].at = "refresh"
              /\ handler'[h].creds = row[handler[h].for].creds
         /\ GenerateCredentials(h) =>
              /\ handler'[h].at = "insert"
              /\ handler'[h].creds = [uuid |-> pairs', priv |-> pairs', pub |-> pairs']
              /\ pairs' \in 1..MaxPairs
         /\ Refresh(h) => handler'[h].at = "answer" /\ handler'[h].creds = handler[h].creds
         /\ Insert(h) => handler'[h].at = "back"
         /\ ReadBack(h) =>
              /\ handler'[h].at = "answer"
              /\ handler'[h].creds = row[handler[h].for].creds
         /\ UNCHANGED <<cpKey, rotated, allowed, relay, device, restarts, rotations>>
<1>1. /\ handler \in [Handlers -> HandlerType] /\ handler[h] \in HandlerType
      /\ row \in [Relays -> RowType] /\ pairs \in 0..MaxPairs
  BY DEF RequestsInv, HandlerTypes, RowTypes, CounterTypes
<1>2. handler[h].at # "free"
  BY DEF Statement, FindCredentials, GenerateCredentials, Refresh, Insert, ReadBack
<1>3. handler[h].for \in Relays /\ row[handler[h].for].creds \in CredsSet
  BY <1>1, <1>2 DEF RequestsInv, RequestInv, HandlerType, RowType
<1>4. UNCHANGED <<cpKey, rotated, allowed, relay, device, restarts, rotations>>
  BY DEF Statement, FindCredentials, GenerateCredentials, Refresh, Insert, ReadBack
<1>5. ASSUME NEW s \in HandlerType, handler' = [handler EXCEPT ![h] = s]
      PROVE  HandlerTypes' /\ OnlyHandler(h) /\ handler'[h] = s
  BY <1>1, <1>5 DEF HandlerTypes, OnlyHandler
<1>6. CASE FindCredentials(h)
  <2>1. PICK c \in CredsSet : c = row[handler[h].for].creds
    BY <1>3
  <2> DEFINE s == With(handler[h], "refresh", c)
  <2>2. handler' = [handler EXCEPT ![h] = s]
    BY <1>1, <1>6, <2>1 DEF FindCredentials, With
  <2>3. s \in HandlerType /\ s.at = "refresh" /\ s.for = handler[h].for /\ s.creds = c
    BY <1>1, HandlerRecords DEF HandlerLabels
  <2> HIDE DEF s
  <2> QED BY <1>2, <1>3, <1>4, <1>5, <1>6, <2>1, <2>2, <2>3
          DEF FindCredentials, GenerateCredentials, Refresh, Insert, ReadBack
<1>7. CASE GenerateCredentials(h)
  <2> DEFINE c == [uuid |-> pairs', priv |-> pairs', pub |-> pairs']
             s == With(handler[h], "insert", c)
  <2>1. c \in CredsSet /\ pairs' \in 1..MaxPairs
    BY <1>1, <1>3, <1>7, Numbers DEF GenerateCredentials, CredsSet, HandlerType
  <2>2. handler' = [handler EXCEPT ![h] = s]
    BY <1>1, <1>7 DEF GenerateCredentials, Placed, With
  <2> HIDE DEF c
  <2>3. s \in HandlerType /\ s.at = "insert" /\ s.for = handler[h].for /\ s.creds = c
    BY <1>1, <2>1, HandlerRecords DEF HandlerLabels
  <2> HIDE DEF s
  <2> QED BY <1>2, <1>3, <1>4, <1>5, <1>7, <2>1, <2>2, <2>3
          DEF FindCredentials, GenerateCredentials, Refresh, Insert, ReadBack, c
<1>8. CASE Refresh(h)
  <2> DEFINE s == Placed(handler[h], "answer")
  <2>1. handler' = [handler EXCEPT ![h] = s]
    BY <1>1, <1>8 DEF Refresh, Placed, With
  <2>2. s \in HandlerType /\ s.at = "answer" /\ s.for = handler[h].for
        /\ s.creds = handler[h].creds
    BY <1>1, HandlerRecords DEF HandlerLabels, HandlerType
  <2> HIDE DEF s
  <2> QED BY <1>2, <1>3, <1>4, <1>5, <1>8, <2>1, <2>2
          DEF FindCredentials, GenerateCredentials, Refresh, Insert, ReadBack
<1>9. CASE Insert(h)
  <2> DEFINE s == Placed(handler[h], "back")
  <2>1. handler' = [handler EXCEPT ![h] = s]
    BY <1>1, <1>9 DEF Insert, Placed, With
  <2>2. s \in HandlerType /\ s.at = "back" /\ s.for = handler[h].for
        /\ s.creds = handler[h].creds
    BY <1>1, HandlerRecords DEF HandlerLabels, HandlerType
  <2> HIDE DEF s
  <2> QED BY <1>2, <1>3, <1>4, <1>5, <1>9, <2>1, <2>2
          DEF FindCredentials, GenerateCredentials, Refresh, Insert, ReadBack
<1>10. CASE ReadBack(h)
  <2>1. PICK c \in CredsSet : c = row[handler[h].for].creds
    BY <1>3
  <2> DEFINE s == With(handler[h], "answer", c)
  <2>2. handler' = [handler EXCEPT ![h] = s]
    BY <1>1, <1>10, <2>1 DEF ReadBack, With, Stored
  <2>3. PICK l \in HandlerLabels : l = "answer"
    BY DEF HandlerLabels
  <2>4. s \in HandlerType /\ s.at = "answer" /\ s.for = handler[h].for /\ s.creds = c
    <3>1. With(handler[h], l, c) \in HandlerType /\ With(handler[h], l, c).at = l
          /\ With(handler[h], l, c).for = handler[h].for /\ With(handler[h], l, c).creds = c
      BY <1>1, HandlerRecords
    <3> QED BY <2>3, <3>1
  <2> HIDE DEF s
  <2> QED BY <1>2, <1>3, <1>4, <1>5, <1>10, <2>1, <2>2, <2>4
          DEF FindCredentials, GenerateCredentials, Refresh, Insert, ReadBack
<1> QED BY <1>6, <1>7, <1>8, <1>9, <1>10 DEF Statement

\* A request is over: answered, failed, or its answer lost.
Finishes(h) == HandlerFails(h) \/ Answer(h) \/ AnswerLost(h)

\* A request that ends frees its handler, and whoever still waits for it goes on.
LEMMA EndStep ==
  ASSUME RequestsInv, NEW h \in Handlers, Finishes(h)
  PROVE  /\ HandlerTypes' /\ OnlyHandler(h) /\ handler'[h] = FreeHandler
         /\ RegistrarTypes'
         /\ \A r \in Relays :
              \/ relay'[r] = relay[r] /\ relay[r].by # h
              \/ relay'[r] = Missed(relay[r]) /\ relay[r].by = h
              \/ relay'[r] = Answered(relay[r], cpKey) /\ relay[r].by = h
                 /\ handler[h].at = "answer"
         /\ UNCHANGED <<row, pairs, cpKey, rotated, allowed, device, restarts, rotations>>
<1>1. /\ handler \in [Handlers -> HandlerType] /\ relay \in [Relays -> RegistrarType]
      /\ cpKey \in MeshKeys \cup {NoKey}
  BY DEF RequestsInv, HandlerTypes, RegistrarTypes, CounterTypes
<1>2. HandlerTypes' /\ OnlyHandler(h) /\ handler'[h] = FreeHandler
  BY <1>1, EmptyRecords DEF Finishes, HandlerFails, Answer, AnswerLost, HandlerTypes, OnlyHandler
<1>3. UNCHANGED <<row, pairs, cpKey, rotated, allowed, device, restarts, rotations>>
  BY DEF Finishes, HandlerFails, Answer, AnswerLost
<1>4. CASE HandlerFails(h) \/ AnswerLost(h)
  <2>1. relay' = [r \in Relays |-> IF relay[r].by \in {h} THEN Missed(relay[r]) ELSE relay[r]]
    BY <1>4 DEF HandlerFails, AnswerLost, Over
  <2> QED BY <1>1, <1>2, <1>3, <2>1, MissedRecord DEF RegistrarTypes
<1>5. CASE Answer(h)
  <2>1. relay' = [r \in Relays |-> IF relay[r].by \in {h} THEN Answered(relay[r], cpKey) ELSE relay[r]]
        /\ handler[h].at = "answer"
    BY <1>5 DEF Answer, Over
  <2> QED BY <1>1, <1>2, <1>3, <2>1, AnsweredRecord DEF RegistrarTypes
<1> QED BY <1>4, <1>5 DEF Finishes

\* A restart of the control plane ends every request.
LEMMA ControlPlaneRestartStep ==
  ASSUME RequestsInv, NEW k \in MeshKeys \cup {NoKey}, ControlPlaneRestart(k)
  PROVE  /\ HandlerTypes' /\ \A h \in Handlers : handler'[h] = FreeHandler
         /\ RegistrarTypes'
         /\ \A r \in Relays :
              \/ relay'[r] = relay[r] /\ relay[r].by \notin Handlers
              \/ relay'[r] = Missed(relay[r]) /\ relay[r].by \in Handlers
         /\ cpKey' = k /\ rotated' = 0
         /\ UNCHANGED <<row, pairs, allowed, device, restarts>>
<1>1. relay \in [Relays -> RegistrarType]
  BY DEF RequestsInv, RegistrarTypes
<1>2. relay' = [r \in Relays |-> IF relay[r].by \in Handlers THEN Missed(relay[r]) ELSE relay[r]]
  BY DEF ControlPlaneRestart, Over
<1>3. handler' = [h \in Handlers |-> FreeHandler]
  BY DEF ControlPlaneRestart
<1> QED BY <1>1, <1>2, <1>3, MissedRecord, EmptyRecords
        DEF ControlPlaneRestart, RegistrarTypes, HandlerTypes

\* A minute passes: nobody asks, and no request is in progress.
LEMMA MinuteStep ==
  ASSUME RequestsInv, Minute
  PROVE  /\ RegistrarTypes'
         /\ \A h \in Handlers : handler[h].at = "free"
         /\ \A d \in Devices : ~Dialling(d)
         /\ \A r \in Relays :
              /\ relay[r].at = "waiting" /\ relay[r].due \in 1..Beat
              /\ relay'[r].at = "waiting" /\ relay'[r].by = NoHandler
              /\ relay'[r].due = relay[r].due - 1
              /\ relay'[r].key = relay[r].key /\ relay'[r].missed = relay[r].missed
         /\ UNCHANGED <<pairs, handler, cpKey, allowed, device, restarts, rotations>>
<1>1. relay \in [Relays -> RegistrarType]
  BY DEF RequestsInv, RegistrarTypes
<1>2. /\ \A h \in Handlers : handler[h].at = "free"
      /\ \A d \in Devices : ~Dialling(d)
      /\ \A r \in Relays : ~Due(r)
  BY DEF Minute, Pending
<1>3. ASSUME NEW r \in Relays
      PROVE  relay[r].at = "waiting" /\ relay[r].by = NoHandler
  BY <1>1, <1>2, RelayAssumption DEF RequestsInv, RequestInv, RegistrarType
<1>4. ASSUME NEW r \in Relays PROVE relay[r].due \in 1..Beat
  BY <1>1, <1>2, <1>3, Numbers DEF Due, RegistrarType
<1>5. ASSUME NEW r \in Relays
      PROVE  /\ relay'[r] \in RegistrarType
             /\ relay'[r].at = "waiting" /\ relay'[r].by = NoHandler
             /\ relay'[r].due = relay[r].due - 1
             /\ relay'[r].key = relay[r].key /\ relay'[r].missed = relay[r].missed
  <2>1. relay'[r] = DueAt(relay[r], relay[r].due - 1)
    BY DEF Minute, DueAt
  <2>2. relay[r].due - 1 \in 0..Beat
    BY <1>4, Numbers
  <2> QED BY <1>1, <1>3, <2>1, <2>2, DueRecord
<1>6. RegistrarTypes'
  <2>1. relay' = [r \in Relays |-> [relay[r] EXCEPT !.due = @ - 1]]
    BY DEF Minute
  <2> QED BY <1>5, <2>1 DEF RegistrarTypes
<1> QED BY <1>2, <1>3, <1>4, <1>5, <1>6 DEF Minute

-----------------------------------------------------------------------------
(* What each step does to the rows and the devices.                          *)

\* Column by column, an upsert keeps what the row held.
LEMMA KeptRecord ==
  ASSUME NEW old \in CredsSet, NEW new \in CredsSet
  PROVE  /\ Kept(old, new) \in CredsSet
         /\ Kept(old, new).uuid = IF old.uuid = 0 THEN new.uuid ELSE old.uuid
         /\ Kept(old, new).priv = IF old.priv = 0 THEN new.priv ELSE old.priv
         /\ Kept(old, new).pub = IF old.pub = 0 THEN new.pub ELSE old.pub
<1>1. DOMAIN old = {"uuid", "priv", "pub"}
  BY DEF CredsSet
<1>2. \A c \in {"uuid", "priv", "pub"} : Kept(old, new)[c] = IF old[c] = 0 THEN new[c] ELSE old[c]
  BY <1>1 DEF Kept
<1>3. Kept(old, new) = [uuid |-> IF old.uuid = 0 THEN new.uuid ELSE old.uuid,
                        priv |-> IF old.priv = 0 THEN new.priv ELSE old.priv,
                        pub |-> IF old.pub = 0 THEN new.pub ELSE old.pub]
  BY <1>1 DEF Kept
<1>4. Kept(old, new) \in CredsSet
  BY <1>3, Numbers DEF CredsSet
<1> QED BY <1>2, <1>4

\* A row is written by the statement of one request, for its relay.
LEMMA RowStep ==
  ASSUME RequestsInv, NEW h \in Handlers, Statement(h)
  PROVE  /\ RowTypes'
         /\ \A r \in Relays : r # handler[h].for => row'[r] = row[r]
         /\ Refresh(h) =>
              /\ row'[handler[h].for].creds = row[handler[h].for].creds
              /\ row'[handler[h].for].age = 0
         /\ Insert(h) =>
              /\ row'[handler[h].for].creds = Kept(row[handler[h].for].creds, handler[h].creds)
              /\ row'[handler[h].for].age = 0
         /\ FindCredentials(h) \/ GenerateCredentials(h) \/ ReadBack(h) => row' = row
<1> DEFINE f == handler[h].for
<1>1. /\ row \in [Relays -> RowType] /\ handler[h] \in HandlerType
  BY DEF RequestsInv, RowTypes, HandlerTypes
<1>2. f \in Relays /\ row[f] \in RowType
  BY <1>1, StatementStep
<1>3. /\ Refresh(h) => handler[h].at = "refresh"
      /\ Insert(h) => handler[h].at = "insert"
      /\ FindCredentials(h) \/ GenerateCredentials(h) => handler[h].at = "read"
      /\ ReadBack(h) => handler[h].at = "back"
  BY DEF Refresh, Insert, FindCredentials, GenerateCredentials, ReadBack
<1>4. ASSUME NEW w \in RowType, row' = [row EXCEPT ![f] = w]
      PROVE  RowTypes' /\ (\A r \in Relays : r # f => row'[r] = row[r]) /\ row'[f] = w
  BY <1>1, <1>2, <1>4 DEF RowTypes
<1>5. CASE Refresh(h)
  <2> DEFINE w == Refreshed(row[f])
  <2>1. row' = [row EXCEPT ![f] = w]
    BY <1>5 DEF Refresh
  <2>2. w \in RowType /\ w.creds = row[f].creds /\ w.age = 0
    BY <1>2, Numbers DEF RowType, Refreshed
  <2> HIDE DEF w
  <2> QED BY <1>3, <1>4, <1>5, <2>1, <2>2
<1>6. CASE Insert(h)
  <2> DEFINE k == Kept(row[f].creds, handler[h].creds)
             w == [creds |-> k, age |-> 0]
  <2>1. row' = [row EXCEPT ![f] = w]
    BY <1>6 DEF Insert
  <2>2. k \in CredsSet
    BY <1>1, <1>2, KeptRecord DEF RowType, HandlerType
  <2> HIDE DEF k
  <2>3. w \in RowType /\ w.creds = k /\ w.age = 0
    BY <2>2, Numbers DEF RowType
  <2> HIDE DEF w
  <2> QED BY <1>3, <1>4, <1>6, <2>1, <2>3 DEF k
<1>7. CASE FindCredentials(h) \/ GenerateCredentials(h) \/ ReadBack(h)
  <2>1. row' = row
    BY <1>7 DEF FindCredentials, GenerateCredentials, ReadBack
  <2> QED BY <1>1, <1>3, <1>7, <2>1 DEF RowTypes
<1> QED BY <1>5, <1>6, <1>7 DEF Statement

\* A minute leaves the credentials, and makes a row a minute older.
LEMMA MinuteRow ==
  ASSUME RequestsInv, Minute
  PROVE  /\ RowTypes'
         /\ \A r \in Relays :
              /\ row'[r].creds = row[r].creds
              /\ row[r].age = NoRow => row'[r].age = NoRow
              /\ row[r].age \in 0..Fresh => row'[r].age = More(row[r].age, Fresh)
<1>1. row \in [Relays -> RowType]
  BY DEF RequestsInv, RowTypes
<1>2. row' = [r \in Relays |-> [row[r] EXCEPT !.age = IF @ = NoRow THEN @ ELSE More(@, Fresh)]]
  BY DEF Minute
<1>3. ASSUME NEW r \in Relays
      PROVE  /\ row'[r] \in RowType /\ row'[r].creds = row[r].creds
             /\ row'[r].age = IF row[r].age = NoRow THEN NoRow ELSE More(row[r].age, Fresh)
  <2> DEFINE a == IF row[r].age = NoRow THEN NoRow ELSE More(row[r].age, Fresh)
  <2>1. row'[r] = [row[r] EXCEPT !.age = a]
    BY <1>2
  <2>2. row[r] \in RowType /\ (row[r].age = NoRow \/ row[r].age \in 0..Fresh)
    BY <1>1 DEF RowType
  <2>3. a = NoRow \/ a \in 0..Fresh
    BY <2>2, Numbers, MoreBounds
  <2> HIDE DEF a
  <2>4. row'[r] \in RowType /\ row'[r].creds = row[r].creds /\ row'[r].age = a
    BY <2>1, <2>2, <2>3 DEF RowType
  <2> QED BY <2>4 DEF a
<1>4. RowTypes'
  BY <1>2, <1>3 DEF RowTypes
<1>5. ASSUME NEW r \in Relays, row[r].age \in 0..Fresh PROVE row[r].age # NoRow
  BY <1>5, Numbers
<1> QED BY <1>3, <1>4, <1>5

\* A device asks for an endpoint, or dials the one it has.
LEMMA FetchStep ==
  ASSUME RequestsInv, NEW d \in Devices, NEW t, Fetch(d, t), t \in TokenSet
  PROVE  /\ DeviceTypes' /\ \A e \in Devices : e # d => device'[e] = device[e]
         /\ device'[d].token = t /\ device'[d].relay \in Relays
         /\ UNCHANGED <<row, pairs, handler, cpKey, rotated, allowed, relay, restarts,
                        rotations>>
<1>1. device \in [Devices -> DeviceType]
  BY DEF RequestsInv, DeviceTypes
<1>2. PICK r \in Relays : device' = [device EXCEPT ![d] = Given(device[d], t, r)]
  BY <1>1 DEF Fetch, GetBestAvailable, Given
<1>3. /\ Given(device[d], t, r) \in DeviceType /\ Given(device[d], t, r).token = t
      /\ Given(device[d], t, r).relay = r
  BY <1>1, GivenRecord
<1> QED BY <1>1, <1>2, <1>3 DEF Fetch, DeviceTypes

\* A device that dials has no endpoint any more.
LEMMA DialStep ==
  ASSUME RequestsInv, NEW d \in Devices, Dial(d)
  PROVE  /\ DeviceTypes' /\ \A e \in Devices : e # d => device'[e] = device[e]
         /\ device'[d].relay = NoRelay
         /\ UNCHANGED <<row, pairs, handler, cpKey, rotated, allowed, relay, restarts,
                        rotations>>
<1>1. device \in [Devices -> DeviceType]
  BY DEF RequestsInv, DeviceTypes
<1> DEFINE o == Given(device[d], NoToken, NoRelay)
<1>2. device' = [device EXCEPT ![d] = o]
  BY <1>1 DEF Dial, Given
<1>3. o \in DeviceType /\ o.relay = NoRelay
  BY <1>1, GivenRecord, EmptyRecords
<1> HIDE DEF o
<1> QED BY <1>1, <1>2, <1>3 DEF Dial, DeviceTypes

\* A device that registers again keeps the endpoint it has.
LEMMA RekeyStep ==
  ASSUME RequestsInv, NEW d \in Devices, Rekey(d)
  PROVE  /\ DeviceTypes' /\ \A e \in Devices : e # d => device'[e] = device[e]
         /\ device'[d].token = device[d].token /\ device'[d].relay = device[d].relay
         /\ UNCHANGED <<row, pairs, handler, cpKey, rotated, allowed, relay, restarts,
                        rotations>>
<1>1. device \in [Devices -> DeviceType]
  BY DEF RequestsInv, DeviceTypes
<1> DEFINE o == Rekeyed(device[d])
<1>2. device' = [device EXCEPT ![d] = o]
  BY <1>1 DEF Rekey, Rekeyed
<1>3. device[d].pub <= MaxRekeys
  BY DEF Rekey
<1>4. o \in DeviceType /\ o.token = device[d].token /\ o.relay = device[d].relay
  BY <1>1, <1>3, RekeyedRecord
<1> HIDE DEF o
<1> QED BY <1>1, <1>2, <1>4 DEF Rekey, DeviceTypes

\* What issueMeshToken returns is a token.
LEMMA TokensAreTyped ==
  ASSUME RequestsInv, NEW d \in Devices
  PROVE  issueMeshToken(device[d].pub) \in TokenSet /\ NoToken \in TokenSet
<1>1. device[d] \in DeviceType /\ cpKey \in MeshKeys \cup {NoKey}
  BY DEF RequestsInv, DeviceTypes, CounterTypes
<1>2. device[d].pub \in 0..(MaxRekeys + 1)
  BY <1>1, Numbers DEF DeviceType
<1> QED BY <1>1, <1>2, EmptyRecords DEF issueMeshToken, TokenSet

\* The steps of RelayNext, in the groups the lemmas above are about.
LEMMA Steps ==
  ASSUME RelayNext
  PROVE  \/ \E r \in Relays : (\E h \in Handlers : Ask(r, h)) \/ AskFails(r) \/ RelayRestart(r)
                              \/ StrikeOff(r)
         \/ \E h \in Handlers : Statement(h) \/ Finishes(h)
         \/ \E k \in MeshKeys \cup {NoKey} : ControlPlaneRestart(k)
         \/ \E d \in Devices : \/ Fetch(d, issueMeshToken(device[d].pub)) \/ Fetch(d, NoToken)
                               \/ Dial(d) \/ Rekey(d)
         \/ Minute
BY Zenon DEF RelayNext, Register, Handle, Statement, Finishes, GetOptimal, GetRelay

\* RequestsInv is inductive by itself.
LEMMA StepRequests == RequestsInv /\ [RelayNext]_relayVars => RequestsInv'
<1> SUFFICES ASSUME RequestsInv, [RelayNext]_relayVars PROVE RequestsInv'
  OBVIOUS
<1> USE DEF RequestsInv
<1>1. CASE UNCHANGED relayVars
  BY <1>1 DEF relayVars, RowTypes, HandlerTypes, RegistrarTypes, DeviceTypes, CounterTypes,
              RequestInv
<1>2. ASSUME NEW r \in Relays, NEW h \in Handlers, Ask(r, h) PROVE RequestsInv'
  <2>1. RowTypes' /\ HandlerTypes' /\ RegistrarTypes' /\ DeviceTypes' /\ CounterTypes'
    BY <1>2, AskStep DEF RowTypes, DeviceTypes, CounterTypes
  <2>2. RequestInv'
    BY <1>2, AskStep, RelayAssumption DEF RequestInv, OnlyHandler
  <2> QED BY <2>1, <2>2
<1>3. ASSUME NEW r \in Relays, AskFails(r) PROVE RequestsInv'
  <2>1. RowTypes' /\ HandlerTypes' /\ RegistrarTypes' /\ DeviceTypes' /\ CounterTypes'
    BY <1>3, AskFailsStep DEF RowTypes, HandlerTypes, DeviceTypes, CounterTypes
  <2>2. RequestInv'
    BY <1>3, AskFailsStep DEF RequestInv
  <2> QED BY <2>1, <2>2
<1>4. ASSUME NEW r \in Relays, RelayRestart(r) PROVE RequestsInv'
  <2>1. RowTypes' /\ HandlerTypes' /\ RegistrarTypes' /\ DeviceTypes'
    BY <1>4, RelayRestartStep DEF RowTypes, HandlerTypes, DeviceTypes
  <2>2. CounterTypes'
    BY <1>4, RelayRestartStep, Numbers DEF CounterTypes, RelayRestart
  <2>3. RequestInv'
    BY <1>4, RelayRestartStep, EmptyRecords DEF RequestInv
  <2> QED BY <2>1, <2>2, <2>3
<1>5. ASSUME NEW r \in Relays, StrikeOff(r) PROVE RequestsInv'
  BY <1>5 DEF StrikeOff, RowTypes, HandlerTypes, RegistrarTypes, DeviceTypes, CounterTypes,
              RequestInv
<1>6. ASSUME NEW h \in Handlers, Statement(h) PROVE RequestsInv'
  <2>1. RowTypes' /\ HandlerTypes' /\ RegistrarTypes' /\ DeviceTypes'
    BY <1>6, StatementStep, RowStep DEF RegistrarTypes, DeviceTypes
  <2>2. CounterTypes'
    <3>1. pairs' = pairs \/ pairs' \in 1..MaxPairs
      BY <1>6, StatementStep
         DEF Statement, FindCredentials, Refresh, Insert, ReadBack
    <3> QED BY <1>6, <3>1, StatementStep, Numbers DEF CounterTypes
  <2>3. RequestInv'
    BY <1>6, StatementStep, RelayAssumption DEF RequestInv, OnlyHandler
  <2> QED BY <2>1, <2>2, <2>3
<1>7. ASSUME NEW h \in Handlers, Finishes(h) PROVE RequestsInv'
  <2>1. RowTypes' /\ HandlerTypes' /\ RegistrarTypes' /\ DeviceTypes' /\ CounterTypes'
    BY <1>7, EndStep DEF RowTypes, DeviceTypes, CounterTypes
  <2>2. \A x \in Handlers : handler'[x].at = "free" <=> handler'[x].for = NoRelay
    BY <1>7, EndStep, EmptyRecords DEF RequestInv, OnlyHandler
  <2>3. ASSUME NEW r \in Relays
        PROVE  IF relay'[r].at = "asking"
               THEN relay'[r].by \in Handlers /\ handler'[relay'[r].by].for = r
               ELSE relay'[r].by = NoHandler
    <3>1. relay[r] \in RegistrarType /\ cpKey \in MeshKeys \cup {NoKey}
      BY DEF RegistrarTypes, CounterTypes
    <3>2. CASE relay'[r] = relay[r] /\ relay[r].by # h
      BY <1>7, <3>2, EndStep DEF RequestInv, OnlyHandler
    <3>3. CASE relay'[r] = Missed(relay[r]) \/ relay'[r] = Answered(relay[r], cpKey)
      BY <3>1, <3>3, MissedRecord, AnsweredRecord
    <3> QED BY <1>7, <3>2, <3>3, EndStep
  <2> QED BY <2>1, <2>2, <2>3 DEF RequestInv
<1>8. ASSUME NEW k \in MeshKeys \cup {NoKey}, ControlPlaneRestart(k) PROVE RequestsInv'
  <2>1. RowTypes' /\ HandlerTypes' /\ RegistrarTypes' /\ DeviceTypes'
    BY <1>8, ControlPlaneRestartStep DEF RowTypes, DeviceTypes
  <2>2. CounterTypes'
    BY <1>8, ControlPlaneRestartStep, Numbers DEF CounterTypes, ControlPlaneRestart
  <2>3. ASSUME NEW r \in Relays PROVE relay'[r].at = "waiting" /\ relay'[r].by = NoHandler
    <3>1. relay[r] \in RegistrarType
      BY DEF RegistrarTypes
    <3> QED BY <1>8, <3>1, ControlPlaneRestartStep, MissedRecord, RegistrarFields DEF RequestInv
  <2>4. RequestInv'
    BY <1>8, <2>3, ControlPlaneRestartStep, EmptyRecords DEF RequestInv
  <2> QED BY <2>1, <2>2, <2>4
<1>9. ASSUME NEW d \in Devices,
             Fetch(d, issueMeshToken(device[d].pub)) \/ Fetch(d, NoToken) \/ Dial(d) \/ Rekey(d)
      PROVE  RequestsInv'
  <2>1. /\ DeviceTypes'
        /\ UNCHANGED <<row, pairs, handler, cpKey, rotated, allowed, relay, restarts, rotations>>
    <3>1. PICK t \in TokenSet : t = issueMeshToken(device[d].pub)
      BY TokensAreTyped
    <3>2. CASE Fetch(d, t)
      BY <3>2, FetchStep
    <3>3. CASE Fetch(d, NoToken)
      BY <3>3, FetchStep, EmptyRecords
    <3>4. CASE Dial(d) \/ Rekey(d)
      BY <3>4, DialStep, RekeyStep
    <3> QED BY <1>9, <3>1, <3>2, <3>3, <3>4
  <2> QED BY <2>1 DEF RowTypes, HandlerTypes, RegistrarTypes, CounterTypes, RequestInv
<1>10. CASE Minute
  <2>1. RowTypes' /\ HandlerTypes' /\ RegistrarTypes' /\ DeviceTypes'
    BY <1>10, MinuteStep, MinuteRow DEF HandlerTypes, DeviceTypes
  <2>2. CounterTypes'
    <3>1. rotated' \in 0..Beat
      BY <1>10, Numbers, MoreBounds DEF Minute, CounterTypes
    <3> QED BY <1>10, <3>1, MinuteStep DEF CounterTypes
  <2>3. RequestInv'
    BY <1>10, MinuteStep DEF RequestInv
  <2> QED BY <2>1, <2>2, <2>3
<1> QED BY <1>1, <1>2, <1>3, <1>4, <1>5, <1>6, <1>7, <1>8, <1>9, <1>10, Steps

(* RelayTypeOK: rows, requests, registrars and devices have their types,
   and a relay that asks waits for a handler that works for it. *)
THEOREM RelayTypes == RelaySpec => []RelayTypeOK
<1>1. RelaySpec => []RequestsInv
  BY InitRequests, StepRequests, PTL DEF RelaySpec
<1>2. RequestsInv => RelayTypeOK
  BY RequestsAreTyped
<1> QED BY <1>1, <1>2, PTL

-----------------------------------------------------------------------------
(* Credentials.                                                              *)

\* All of one generation.
Uniform(creds) == creds.uuid = creds.priv /\ creds.priv = creds.pub

\* The credentials of a row are of one generation.
RowCreds == \A r \in Relays : Uniform(row[r].creds)

\* What a request has in hand, at each of its statements.
CredsOf(h) ==
  /\ handler[h].at = "insert" => Uniform(handler[h].creds) /\ Complete(handler[h].creds)
  /\ handler[h].at \in {"refresh", "back", "answer"} => Complete(row[handler[h].for].creds)
  /\ handler[h].at \in {"refresh", "answer"} => handler[h].creds = row[handler[h].for].creds

HandlerCreds == \A h \in Handlers : CredsOf(h)

\* Together they are inductive over RequestsInv.
CredInv == RowCreds /\ HandlerCreds

\* A complete set of credentials stays.
CredsStay == \A r \in Relays : Complete(row[r].creds) => row'[r].creds = row[r].creds

\* Only an upsert writes credentials, and it keeps complete ones.
LEMMA StepCredsStay == RequestsInv /\ CredInv /\ [RelayNext]_relayVars => CredsStay /\ RowCreds'
<1> SUFFICES ASSUME RequestsInv, CredInv, [RelayNext]_relayVars PROVE CredsStay /\ RowCreds'
  OBVIOUS
<1>1. ASSUME \A r \in Relays : row'[r].creds = row[r].creds PROVE CredsStay /\ RowCreds'
  BY <1>1 DEF CredsStay, RowCreds, CredInv
<1>2. CASE row' = row
  BY <1>1, <1>2
<1>3. ASSUME NEW h \in Handlers, Refresh(h) PROVE CredsStay /\ RowCreds'
  BY <1>1, <1>3, RowStep DEF Statement
<1>4. ASSUME NEW h \in Handlers, Insert(h) PROVE CredsStay /\ RowCreds'
  <2> DEFINE f == handler[h].for
  <2>1. handler[h].at = "insert" /\ Statement(h)
    BY <1>4 DEF Insert, Statement
  <2>2. PICK new \in CredsSet : new = handler[h].creds
    BY DEF RequestsInv, HandlerTypes, HandlerType
  <2>3. f \in Relays
    BY <2>1, StatementStep
  <2>4. PICK old \in CredsSet : old = row[f].creds
    BY <2>3 DEF RequestsInv, RowTypes, RowType
  <2>5. Uniform(new) /\ Complete(new) /\ Uniform(old)
    BY <2>1, <2>2, <2>3, <2>4 DEF CredInv, HandlerCreds, CredsOf, RowCreds
  <2>6. row'[f].creds = Kept(old, new)
    BY <1>4, <2>1, <2>2, <2>4, RowStep
  <2>7. Uniform(Kept(old, new))
    BY <2>5, KeptRecord DEF Uniform
  <2>8. Complete(old) => Kept(old, new) = old
    <3>1. ASSUME Complete(old) PROVE \A c \in {"uuid", "priv", "pub"} : Kept(old, new)[c] = old[c]
      BY <2>5, <3>1, KeptRecord DEF Uniform, Complete
    <3> QED BY <3>1, KeptRecord DEF CredsSet
  <2>9. \A r \in Relays : r # f => row'[r] = row[r]
    BY <2>1, RowStep
  <2> QED BY <2>4, <2>6, <2>7, <2>8, <2>9 DEF CredsStay, RowCreds, CredInv
<1>5. ASSUME NEW h \in Handlers, Statement(h) PROVE CredsStay /\ RowCreds'
  <2>1. FindCredentials(h) \/ GenerateCredentials(h) \/ ReadBack(h) => row' = row
    BY <1>5, RowStep
  <2> QED BY <1>2, <1>3, <1>4, <1>5, <2>1 DEF Statement
<1>6. CASE Minute
  BY <1>1, <1>6, MinuteRow
<1>7. CASE UNCHANGED relayVars
  BY <1>2, <1>7 DEF relayVars
<1>8. ASSUME NEW r \in Relays,
             (\E h \in Handlers : Ask(r, h)) \/ AskFails(r) \/ RelayRestart(r) \/ StrikeOff(r)
      PROVE  row' = row
  BY <1>8 DEF Ask, AskFails, RelayRestart, StrikeOff
<1>9. ASSUME NEW h \in Handlers, Finishes(h) PROVE row' = row
  BY <1>9, EndStep
<1>10. ASSUME NEW k, ControlPlaneRestart(k) PROVE row' = row
  BY <1>10 DEF ControlPlaneRestart
<1>11. ASSUME NEW d \in Devices,
              Fetch(d, issueMeshToken(device[d].pub)) \/ Fetch(d, NoToken) \/ Dial(d) \/ Rekey(d)
       PROVE  row' = row
  BY <1>11 DEF Fetch, Dial, Rekey
<1> QED BY <1>2, <1>5, <1>6, <1>7, <1>8, <1>9, <1>10, <1>11, Steps

\* Rows are empty, and no request has anything in hand.
LEMMA InitCreds == RelayInit => CredInv
<1> SUFFICES ASSUME RelayInit PROVE CredInv
  OBVIOUS
<1>1. Uniform(NoCreds)
  BY DEF Uniform, NoCreds
<1>2. \A r \in Relays : row[r].creds = NoCreds
  BY DEF RelayInit
<1>3. \A h \in Handlers : handler[h].at = "free"
  BY EmptyRecords DEF RelayInit
<1> QED BY <1>1, <1>2, <1>3 DEF CredInv, RowCreds, HandlerCreds, CredsOf

\* What a request has in hand is still good when another request, or nobody,
\* takes a step.
LEMMA CredsOfKept ==
  ASSUME RequestsInv, NEW h \in Handlers, CredsOf(h), CredsStay, handler'[h] = handler[h]
  PROVE  CredsOf(h)'
<1>1. handler[h].at # "free" => handler[h].for \in Relays
  BY DEF RequestsInv, RequestInv, HandlerTypes, HandlerType
<1>2. Complete(row[handler[h].for].creds) /\ handler[h].for \in Relays
        => row'[handler[h].for].creds = row[handler[h].for].creds
  BY DEF CredsStay
<1> QED BY <1>1, <1>2 DEF CredsOf, Complete

\* What a request has in hand after a step of its own.
LEMMA CredsOfStatement ==
  ASSUME RequestsInv, CredInv, CredsStay, NEW h \in Handlers, Statement(h)
  PROVE  CredsOf(h)'
<1> DEFINE f == handler[h].for
<1>1. f \in Relays /\ handler'[h].for = f
  BY StatementStep
<1>2. Complete(row[f].creds) => row'[f].creds = row[f].creds
  BY <1>1 DEF CredsStay
<1>3. CASE FindCredentials(h)
  <2>1. handler'[h].at = "refresh" /\ handler'[h].creds = row[f].creds
    BY <1>3, StatementStep
  <2>2. Complete(row[f].creds)
    BY <1>3 DEF FindCredentials
  <2> QED BY <1>1, <1>2, <2>1, <2>2 DEF CredsOf
<1>4. CASE GenerateCredentials(h)
  <2>1. /\ handler'[h].at = "insert" /\ pairs' \in 1..MaxPairs
        /\ handler'[h].creds = [uuid |-> pairs', priv |-> pairs', pub |-> pairs']
    BY <1>4, StatementStep
  <2>2. Uniform(handler'[h].creds) /\ Complete(handler'[h].creds)
    BY <2>1, Numbers DEF Uniform, Complete
  <2> QED BY <2>1, <2>2 DEF CredsOf
<1>5. CASE Refresh(h)
  <2>1. handler[h].at = "refresh"
    BY <1>5 DEF Refresh
  <2>2. handler'[h].at = "answer" /\ handler'[h].creds = handler[h].creds
    BY <1>5, StatementStep
  <2>3. Complete(row[f].creds) /\ handler[h].creds = row[f].creds
    BY <2>1 DEF CredInv, HandlerCreds, CredsOf
  <2> QED BY <1>1, <1>2, <2>2, <2>3 DEF CredsOf
<1>6. CASE Insert(h)
  <2>1. handler[h].at = "insert"
    BY <1>6 DEF Insert
  <2>2. handler'[h].at = "back"
    BY <1>6, StatementStep
  <2>3. row'[f].creds = Kept(row[f].creds, handler[h].creds)
    BY <1>6, RowStep
  <2>4. row[f].creds \in CredsSet /\ handler[h].creds \in CredsSet
    BY <1>1 DEF RequestsInv, RowTypes, RowType, HandlerTypes, HandlerType
  <2>5. Complete(handler[h].creds)
    BY <2>1 DEF CredInv, HandlerCreds, CredsOf
  <2>6. Complete(Kept(row[f].creds, handler[h].creds))
    BY <2>4, <2>5, KeptRecord DEF Complete
  <2> QED BY <1>1, <2>2, <2>3, <2>6 DEF CredsOf
<1>7. CASE ReadBack(h)
  <2>1. handler[h].at = "back"
    BY <1>7 DEF ReadBack
  <2>2. handler'[h].at = "answer" /\ handler'[h].creds = row[f].creds
    BY <1>7, StatementStep
  <2>3. Complete(row[f].creds)
    BY <2>1 DEF CredInv, HandlerCreds, CredsOf
  <2> QED BY <1>1, <1>2, <2>2, <2>3 DEF CredsOf
<1> QED BY <1>3, <1>4, <1>5, <1>6, <1>7 DEF Statement

\* Every step keeps what rows and requests hold.
LEMMA StepCreds == RequestsInv /\ CredInv /\ [RelayNext]_relayVars => CredInv'
<1> SUFFICES ASSUME RequestsInv, CredInv, [RelayNext]_relayVars PROVE CredInv'
  OBVIOUS
<1>1. CredsStay /\ RowCreds'
  BY StepCredsStay
<1>2. \A h \in Handlers : CredsOf(h)
  BY DEF CredInv, HandlerCreds, CredsOf
<1>3. ASSUME NEW h \in Handlers, handler'[h] = handler[h] PROVE CredsOf(h)'
  BY <1>1, <1>2, <1>3, CredsOfKept
<1>4. ASSUME NEW h \in Handlers, handler'[h].at \in {"free", "read"} PROVE CredsOf(h)'
  BY <1>4 DEF CredsOf
<1>5. SUFFICES \A h \in Handlers : CredsOf(h)'
  BY <1>1 DEF CredInv, HandlerCreds, CredsOf
<1>6. CASE handler' = handler
  BY <1>3, <1>6
<1>7. ASSUME NEW r \in Relays, NEW g \in Handlers, Ask(r, g), NEW h \in Handlers PROVE CredsOf(h)'
  <2>1. handler'[g].at = "read" /\ (h # g => handler'[h] = handler[h])
    BY <1>7, AskStep DEF OnlyHandler
  <2> QED BY <1>3, <1>4, <2>1
<1>8. ASSUME NEW g \in Handlers, Statement(g), NEW h \in Handlers PROVE CredsOf(h)'
  <2>1. h # g => handler'[h] = handler[h]
    BY <1>8, StatementStep DEF OnlyHandler
  <2> QED BY <1>1, <1>3, <1>8, <2>1, CredsOfStatement
<1>9. ASSUME NEW g \in Handlers, Finishes(g), NEW h \in Handlers PROVE CredsOf(h)'
  <2>1. handler'[g] = FreeHandler /\ (h # g => handler'[h] = handler[h])
    BY <1>9, EndStep DEF OnlyHandler
  <2> QED BY <1>3, <1>4, <2>1, EmptyRecords
<1>10. ASSUME NEW k \in MeshKeys \cup {NoKey}, ControlPlaneRestart(k), NEW h \in Handlers
       PROVE  CredsOf(h)'
  BY <1>4, <1>10, ControlPlaneRestartStep, EmptyRecords
<1>11. ASSUME NEW r \in Relays, AskFails(r) \/ RelayRestart(r) \/ StrikeOff(r)
       PROVE  handler' = handler
  BY <1>11 DEF AskFails, RelayRestart, StrikeOff
<1>12. ASSUME NEW d \in Devices,
              Fetch(d, issueMeshToken(device[d].pub)) \/ Fetch(d, NoToken) \/ Dial(d) \/ Rekey(d)
       PROVE  handler' = handler
  BY <1>12 DEF Fetch, Dial, Rekey
<1>13. CASE Minute \/ UNCHANGED relayVars
  BY <1>6, <1>13 DEF Minute, relayVars
<1> QED BY <1>6, <1>7, <1>8, <1>9, <1>10, <1>11, <1>12, <1>13, Steps

\* The invariant of the credentials.
LEMMA CredInvariant == RelaySpec => [](RequestsInv /\ CredInv)
<1>1. RelayInit => RequestsInv /\ CredInv
  BY InitRequests, InitCreds
<1>2. (RequestsInv /\ CredInv) /\ [RelayNext]_relayVars => (RequestsInv /\ CredInv)'
  BY StepRequests, StepCreds
<1> QED BY <1>1, <1>2, PTL DEF RelaySpec

(* AnswersStored: UpsertWithCredentials answers what the row holds, whatever
   other registrations of the address do between its statements. *)
THEOREM AnswersAreStored == RelaySpec => []AnswersStored
<1>1. RequestsInv /\ CredInv => AnswersStored
  <2> SUFFICES ASSUME RequestsInv, CredInv, NEW h \in Handlers, handler[h].at = "answer"
               PROVE  /\ handler[h].creds = row[handler[h].for].creds
                      /\ \A c \in DOMAIN NoCreds : handler[h].creds[c] = handler[h].creds.pub
    BY DEF AnswersStored
  <2>1. handler[h].creds = row[handler[h].for].creds
    BY DEF CredInv, HandlerCreds, CredsOf
  <2>2. handler[h].for \in Relays
    BY DEF RequestsInv, RequestInv, HandlerTypes, HandlerType
  <2>3. Uniform(handler[h].creds)
    BY <2>1, <2>2 DEF CredInv, RowCreds
  <2>4. DOMAIN NoCreds = {"uuid", "priv", "pub"}
    BY DEF NoCreds
  <2> QED BY <2>1, <2>3, <2>4 DEF Uniform
<1> QED BY <1>1, CredInvariant, PTL

(* CredentialsStable: no step changes credentials that are complete. *)
THEOREM CredentialsStay == RelaySpec => CredentialsStable
<1>1. (RequestsInv /\ CredInv) /\ [RelayNext]_relayVars
        => [\A r \in Relays : Complete(row[r].creds) => row'[r].creds = row[r].creds]_relayVars
  BY StepCredsStay DEF CredsStay
<1> QED BY <1>1, CredInvariant, PTL DEF RelaySpec, CredentialsStable

-----------------------------------------------------------------------------
(* How old a row is.                                                         *)

\* Minutes until the next request of r, which one that is made no longer has.
Left(r) == IF relay[r].at = "asking" THEN 0 ELSE relay[r].due

\* A relay that missed nothing registered at most a beat ago, and one that
\* missed one at most two.
YoungOf(r) ==
  /\ relay[r].missed = 0 => row[r].age \in 0..(Beat - Left(r))
  /\ relay[r].missed = 1 => row[r].age \in 0..(2 * Beat - Left(r))

RowsYoung == \A r \in Relays : YoungOf(r)

\* The row a request has written is of this minute.
WrittenNow ==
  \A h \in Handlers : handler[h].at \in {"back", "answer"} => row[handler[h].for].age = 0

\* Together they are inductive over RequestsInv.
ListedInv == RowsYoung /\ WrittenNow

\* Who a registrar waits for, and its numbers.
LEMMA RegistrarOf ==
  ASSUME RequestsInv, NEW r \in Relays
  PROVE  /\ relay[r] \in RegistrarType /\ relay[r].due \in 0..Beat /\ relay[r].missed \in 0..2
         /\ Left(r) \in 0..Beat
         /\ \A h \in Handlers : relay[r].by = h => relay[r].at = "asking" /\ handler[h].for = r
<1>1. relay[r] \in RegistrarType
  BY DEF RequestsInv, RegistrarTypes
<1>2. relay[r].due \in 0..Beat /\ relay[r].missed \in 0..2 /\ Left(r) \in 0..Beat
  BY <1>1, RegistrarFields, Numbers DEF Left
<1>3. \A h \in Handlers : relay[r].by = h => relay[r].at = "asking" /\ handler[h].for = r
  BY RelayAssumption DEF RequestsInv, RequestInv
<1> QED BY <1>1, <1>2, <1>3

\* A registrar that stays, and whose row stays or is written.
LEMMA YoungStays ==
  ASSUME RequestsInv, NEW r \in Relays, YoungOf(r), relay'[r] = relay[r],
         row'[r].age = row[r].age \/ row'[r].age = 0
  PROVE  YoungOf(r)'
<1>1. Left(r)' = Left(r)
  BY DEF Left
<1> QED BY <1>1, RegistrarOf, Numbers DEF YoungOf

\* The registrar's request fails.
LEMMA YoungMissed ==
  ASSUME RequestsInv, NEW r \in Relays, YoungOf(r), relay[r].at = "asking",
         relay'[r] = Missed(relay[r]), row'[r] = row[r]
  PROVE  YoungOf(r)'
<1>1. /\ relay'[r].at = "waiting" /\ relay'[r].due = relay[r].due
      /\ relay'[r].missed = More(relay[r].missed, 2)
  BY RegistrarOf, MissedRecord
<1>2. Left(r) = 0 /\ Left(r)' = relay[r].due
  BY <1>1 DEF Left
<1>3. relay[r].due \in 0..Beat /\ relay[r].missed \in 0..2
  BY RegistrarOf
<1>4. relay'[r].missed # 0 /\ (relay'[r].missed = 1 => relay[r].missed = 0)
  BY <1>1, <1>3 DEF More
<1> QED BY <1>2, <1>3, <1>4, Numbers DEF YoungOf

\* Every step keeps the bound on the age of a row.
LEMMA StepYoung == RequestsInv /\ ListedInv /\ [RelayNext]_relayVars => RowsYoung'
<1> SUFFICES ASSUME RequestsInv, ListedInv, [RelayNext]_relayVars, NEW r \in Relays
             PROVE  YoungOf(r)'
  BY DEF RowsYoung, YoungOf
<1>1. YoungOf(r)
  BY DEF ListedInv, RowsYoung, YoungOf
<1>2. CASE relay' = relay /\ row' = row
  BY <1>1, <1>2, YoungStays
<1>3. ASSUME NEW q \in Relays, NEW h \in Handlers, Ask(q, h) PROVE YoungOf(r)'
  <2>1. row' = row
    BY <1>3, AskStep
  <2>2. CASE q # r
    BY <1>1, <1>3, <2>1, <2>2, AskStep, YoungStays
  <2>3. CASE q = r
    <3>1. /\ relay[r].at = "waiting" /\ relay[r].due = 0
          /\ relay'[r].at = "asking" /\ relay'[r].missed = relay[r].missed
      BY <1>3, <2>3, AskStep
    <3>2. Left(r) = 0 /\ Left(r)' = 0
      BY <3>1 DEF Left
    <3> QED BY <1>1, <2>1, <3>1, <3>2 DEF YoungOf
  <2> QED BY <2>2, <2>3
<1>4. ASSUME NEW q \in Relays, AskFails(q) PROVE YoungOf(r)'
  <2>1. row' = row
    BY <1>4, AskFailsStep
  <2>2. CASE q # r
    BY <1>1, <1>4, <2>1, <2>2, AskFailsStep, YoungStays
  <2>3. CASE q = r
    <3>1. /\ relay[r].at = "waiting" /\ relay[r].due = 0
          /\ relay'[r].at = "waiting" /\ relay'[r].due = Beat
          /\ relay'[r].missed = More(relay[r].missed, 2)
      BY <1>4, <2>3, AskFailsStep
    <3>2. Left(r) = 0 /\ Left(r)' = Beat
      BY <3>1 DEF Left
    <3>3. relay'[r].missed # 0 /\ (relay'[r].missed = 1 => relay[r].missed = 0)
      BY <3>1, RegistrarOf DEF More
    <3> QED BY <1>1, <2>1, <3>2, <3>3, Numbers DEF YoungOf
  <2> QED BY <2>2, <2>3
<1>5. ASSUME NEW q \in Relays, RelayRestart(q) PROVE YoungOf(r)'
  <2>1. row' = row
    BY <1>5, RelayRestartStep
  <2>2. CASE q # r
    BY <1>1, <1>5, <2>1, <2>2, RelayRestartStep, YoungStays
  <2>3. CASE q = r
    BY <1>5, <2>3, RelayRestartStep, EmptyRecords DEF YoungOf
  <2> QED BY <2>2, <2>3
<1>6. ASSUME NEW q \in Relays, StrikeOff(q) PROVE YoungOf(r)'
  BY <1>2, <1>6 DEF StrikeOff
<1>7. ASSUME NEW h \in Handlers, Statement(h) PROVE YoungOf(r)'
  <2>1. relay' = relay
    BY <1>7, StatementStep
  <2>2. row'[r].age = row[r].age \/ row'[r].age = 0
    BY <1>7, RowStep DEF Statement
  <2> QED BY <1>1, <2>1, <2>2, YoungStays
<1>8. ASSUME NEW h \in Handlers, Finishes(h) PROVE YoungOf(r)'
  <2>1. row' = row
    BY <1>8, EndStep
  <2>2. CASE relay'[r] = relay[r]
    BY <1>1, <2>1, <2>2, YoungStays
  <2>3. CASE relay'[r] = Missed(relay[r]) /\ relay[r].by = h
    BY <1>1, <2>1, <2>3, RegistrarOf, YoungMissed
  <2>4. CASE /\ relay'[r] = Answered(relay[r], cpKey) /\ relay[r].by = h
             /\ handler[h].at = "answer"
    <3>1. row[r].age = 0
      BY <2>4, RegistrarOf DEF ListedInv, WrittenNow
    <3>2. cpKey \in MeshKeys \cup {NoKey}
      BY DEF RequestsInv, CounterTypes
    <3>3. relay'[r].at = "waiting" /\ relay'[r].due = relay[r].due /\ relay'[r].missed = 0
      BY <2>4, <3>2, RegistrarOf, AnsweredRecord
    <3>4. Left(r)' = relay[r].due /\ relay[r].due \in 0..Beat
      BY <3>3, RegistrarOf DEF Left
    <3> QED BY <2>1, <3>1, <3>3, <3>4, Numbers DEF YoungOf
  <2> QED BY <1>8, <2>2, <2>3, <2>4, EndStep
<1>9. ASSUME NEW k \in MeshKeys \cup {NoKey}, ControlPlaneRestart(k) PROVE YoungOf(r)'
  <2>1. row' = row
    BY <1>9, ControlPlaneRestartStep
  <2>2. CASE relay'[r] = relay[r]
    BY <1>1, <2>1, <2>2, YoungStays
  <2>3. CASE relay'[r] = Missed(relay[r]) /\ relay[r].by \in Handlers
    BY <1>1, <2>1, <2>3, RegistrarOf, YoungMissed
  <2> QED BY <1>9, <2>2, <2>3, ControlPlaneRestartStep
<1>10. ASSUME NEW d \in Devices,
              Fetch(d, issueMeshToken(device[d].pub)) \/ Fetch(d, NoToken) \/ Dial(d) \/ Rekey(d)
       PROVE  YoungOf(r)'
  BY <1>2, <1>10 DEF Fetch, Dial, Rekey
<1>11. CASE Minute
  <2>1. /\ relay[r].at = "waiting" /\ relay[r].due \in 1..Beat
        /\ relay'[r].at = "waiting" /\ relay'[r].due = relay[r].due - 1
        /\ relay'[r].missed = relay[r].missed
    BY <1>11, MinuteStep
  <2>2. Left(r) = relay[r].due /\ Left(r)' = relay[r].due - 1
    BY <2>1 DEF Left
  <2>3. row[r].age \in 0..Fresh => row'[r].age \in 0..Fresh /\ row'[r].age <= row[r].age + 1
    BY <1>11, MinuteRow, MoreBounds, Numbers
  <2> QED BY <1>1, <2>1, <2>2, <2>3, Numbers DEF YoungOf
<1>12. CASE UNCHANGED relayVars
  BY <1>2, <1>12 DEF relayVars
<1> QED BY <1>3, <1>4, <1>5, <1>6, <1>7, <1>8, <1>9, <1>10, <1>11, <1>12, Steps

\* A row stays written in this minute while its request lasts: no minute passes.
LEMMA StepWritten == RequestsInv /\ ListedInv /\ [RelayNext]_relayVars => WrittenNow'
<1> SUFFICES ASSUME RequestsInv, ListedInv, [RelayNext]_relayVars, NEW h \in Handlers,
                    handler'[h].at \in {"back", "answer"}
             PROVE  row'[handler'[h].for].age = 0
  BY DEF WrittenNow
<1>1. ASSUME handler'[h] = handler[h], row' = row PROVE row'[handler'[h].for].age = 0
  BY <1>1 DEF ListedInv, WrittenNow
<1>2. ASSUME NEW r \in Relays, NEW g \in Handlers, Ask(r, g) PROVE row'[handler'[h].for].age = 0
  BY <1>1, <1>2, AskStep DEF OnlyHandler
<1>3. ASSUME NEW g \in Handlers, Statement(g) PROVE row'[handler'[h].for].age = 0
  <2>1. CASE g # h
    <3>1. handler'[h] = handler[h]
      BY <1>3, <2>1, StatementStep DEF OnlyHandler
    <3>2. handler[h].for \in Relays
      BY <3>1 DEF RequestsInv, RequestInv, HandlerTypes, HandlerType
    <3>3. row'[handler[h].for].age = row[handler[h].for].age \/ row'[handler[h].for].age = 0
      BY <1>3, <3>2, RowStep DEF Statement
    <3> QED BY <3>1, <3>3 DEF ListedInv, WrittenNow
  <2>2. CASE g = h
    <3>1. handler'[h].for = handler[h].for
      BY <1>3, <2>2, StatementStep
    <3>2. CASE FindCredentials(h) \/ GenerateCredentials(h)
      BY <1>3, <2>2, <3>2, StatementStep
    <3>3. CASE Refresh(h) \/ Insert(h)
      BY <1>3, <2>2, <3>1, <3>3, RowStep
    <3>4. CASE ReadBack(h)
      <4>1. handler[h].at = "back" /\ row' = row
        BY <1>3, <2>2, <3>4, RowStep DEF ReadBack
      <4> QED BY <3>1, <4>1 DEF ListedInv, WrittenNow
    <3> QED BY <1>3, <2>2, <3>2, <3>3, <3>4 DEF Statement
  <2> QED BY <2>1, <2>2
<1>4. ASSUME NEW g \in Handlers, Finishes(g) PROVE row'[handler'[h].for].age = 0
  BY <1>1, <1>4, EndStep, EmptyRecords DEF OnlyHandler
<1>5. ASSUME NEW k \in MeshKeys \cup {NoKey}, ControlPlaneRestart(k)
      PROVE  row'[handler'[h].for].age = 0
  BY <1>5, ControlPlaneRestartStep, EmptyRecords
<1>6. ASSUME NEW r \in Relays, AskFails(r) \/ RelayRestart(r) \/ StrikeOff(r)
      PROVE  row'[handler'[h].for].age = 0
  BY <1>1, <1>6 DEF AskFails, RelayRestart, StrikeOff
<1>7. ASSUME NEW d \in Devices,
             Fetch(d, issueMeshToken(device[d].pub)) \/ Fetch(d, NoToken) \/ Dial(d) \/ Rekey(d)
      PROVE  row'[handler'[h].for].age = 0
  BY <1>1, <1>7 DEF Fetch, Dial, Rekey
<1>8. CASE Minute
  BY <1>8, MinuteStep
<1>9. CASE UNCHANGED relayVars
  BY <1>1, <1>9 DEF relayVars
<1> QED BY <1>2, <1>3, <1>4, <1>5, <1>6, <1>7, <1>8, <1>9, Steps

\* Every relay has missed all there could have been.
LEMMA InitListed == RelayInit => ListedInv
BY EmptyRecords DEF RelayInit, ListedInv, RowsYoung, YoungOf, WrittenNow

(* StaysListed: with 2 * Beat < Fresh, one missed beat never takes a relay off
   the list. *)
THEOREM RelaysStayListed == RelaySpec => []StaysListed
<1>1. RelayInit => RequestsInv /\ ListedInv
  BY InitRequests, InitListed
<1>2. (RequestsInv /\ ListedInv) /\ [RelayNext]_relayVars => (RequestsInv /\ ListedInv)'
  BY StepRequests, StepYoung, StepWritten DEF ListedInv
<1>3. RequestsInv /\ ListedInv => StaysListed
  <2> SUFFICES ASSUME RequestsInv, ListedInv, NEW r \in Relays, relay[r].missed <= 1
               PROVE  row[r].age \in 0..(Fresh - 1)
    BY DEF StaysListed
  <2>1. Left(r) \in 0..Beat /\ relay[r].missed \in {0, 1}
    BY RegistrarOf
  <2>2. row[r].age \in 0..(Beat - Left(r)) \/ row[r].age \in 0..(2 * Beat - Left(r))
    BY <2>1 DEF ListedInv, RowsYoung, YoungOf
  <2> QED BY <2>1, <2>2, Numbers
<1> QED BY <1>1, <1>2, <1>3, PTL DEF RelaySpec

-----------------------------------------------------------------------------
(* Keys and tokens.                                                          *)

\* A relay that missed nothing has the control plane's key, or the control
\* plane was started after its last registration.
KeyOf(r) ==
  relay[r].at = "waiting" /\ relay[r].missed = 0
    => relay[r].key = cpKey \/ rotated <= Beat - relay[r].due

KeyInv == \A r \in Relays : KeyOf(r)

\* A token in hand is signed with the control plane's key, or a restart is recent.
TokenOf(d) ==
  Dialling(d) /\ device[d].token # NoToken => device[d].token.key = cpKey \/ rotated < Beat

TokenInv == \A d \in Devices : TokenOf(d)

\* No relay has registered, and no device has a token.
LEMMA InitKeys == RelayInit => KeyInv /\ TokenInv
<1> SUFFICES ASSUME RelayInit PROVE KeyInv /\ TokenInv
  OBVIOUS
<1>1. KeyInv
  BY EmptyRecords DEF RelayInit, KeyInv, KeyOf
<1>2. TokenInv
  BY DEF RelayInit, TokenInv, TokenOf, Dialling
<1> QED BY <1>1, <1>2

\* A key comes with an answer, and goes stale with a restart.
LEMMA StepKeys == RequestsInv /\ KeyInv /\ [RelayNext]_relayVars => KeyInv'
<1> SUFFICES ASSUME RequestsInv, KeyInv, [RelayNext]_relayVars, NEW r \in Relays PROVE KeyOf(r)'
  BY DEF KeyInv
<1>1. KeyOf(r)
  BY DEF KeyInv
<1>2. ASSUME relay'[r] = relay[r], cpKey' = cpKey, rotated' = rotated PROVE KeyOf(r)'
  BY <1>1, <1>2 DEF KeyOf
<1>3. ASSUME relay'[r].missed # 0 PROVE KeyOf(r)'
  BY <1>3 DEF KeyOf
<1>4. ASSUME relay'[r] = Missed(relay[r]) PROVE KeyOf(r)'
  <2>1. relay'[r].missed = More(relay[r].missed, 2) /\ relay[r].missed \in 0..2
    BY <1>4, RegistrarOf, MissedRecord
  <2> QED BY <1>3, <2>1 DEF More
<1>5. ASSUME NEW q \in Relays, NEW h \in Handlers, Ask(q, h) PROVE KeyOf(r)'
  <2>1. CASE q # r
    BY <1>2, <1>5, <2>1, AskStep
  <2>2. CASE q = r
    BY <1>5, <2>2, AskStep DEF KeyOf
  <2> QED BY <2>1, <2>2
<1>6. ASSUME NEW q \in Relays, AskFails(q) PROVE KeyOf(r)'
  <2>1. CASE q # r
    BY <1>2, <1>6, <2>1, AskFailsStep
  <2>2. CASE q = r
    <3>1. relay'[r].missed = More(relay[r].missed, 2) /\ relay[r].missed \in 0..2
      BY <1>6, <2>2, AskFailsStep, RegistrarOf
    <3> QED BY <1>3, <3>1 DEF More
  <2> QED BY <2>1, <2>2
<1>7. ASSUME NEW q \in Relays, RelayRestart(q) PROVE KeyOf(r)'
  <2>1. CASE q # r
    BY <1>2, <1>7, <2>1, RelayRestartStep
  <2>2. CASE q = r
    BY <1>3, <1>7, <2>2, RelayRestartStep, EmptyRecords
  <2> QED BY <2>1, <2>2
<1>8. ASSUME NEW q \in Relays, StrikeOff(q) PROVE KeyOf(r)'
  BY <1>2, <1>8 DEF StrikeOff
<1>9. ASSUME NEW h \in Handlers, Statement(h) PROVE KeyOf(r)'
  BY <1>2, <1>9, StatementStep
<1>10. ASSUME NEW h \in Handlers, Finishes(h) PROVE KeyOf(r)'
  <2>1. cpKey' = cpKey /\ rotated' = rotated /\ cpKey \in MeshKeys \cup {NoKey}
    BY <1>10, EndStep DEF RequestsInv, CounterTypes
  <2>2. CASE relay'[r] = Answered(relay[r], cpKey)
    <3>1. relay'[r].key = cpKey
      BY <2>1, <2>2, RegistrarOf, AnsweredRecord
    <3> QED BY <2>1, <3>1 DEF KeyOf
  <2> QED BY <1>2, <1>4, <1>10, <2>1, <2>2, EndStep
<1>11. ASSUME NEW k \in MeshKeys \cup {NoKey}, ControlPlaneRestart(k) PROVE KeyOf(r)'
  <2>1. CASE relay'[r] = relay[r]
    <3>1. rotated' = 0 /\ relay'[r].due \in 0..Beat
      BY <1>11, <2>1, ControlPlaneRestartStep, RegistrarOf
    <3> QED BY <3>1, Numbers DEF KeyOf
  <2> QED BY <1>4, <1>11, <2>1, ControlPlaneRestartStep
<1>12. ASSUME NEW d \in Devices,
              Fetch(d, issueMeshToken(device[d].pub)) \/ Fetch(d, NoToken) \/ Dial(d) \/ Rekey(d)
       PROVE  KeyOf(r)'
  BY <1>2, <1>12 DEF Fetch, Dial, Rekey
<1>13. CASE Minute
  <2>1. /\ relay[r].at = "waiting" /\ relay[r].due \in 1..Beat
        /\ relay'[r].due = relay[r].due - 1 /\ relay'[r].key = relay[r].key
        /\ relay'[r].missed = relay[r].missed /\ cpKey' = cpKey
    BY <1>13, MinuteStep
  <2>2. rotated \in 0..Beat /\ rotated' \in 0..Beat /\ rotated' <= rotated + 1
    <3>1. rotated \in 0..Beat /\ rotated' = More(rotated, Beat)
      BY <1>13 DEF RequestsInv, CounterTypes, Minute
    <3> QED BY <3>1, Numbers, MoreBounds
  <2> QED BY <1>1, <2>1, <2>2, Numbers DEF KeyOf
<1>14. CASE UNCHANGED relayVars
  BY <1>2, <1>14 DEF relayVars
<1> QED BY <1>5, <1>6, <1>7, <1>8, <1>9, <1>10, <1>11, <1>12, <1>13, <1>14, Steps

\* A token comes with the key of the moment, and is used within the minute.
LEMMA StepTokens == RequestsInv /\ TokenInv /\ [RelayNext]_relayVars => TokenInv'
<1> SUFFICES ASSUME RequestsInv, TokenInv, [RelayNext]_relayVars, NEW d \in Devices
             PROVE  TokenOf(d)'
  BY DEF TokenInv
<1>1. TokenOf(d)
  BY DEF TokenInv
<1>2. ASSUME device'[d].token = device[d].token, device'[d].relay = device[d].relay,
             cpKey' = cpKey, rotated' = rotated
      PROVE  TokenOf(d)'
  BY <1>1, <1>2 DEF TokenOf, Dialling
<1>3. CASE UNCHANGED <<device, cpKey, rotated>>
  BY <1>2, <1>3
<1>4. ASSUME NEW r \in Relays,
             (\E h \in Handlers : Ask(r, h)) \/ AskFails(r) \/ RelayRestart(r) \/ StrikeOff(r)
      PROVE  UNCHANGED <<device, cpKey, rotated>>
  BY <1>4 DEF Ask, AskFails, RelayRestart, StrikeOff
<1>5. ASSUME NEW h \in Handlers, Statement(h) \/ Finishes(h) PROVE UNCHANGED <<device, cpKey, rotated>>
  BY <1>5, StatementStep, EndStep
<1>6. ASSUME NEW k \in MeshKeys \cup {NoKey}, ControlPlaneRestart(k) PROVE TokenOf(d)'
  <2>1. rotated' = 0
    BY <1>6 DEF ControlPlaneRestart
  <2> QED BY <2>1, Numbers DEF TokenOf
<1>7. ASSUME NEW e \in Devices,
             Fetch(e, issueMeshToken(device[e].pub)) \/ Fetch(e, NoToken) \/ Dial(e) \/ Rekey(e)
      PROVE  TokenOf(d)'
  <2>1. cpKey' = cpKey /\ rotated' = rotated
    BY <1>7 DEF Fetch, Dial, Rekey
  <2>2. PICK t \in TokenSet : t = issueMeshToken(device[e].pub)
    BY TokensAreTyped
  <2>3. t = NoToken \/ t.key = cpKey
    BY <2>2 DEF issueMeshToken
  <2>4. CASE e # d
    <3>1. device'[d] = device[d]
      BY <1>7, <2>2, <2>4, TokensAreTyped, FetchStep, DialStep, RekeyStep
    <3> QED BY <1>2, <2>1, <3>1
  <2>5. CASE e = d /\ Fetch(d, t)
    <3>1. device'[d].token = t
      BY <2>5, FetchStep
    <3> QED BY <2>1, <2>3, <3>1 DEF TokenOf
  <2>6. CASE e = d /\ Fetch(d, NoToken)
    <3>1. device'[d].token = NoToken
      BY <2>6, FetchStep, EmptyRecords
    <3> QED BY <3>1 DEF TokenOf
  <2>7. CASE e = d /\ Dial(d)
    <3>1. device'[d].relay = NoRelay
      BY <2>7, DialStep
    <3> QED BY <3>1 DEF TokenOf, Dialling
  <2>8. CASE e = d /\ Rekey(d)
    BY <1>2, <2>1, <2>8, RekeyStep
  <2> QED BY <1>7, <2>2, <2>4, <2>5, <2>6, <2>7, <2>8
<1>8. CASE Minute
  <2>1. device' = device /\ ~Dialling(d)
    BY <1>8, MinuteStep
  <2> QED BY <2>1 DEF TokenOf, Dialling
<1>9. CASE UNCHANGED relayVars
  BY <1>3, <1>9 DEF relayVars
<1> QED BY <1>3, <1>4, <1>5, <1>6, <1>7, <1>8, <1>9, Steps

(* FreshTokensAdmitted: whoever is turned away with a fresh token met a relay
   that missed a registration or a restart less than a beat ago. *)
THEOREM FreshTokensAreAdmitted == RelaySpec => []FreshTokensAdmitted
<1>1. RelayInit => RequestsInv /\ KeyInv /\ TokenInv
  BY InitRequests, InitKeys
<1>2. (RequestsInv /\ KeyInv /\ TokenInv) /\ [RelayNext]_relayVars
        => (RequestsInv /\ KeyInv /\ TokenInv)'
  BY StepRequests, StepKeys, StepTokens
<1>3. RequestsInv /\ KeyInv /\ TokenInv => FreshTokensAdmitted
  <2>1. ASSUME RequestsInv, NEW d \in Devices, Dialling(d)
        PROVE  /\ device[d].relay \in Relays
               /\ relay[device[d].relay].missed \in 0..2
               /\ relay[device[d].relay].at \in {"waiting", "asking"}
    <3>1. device[d].relay \in Relays
      BY <2>1 DEF RequestsInv, DeviceTypes, DeviceType, Dialling
    <3> QED BY <2>1, <3>1, RegistrarOf, RegistrarFields
  <2> SUFFICES ASSUME RequestsInv, KeyInv, TokenInv, NEW d \in Devices,
                      Dialling(d), device[d].token # NoToken, device[d].token.pub = device[d].pub,
                      ~(rotated < Beat),
                      relay[device[d].relay].missed = 0, relay[device[d].relay].due # 0,
                      relay[device[d].relay].at = "waiting"
               PROVE  Admitted(d)
    BY <2>1 DEF FreshTokensAdmitted
  <2> DEFINE q == device[d].relay
  <2>2. q \in Relays
    BY <2>1
  <2>3. rotated = Beat /\ relay[q].due \in 1..Beat
    BY <2>2, RegistrarOf, Numbers DEF RequestsInv, CounterTypes
  <2>4. relay[q].key = cpKey
    BY <2>2, <2>3, Numbers DEF KeyInv, KeyOf
  <2>5. device[d].token.key = cpKey
    BY <2>3, Numbers DEF TokenInv, TokenOf
  <2> QED BY <2>4, <2>5 DEF Admitted, Accepts
<1> QED BY <1>1, <1>2, <1>3, PTL DEF RelaySpec
=============================================================================
