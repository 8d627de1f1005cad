------------------------ MODULE HeartbeatPollProofs ------------------------
(***************************************************************************)
(* Proofs about HeartbeatPoll for any number of devices, concurrent PUTs   *)
(* and revisions: which handler has which channel, and which token is owed *)
(* to whom.                                                                *)
(***************************************************************************)
EXTENDS HeartbeatPoll, FiniteSetTheorems, WellFoundedInduction, TLAPS

-----------------------------------------------------------------------------
(* Numbers.                                                                  *)

\* What make(chan) returns is one of the channels nobody refers to.
LEMMA MinInSet ==
  ASSUME NEW S \in SUBSET Nat, S # {}
  PROVE  Min(S) \in S
<1>1. PICK x \in S : \A y \in S : ~ (<<y, x>> \in OpToRel(<, Nat))
  BY WFMin, NatLessThanWellFounded, Zenon
<1>2. \A y \in S : ~ (y < x)
  BY <1>1 DEF OpToRel
<1>3. \E z \in S : \A y \in S : z =< y
  BY <1>2
<1> QED BY <1>3 DEF Min

\* The acknowledged revision is the old one or the one just answered.
LEMMA MaxOfTwo ==
  ASSUME NEW a \in Nat, NEW b \in Nat
  PROVE  Max({a, b}) \in {a, b} /\ Max({a, b}) >= a /\ Max({a, b}) >= b
<1>1. \E x \in {a, b} : \A y \in {a, b} : x >= y
  OBVIOUS
<1> QED BY <1>1 DEF Max

-----------------------------------------------------------------------------
(* The inductive invariant.                                                  *)

\* One channel for each handler between Subscribe and its return.
SlotInv ==
  /\ \A d \in Devices : chan[d] # 0 <=> d \in Subscribed
  /\ \A c \in Chans : c \in subs <=> \E d \in Devices : chan[d] = c
  /\ \A d, e \in Devices : chan[d] = chan[e] /\ chan[d] # 0 => d = e

\* While a handler waits, a PUT that committed after it subscribed and was
\* answered has left a token, and one that is publishing has left it or owes it.
WakeInv ==
  \A d \in Devices : pc[d] = "waiting" =>
    /\ acked > since[d] => chan[d] \in token
    /\ \A w \in Writers : pc[w] = "waking" /\ wrote[w] > since[d] =>
         chan[d] \in token \cup pending[w]

\* The settings of a refreshed response are read after the token was taken.
RefreshInv ==
  \A d \in Devices :
    pc[d] \in {"refreshPeers", "refreshed"} /\ resp[d].settings # 0 =>
      resp[d].settings >= since[d]

PollInv == TypeOK /\ SlotInv /\ WakeInv /\ RefreshInv

\* What the two assumptions say of the numbers and of the processes.
LEMMA Bounds ==
  /\ MaxSettings \in Nat /\ MaxSettings >= 1 /\ MaxPeers \in Nat /\ MaxPeers >= 1
  /\ Chans \subseteq Nat \ {0}
  /\ Devices \subseteq Publishers /\ Writers \subseteq Publishers /\ Cleaner \in Publishers
  /\ \A d \in Devices : d \notin Writers /\ d # Cleaner
  /\ Cleaner \notin Writers
BY RevisionAssumption, ChansAssumption, ProcessAssumption DEF Chans, Publishers

\* Nobody polls, nobody publishes.
LEMMA InitPoll == Init => PollInv
<1> SUFFICES ASSUME Init PROVE PollInv
  OBVIOUS
<1>1. TypeOK
  BY Bounds DEF Init, TypeOK, Labels, Response, Empty
<1>2. SlotInv
  BY Bounds DEF Init, SlotInv, Subscribed
<1>3. WakeInv /\ RefreshInv
  BY Bounds DEF Init, WakeInv, RefreshInv
<1> QED BY <1>1, <1>2, <1>3 DEF PollInv

-----------------------------------------------------------------------------
(* Types.                                                                    *)

\* The channel a new subscription gets.
LEMMA FreshChannel ==
  ASSUME TypeOK, Garbage # {}
  PROVE  /\ Min(Garbage) \in Chans /\ Min(Garbage) # 0
         /\ Min(Garbage) \notin subs
         /\ \A p \in Publishers : Min(Garbage) \notin pending[p]
<1>1. Garbage \in SUBSET Nat
  BY Bounds DEF Garbage
<1>2. Min(Garbage) \in Garbage
  BY <1>1, MinInSet
<1> QED BY <1>2, Bounds DEF Garbage

\* TypeOK in three parts: the numbers, the handlers, the channels.
RevisionTypes ==
  /\ settings \in 1..MaxSettings /\ peers \in 1..MaxPeers
  /\ acked \in 1..settings
  /\ wrote \in [Writers -> 0..settings]
  /\ since \in [Devices -> 0..settings]

HandlerTypes ==
  /\ pc \in [Publishers -> Labels]
  /\ resp \in [Devices -> Response] /\ got \in [Devices -> Response]

ChannelTypes ==
  /\ chan \in [Devices -> Chans \cup {0}]
  /\ subs \in SUBSET Chans /\ token \in SUBSET Chans
  /\ pending \in [Publishers -> SUBSET Chans]

\* Revisions only grow, and nothing refers to one not yet written.
LEMMA StepRevisions == RevisionTypes /\ [Next]_vars => RevisionTypes'
<1> SUFFICES ASSUME RevisionTypes, [Next]_vars PROVE RevisionTypes'
  OBVIOUS
<1> USE Bounds DEF database, replies, broker, Reply, Unsubscribe, RevisionTypes
<1>1. CASE UNCHANGED vars
  BY <1>1 DEF vars
<1>2. ASSUME NEW d \in Devices, Poll(d) PROVE RevisionTypes'
  <2>1. CASE HeartbeatWrites(d) \/ Build(d) \/ Disturbed(d)
    BY <2>1 DEF HeartbeatWrites, Build, Disturbed, BuildFails, RefreshFails, ReadSettings,
                ReadPeers, ReadFails, ClientGone
  <2>2. CASE Hold(d) \/ ReplyAtOnce(d) \/ Wake(d) \/ ReplyRefreshed(d) \/ WaitElapsed(d)
    BY <2>2 DEF Hold, Subscribe, ReplyAtOnce, Wake, ReplyRefreshed, WaitElapsed
  <2> QED BY <1>2, <2>1, <2>2 DEF Poll
<1>3. ASSUME NEW w \in Writers, Patch(w) PROVE RevisionTypes'
  <2>1. CASE WriteField(w)
    <3>1. settings' \in 1..MaxSettings /\ settings' = settings + 1
      BY <2>1 DEF WriteField
    <3>2. 0..settings \subseteq 0..settings' /\ 1..settings \subseteq 1..settings'
      BY <3>1
    <3>3. settings' \in 0..settings'
      BY <3>1
    <3> QED BY <2>1, <3>1, <3>2, <3>3 DEF WriteField
  <2>2. CASE PatchFails(w) \/ PatchApplied(w)
    BY <2>2 DEF PatchFails, PatchApplied
  <2>3. CASE PatchAnswered(w)
    <3>1. acked' \in {acked, wrote[w]} /\ acked' >= acked
      BY <2>3, MaxOfTwo DEF PatchAnswered
    <3> QED BY <2>3, <3>1 DEF PatchAnswered
  <2> QED BY <1>3, <2>1, <2>2, <2>3 DEF Patch
<1>4. CASE MarkOffline \/ CleanupDone \/ PeersChange
  BY <1>4 DEF MarkOffline, CleanupDone, PeersChange
<1>5. ASSUME NEW p \in Publishers,
             CopySubscribers(p) \/ \E ch \in Chans : WakeOne(p, ch) PROVE RevisionTypes'
  BY <1>5 DEF CopySubscribers, WakeOne
<1> QED BY <1>1, <1>2, <1>3, <1>4, <1>5 DEF Next

\* A response whose one field is read anew.
LEMMA ResponseTyped ==
  /\ Empty \in Response
  /\ \A r \in Response :
       /\ \A n \in 0..MaxSettings : [r EXCEPT !.settings = n] \in Response
       /\ \A n \in 0..MaxPeers : [r EXCEPT !.peers = n] \in Response
BY Bounds DEF Response, Empty

\* Responses are built from revisions, one field at a time.
LEMMA StepHandlers == RevisionTypes /\ HandlerTypes /\ [Next]_vars => HandlerTypes'
<1> SUFFICES ASSUME RevisionTypes, HandlerTypes, [Next]_vars PROVE HandlerTypes'
  OBVIOUS
<1>0. settings \in 0..MaxSettings /\ 0 \in 0..MaxSettings
      /\ peers \in 0..MaxPeers /\ 0 \in 0..MaxPeers
  BY Bounds DEF RevisionTypes
<1> USE Bounds DEF Goto, database, replies, broker, Reply, HandlerTypes, Labels
<1>1. CASE UNCHANGED vars
  BY <1>1 DEF vars
<1>2. ASSUME NEW d \in Devices, Poll(d) PROVE HandlerTypes'
  <2>1. CASE HeartbeatWrites(d) \/ BuildFails(d) \/ RefreshFails(d) \/ Wake(d) \/ Hold(d)
    BY <2>1 DEF HeartbeatWrites, BuildFails, RefreshFails, Wake, Hold
  <2>2. CASE Build(d)
    BY <1>0, <2>2, ResponseTyped DEF Build, ReadSettings, ReadPeers
  <2>3. CASE ReadFails(d)
    <3>1. PICK l \in Labels : pc' = [pc EXCEPT ![d] = l]
      BY <2>3 DEF ReadFails
    <3>2. PICK r \in Response : resp' = [resp EXCEPT ![d] = r]
      <4>1. CASE resp' = [resp EXCEPT ![d].settings = 0]
        BY <1>0, <4>1, ResponseTyped
      <4>2. CASE resp' = [resp EXCEPT ![d].peers = 0]
        BY <1>0, <4>2, ResponseTyped
      <4> QED BY <2>3, <4>1, <4>2 DEF ReadFails
    <3> QED BY <2>3, <3>1, <3>2 DEF ReadFails
  <2>4. CASE ReplyAtOnce(d) \/ ReplyRefreshed(d) \/ WaitElapsed(d) \/ ClientGone(d)
    BY <2>4, ResponseTyped DEF ReplyAtOnce, ReplyRefreshed, WaitElapsed, ClientGone
  <2> QED BY <1>2, <2>1, <2>2, <2>3, <2>4 DEF Poll, Disturbed
<1>3. ASSUME NEW w \in Writers, Patch(w) PROVE HandlerTypes'
  BY <1>3 DEF Patch, WriteField, PatchFails, PatchApplied, PatchAnswered
<1>4. CASE MarkOffline \/ CleanupDone \/ PeersChange
  BY <1>4 DEF MarkOffline, CleanupDone, PeersChange
<1>5. ASSUME NEW p \in Publishers,
             CopySubscribers(p) \/ \E ch \in Chans : WakeOne(p, ch) PROVE HandlerTypes'
  BY <1>5 DEF CopySubscribers, WakeOne
<1> QED BY <1>1, <1>2, <1>3, <1>4, <1>5 DEF Next

\* The one new channel a step brings in is among Chans.
LEMMA StepChannels == TypeOK /\ [Next]_vars => ChannelTypes'
<1> SUFFICES ASSUME TypeOK, [Next]_vars PROVE ChannelTypes'
  OBVIOUS
<1>0. ChannelTypes
  BY DEF TypeOK, ChannelTypes
<1> USE <1>0, Bounds DEF database, replies, broker, Reply, Unsubscribe, ChannelTypes
<1>1. CASE UNCHANGED vars
  BY <1>1 DEF vars
<1>2. ASSUME NEW d \in Devices, Poll(d) PROVE ChannelTypes'
  <2>1. CASE HeartbeatWrites(d) \/ Build(d) \/ Disturbed(d)
    BY <2>1 DEF HeartbeatWrites, Build, Disturbed, BuildFails, RefreshFails, ReadSettings,
                ReadPeers, ReadFails, ClientGone
  <2>2. CASE ReplyAtOnce(d) \/ Wake(d) \/ ReplyRefreshed(d) \/ WaitElapsed(d)
    BY <2>2 DEF ReplyAtOnce, Wake, ReplyRefreshed, WaitElapsed
  <2>3. CASE Hold(d)
    BY <2>3, FreshChannel DEF Hold, Subscribe
  <2> QED BY <1>2, <2>1, <2>2, <2>3 DEF Poll
<1>3. ASSUME NEW w \in Writers, Patch(w) PROVE ChannelTypes'
  BY <1>3 DEF Patch, WriteField, PatchFails, PatchApplied, PatchAnswered
<1>4. CASE MarkOffline \/ CleanupDone \/ PeersChange
  BY <1>4 DEF MarkOffline, CleanupDone, PeersChange
<1>5. ASSUME NEW p \in Publishers, CopySubscribers(p) PROVE ChannelTypes'
  BY <1>5 DEF CopySubscribers
<1>6. ASSUME NEW p \in Publishers, NEW ch \in Chans, WakeOne(p, ch) PROVE ChannelTypes'
  BY <1>6 DEF WakeOne
<1> QED BY <1>1, <1>2, <1>3, <1>4, <1>5, <1>6 DEF Next

\* TypeOK is inductive by itself.
LEMMA StepTypes == TypeOK /\ [Next]_vars => TypeOK'
<1>1. TypeOK <=> RevisionTypes /\ HandlerTypes /\ ChannelTypes
  BY DEF TypeOK, RevisionTypes, HandlerTypes, ChannelTypes
<1>2. TypeOK' <=> RevisionTypes' /\ HandlerTypes' /\ ChannelTypes'
  BY DEF TypeOK, RevisionTypes, HandlerTypes, ChannelTypes
<1> QED BY <1>1, <1>2, StepRevisions, StepHandlers, StepChannels

-----------------------------------------------------------------------------
(* Subscriptions.                                                            *)

Held == {"waiting", "refreshSettings", "refreshPeers", "refreshed", "kept"}

\* A step in which no handler subscribes or returns.
LEMMA SlotsUntouched ==
  ASSUME SlotInv, UNCHANGED <<chan, subs>>,
         \A d \in Devices : pc'[d] \in Held <=> pc[d] \in Held
  PROVE  SlotInv'
BY DEF SlotInv, Subscribed, Held

\* d subscribes with a channel nobody has.
LEMMA SlotTaken ==
  ASSUME TypeOK, SlotInv, NEW d \in Devices, NEW c \in Chans, c \notin subs, c # 0,
         pc[d] \notin Held, pc' = [pc EXCEPT ![d] = "waiting"],
         chan' = [chan EXCEPT ![d] = c], subs' = subs \cup {c}
  PROVE  SlotInv'
<1>1. chan[d] = 0 /\ chan \in [Devices -> Chans \cup {0}] /\ 0 \notin Chans
      /\ pc \in [Publishers -> Labels] /\ subs \subseteq Chans
  BY Bounds DEF SlotInv, Subscribed, Held, TypeOK
<1>2. \A e \in Devices : chan[e] # c
  BY DEF SlotInv
<1> QED BY <1>1, <1>2, Bounds DEF SlotInv, Subscribed, Held

\* d returns and gives its channel back.
LEMMA SlotFreed ==
  ASSUME TypeOK, SlotInv, NEW d \in Devices, pc[d] \in Held, Unsubscribe(d),
         pc' = [pc EXCEPT ![d] = "idle"]
  PROVE  SlotInv'
<1>1. chan[d] # 0 /\ chan \in [Devices -> Chans \cup {0}] /\ 0 \notin Chans
      /\ pc \in [Publishers -> Labels] /\ subs \subseteq Chans
  BY Bounds DEF SlotInv, Subscribed, Held, TypeOK
<1> QED BY <1>1, Bounds DEF SlotInv, Subscribed, Held, Unsubscribe

\* One channel per subscription, through every step.
LEMMA StepSlots == TypeOK /\ SlotInv /\ [Next]_vars => SlotInv'
<1> SUFFICES ASSUME TypeOK, SlotInv, [Next]_vars PROVE SlotInv'
  OBVIOUS
<1>0. pc \in [Publishers -> Labels]
  BY DEF TypeOK
<1> USE <1>0, Bounds DEF Goto, database, replies, broker, Reply
<1>1. CASE UNCHANGED vars
  BY <1>1, SlotsUntouched DEF vars
<1>2. ASSUME NEW d \in Devices, Poll(d) PROVE SlotInv'
  <2>1. CASE HeartbeatWrites(d) \/ BuildFails(d) \/ RefreshFails(d)
             \/ ReadSettings(d) \/ ReadPeers(d) \/ ReadFails(d)
    BY <2>1, SlotsUntouched
       DEF HeartbeatWrites, BuildFails, RefreshFails, ReadSettings, ReadPeers, ReadFails, Held
  <2>2. CASE ReplyAtOnce(d) \/ Wake(d)
    BY <2>2, SlotsUntouched DEF ReplyAtOnce, Wake, Published, Held
  <2>3. CASE Hold(d)
    BY <2>3, FreshChannel, SlotTaken DEF Hold, Subscribe, Published, Held
  <2>4. CASE ReplyRefreshed(d) \/ WaitElapsed(d) \/ ClientGone(d)
    BY <2>4, SlotFreed DEF ReplyRefreshed, WaitElapsed, ClientGone, Held
  <2> QED BY <1>2, <2>1, <2>2, <2>3, <2>4 DEF Poll, Build, Disturbed
<1>3. ASSUME NEW w \in Writers, Patch(w) PROVE SlotInv'
  BY <1>3, SlotsUntouched DEF Patch, WriteField, PatchFails, PatchApplied, PatchAnswered
<1>4. CASE MarkOffline \/ CleanupDone \/ PeersChange
  BY <1>4, SlotsUntouched DEF MarkOffline, CleanupDone, PeersChange
<1>5. ASSUME NEW p \in Publishers, CopySubscribers(p) PROVE SlotInv'
  BY <1>5, SlotsUntouched DEF CopySubscribers, Held
<1>6. ASSUME NEW p \in Publishers, NEW ch \in Chans, WakeOne(p, ch) PROVE SlotInv'
  BY <1>6, SlotsUntouched DEF WakeOne
<1> QED BY <1>1, <1>2, <1>3, <1>4, <1>5, <1>6 DEF Next

\* Each handler that holds a subscription has a channel of its own.
LEMMA SlotsMatch == TypeOK /\ SlotInv => NoSlotLeaks
<1> SUFFICES ASSUME TypeOK, SlotInv PROVE NoSlotLeaks
  OBVIOUS
<1>1. subs \subseteq Chans /\ 0 \notin Chans /\ chan \in [Devices -> Chans \cup {0}]
  BY Bounds DEF TypeOK
<1>2. Subscribed \subseteq Devices /\ \A d \in Devices : d \in Subscribed <=> chan[d] # 0
  BY DEF SlotInv, Subscribed
<1>3. subs = {chan[d] : d \in Subscribed}
  BY <1>1, <1>2 DEF SlotInv
<1> DEFINE holder == [c \in subs |-> CHOOSE d \in Subscribed : chan[d] = c]
<1>4. \A c \in subs : holder[c] \in Subscribed /\ chan[holder[c]] = c
  BY <1>3
<1>5. holder \in Bijection(subs, Subscribed)
  <2>0. holder \in [subs -> Subscribed] /\ \A c \in subs : chan[holder[c]] = c
    BY <1>4
  <2> HIDE DEF holder
  <2>1. holder \in Injection(subs, Subscribed)
    BY <2>0 DEF Injection, IsInjective
  <2>2. \A d \in Subscribed : \E c \in subs : holder[c] = d
    BY <1>2, <1>3, <2>0 DEF SlotInv
  <2> QED BY <2>0, <2>1, <2>2 DEF Bijection, Surjection
<1>6. IsFiniteSet(subs)
  <2>1. NumChans \in Int /\ 1 \in Int
    BY ChansAssumption
  <2>2. IsFiniteSet(Chans)
    BY <2>1, FS_Interval DEF Chans
  <2> QED BY <1>1, <2>2, FS_Subset
<1>7. Cardinality(subs) = Cardinality(Subscribed)
  BY <1>5, <1>6, FS_Bijection DEF ExistsBijection
<1> QED BY <1>2, <1>3, <1>7 DEF NoSlotLeaks, SlotInv

-----------------------------------------------------------------------------
(* Wake-ups.                                                                 *)

\* A step that wakes nobody, copies nothing and answers no PUT.
LEMMA WakesUntouched ==
  ASSUME WakeInv, UNCHANGED <<acked, chan, since, token, pending>>,
         \A d \in Devices : pc'[d] = "waiting" => pc[d] = "waiting",
         \A w \in Writers : pc'[w] = "waking" => pc[w] = "waking" /\ wrote'[w] = wrote[w]
  PROVE  WakeInv'
BY DEF WakeInv

\* A step of d's own, which ends its wait: nobody else has its channel.
LEMMA WaitEnds ==
  ASSUME TypeOK, SlotInv, WakeInv, NEW d \in Devices, pc'[d] # "waiting",
         UNCHANGED <<acked, wrote, pending>>,
         \A x \in Publishers : x # d => pc'[x] = pc[x],
         \A e \in Devices : e # d => chan'[e] = chan[e] /\ since'[e] = since[e],
         token \ {chan[d]} \subseteq token'
  PROVE  WakeInv'
<1>1. \A e \in Devices : pc'[e] = "waiting" => e # d /\ pc[e] = "waiting"
  BY Bounds
<1>2. \A e \in Devices : e # d /\ pc[e] = "waiting" => chan[e] # chan[d]
  BY DEF SlotInv, Subscribed
<1>3. \A w \in Writers : pc'[w] = pc[w]
  BY Bounds
<1> QED BY <1>1, <1>2, <1>3 DEF WakeInv

\* No step loses a token a waiting handler is owed.
LEMMA StepWakes == TypeOK /\ SlotInv /\ WakeInv /\ [Next]_vars => WakeInv'
<1> SUFFICES ASSUME TypeOK, SlotInv, WakeInv, [Next]_vars PROVE WakeInv'
  OBVIOUS
<1>0. /\ pc \in [Publishers -> Labels] /\ settings \in Nat
      /\ acked \in 1..settings /\ wrote \in [Writers -> 0..settings]
      /\ chan \in [Devices -> Chans \cup {0}] /\ since \in [Devices -> 0..settings]
      /\ pending \in [Publishers -> SUBSET Chans]
  BY Bounds DEF TypeOK
<1> USE <1>0, Bounds DEF Goto, database, replies, broker, Reply
<1>1. CASE UNCHANGED vars
  BY <1>1, WakesUntouched DEF vars
<1>2. ASSUME NEW d \in Devices, Poll(d) PROVE WakeInv'
  <2>1. CASE HeartbeatWrites(d) \/ BuildFails(d) \/ RefreshFails(d)
             \/ ReadSettings(d) \/ ReadPeers(d) \/ ReadFails(d)
    BY <2>1, WakesUntouched
       DEF HeartbeatWrites, BuildFails, RefreshFails, ReadSettings, ReadPeers, ReadFails
  <2>2. CASE ReplyAtOnce(d)
    BY <2>2, WakesUntouched DEF ReplyAtOnce
  <2>3. CASE Hold(d)
    <3> DEFINE c == Min(Garbage)
    <3>1. /\ c \notin subs /\ UNCHANGED <<acked, wrote, pending>>
          /\ pc' = [pc EXCEPT ![d] = "waiting"] /\ chan' = [chan EXCEPT ![d] = c]
          /\ since' = [since EXCEPT ![d] = settings] /\ token' = token \ {c}
      BY <2>3, FreshChannel DEF Hold, Subscribe
    <3> HIDE DEF c
    <3>2. ASSUME NEW e \in Devices, e # d, pc[e] = "waiting"
          PROVE  chan[e] # c /\ chan'[e] = chan[e] /\ since'[e] = since[e]
      BY <3>1, <3>2 DEF SlotInv, Subscribed
    <3>3. \A w \in Writers : pc'[w] = pc[w] /\ wrote[w] =< settings
      BY <3>1
    <3>4. since'[d] = settings /\ acked =< settings
      BY <3>1
    <3>5. ASSUME NEW e \in Devices, pc'[e] = "waiting"
          PROVE /\ acked' > since'[e] => chan'[e] \in token'
                /\ \A w \in Writers : pc'[w] = "waking" /\ wrote'[w] > since'[e] =>
                     chan'[e] \in token' \cup pending'[w]
      <4>1. CASE e = d
        BY <3>1, <3>3, <3>4, <4>1
      <4>2. CASE e # d
        BY <3>1, <3>2, <3>3, <3>5, <4>2 DEF WakeInv
      <4> QED BY <4>1, <4>2
    <3> QED BY <3>5 DEF WakeInv
  <2>4. CASE ReplyRefreshed(d) \/ WaitElapsed(d) \/ ClientGone(d)
    BY <2>4, WaitEnds DEF ReplyRefreshed, WaitElapsed, ClientGone, Unsubscribe
  <2>5. CASE Wake(d)
    BY <2>5, WaitEnds DEF Wake
  <2> QED BY <1>2, <2>1, <2>2, <2>3, <2>4, <2>5 DEF Poll, Build, Disturbed
<1>3. ASSUME NEW w \in Writers, Patch(w) PROVE WakeInv'
  <2>1. CASE WriteField(w) \/ PatchFails(w) \/ PatchApplied(w)
    BY <2>1, WakesUntouched DEF WriteField, PatchFails, PatchApplied
  <2>2. CASE PatchAnswered(w)
    <3>1. /\ pc[w] = "waking" /\ pending[w] = {} /\ acked' \in {acked, wrote[w]}
          /\ pc' = [pc EXCEPT ![w] = "idle"] /\ wrote' = [wrote EXCEPT ![w] = 0]
          /\ UNCHANGED <<chan, since, token, pending>>
      BY <2>2, MaxOfTwo DEF PatchAnswered, Published
    <3>2. \A d \in Devices : pc'[d] = pc[d]
      BY <3>1
    <3> QED BY <3>1, <3>2 DEF WakeInv
  <2> QED BY <1>3, <2>1, <2>2 DEF Patch
<1>4. CASE MarkOffline \/ CleanupDone \/ PeersChange
  BY <1>4, WakesUntouched DEF MarkOffline, CleanupDone, PeersChange
<1>5. ASSUME NEW p \in Publishers, CopySubscribers(p) PROVE WakeInv'
  <2>1. /\ pc' = [pc EXCEPT ![p] = "waking"] /\ pending' = [pending EXCEPT ![p] = subs]
        /\ UNCHANGED <<acked, wrote, chan, since, token>>
    BY <1>5 DEF CopySubscribers
  <2>2. ASSUME NEW d \in Devices, pc'[d] = "waiting"
        PROVE  pc[d] = "waiting" /\ chan[d] \in subs
    BY <2>1, <2>2 DEF SlotInv, Subscribed
  <2> QED BY <2>1, <2>2 DEF WakeInv
<1>6. ASSUME NEW p \in Publishers, NEW ch \in Chans, WakeOne(p, ch) PROVE WakeInv'
  BY <1>6 DEF WakeOne, WakeInv
<1> QED BY <1>1, <1>2, <1>3, <1>4, <1>5, <1>6 DEF Next

-----------------------------------------------------------------------------
(* What a wake-up is answered with.                                          *)

\* A step that builds no response.
LEMMA RefreshUntouched ==
  ASSUME RefreshInv, UNCHANGED <<resp, since>>,
         \A d \in Devices : pc'[d] \in {"refreshPeers", "refreshed"} => pc'[d] = pc[d]
  PROVE  RefreshInv'
BY DEF RefreshInv

\* Settings are read after the token is taken, and they only grow.
LEMMA StepRefresh == TypeOK /\ RefreshInv /\ [Next]_vars => RefreshInv'
<1> SUFFICES ASSUME TypeOK, RefreshInv, [Next]_vars PROVE RefreshInv'
  OBVIOUS
<1>0. /\ pc \in [Publishers -> Labels] /\ settings \in Nat
      /\ resp \in [Devices -> Response] /\ since \in [Devices -> 0..settings]
  BY Bounds DEF TypeOK
<1> USE <1>0, Bounds DEF Goto, database, replies, broker, Reply, Unsubscribe
<1>1. CASE UNCHANGED vars
  BY <1>1, RefreshUntouched DEF vars
<1>2. ASSUME NEW d \in Devices, Poll(d) PROVE RefreshInv'
  <2>1. CASE HeartbeatWrites(d) \/ BuildFails(d) \/ RefreshFails(d)
    BY <2>1, RefreshUntouched DEF HeartbeatWrites, BuildFails, RefreshFails
  <2>2. CASE ReadSettings(d) \/ ReadPeers(d) \/ ReadFails(d)
    BY <2>2 DEF ReadSettings, ReadPeers, ReadFails, Response, RefreshInv
  <2>3. CASE Hold(d)
    BY <2>3 DEF Hold, Subscribe, RefreshInv
  <2>4. CASE ReplyAtOnce(d) \/ ReplyRefreshed(d) \/ WaitElapsed(d) \/ ClientGone(d)
    BY <2>4 DEF ReplyAtOnce, ReplyRefreshed, WaitElapsed, ClientGone, RefreshInv
  <2>5. CASE Wake(d)
    BY <2>5 DEF Wake, RefreshInv
  <2> QED BY <1>2, <2>1, <2>2, <2>3, <2>4, <2>5 DEF Poll, Build, Disturbed
<1>3. ASSUME NEW w \in Writers, Patch(w) PROVE RefreshInv'
  BY <1>3, RefreshUntouched DEF Patch, WriteField, PatchFails, PatchApplied, PatchAnswered
<1>4. CASE MarkOffline \/ CleanupDone \/ PeersChange
  BY <1>4, RefreshUntouched DEF MarkOffline, CleanupDone, PeersChange
<1>5. ASSUME NEW p \in Publishers, CopySubscribers(p) PROVE RefreshInv'
  BY <1>5, RefreshUntouched DEF CopySubscribers
<1>6. ASSUME NEW p \in Publishers, NEW ch \in Chans, WakeOne(p, ch) PROVE RefreshInv'
  BY <1>6, RefreshUntouched DEF WakeOne
<1> QED BY <1>1, <1>2, <1>3, <1>4, <1>5, <1>6 DEF Next

-----------------------------------------------------------------------------

\* PollInv is inductive.
LEMMA StepPoll == PollInv /\ [Next]_vars => PollInv'
BY StepTypes, StepSlots, StepWakes, StepRefresh DEF PollInv

(* Revisions never run ahead of the settings row, and each handler is at one
   of its points.                                                            *)
THEOREM PollTypes == Spec => []TypeOK
<1>1. PollInv => TypeOK
  BY DEF PollInv
<1> QED BY <1>1, InitPoll, StepPoll, PTL DEF Spec

(* Every return path of a held heartbeat gives its broker slot back, and no two
   handlers share one, however channels are freed and made again.            *)
THEOREM SlotsNeverLeak == Spec => []NoSlotLeaks
<1>1. PollInv => NoSlotLeaks
  BY SlotsMatch DEF PollInv
<1> QED BY <1>1, InitPoll, StepPoll, PTL DEF Spec

(* Publish copies the subscribers under b.mu and sends outside it: still an
   answered PUT that committed after Subscribe has left its token.           *)
THEOREM NoWakeMissed == Spec => []NoMissedWake
<1>1. PollInv => NoMissedWake
  BY DEF PollInv, WakeInv, NoMissedWake
<1> QED BY <1>1, InitPoll, StepPoll, PTL DEF Spec

(* The refreshed response is no older than the token it answers.             *)
THEOREM WakeIsFresh == Spec => []WakeSeesCommitted
<1>1. PollInv => WakeSeesCommitted
  BY DEF PollInv, RefreshInv, WakeSeesCommitted
<1> QED BY <1>1, InitPoll, StepPoll, PTL DEF Spec
=============================================================================
