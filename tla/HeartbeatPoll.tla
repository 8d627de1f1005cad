--------------------------- MODULE HeartbeatPoll ---------------------------
(***************************************************************************)
(* The long-polling heartbeat of one account: NodeHandler.Heartbeat and    *)
(* NodeService.BuildHeartbeatResponse on one side, and on the other those  *)
(* who publish to events.Broker (UpdateSettings, the stale-node cleaner,   *)
(* other heartbeats) or change the peer list without publishing (node      *)
(* registration, deletion, sweep).                                         *)
(*                                                                         *)
(* The database is two revisions: of the account's settings, and of the    *)
(* list of online peers.  A response carries the revisions it was built    *)
(* from, 0 where the query failed and the field is left empty.  A device   *)
(* sends its next heartbeat after the previous one ended.  A channel is a  *)
(* number, used again once neither a subscription nor a publisher refers   *)
(* to it (the garbage collector frees it).                                 *)
(***************************************************************************)
EXTENDS Naturals, FiniteSets, FiniteSetsExt

CONSTANTS
  Devices,       \* devices of the account, each a polling client
  Writers,       \* requests to PUT .../settings, each used again and again
  Cleaner,       \* the stale-node cleaner
  NumChans,      \* bound: channels alive at a time
  MaxSettings,   \* bound: revisions of the settings
  MaxPeers       \* bound: revisions of the peer list

ASSUME ChansAssumption == NumChans \in Nat \ {0}
ASSUME RevisionAssumption == MaxSettings \in Nat \ {0} /\ MaxPeers \in Nat \ {0}
ASSUME ProcessAssumption ==
  Devices \cap Writers = {} /\ Cleaner \notin Devices \cup Writers

VARIABLES
  settings,   \* revision of account_settings
  peers,      \* revision of the online peer list
  wrote,      \* wrote[w]: newest settings revision w's current PUT committed
  acked,      \* newest settings revision whose PUT was answered 200
  pc,         \* where each request handler, and the cleaner, is
  resp,       \* resp[d]: the response being built or held
  got,        \* got[d]: the last response device d received
  chan,       \* chan[d]: the channel of d's subscription, 0 when it has none
  subs,       \* b.subs[account]
  token,      \* channels whose one-slot buffer is full
  pending,    \* pending[p]: channels publisher p copied and has still to wake
  since       \* since[d]: settings revision when d subscribed, or was woken

database == <<settings, peers, wrote, acked>>
replies  == <<resp, got>>
broker   == <<chan, subs, token, since>>
vars     == <<database, pc, replies, broker, pending>>

Chans      == 1..NumChans
Publishers == Devices \cup Writers \cup {Cleaner}
Response   == [settings : 0..MaxSettings, peers : 0..MaxPeers]
Empty      == [settings |-> 0, peers |-> 0]

Init ==
  /\ settings = 1 /\ peers = 1 /\ acked = 1
  /\ wrote = [w \in Writers |-> 0]
  /\ pc = [p \in Publishers |-> "idle"]
  /\ resp = [d \in Devices |-> Empty]
  /\ got = [d \in Devices |-> Empty]
  /\ chan = [d \in Devices |-> 0]
  /\ subs = {} /\ token = {}
  /\ pending = [p \in Publishers |-> {}]
  /\ since = [d \in Devices |-> 0]

Goto(p, l) == pc' = [pc EXCEPT ![p] = l]

-----------------------------------------------------------------------------
(* events.Broker.                                                          *)

Garbage == Chans \ (subs \cup UNION {pending[p] : p \in Publishers})

\* Fault: the channel is returned without being entered in b.subs.
FaultySubscribe(d) ==
  /\ Garbage # {}
  /\ chan' = [chan EXCEPT ![d] = Min(Garbage)]
  /\ token' = token \ {Min(Garbage)}
  /\ since' = [since EXCEPT ![d] = settings]
  /\ UNCHANGED subs

\* A channel newly made is empty.
Subscribe(d) ==
  /\ Garbage # {}
  /\ chan' = [chan EXCEPT ![d] = Min(Garbage)]
  /\ subs' = subs \cup {Min(Garbage)}
  /\ token' = token \ {Min(Garbage)}
  /\ since' = [since EXCEPT ![d] = settings]

\* Fault: a return path that does not run the deferred unsubscribe.
FaultyUnsubscribe(d) ==
  /\ chan' = [chan EXCEPT ![d] = 0]
  /\ since' = [since EXCEPT ![d] = 0]
  /\ UNCHANGED subs

Unsubscribe(d) ==
  /\ chan' = [chan EXCEPT ![d] = 0]
  /\ since' = [since EXCEPT ![d] = 0]
  /\ subs' = subs \ {chan[d]}

\* Publish, first half: the subscribers' channels are copied under b.mu.
CopySubscribers(p) ==
  /\ pc[p] = "publish"
  /\ pending' = [pending EXCEPT ![p] = subs]
  /\ Goto(p, "waking")
  /\ UNCHANGED <<database, replies, broker>>

\* Second half: a non-blocking send to each, outside the lock and in any order.
WakeOne(p, ch) ==
  /\ ch \in pending[p]
  /\ token' = token \cup {ch}
  /\ pending' = [pending EXCEPT ![p] = @ \ {ch}]
  /\ UNCHANGED <<database, pc, replies, chan, subs, since>>

Published(p) == pc[p] = "waking" /\ pending[p] = {}

-----------------------------------------------------------------------------
(* NodeHandler.Heartbeat.                                                  *)

\* ProcessHeartbeat's updates: the other devices may read something new of this
\* one (it is online again, it moved).
HeartbeatWrites(d) ==
  /\ pc[d] = "idle"
  /\ \/ UNCHANGED peers
     \/ peers < MaxPeers /\ peers' = peers + 1
  /\ Goto(d, "settings")
  /\ UNCHANGED <<settings, wrote, acked, replies, broker, pending>>

\* The node's row cannot be read: 500, no publish.
BuildFails(d) ==
  /\ pc[d] = "settings"
  /\ Goto(d, "idle")
  /\ UNCHANGED <<database, replies, broker, pending>>

ReadSettings(d) ==
  /\ \/ pc[d] = "settings" /\ Goto(d, "peers")
     \/ pc[d] = "refreshSettings" /\ Goto(d, "refreshPeers")
  /\ resp' = [resp EXCEPT ![d].settings = settings]
  /\ UNCHANGED <<database, got, broker, pending>>

ReadPeers(d) ==
  /\ \/ pc[d] = "peers" /\ Goto(d, "publish")
     \/ pc[d] = "refreshPeers" /\ Goto(d, "refreshed")
  /\ resp' = [resp EXCEPT ![d].peers = peers]
  /\ UNCHANGED <<database, got, broker, pending>>

\* A query fails and its field stays empty; the response is sent all the same.
ReadFails(d) ==
  /\ \/ pc[d] = "settings" /\ Goto(d, "peers")
        /\ resp' = [resp EXCEPT ![d].settings = 0]
     \/ pc[d] = "peers" /\ Goto(d, "publish")
        /\ resp' = [resp EXCEPT ![d].peers = 0]
     \/ pc[d] = "refreshSettings" /\ Goto(d, "refreshPeers")
        /\ resp' = [resp EXCEPT ![d].settings = 0]
     \/ pc[d] = "refreshPeers" /\ Goto(d, "refreshed")
        /\ resp' = [resp EXCEPT ![d].peers = 0]
  /\ UNCHANGED <<database, got, broker, pending>>

\* The response is written and the handler returns.
Reply(d) ==
  /\ got' = [got EXCEPT ![d] = resp[d]]
  /\ resp' = [resp EXCEPT ![d] = Empty]
  /\ Goto(d, "idle")
  /\ UNCHANGED <<database, token, pending>>

ReplyAtOnce(d) ==
  /\ Published(d)
  /\ Reply(d)
  /\ UNCHANGED <<chan, subs, since>>

\* ?wait= asks to hold the response, which was built before this.
Hold(d) ==
  /\ Published(d)
  /\ Subscribe(d)
  /\ Goto(d, "waiting")
  /\ UNCHANGED <<database, replies, pending>>

\* Fault: the response built before the wait is returned on a wake-up too.
FaultyWake(d) ==
  /\ pc[d] = "waiting"
  /\ chan[d] \in token
  /\ token' = token \ {chan[d]}
  /\ since' = [since EXCEPT ![d] = settings]
  /\ Goto(d, "refreshed")
  /\ UNCHANGED <<database, replies, chan, subs, pending>>

Wake(d) ==
  /\ pc[d] = "waiting"
  /\ chan[d] \in token
  /\ token' = token \ {chan[d]}
  /\ since' = [since EXCEPT ![d] = settings]
  /\ Goto(d, "refreshSettings")
  /\ UNCHANGED <<database, replies, chan, subs, pending>>

\* BuildHeartbeatResponse failed as a whole: the first response is kept.
RefreshFails(d) ==
  /\ pc[d] = "refreshSettings"
  /\ Goto(d, "kept")
  /\ UNCHANGED <<database, replies, broker, pending>>

ReplyRefreshed(d) ==
  /\ pc[d] \in {"refreshed", "kept"}
  /\ Reply(d)
  /\ Unsubscribe(d)

\* Fault: there is no time.After branch.
FaultyWaitElapsed(d) == FALSE /\ pc[d] = "waiting"

\* time.After: the response built before the wait is returned as it is.
WaitElapsed(d) ==
  /\ pc[d] = "waiting"
  /\ Reply(d)
  /\ Unsubscribe(d)

\* r.Context().Done(): the client hung up, nothing is written.
ClientGone(d) ==
  /\ pc[d] = "waiting"
  /\ resp' = [resp EXCEPT ![d] = Empty]
  /\ Unsubscribe(d)
  /\ Goto(d, "idle")
  /\ UNCHANGED <<database, got, token, pending>>

-----------------------------------------------------------------------------
(* The writers.                                                            *)

\* UpdateSettings applies the fields of the patch one statement at a time.
WriteField(w) ==
  /\ pc[w] \in {"idle", "patched"}
  /\ settings < MaxSettings
  /\ settings' = settings + 1
  /\ wrote' = [wrote EXCEPT ![w] = settings + 1]
  /\ Goto(w, "patched")
  /\ UNCHANGED <<peers, acked, replies, broker, pending>>

\* A later statement fails: 500, the earlier fields stay, nobody is woken.
PatchFails(w) ==
  /\ pc[w] = "patched"
  /\ wrote' = [wrote EXCEPT ![w] = 0]
  /\ Goto(w, "idle")
  /\ UNCHANGED <<settings, peers, acked, replies, broker, pending>>

PatchApplied(w) ==
  /\ pc[w] = "patched"
  /\ Goto(w, "publish")
  /\ UNCHANGED <<database, replies, broker, pending>>

\* 200: what this PUT wrote is acknowledged.
PatchAnswered(w) ==
  /\ Published(w)
  /\ acked' = Max({acked, wrote[w]})
  /\ wrote' = [wrote EXCEPT ![w] = 0]
  /\ Goto(w, "idle")
  /\ UNCHANGED <<settings, peers, replies, broker, pending>>

\* cleanup marked at least one node of the account offline.
MarkOffline ==
  /\ pc[Cleaner] = "idle"
  /\ peers < MaxPeers
  /\ peers' = peers + 1
  /\ Goto(Cleaner, "publish")
  /\ UNCHANGED <<settings, wrote, acked, replies, broker, pending>>

CleanupDone ==
  /\ Published(Cleaner)
  /\ Goto(Cleaner, "idle")
  /\ UNCHANGED <<database, replies, broker, pending>>

\* A node registers, is deleted or is swept away: no Publish.
PeersChange ==
  /\ peers < MaxPeers
  /\ peers' = peers + 1
  /\ UNCHANGED <<settings, wrote, acked, pc, replies, broker, pending>>

-----------------------------------------------------------------------------

Build(d) == ReadSettings(d) \/ ReadPeers(d)
Disturbed(d) ==
  BuildFails(d) \/ ReadFails(d) \/ RefreshFails(d) \/ ClientGone(d)

Poll(d) ==
  \/ HeartbeatWrites(d) \/ Build(d) \/ Disturbed(d)
  \/ Hold(d) \/ ReplyAtOnce(d)
  \/ Wake(d) \/ ReplyRefreshed(d) \/ WaitElapsed(d)

Patch(w) == WriteField(w) \/ PatchFails(w) \/ PatchApplied(w) \/ PatchAnswered(w)

Next ==
  \/ \E d \in Devices : Poll(d)
  \/ \E w \in Writers : Patch(w)
  \/ MarkOffline \/ CleanupDone \/ PeersChange
  \/ \E p \in Publishers : CopySubscribers(p) \/ \E ch \in Chans : WakeOne(p, ch)

Spec == Init /\ [][Next]_vars

\* Goroutines that can run do, timers fire, devices poll again; and from some
\* point on the database answers and the clients stay for their answer.
Fairness ==
  /\ \A d \in Devices :
       /\ WF_vars(HeartbeatWrites(d)) /\ WF_vars(Build(d))
       /\ WF_vars(Hold(d) \/ ReplyAtOnce(d))
       /\ WF_vars(Wake(d) \/ WaitElapsed(d)) /\ WF_vars(ReplyRefreshed(d))
       /\ <>[][~Disturbed(d)]_vars
  /\ \A w \in Writers : WF_vars(PatchApplied(w)) /\ WF_vars(PatchAnswered(w))
  /\ WF_vars(CleanupDone)
  /\ \A p \in Publishers :
       /\ WF_vars(CopySubscribers(p))
       /\ \A ch \in Chans : WF_vars(WakeOne(p, ch))

FairSpec == Spec /\ Fairness

-----------------------------------------------------------------------------

Subscribed == {d \in Devices : pc[d] \in
                 {"waiting", "refreshSettings", "refreshPeers", "refreshed", "kept"}}

Labels == {"idle", "settings", "peers", "publish", "waking", "waiting", "patched",
           "refreshSettings", "refreshPeers", "refreshed", "kept"}

(* Types. *)
TypeOK ==
  /\ settings \in 1..MaxSettings /\ peers \in 1..MaxPeers
  /\ acked \in 1..settings
  /\ wrote \in [Writers -> 0..settings]
  /\ pc \in [Publishers -> Labels]
  /\ resp \in [Devices -> Response] /\ got \in [Devices -> Response]
  /\ chan \in [Devices -> Chans \cup {0}]
  /\ subs \in SUBSET Chans /\ token \in SUBSET Chans
  /\ pending \in [Publishers -> SUBSET Chans]
  /\ since \in [Devices -> 0..settings]

(* Broker.Subscribe's contract: b.subs holds exactly the channels of the
   handlers between Subscribe and their return, one each -- on the wake-up, the
   timeout and the hang-up path alike no slot is held for ever.              *)
NoSlotLeaks ==
  /\ \A d \in Devices : chan[d] # 0 <=> d \in Subscribed
  /\ subs = {chan[d] : d \in Subscribed}
  /\ Cardinality(subs) = Cardinality(Subscribed)

(* From the moment a handler has subscribed no wake-up is lost: while it waits,
   a PUT that committed after Subscribe and has been answered left its token in
   the handler's channel, although it was sent outside b.mu from a copy.     *)
NoMissedWake ==
  \A d \in Devices :
    pc[d] = "waiting" /\ acked > since[d] => chan[d] \in token

(* A wake-up is answered with what was committed when its token was taken, or
   later: the coalesced token stands for every change before it.             *)
WakeSeesCommitted ==
  \A d \in Devices :
    pc[d] = "refreshed" /\ resp[d].settings # 0 => resp[d].settings >= since[d]

(* Whatever is committed reaches every polling device, although it may wake
   nobody -- a PUT that failed after its first field, a node that registered or
   was swept away --, its wake-up may be missed, and queries fail: holds end,
   and the next heartbeat reads it.                                          *)
ChangesReachDevices ==
  \A d \in Devices :
    /\ \A r \in 1..MaxSettings : (settings >= r) ~> (got[d].settings >= r)
    /\ \A r \in 1..MaxPeers : (peers >= r) ~> (got[d].peers >= r)

(* settings.go: long-polling devices pick up new settings "within milliseconds
   instead of waiting for their next tick": no response older than an
   acknowledged change is held with no wake-up on its way.                   *)
NoStaleHold ==
  \A d \in Devices :
    pc[d] = "waiting" /\ resp[d].settings \in 1..(acked - 1) => chan[d] \in token
=============================================================================
