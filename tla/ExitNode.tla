------------------------------ MODULE ExitNode ------------------------------
(***************************************************************************)
(* The exit node: a process that brings up a WireGuard interface and NAT   *)
(* command by command, keeps the peers up to date with the answers to its  *)
(* heartbeats, takes everything down when it is told to stop, and is       *)
(* started again five seconds after it ends, however it ended.             *)
(*                                                                         *)
(*   exit-node/main.go                    the order of it all              *)
(*   exit-node/auth/login.go              the token file                   *)
(*   exit-node/registration/register.go   registration and heartbeats      *)
(*   exit-node/tunnel/*.go                ip, wg, iptables                 *)
(*                                                                         *)
(* The interface, the rules and the token file outlive the process.  A     *)
(* heartbeat that is not answered changes nothing and is left out.  So is  *)
(* Enable's sysctl: it comes before the rules, so that its failure is that *)
(* of the first rule, and nothing ever takes it back.                      *)
(***************************************************************************)
EXTENDS Integers, FiniteSets

CONSTANTS
  Addresses,        \* mesh addresses of other nodes
  PeerKeys,         \* their public keys
  MaxTroubles       \* bound: commands and calls that fail, kills, reboots

ASSUME ExitAssumption == MaxTroubles \in Nat

VARIABLES
  proc,             \* main: where it is, and the number of its next command
  tokenFile,        \* "none", or a token that is "valid" or "expired"
  session,          \* the token the process uses
  iface,            \* commands of Setup in effect, and whose traffic goes where
  rules,            \* copies of each rule Enable adds
  update,           \* an answer being applied: by main, or by the heartbeats
  vless,            \* VLESSManager.enabled
  undone,           \* commands of Disable and Teardown that failed
  troubles

exitVars == <<proc, tokenFile, session, iface, rules, update, vless, undone, troubles>>

------------------------------------------------------------------------------
NoPeer == 0
NoAddress == 0
ASSUME ExitNullAssumption == NoPeer \notin PeerKeys /\ NoAddress \notin Addresses
NoPeers == [a \in Addresses |-> NoPeer]
NoInterface == [done |-> 0, owner |-> NoPeers]
SetupCommands == 4     \* link add, address add, wg set, link up
RuleNumbers == 1..3    \* iptables -A, in Enable's order
NoUpdate == [list |-> [k \in PeerKeys |-> NoAddress], todo |-> {}, failed |-> {}, vless |-> FALSE, on |-> FALSE]

At(place, k) == proc' = [at |-> place, next |-> k]
Down == proc.at \in {"stopped", "failed"}

ExitInit ==
  /\ proc = [at |-> "stopped", next |-> 1]
  /\ tokenFile = "none" /\ session = "none"
  /\ iface = NoInterface /\ rules = [i \in RuleNumbers |-> 0]
  /\ update = NoUpdate /\ vless = FALSE
  /\ undone = 0 /\ troubles = 0

Trouble == troubles < MaxTroubles /\ troubles' = troubles + 1

\* The process is gone, and the heartbeat goroutine with it.
Ends(how) ==
  At(how, 1) /\ session' = "none" /\ update' = NoUpdate /\ vless' = FALSE

\* logger.Fatal, which exits without running what main has deferred.
Fatal == Ends("failed") /\ UNCHANGED <<tokenFile, iface, rules, undone>>

------------------------------------------------------------------------------
\* main, up to the signal.

\* systemd starts the process; LoadToken reads the file, whatever token it holds.
Start ==
  /\ Down
  /\ session' = tokenFile
  /\ IF tokenFile = "none" THEN At("login", 1) ELSE At("register", 1)
  /\ UNCHANGED <<tokenFile, iface, rules, update, vless, undone, troubles>>

\* InteractiveLogin and SaveToken, which may fail without consequence.
InteractiveLogin ==
  /\ proc.at = "login"
  /\ session' = "valid" /\ At("register", 1)
  /\ \/ tokenFile' = "valid" /\ UNCHANGED troubles
     \/ Trouble /\ UNCHANGED tokenFile
  /\ UNCHANGED <<iface, rules, update, vless, undone>>

\* The prompt is answered wrongly, or the call is not, as often as it may be.
LoginFails == proc.at = "login" /\ Fatal /\ UNCHANGED troubles

\* The other nodes that are online, as an answer lists them: where each key is.
\* Keys are unique among the nodes; two nodes may have one address.
PeerLists == [PeerKeys -> Addresses \cup {NoAddress}]

\* Fault: a peer that is on the device is not set again.
FaultyApplying(list, v) ==
  [list |-> list, failed |-> {}, vless |-> v, on |-> TRUE,
   todo |-> {k \in PeerKeys : list[k] # NoAddress /\ \A a \in Addresses : iface.owner[a] # k}]

Applying(list, v) == [list |-> list, todo |-> {k \in PeerKeys : list[k] # NoAddress},
                      failed |-> {}, vless |-> v, on |-> TRUE]

\* A new key pair and, as no device_id is sent, a new row in nodes every time.
RegisterNode ==
  /\ proc.at = "register" /\ session = "valid"
  /\ At("setup", 1)
  /\ \E list \in PeerLists : update' = Applying(list, vless)
  /\ UNCHANGED <<tokenFile, session, iface, rules, vless, undone, troubles>>

\* Refused, or not answered within ten seconds.
RegisterFails ==
  /\ proc.at = "register"
  /\ \/ session # "valid" /\ UNCHANGED troubles
     \/ Trouble
  /\ Fatal

\* Fault: an interface that exists is used.
FaultyBlocked == FALSE

\* "ip link add" fails when there is an interface of that name.
Blocked == proc.next = 1 /\ iface.done > 0

SetupCommand ==
  /\ proc.at = "setup" /\ ~Blocked
  /\ iface' = [iface EXCEPT !.done = proc.next]
  /\ IF proc.next = SetupCommands THEN At("peers", 1) ELSE At("setup", proc.next + 1)
  /\ UNCHANGED <<tokenFile, session, rules, update, vless, undone, troubles>>

SetupFails ==
  /\ proc.at = "setup"
  /\ \/ Blocked /\ UNCHANGED troubles
     \/ ~Blocked /\ Trouble
  /\ Fatal

PeersAdded ==
  /\ proc.at = "peers" /\ update.todo = {}
  /\ At("nat", 1) /\ update' = NoUpdate
  /\ UNCHANGED <<tokenFile, session, iface, rules, vless, undone, troubles>>

EnableCommand ==
  /\ proc.at = "nat"
  /\ rules' = [rules EXCEPT ![proc.next] = @ + 1]
  /\ IF proc.next = 3 THEN At("running", 1) ELSE At("nat", proc.next + 1)
  /\ UNCHANGED <<tokenFile, session, iface, update, vless, undone, troubles>>

EnableFails == proc.at = "nat" /\ Trouble /\ Fatal

------------------------------------------------------------------------------
\* Heartbeats, and the peers of an answer.

\* The answer to a heartbeat: peers, and what VLESS is to be (what it is, if the
\* answer has no settings).
Heartbeat(v) ==
  /\ proc.at = "running" /\ session = "valid" /\ ~update.on
  /\ \E list \in PeerLists : update' = Applying(list, v)
  /\ UNCHANGED <<proc, tokenFile, session, iface, rules, vless, undone, troubles>>

\* "wg set peer key allowed-ips a/32": key has no other address, and a no
\* other key, from then on.  Nothing removes a peer.
Assigned(owner, a, key) ==
  [b \in Addresses |-> IF b = a THEN key ELSE IF owner[b] = key THEN NoPeer ELSE owner[b]]

Leaving == proc.at \in {"disable", "teardown", "leaving"}
AddsPeers == update.on /\ (proc.at \in {"peers", "running"} \/ Leaving)

\* The heartbeat goroutine goes on while main takes the interface down.
AddPeer(k) ==
  /\ AddsPeers /\ k \in update.todo
  /\ \/ /\ iface.done > 0
        /\ iface' = [iface EXCEPT !.owner = Assigned(@, update.list[k], k)]
        /\ update' = [update EXCEPT !.todo = @ \ {k}]
        /\ UNCHANGED troubles
     \/ /\ \/ iface.done = 0 /\ UNCHANGED troubles
           \/ Trouble
        /\ update' = [update EXCEPT !.todo = @ \ {k}, !.failed = @ \cup {k}]
        /\ UNCHANGED iface
  /\ UNCHANGED <<proc, tokenFile, session, rules, vless, undone>>

\* VLESSManager.Start and Stop: only the flag, so far.
Toggle ==
  /\ AddsPeers /\ update.todo = {} /\ proc.at # "peers"
  /\ vless' = update.vless /\ update' = NoUpdate
  /\ UNCHANGED <<proc, tokenFile, session, iface, rules, undone, troubles>>

------------------------------------------------------------------------------
\* The signal, and what main has deferred.

\* Fault: the process exits at once, and runs nothing that was deferred.
FaultySignal ==
  /\ proc.at = "running" /\ Ends("stopped")
  /\ UNCHANGED <<tokenFile, iface, rules, undone, troubles>>

Signal ==
  /\ proc.at = "running" /\ At("disable", 1)
  /\ UNCHANGED <<tokenFile, session, iface, rules, update, vless, undone, troubles>>

Deleted(i) == [rules EXCEPT ![i] = IF @ > 0 THEN @ - 1 ELSE 0]

DisableCommand ==
  /\ proc.at = "disable"
  /\ \/ rules' = Deleted(proc.next) /\ UNCHANGED <<undone, troubles>>
     \/ Trouble /\ undone' = undone + 1 /\ UNCHANGED rules
  /\ IF proc.next = 3 THEN At("teardown", 1) ELSE At("disable", proc.next + 1)
  /\ UNCHANGED <<tokenFile, session, iface, update, vless>>

Removed == NoInterface

Teardown ==
  /\ proc.at = "teardown"
  /\ \/ iface' = Removed /\ UNCHANGED <<undone, troubles>>
     \/ Trouble /\ undone' = undone + 1 /\ UNCHANGED iface
  /\ At("leaving", 1)
  /\ UNCHANGED <<tokenFile, session, rules, update, vless>>

\* main returns.
Leave ==
  /\ proc.at = "leaving" /\ Ends("stopped")
  /\ UNCHANGED <<tokenFile, iface, rules, undone, troubles>>

------------------------------------------------------------------------------
\* The world.

\* Killed, also by a signal before main listens to signals.
Kill == ~Down /\ Trouble /\ Fatal

Reboot ==
  /\ Trouble /\ Ends("failed")
  /\ iface' = NoInterface /\ rules' = [i \in RuleNumbers |-> 0] /\ undone' = 0
  /\ UNCHANGED <<tokenFile>>

\* A day after the login; nothing of the exit node renews a token.
Expire ==
  /\ "valid" \in {tokenFile, session}
  /\ tokenFile' = (IF tokenFile = "valid" THEN "expired" ELSE tokenFile)
  /\ session' = (IF session = "valid" THEN "expired" ELSE session)
  /\ UNCHANGED <<proc, iface, rules, update, vless, undone, troubles>>

\* Somebody answers the prompt, or nobody ever does.
LogIn == InteractiveLogin \/ LoginFails

StartUp == Start \/ RegisterNode \/ RegisterFails \/ SetupCommand \/ SetupFails \/ PeersAdded
           \/ EnableCommand \/ EnableFails
ShutDown == DisableCommand \/ Teardown \/ Leave

Working == StartUp \/ ShutDown \/ \E k \in PeerKeys : AddPeer(k)

ExitNext ==
  \/ Working \/ LogIn \/ Signal
  \/ \E v \in BOOLEAN : Heartbeat(v)
  \/ Toggle
  \/ Kill \/ Reboot \/ Expire

ExitSpec == ExitInit /\ [][ExitNext]_exitVars

\* systemd restarts the process, whose commands and calls end; the prompt need not.
ExitFairness == WF_exitVars(Working)

------------------------------------------------------------------------------
(* Type invariant.                                                           *)
ExitTypeOK ==
  /\ proc \in [at : {"stopped", "failed", "login", "register", "setup", "peers", "nat",
                     "running", "disable", "teardown", "leaving"}, next : 1..SetupCommands]
  /\ tokenFile \in {"none", "valid", "expired"} /\ session \in {"none", "valid", "expired"}
  /\ iface \in [done : 0..SetupCommands, owner : [Addresses -> PeerKeys \cup {NoPeer}]]
  /\ rules \in [RuleNumbers -> 0..(MaxTroubles + 1)]
  /\ update \in [list : PeerLists, todo : SUBSET PeerKeys, failed : SUBSET PeerKeys,
                 vless : BOOLEAN, on : BOOLEAN]
  /\ vless \in BOOLEAN
  /\ troubles \in 0..MaxTroubles /\ undone \in 0..MaxTroubles

\* A node that serves has its interface fully set up and every rule in place, and
\* no more copies of a rule than clean-up commands ever failed, and one.
ServingComplete ==
  /\ proc.at = "running" =>
       iface.done = SetupCommands /\ \A i \in RuleNumbers : rules[i] >= 1
  /\ \A i \in RuleNumbers : rules[i] <= 1 + undone

\* A process that was told to stop leaves no interface and no rule.
StoppedClean ==
  proc.at = "stopped" /\ undone = 0 =>
    iface = NoInterface /\ \A i \in RuleNumbers : rules[i] = 0

(* main.go: whatever the process was killed or failed at, on the way up, while it
   took things down, or as it applied an answer, what is left on the host is
   never served on: it stops the next start before that adds anything.       *)
HostSound == ServingComplete /\ StoppedClean

\* The keys an answer lists, and those of them at the same address as k.
OnList == {k \in PeerKeys : update.list[k] # NoAddress}
Sharing(k) == {j \in OnList : update.list[j] = update.list[k]}

(* wireguard.go, UpdatePeers: once an answer has been applied, the traffic for
   the address of each of its nodes goes to that node's present key, or, if it
   lists several nodes at that address, to one of theirs, although the peers of
   nodes that are gone, or had the address or another key before, stay on the
   device.                                                                   *)
CurrentPeersRouted ==
  AddsPeers /\ iface.done > 0 /\ update.todo = {} =>
    \A k \in OnList \ update.failed : iface.owner[update.list[k]] \in Sharing(k)

(* node.sh, Restart=always: a process whose login was saved always comes up again
   by itself, unless the saved token expires, or something failed or was killed
   and left an interface behind.                                             *)
RestartsServe ==
  (Down /\ tokenFile = "valid") ~>
     \/ proc.at = "running"
     \/ tokenFile # "valid"
     \/ troubles > 0 /\ iface.done > 0
=============================================================================
