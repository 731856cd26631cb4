------------------------------ MODULE TinyNode ------------------------------
(***************************************************************************)
(* The soldier node: TinyNode in crates/tiny-io-oi/src/node.rs.            *)
(*                                                                         *)
(* TinyNode::tick is one atomic step of the firmware's loop.  Every tick   *)
(* begins with the same prologue (age the score table, prune the gossip,   *)
(* notice that the leader is gone), then takes at most one message from    *)
(* the network and runs the handler of its opcode.  Each handler is an     *)
(* action here, and each of them contains the prologue: it is written over *)
(* the values the prologue leaves (Aged, SafeNow, MotorNow, ...).          *)
(*                                                                         *)
(* The network is the environment: any message of any sender may be the    *)
(* one a tick receives, or none, so loss, duplication, delay and           *)
(* reordering are all among the behaviours.                                *)
(***************************************************************************)
EXTENDS Naturals, Sequences, FiniteSets

CONSTANTS NodeId,          \* the other nodes
          NoNode,          \* None, where a node id is expected
          CacheSize,       \* CACHE_SIZE: the slots of the score table
          HeartbeatScore,  \* 100 in the code: what a heartbeat sets a score to
          Ops,             \* the opcodes the other nodes send
          Bit,             \* the bits of a state mask (8 in the code)
          NoPayload,       \* the empty payload
          NoMsg,           \* None, where a leader command is expected
          GossipCap,       \* 8 in the code: the capacity of recent_gossip
          GossipTtl,       \* 5_000_000 us in the code
          Hazard,          \* the hazard scores a gossip may carry
          MaxTime,         \* bound: the clock stops there
          HasWal,          \* is the node built with_wal?
          WalFaults,       \* subset of {"append", "read", "torn"}: what may fail
          WalBound         \* bound: the length of the log

OpCode == {"Heartbeat", "SpatialGossip", "TaskDispatch", "TaskAchieved",
           "TaskFailed", "StateUpdate", "VmScriptDispatch",
           "StdBytecodeDispatch", "Exception"}

ASSUME NodeAssumption == NoNode \notin NodeId
ASSUME CacheAssumption == CacheSize \in Nat \ {0}
ASSUME ScoreAssumption == HeartbeatScore \in Nat \ {0, 1}
ASSUME OpsAssumption == Ops \subseteq OpCode
ASSUME GossipAssumption == /\ GossipCap \in Nat /\ GossipTtl \in Nat
                           /\ MaxTime \in Nat /\ Hazard \subseteq Nat
ASSUME WalAssumption == /\ HasWal \in BOOLEAN /\ WalBound \in Nat
                        /\ WalFaults \subseteq {"append", "read", "torn"}

VARIABLES scores,              \* slot -> (id, score); score 0 stands for None
          safe_mode,
          disqualified_leader,
          last_leader_msg,
          leader_active,
          recent_gossip,       \* mac -> (timestamp, hazard)
          motor,
          flags,               \* the application state, as the set of its 1 bits
          wal,                 \* the log, which survives a restart
          now,                 \* what get_time_us returns
          tx                   \* what the last step broadcast

vars == <<scores, safe_mode, disqualified_leader, last_leader_msg,
          leader_active, recent_gossip, motor, flags, wal, now, tx>>

Slot == 1..CacheSize
Entry == [id : NodeId \cup {NoNode}, score : 0..HeartbeatScore]
NoEntry == [id |-> NoNode, score |-> 0]
Mask == SUBSET Bit
Payload == Mask \cup {NoPayload}
Motor == {"stopped", "running"}
CommandOp == {"StateUpdate", "VmScriptDispatch", "TaskDispatch"}
LeaderMsg == [op : CommandOp, payload : Payload]
Claim == [ts : 0..MaxTime, hazard : Hazard]
ConflictEntry == [kind |-> "conflict", mask |-> {}]
DeltaEntry(mask) == [kind |-> "delta", mask |-> mask]
TornEntry == [kind |-> "torn", mask |-> {}]
LogEntry == [kind : {"conflict", "delta", "torn"}, mask : Mask]
Report == {"SpatialGossip", "Exception"} \X (0..255)

-----------------------------------------------------------------------------
(* The score table.                                                        *)

Used(s) == {i \in Slot : s[i].score > 0}

(* Iterator::max_by_key returns the last of several maxima.                *)
IsTop(s, i) == /\ i \in Used(s)
               /\ \A j \in Used(s) : \/ s[j].score < s[i].score
                                     \/ s[j].score = s[i].score /\ j <= i
Top(s) == CHOOSE i \in Slot : IsTop(s, i)
Leader(s) == IF Used(s) = {} THEN NoNode ELSE s[Top(s)].id
TopScore(s) == IF Used(s) = {} THEN 0 ELSE s[Top(s)].score

(* Variants named Mut... change the definition that follows them the way a  *)
(* plausible bug would.  No specification uses them.                       *)

(* The entries that reach zero are not cleared.                            *)
MutDecayKeepsEntries(s) ==
  [i \in Slot |-> IF s[i].score > 0 THEN [s[i] EXCEPT !.score = @ - 1] ELSE NoEntry]
(* The last unit of a score never decays.                                  *)
MutDecayStopsAtOne(s) ==
  [i \in Slot |-> IF s[i].score > 1 THEN [s[i] EXCEPT !.score = @ - 1] ELSE s[i]]
Decay(s) == [i \in Slot |->
               IF s[i].score > 1 THEN [s[i] EXCEPT !.score = @ - 1]
                                 ELSE NoEntry]

(* The slot update_score writes for node n: its own, else the first empty  *)
(* one; none when n is unknown and the table is full.                      *)
Own(s, n) == {i \in Used(s) : s[i].id = n}
Free(s) == Slot \ Used(s)
First(S) == CHOOSE i \in S : \A j \in S : i <= j
Admits(s, n) == Own(s, n) \cup Free(s) # {}
SlotFor(s, n) == IF Own(s, n) # {} THEN First(Own(s, n)) ELSE First(Free(s))
(* An empty slot is looked for before the node's own.                      *)
MutUpdateScore(s, n, score) ==
  IF Free(s) # {} THEN [s EXCEPT ![First(Free(s))] = [id |-> n, score |-> score]]
  ELSE IF Own(s, n) # {} THEN [s EXCEPT ![First(Own(s, n))].score = score]
  ELSE s
UpdateScore(s, n, score) ==
  IF Admits(s, n) THEN [s EXCEPT ![SlotFor(s, n)] = [id |-> n, score |-> score]]
                  ELSE s

-----------------------------------------------------------------------------
(* The prologue of a tick: the values after lines 131-144.                 *)

Aged == Decay(scores)
MutLeaderLost == leader_active /\ Leader(scores) = NoNode   \* before the decay
LeaderLost == leader_active /\ Leader(Aged) = NoNode
SafeNow == safe_mode \/ LeaderLost
MutMotorNow == motor                                       \* no motor.stop()
MotorNow == IF LeaderLost THEN "stopped" ELSE motor
ActiveNow == leader_active /\ ~LeaderLost

(* retain: an entry whose timestamp lies in the future has age 0, because  *)
(* the subtraction saturates.                                              *)
Fresh(claim) == now <= claim.ts + GossipTtl
Pruned == [m \in {k \in DOMAIN recent_gossip : Fresh(recent_gossip[k])} |->
             recent_gossip[m]]

(* The outcomes of appending an entry; the result of the append is dropped *)
(* by every caller.                                                        *)
AppendTo(log, e) ==
  IF ~HasWal THEN {log}
  ELSE {Append(log, e)} \cup IF "append" \in WalFaults THEN {log} ELSE {}
WalNow == IF LeaderLost THEN AppendTo(wal, ConflictEntry) ELSE {wal}
WalRoom == HasWal => Len(wal) + 2 <= WalBound

(* Most of the prologue's effect, for the handlers that add nothing to it. *)
Prologue == /\ WalRoom
            /\ scores' = Aged
            /\ safe_mode' = SafeNow
            /\ recent_gossip' = Pruned
            /\ UNCHANGED now

(* Line 360: a tick that does not return early ends by marking the leader. *)
Epilogue == leader_active' = (ActiveNow \/ Leader(scores') # NoNode)

-----------------------------------------------------------------------------
(* What the prologue and the conviction check decide about a message.      *)

MutFromLeader(n) == n = Leader(scores)                     \* before the decay
FromLeader(n) == n = Leader(Aged)
Command(op, p) == [op |-> op, payload |-> p]
Conflicts(n, op, p) == /\ FromLeader(n)
                       /\ last_leader_msg # NoMsg
                       /\ last_leader_msg.op = op
                       /\ last_leader_msg.payload # p
MutAccepts(n, op) == op \in Ops                            \* from anybody
Accepts(n, op) == op \in Ops /\ n # disqualified_leader
Obeys(n, op, p) == /\ Accepts(n, op)
                   /\ ~Conflicts(n, op, p)
                   /\ last_leader_msg' = IF FromLeader(n) THEN Command(op, p)
                                         ELSE last_leader_msg

-----------------------------------------------------------------------------
(* One action for each way a tick can go.                                  *)

NoMessage == /\ Prologue
             /\ Epilogue
             /\ motor' = MotorNow
             /\ wal' \in WalNow
             /\ tx' = {}
             /\ UNCHANGED <<disqualified_leader, last_leader_msg, flags>>

(* A message of the disqualified leader ends the tick.                     *)
IgnoreDisqualified(n) ==
  /\ Ops # {}
  /\ n = disqualified_leader
  /\ Prologue
  /\ leader_active' = ActiveNow
  /\ motor' = MotorNow
  /\ wal' \in WalNow
  /\ tx' = {}
  /\ UNCHANGED <<disqualified_leader, last_leader_msg, flags>>

(* The leader repeats the opcode of its last command with another payload. *)
DoubleSign(n, op, p) ==
  /\ Accepts(n, op) /\ op \in CommandOp
  /\ Conflicts(n, op, p)
  /\ WalRoom
  /\ scores' = Aged
  /\ recent_gossip' = Pruned
  /\ leader_active' = ActiveNow
  /\ disqualified_leader' = n
  /\ safe_mode' = TRUE
  /\ motor' = "stopped"
  /\ \E log \in WalNow : wal' \in AppendTo(log, ConflictEntry)
  /\ tx' = {}
  /\ UNCHANGED <<last_leader_msg, flags, now>>

OnHeartbeat(n) ==
  /\ Accepts(n, "Heartbeat")
  /\ WalRoom
  /\ scores' = UpdateScore(Aged, n, HeartbeatScore)
  /\ safe_mode' = (SafeNow /\ Leader(scores') \in {NoNode, disqualified_leader})
  /\ recent_gossip' = Pruned
  /\ Epilogue
  /\ motor' = MotorNow
  /\ wal' \in WalNow
  /\ tx' = {}
  /\ UNCHANGED <<disqualified_leader, last_leader_msg, flags, now>>

(* A full 16-byte payload holds a claim and the mac it is made for, which  *)
(* need not be the sender's.  The claim replaces the previous one of that  *)
(* mac, or takes a free place; with no place left it is dropped.  A        *)
(* shorter payload is ignored.                                             *)
Heeds(mac, claim) == /\ claim # NoPayload
                     /\ \/ mac \in DOMAIN Pruned
                        \/ Cardinality(DOMAIN Pruned) < GossipCap

OnGossip(n, mac, claim) ==
  /\ Accepts(n, "SpatialGossip")
  /\ WalRoom
  /\ scores' = Aged
  /\ safe_mode' = SafeNow
  /\ recent_gossip' =
       IF Heeds(mac, claim)
       THEN [m \in DOMAIN Pruned \cup {mac} |-> IF m = mac THEN claim ELSE Pruned[m]]
       ELSE Pruned
  /\ Epilogue
  /\ motor' = MotorNow
  /\ wal' \in WalNow
  /\ tx' = {}
  /\ UNCHANGED <<disqualified_leader, last_leader_msg, flags, now>>

OnTaskDispatch(n, p) ==
  /\ Obeys(n, "TaskDispatch", p)
  /\ Prologue
  /\ Epilogue
  /\ motor' = IF SafeNow THEN MotorNow ELSE "running"
  /\ wal' \in WalNow
  /\ tx' = {}
  /\ UNCHANGED <<disqualified_leader, flags>>

(* apply_delta of the mock state: the mask toggles bits.                   *)
ApplyDelta(f, mask) == (f \ mask) \cup (mask \ f)

MutRejects(p) == p = NoPayload                             \* also in safe mode
Rejects(p) == SafeNow \/ p = NoPayload

OnStateUpdate(n, p) ==
  /\ Obeys(n, "StateUpdate", p)
  /\ Prologue
  /\ Epilogue
  /\ motor' = MotorNow
  /\ IF Rejects(p)
     THEN wal' \in WalNow /\ UNCHANGED flags
     ELSE /\ \E log \in WalNow : wal' \in AppendTo(log, DeltaEntry(p))
          /\ flags' = ApplyDelta(flags, p)
  /\ tx' = {}
  /\ UNCHANGED disqualified_leader

(* The virtual machine, for what the node does with its result: a script   *)
(* that ends well leaves the motor as it likes, a trap is followed by      *)
(* motor.stop and the broadcast of an exception with the trap's code.      *)
ScriptError == {"OutOfFuel", "AssertionFailed", "UnauthorizedAccess"}
ScriptCode(e) == CASE e = "OutOfFuel" -> 1
                   [] e = "AssertionFailed" -> 2
                   [] OTHER -> 3
StdError == {"OutOfFuel", "UnauthorizedAccess", "VibrationHazard",
             "MultiBandSpectrumHazard", "AcousticFailureDetected",
             "InvalidStdOpCode"}
StdCode(e) == CASE e = "OutOfFuel" -> 1
                [] e = "VibrationHazard" -> 2
                [] e = "MultiBandSpectrumHazard" -> 3
                [] e = "AcousticFailureDetected" -> 4
                [] e = "UnauthorizedAccess" -> 5
                [] OTHER -> 153

Trapped(code, said) == /\ motor' = "stopped"
                       /\ tx' = said \cup {<<"Exception", code>>}

(* Before it ends, standard bytecode may have broadcast the node's gossip. *)
RunStd == \E said \in SUBSET {<<"SpatialGossip", 0>>} :
            \/ motor' \in Motor /\ tx' = said
            \/ \E e \in StdError : Trapped(StdCode(e), said)

OnVmScript(n, p) ==
  /\ Obeys(n, "VmScriptDispatch", p)
  /\ Prologue
  /\ Epilogue
  /\ wal' \in WalNow
  /\ \/ SafeNow /\ motor' = MotorNow /\ tx' = {}
     \/ ~SafeNow /\ motor' \in Motor /\ tx' = {}
     \/ ~SafeNow /\ \E e \in ScriptError : Trapped(ScriptCode(e), {})
     \/ ~SafeNow /\ RunStd        \* BufferOverflow: the fallback
  /\ UNCHANGED <<disqualified_leader, flags>>

OnStdBytecode(n) ==
  /\ Accepts(n, "StdBytecodeDispatch")
  /\ Prologue
  /\ Epilogue
  /\ wal' \in WalNow
  /\ \/ SafeNow /\ motor' = MotorNow /\ tx' = {}
     \/ ~SafeNow /\ RunStd
  /\ UNCHANGED <<disqualified_leader, last_leader_msg, flags>>

(* TaskAchieved, TaskFailed, Exception: no handler.                        *)
OnOther(n) ==
  /\ \E op \in {"TaskAchieved", "TaskFailed", "Exception"} : Accepts(n, op)
  /\ NoMessage

(* check_and_heal, which the application may call between two ticks.       *)
CheckAndHeal == /\ tx' = IF Leader(scores) = NoNode THEN {<<"Exception", 254>>}
                                                    ELSE {}
                /\ UNCHANGED <<scores, safe_mode, disqualified_leader,
                     last_leader_msg, leader_active, recent_gossip, motor,
                     flags, wal, now>>

(* The PTP clock goes on.                                                  *)
ClockAdvance == /\ now < MaxTime
                /\ now' = now + 1
                /\ UNCHANGED <<scores, safe_mode, disqualified_leader,
                     last_leader_msg, leader_active, recent_gossip, motor,
                     flags, wal, tx>>

(* recover_from_wal on the default state of a node that has just booted:   *)
(* the deltas of the log, in order; the conflict entries carry none.  The  *)
(* beginning of an entry that a power loss cut off is passed over if it is *)
(* the last; if not, its length covers bytes of those after it, any of     *)
(* which may be lost.  A log that cannot be read is reported as a success. *)
MutReplay(log) == {b \in Bit : \E i \in DOMAIN log : b \in log[i].mask}
ReplayOf(log, S) == {b \in Bit : Cardinality({i \in S : b \in log[i].mask}) % 2 = 1}
Replay(log) == ReplayOf(log, DOMAIN log)

BehindTorn(log) ==
  {i \in DOMAIN log : \E j \in DOMAIN log : j < i /\ log[j].kind = "torn"}

Recovered(log) ==
  IF ~HasWal THEN {{}}
  ELSE {ReplayOf(log, DOMAIN log \ lost) : lost \in SUBSET BehindTorn(log)}
         \cup IF "read" \in WalFaults THEN {{}} ELSE {}

(* TinyNode::new, with_wal and recover_from_wal.                           *)
Boot(log) == /\ scores' = [i \in Slot |-> NoEntry]
             /\ safe_mode' = FALSE
             /\ disqualified_leader' = NoNode
             /\ last_leader_msg' = NoMsg
             /\ leader_active' = FALSE
             /\ recent_gossip' = [m \in {} |-> NoEntry]
             /\ motor' = "stopped"
             /\ flags' \in Recovered(log)
             /\ wal' = log
             /\ tx' = {}
             /\ UNCHANGED now

(* Power loss between two steps.                                           *)
Restart == Boot(wal)

(* Power loss while a tick appends an entry: no tick appends two, because  *)
(* one that loses the leader neither updates the state nor convicts.       *)
MayAppend == \/ LeaderLost
             \/ \E n \in NodeId, op \in CommandOp, p \in Payload :
                  /\ Accepts(n, op)
                  /\ \/ Conflicts(n, op, p)
                     \/ op = "StateUpdate" /\ ~Rejects(p)
CutOff == /\ HasWal /\ "torn" \in WalFaults
          /\ WalRoom
          /\ MayAppend
          /\ Boot(Append(wal, TornEntry))

Init == /\ scores = [i \in Slot |-> NoEntry]
        /\ safe_mode = FALSE
        /\ disqualified_leader = NoNode
        /\ last_leader_msg = NoMsg
        /\ leader_active = FALSE
        /\ recent_gossip = [m \in {} |-> NoEntry]
        /\ motor = "stopped"
        /\ flags = {}
        /\ wal = <<>>
        /\ now = 0
        /\ tx = {}

Receive(n) == \/ IgnoreDisqualified(n)
              \/ OnHeartbeat(n)
              \/ \E m \in NodeId, c \in Claim \cup {NoPayload} : OnGossip(n, m, c)
              \/ \E p \in Payload : \/ OnTaskDispatch(n, p)
                                    \/ OnStateUpdate(n, p)
                                    \/ OnVmScript(n, p)
              \/ \E op \in CommandOp, p \in Payload : DoubleSign(n, op, p)
              \/ OnStdBytecode(n)
              \/ OnOther(n)

Tick == NoMessage \/ \E n \in NodeId : Receive(n)

Next == Tick \/ CheckAndHeal \/ ClockAdvance \/ Restart \/ CutOff

Spec == Init /\ [][Next]_vars

-----------------------------------------------------------------------------
(* Properties.                                                             *)

TypeOK == /\ scores \in [Slot -> Entry]
          /\ \A i \in Slot : scores[i].id = NoNode <=> scores[i].score = 0
          /\ safe_mode \in BOOLEAN
          /\ disqualified_leader \in NodeId \cup {NoNode}
          /\ last_leader_msg \in LeaderMsg \cup {NoMsg}
          /\ leader_active \in BOOLEAN
          /\ DOMAIN recent_gossip \subseteq NodeId
          /\ IsFiniteSet(DOMAIN recent_gossip)
          /\ \A m \in DOMAIN recent_gossip : recent_gossip[m] \in Claim
          /\ Cardinality(DOMAIN recent_gossip) <= GossipCap
          /\ motor \in Motor
          /\ flags \in Mask
          /\ wal \in Seq(LogEntry)
          /\ now \in 0..MaxTime
          /\ tx \subseteq Report

(* No node holds two slots, and two nodes are never equally fresh: the     *)
(* "last of several maxima" of max_by_key (node.rs:405) never decides who  *)
(* leads, although scores age together and are reset to the same value.    *)
OneSlotEachNoTies ==
  \A i, j \in Used(scores) : i # j => /\ scores[i].id # scores[j].id
                                     /\ scores[i].score # scores[j].score

(* Safe mode disables the actuators (ReadMe.md:91): whatever scripts and   *)
(* tasks ran before, the motor is stopped in it.                           *)
SafeModeMotorStopped == safe_mode => motor = "stopped"

(* Between two ticks the flag leader_active says exactly whether there is  *)
(* a leader, so no early return of tick leaves it stale; and a node that   *)
(* has a leader is in safe mode exactly when that leader is the one it     *)
(* disqualified.  In particular a disqualified leader never commands: not  *)
(* by outliving, in the table, the node that replaced it.                  *)
LeaderTrust == /\ leader_active <=> Leader(scores) # NoNode
               /\ leader_active => (safe_mode <=> Leader(scores) = disqualified_leader)

(* The step that loses the leader leaves the node in safe mode, except     *)
(* when the same tick takes in another leader's heartbeat.                 *)
LosingTheLeaderStops ==
  [][leader_active /\ Leader(scores') = NoNode => safe_mode' \/ Restart \/ CutOff]_vars

(* A step that ends in safe mode applied no state update and logged none,  *)
(* also the one that enters it: an update received in the tick that finds  *)
(* the leader gone, or that convicts it, is rejected.                      *)
NoUpdateIntoSafeMode ==
  [][safe_mode' => /\ flags' = flags
                   /\ \A i \in DOMAIN wal' \ DOMAIN wal : wal'[i].kind = "conflict"]_vars

(* The state a node has is the state it would recover after a power loss   *)
(* now: the log is written ahead and replayed whole (node.rs:96-127), also *)
(* after a power loss that cut off an entry, until one is appended to it.  *)
StateIsReplay == HasWal /\ BehindTorn(wal) = {} => flags = Replay(wal)

(* The score table, the conviction and the healing implement one lease.    *)
Lease == INSTANCE Failover WITH
  Lease <- HeartbeatScore,
  leader <- Leader(scores),
  ttl <- TopScore(scores),
  barred <- disqualified_leader
ImplementsLease == Lease!Spec
=============================================================================
