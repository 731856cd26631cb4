# Verification of tiny_io_oi

TLA+ specifications of the tiny_io_oi firmware library, their model-checking
configurations and machine-checked proofs. Paths such as `node.rs:141` are
files of `crates/tiny-io-oi/src/` unless they say otherwise.

## 1. The system

A *leader* (a host behind a gateway bridge) commands *soldier nodes*
(microcontrollers with a motor, pins and sensors) by single ESP-NOW frames that
may be lost, duplicated, delayed or reordered. A soldier runs one loop that
ticks its `TinyNode` every 10 ms; everything it knows of the world comes from
the one message that a tick may receive.

| component | state | operations | interacts with | what is hard | what makes it correct |
|---|---|---|---|---|---|
| `TinyNode` (node.rs) | score table, leader flags, last command, gossip table, motor, application state, log | `tick` and its handlers, `check_and_heal`, `recover_from_wal` | network, motor, VM, WAL, PTP clock | order inside a tick, early returns, decay against heartbeats, restarts | one consistent leader, no motor in safe mode, safe mode is left, recovery restores the state |
| `Arena`/`TinyArc` (unsafe_core.rs) | slots, 16-bit counters, handles | `alloc`, `clone`, `drop`, `get` | any thread | atomics and a plain write, a scan that is not atomic | a handle reads its own value; no leak; no refusal without cause |
| `MicroVm` (vm.rs) | fuel, motor | `run`, `run_std` | motor, pins | traps half-way, the fallback to bytecode | fuel bounds the run, no unauthorized access |
| `StdExecutor` (std_impl.rs) | none (borrows the node's) | opcodes 0x80-0x8C | ADC, motor, gossip, clock | spatial consensus, waiting for a clock | hazards stop the motor; a quorum is really k nodes |
| `#[io_oi_node]` (tiny-io-oi-macros) | bound pins | generated `run_vm_script` | motors, pins | the traps that must shut down | every trap stops every motor |
| `StaticVerifier` (verifier/) | none | `verify_vm_script`, `verify_std_bytecode` | host | agreement with the VM | what it accepts does not trap |
| spatial consensus (node.rs, std_impl.rs) | the gossip tables and clocks of the swarm | 0x87, gossip, pruning | network, PTP clock | delays, repetitions, clocks that differ, a full table | an alarm has k witnesses, and no recent one is lost |
| `GatewayBridge` (gateway.rs) | framing decoder | `tick` | UART, network | lost bytes, resynchronisation | frames arrive whole, at most once |
| `HardwareRouter` (hardware.rs) | two routing tables | `bind_*`, `apply_waveforms` | pins | full tables, double binding | a waveform drives the pin bound to its channel |
| PTP (ptp/) | offset, hardware time | `set_offset`, `get_time_us` | ISR, VM, node | widths, signs, torn reads | time is monotonic and close to the master's |
| WAL and flash (memory.rs, `cdDB::StdWal`) | byte log | append, read | node | torn and failed writes | what is logged is replayed once, in order |
| Host FFI (tiny-io-oi-host) | buffers | script builder, runner, verifier | bun | ownership over the boundary | each buffer is freed once, as it was allocated |
| firmware/esp32, bun, tools, UI | none of their own | wiring, I/O, presentation | all | - | - |

`io_oi_core` (script viewer, framing decoder, frames) and `cdDB` (WAL) are
dependencies whose source is not in the repository.

`PROJECT.json` lists every component with its status, the map from definitions
to source lines, and the hazards, each with the properties that would notice it.

## 2. Modules

| module | models | run |
|---|---|---|
| `Failover` | the abstract lease: what a node promises about its leader | (refined by `TinyNode`) |
| `TinyNode` | node.rs: every way a tick can go, healing, restart | `node_failover`, `node_memory` |
| `MCTinyNode` | symmetry and fairness for the runs of `TinyNode` | `node_failover`, `node_memory` |
| `TinyNodeHistory` | `TinyNode` with a record of who commanded what and who was convicted | `false_conviction`, `readmission` |
| `TinyNodeProofs` | theorems about `TinyNode`: the lease, the motor, the leader | |
| `TinyNodeStateProofs` | theorems about `TinyNode`: the table, the log, the updates | |
| `QuorumAlarm` | the abstract alarm: what spatial consensus promises | (refined by `SpatialConsensus`) |
| `SpatialConsensus` | the gossip of several nodes, their clocks, and 0x87 | `consensus`, `stale_quorum`, `frozen_clock` |
| `ConsensusHistory` | `SpatialConsensus` with a record of what each node heard last | `consensus` |
| `MCSpatialConsensus` | symmetry for the run of `ConsensusHistory` | `consensus` |
| `ConsensusProofs` | theorems about both | |
| `Gateway` | gateway.rs: the bridge and its parser, byte by byte | `gateway` |
| `GatewayHistory` | `Gateway` with a record of what was written, broadcast and is owed | `gateway` |
| `MCGateway` | the frames of the run of `GatewayHistory` | `gateway` |
| `GatewayProofs` | theorems about `Gateway` and `GatewayHistory` | |
| `SharedHandles` | the abstract handles: what the arena promises | (refined by `Arena`) |
| `Arena` | unsafe_core.rs: `alloc`, `clone`, `drop`, one step per atomic operation | `arena` |
| `ArenaDemand` | `Arena` with a record of how many slots were wanted at once | `arena` |
| `MCArena` | symmetry for the run of `Arena` | `arena` |
| `ArenaBorrow` | `Arena` with the reference that `get` returns | `dangling_reference` |
| `ArenaProofs` | theorems about `Arena` and `ArenaDemand` | |
| `Programs` | the instructions of both machines | (extended by the next three) |
| `ProgramRun` | the abstract run of a program: what its caller is promised | (refined by `MicroVm`) |
| `MicroVm` | vm.rs, std_impl.rs and the node's reaction to their result | `micro_vm` |
| `NodeMacro` | the `run_vm_script` that tiny-io-oi-macros generates | (composed by `VerifiedVm`) |
| `StaticVerifier` | verifier/mod.rs, as two predicates on programs | (composed by `VerifiedVm`) |
| `VerifiedVm` | the two machines and the verdict, on the same program | `micro_vm`, `verified_fuel` |
| `MCVerifiedVm` | the programs of the runs of `VerifiedVm` | `micro_vm`, `verified_fuel` |
| `MicroVmProofs` | theorems about `MicroVm`, and what the verdict says of pins and channels | |
| `SumTheorems` | sums of sequences, without induction over data | |
| `VerifiedVmProofs` | theorems about `VerifiedVm`: the current, the fuel that a script costs, the two machines side by side | |

Definitions named `Mut...` are variants of the definition below them, with the
error that the comment names. No specification uses them; they show that a
property can fail.

### TinyNode

A tick is one action: `tick` holds `&mut self`, and nothing else touches the
node while it runs. Its stages are operators on the values the stage before
left (`Aged`, `SafeNow`, `MotorNow`, `Pruned`, `ActiveNow` are what lines
131-144 compute), and each handler, each early return and the tick without a
message is an action that contains the stages before and after it. The network
is any environment: a tick may receive any message of any sender, or none.

What is abstract:

- a node id is a model value; a score is a number up to `HeartbeatScore`, with 0 for an empty slot;
- a payload is a state mask or empty. Two different payloads stand for any two
  that differ in some byte, which is what the conviction compares;
- the application state is `MockState`, whose `apply_delta` toggles bits;
- the motor is stopped or running; a script or bytecode that the node runs may
  leave it either way, or trap with one of the errors that the VM can return, and
  the node's reaction is modelled in full (`OnVmScript`, `OnStdBytecode`);
- the log is a sequence of entries. `WalFaults` says whether an append or the
  read at boot may fail, which the code ignores, and whether a power loss may cut
  off the entry that is being appended (`CutOff`). A torn entry that is the last is
  passed over; if not, its length covers bytes of the entries behind it, any of
  which may then be lost (`BehindTorn`), as `cdDB` is taken to reject what is read
  at the wrong place;
- time is a counter that advances between ticks.

The order inside a tick matters and is kept: scores are aged before the message
is looked at, the loss of the leader is noticed in between (so a heartbeat may
end safe mode in the tick that entered it), a disqualified sender returns before
its message counts for anything, a double sign returns before `leader_active`
is brought up to date.

### SpatialConsensus

`TinyNode` has one node and forged claims; here several honest nodes hear each
other. A tick without a script is one step. A tick that runs bytecode is several,
because time may pass within it: `Dispatch` prunes the table and reads the clock into the
`GossipContext` (node.rs:265, 325), which stays as it is while `DelayUntil` and
`SyncHibernate` wait for a later time (std_impl.rs:290-305, 452-482), up to ten
seconds each; `SpatialAssert` is an execution of 0x87 that feels a hazard, of which a
script may have several; `Finish` is any other end. The claim is stamped with the reading in
the context, and the neighbours are judged by it. `MaxWait` bounds how long a script
runs in all; nothing is heard meanwhile, since `tick` has not returned.

The broadcast joins the set `sent`, of which any node may hear any claim at any time,
again and again: loss, delay, repetition and reordering at once. A repeated old claim
replaces a newer one, as in the code (node.rs:203).

Clocks are within `Skew` of the time and may go back when they are synchronized;
`Readings` are the sums of time and offset with their cast to 64 bits, any of which a look
at the clock may return. How an offset is
obtained is not modelled: the library computes it (`calculate_offset_and_delay`)
but only its test calls that. `Ptp = FALSE` is the build without clocks.

What an alarm promises is seen from outside, in `QuorumAlarm`: at that moment k other
nodes have felt a serious hazard not longer ago than the window, the skew and the
longest wait, since the node that raises it may itself have waited (`Horizon`). Without
that wait the promise is not kept (`frozen_clock`). The refinement maps no table and no
frame, only who felt what when (`Felt`); the fields `at` and `from` of a claim record when
it was made and when its script began, and no guard reads them. Serious is a score of at
least `High`, which is what the code compares. The other direction,
that no recent witness is lost on the way to the count, needs a record of what was
heard (`ConsensusHistory`). It is counted from the beginnings of the two scripts: a
witness that has waited stamps its claim with the time at which it began to, and may be
too old to count, or to be kept at all, from the start.

`Listener` bounds the nodes that hear anything and `Speaker` those that get a claim on the
air: the tables do not interact, so that one that listens shows what each of them does,
and a node need not be both.

### Gateway

The bridge assembles packets with `FramingDecoder` of `io_oi_core`, which is not
in the repository. crates/tiny-io-oi-host/src/gateway.rs is a copy of the bridge
that no build compiles and that spells the parser out; it is what `Collect`, `Skip`
and `Forward` translate, one byte a step, because bytes arrive while `tick` runs.
`Broadcasts` and `Receive` are the same in both copies. The bridge that is compiled has
a decoder of 256 bytes (gateway.rs:13); the copy has no such bound, and what the decoder
does with a longer packet is up to `io_oi_core`. rkyv's check is taken to accept exactly
the archives of frames; there is no other checksum.

Faults are those of the two ends. The host stops within a packet (`HostStops`), and
the bridge restarts and misses bytes meanwhile (`Restart`); the line itself, USB,
neither loses nor changes any. Beside the line, `GatewayHistory` keeps for each of
its bytes the frame that is to be broadcast when the bridge has read it, if any
(`owed`): the frames written while the parser is at a beginning (`sound`), and after a
restart those that are still whole on a line of which only a rest without a
magic byte precedes them. What follows a false packet is not owed: the parser takes in as
many bytes as its length says, up to 65535, and has no timeout. What is broadcast was
sent, at most once and in order, if frames are `Unmistakable` (section 5).

### Arena

A handle may be sent to another thread, so the model has handles and not
threads: a member of `Handle` is first a call of `alloc` and then what it
returns. Every atomic operation is a step, and so is the plain write of the data
between the reservation of a slot and the return. All atomics are `SeqCst`, so
interleaving their steps is faithful. `TinyArc::new`, an unsafe function that
nothing calls, is left out, and `N` is at most 2^16, where the index of a handle
does not truncate.

### MicroVm, NodeMacro, StaticVerifier

A behavior of `MicroVm` is one run of one program, a step of the machine an
action; `TinyNode` takes the same run as one atomic part of a tick, which is
what the refinement to `ProgramRun` justifies. The node cannot see the machine
while it runs, so nothing is lost by looking at it alone. There are three ways
in: a script (with the fallback to bytecode when a step cannot be decoded),
bytecode, and bytecode run by the host through the FFI, where nobody stops the
motor after an error and there is no gossip.

The same bytes are a script and a sequence of instructions. `Program` holds both
readings; how far the script can be decoded is up to `io_oi_core`, so any prefix
may be. What a sensor or the clock decides is left open: an instruction has a
set of possible effects (the speed it sets, what it broadcasts, its result), and
thresholds are not represented. Its parameters are the bytes in which an instruction may
hold a channel or a duty (`a0`, `a1`, `b0`, `b2` of `Instruction`): the executor
(`Steering`) and the verifier (`InstructionInBounds`) each decode them on their own.
`driven` collects the channels that a run has set. The level of a pin is fixed per step of the
script before the run, and any level is possible for any step: this makes it the
same for the two machines that `VerifiedVm` runs side by side. `work` is the sum
of `MockMotor::history`, which the verifier's "cumulative speed" estimates. The
model is of a build with the feature `ptp`, a default; without it `DelayUntil`
and `SyncHibernate` are invalid opcodes.

## 3. Runs

| run | bounds | shows |
|---|---|---|
| `node_failover` | 3 nodes, 2 slots, heartbeat worth 4 ticks, 1 bit, no log, 2 nodes steady | the leader, safe mode, motor and last command stay consistent; `TinyNode` implements `Failover`; safe mode is always left |
| `node_memory` | 2 nodes, 1 slot, heartbeat worth 2, 1 gossip place, clock to 2, log to 4 entries, torn entries | the log replays to the state at every moment |
| `consensus` | 3 nodes, 1 of which hears the other 2, 2 claims with scores below, at and above the high one, table of 2, window 1, validity 2, skew 1, waits up to 1, time to 5, k = 2 | every alarm has its witnesses, no recent one is lost, pruning keeps time; `SpatialConsensus` implements `QuorumAlarm` |
| `gateway` | 3 frames, 3 packets, 14 bytes on the line | what is broadcast was sent, once and in order; what is owed arrives; no packet waits |
| `micro_vm` | scripts of 3 steps out of 9, bytecode of 2 instructions out of 22, 3 channels (2 bound), 4 pins (1 bound), fuel 1 to 3, current limit 220 | fuel bounds every run, and a script that is paid for finishes; the verdict holds for pins, channels and current; the two machines agree; every trap stops what it must; `MicroVm` implements `ProgramRun` |
| `arena` | 4 handles, 3 slots, 2 values, counters of 5 values | counts, exclusive writes, reads and refusals |

Why the bounds are enough. In `node_failover` three nodes and two slots are the
least at which a heartbeat can be dropped for want of a slot, and at which a
disqualified node, its successor and a third one compete; a heartbeat of 4 ticks
leaves time for a conviction, a takeover and the expiry of both in any order.
Nothing in the code depends on 100 being 100, and the theorems of section 5 are
for every value. One bit of state is enough for updates to differ and for
toggles to cancel. In `node_memory` one place of gossip is the capacity at its
limit, with claims that are fresh, expired or from the future; the log of 4
entries holds updates, conflict entries and torn ones in any order, with restarts
between. `WalRoom`, `MaxTime` and `WalBound` are bounds of the model: no tick
starts without room for the two entries that it may log. In `arena` three slots
let a call be overtaken both behind and ahead of its scan, four handles fill the
arena and clone or wait besides, and a counter of 5 values is the narrowest that
four handles do not overflow. In `micro_vm` no instruction looks at an earlier
one except through fuel, motor and work, so that two instructions show every
interaction of bytecode, and three steps a script that outlasts its fuel, delays
twice or traps with both motors running. Each limit has a value just within it
and one just beyond: `Channels` and `Pins` themselves, and speeds that add up to
exactly 220. Channel 2 and pin 1 exist but are bound to no field. Each of the bytes in which some
instruction holds a channel is once a channel that does not exist, in the instruction that
reads it and in one that does not, and pin 3, which exists, is no channel. In `consensus`
two neighbours fill the table of the one that listens, one claim of each is what it takes
to meet k = 2, the window is shorter than the validity, and time runs for longer than both and a wait,
so that claims are counted, too old to be, and pruned, with a context that is fresh or
stale. A claim that is repeated comes from `sent`, which never forgets; one claim that
replaces a newer one of its node takes both claims. In `gateway` one frame has
in its payload the beginning of a packet, one has an opcode that does not exist and
one has no payload; a packet takes at most 10 bytes, so that a line of 14 holds a whole one
behind a piece of another, and three packets are a false one, one that it takes in
and one after it. `MaxTime`, `MaxSent`, `MaxLine`, `MaxFrames` are bounds of the
models.

`SYMMETRY` is declared for runs of safety and step properties only;
`node_failover`, which checks liveness, has none, nor have those of `VerifiedVm` and
`gateway`. In `consensus` only the nodes that do not listen are interchangeable. Deadlock is checked in every run: a node
can always tick or restart, so can a swarm and a bridge, an arena can always begin or finish a call, and a
program can always go on until it is `Over`.

### Fairness

Only `node_failover` assumes any: weak fairness of `OnHeartbeat` of the two nodes in
`Steady`. The firmware's loop ticks for ever, each tick takes one message, and
the heartbeats of a leader are periodic, so some of them arrive unless a node is
cut off for good. The action stays enabled until its node is disqualified, and
only one node is at a time, so one of the two always counts. Nothing is assumed
of the third node, which may fill the table, nor of commands.

### Where the code and its documents differ

Six runs state what the documents say and end in a counterexample.

- `false_conviction`: `last_leader_msg` belongs to no leader and no epoch
  (node.rs:163). A new leader whose first command has the opcode of the previous
  leader's last, with another payload, is disqualified at once. SPEC.md:515
  speaks of one leader within one epoch. For the same reason two
  different updates of one leader in a row are a double sign.
- `readmission`: a second conviction overwrites the first (node.rs:165), and
  the first convict can lead again out of safe mode, against SPEC.md:517.
- `dangling_reference`: `get` borrows from the arena and not from the handle
  (unsafe_core.rs:126), so safe code can hold a reference into a slot that is
  given to another value, against ReadMe.md:88.
- `verified_fuel`: a `Delay` burns one unit of fuel per tick (vm.rs:62), so that
  a verified script with more fuel than steps may run out of it, against
  verifier/mod.rs:37 and SPEC.md:533.
- `stale_quorum`: without the feature `ptp` every clock reads 0 (node.rs:31), and
  firmware/esp32/Cargo.toml:18 builds the library without it. No claim ever
  expires, and an alarm counts hazards of any age, against SPEC.md:545-546 and
  ReadMe.md:98.
- `frozen_clock`: 0x87 judges the age of claims by the clock that the tick read before the
  bytecode ran (node.rs:265, 325; std_impl.rs:347), and the table is not pruned during a wait.
  After a `DelayUntil` an alarm counts hazards older than the window, with perfect
  clocks, against SPEC.md:545.

The other differences have no run.

- The loss of the leader is not announced (node.rs:141), because nothing calls
  `check_and_heal`, against SPEC.md:480-481 and smart_geopin_roadshow/inetel_pin.md:66.
- Accepted bytecode may drive channels 8 to 31. `HardwareFadePwm` takes its channel from the
  pin (std_impl.rs:378), which verifier and executor compare with 32 only; the report says
  that "all accessed pins (< 32) and channels (< 8)" are within bounds (verifier/mod.rs:229,
  for scripts 73), and SPEC.md:534 as much. `VerifiedStaysInBounds` holds because it excepts
  the channel of a fade, and says so. The default `fade_to` (lib.rs:89) ignores
  its channel.
- A neighbour confirms with a score of at least `HighThreshold` (std_impl.rs:348), where
  SPEC.md:545 and bun/README.md:68 ask for one above it.
- A witness that has waited longer than the validity of 5 seconds stamps its claim with the
  time before the wait (std_impl.rs:332), so that the claim is pruned by its receivers'
  next tick, although the hazard is recent (SPEC.md:546 prunes assertions older than that).
- The firmware gives every soldier the same mac (firmware/esp32/src/main.rs:296). 0x87 does
  not count claims with the node's own mac (std_impl.rs:348), so that with this firmware as it is no
  neighbour ever confirms. `SpatialConsensus` is of nodes with different macs.
- `calculate_offset_and_delay` returns how far the slave is ahead of the master
  (ptp/mod.rs:64), while `get_time_us` adds the offset (ptp/mod.rs:47), so that a node
  which set the one as the other would double its error; no code does, and the documents
  do not say what should.
- The verifier accepts the opcodes 0x82 and 0x85 (verifier/mod.rs:166), which the
  executor does not implement.
- The generated `run_vm_script` does not shut down when a step cannot be decoded (macros
  lib.rs:158), against "any trap" of ReadMe.md:85; whether a script can break off
  there depends on `io_oi_core`.

## 4. Properties worth naming

- `LeaderTrust`: between ticks `leader_active` is exact, although two early
  returns skip the line that sets it; and a node that has a leader is in safe
  mode exactly when that leader is the one it disqualified. The second half is
  not obvious: the disqualified node keeps its slot, and would lead again if it
  could outlive its successor. It cannot, because it is never renewed and its
  successor's score is the higher one.
- `ImplementsLease`: all of this seen as one lease, held by one node, renewed by
  its heartbeats, ended by time; the actuators are stopped while there is no
  trusted holder.
- `StateIsReplay`: at every moment the state is what a restart would rebuild.
- `ImplementsPromise` (of `SpatialConsensus`) and `NoWitnessForgotten`: the alarm
  seen from both sides. The first bounds false alarms, the second missed ones; between
  them lie the window, the skew of two clocks, the waits of two scripts, the pruning, and the
  places of the table.
- `OwedIsForwarded`: a frame that no fault touches is broadcast with its last byte, also
  one that follows the rest of a packet whose beginning was missed. A step property:
  the reading of that byte broadcasts that frame and leaves the buffer empty.
- `OneLookIsEnough`: the parser looks once for each byte, and never leaves
  behind in its buffer what a second look would find.
- `RefusedOnlyWhenCrowded`: although `alloc` looks at one slot at a time while
  others come and go, it returns `None` only if more slots than there are were
  wanted at once. The test at lib.rs:483 relies on this with `expect`.

- `RoutingOnlyRestricts`: the hand-written machine and the generated one take the
  same script to the same end with the same fuel, unless the generated one
  refuses a field that is not there.
- `VerifiedStaysInBounds`, `VerifiedKeepsCurrent`: the verdict, reached without
  running anything, holds of every run, whatever the sensors read. The first is of the
  channels that a run sets and not only of refusals, because not every channel is
  compared when it is set; what it excepts is in section 3.
- `PaidScriptFinishes`: what the verifier's report should have asked for
  (`verified_fuel` refutes what it does ask for): fuel for every step and for every tick of
  a delay is always enough.

## 5. Proofs

`tlapm` checks all of the following for every value of the constants.

`TinyNodeProofs` proves `TypeCorrect`, `MotorStopped`, `TrustInLeader` and
`Implements` (`Spec => ImplementsLease`), from the assumptions that
`TinyNode` states of its constants: `NoNode` is not a node, there is at least
one slot, and a heartbeat is worth at least two ticks. The invariant is
`IInv == TypeOK /\ SafeModeMotorStopped /\ LeaderTrust`, which is inductive as it
stands once two things about the table are known: the best entry exists
(`TopIsTop`) and is unique as a slot (`TopUnique`), and ageing all entries
by one moves neither, until the best one expires and with it all the others
(`DecayLeader`). `PrologueCases` says what that makes of the first half of a
tick, and every handler is then one short step. The refinement maps every tick to
`Pass`, `Take` or `Convict` of the lease, a restart to `Reboot`, and the rest
to stuttering. The proofs cover logs of any length, with and without faults.

`ArenaProofs` proves `TypeCorrect`, `CountsExact`, `NoWriteRace`, `Implements`
(`Spec => ImplementsShares`) and `NoSpuriousRefusal`, assuming that there are
finitely many handles and fewer than a counter has values. The invariant adds to
the three properties that a call keeps its value until it is written
(`CallsOK`). The counters are followed through the set of each slot's owners
(`Owners`), whose cardinality a step changes by one or not at all.
`NoSpuriousRefusal` rests on the invariant `Room`: the calls that are at slot i or
beyond, together with the slots taken there, are at most the N - i slots there are.
A call moves past slot i only if the slot is taken, and leaves behind both itself
and that slot, which is what makes room for it at i + 1 (`PassRoom`).

`MicroVmProofs` proves `TypeCorrect`, `NeverOutrunsFuel`, `AcceptedIsNeverRefused`,
`Implements` (`Spec => ImplementsPromise`) and `TrapsShutDown`, for programs of
any length, any limits, fuel and binding, assuming only that limits and fuel are
naturals and the fixed speeds 0, 70, 110 and 115 are speeds. What an instruction
can do is collected once (`EffectTypes`), what the end of a run means as well
(`EndTypes`, `EndKeepsPromise`). To the invariant belongs `Dispatched`: a script
is read as bytecode only if some step of it cannot be decoded, which the verifier
would not have accepted (`RefusalMeansRejected`). That every channel set exists, but for
those of fades, follows step by step (`DrivenStaysBounded`): what the instruction that set it
holds is what the verifier compared.

`TinyNodeStateProofs` proves `NoTies`, `LogReplaysToState`, `SafeModeRejectsUpdates` and
`LeaderLossIsolates`. That no two slots are equal is inductive together with the
type: ageing keeps the order of the entries, and a heartbeat writes the full
score into a table whose entries have all aged below it. `LogReplaysToState` assumes
`LogWorks`: there is a log, and the only fault is the power loss within an append. The
state is the parity of the updates of the log, bit by bit; appending one toggles the
parity, and a torn or a conflict entry counts for nothing.

`ConsensusProofs` proves `TypeCorrect`, for clocks of either build, and with clocks
(`Ptp`) `PruningIsTimely`, `AlarmsAreBacked` (`Spec => ImplementsPromise`) and
`ConfirmationsAreKept`. The invariant says that a claim's stamp is within the skew of
the time at which its script began, which is at most `MaxWait` before the claim was made
(`Honest`), that the same holds of the context of a script that runs (`Frozen`), and that one
mac has one claim in a table. `ConfirmationsAreKept` adds that what was heard last of
a neighbour is in the table as long as it was recent when the node last pruned (`Kept`,
`Since`). It assumes `Room`: a table has a place for each neighbour, which it has
in a swarm of up to 9 nodes, and the window is at most the validity, as it always is in
the code, where a byte holds its milliseconds. With more nodes a witness may be lost.

`SumTheorems` makes up for induction over data, which the provers cannot instantiate.
Its lemma `Induction` is about a set instead of an operator: a set of naturals with 0 and
with every successor is all of them, because a family of finite sets has a minimal
member (`MinimalSet`), and so a set of naturals has a least one (`LeastNat`). From it
follow the facts about `SumFunction` of the community modules: that the fold exists and
does not depend on the order in which elements are taken (`SumExists`, `SumExchange`,
`SumAddsUp`), and `PartialSums`: the sums of the first elements of a sequence, as a function.

`VerifiedVmProofs` uses these for the properties that compare a run with a number
computed from the whole program.
`AcceptedNeverOverloads`: `work` never exceeds the partial sum of the worst speeds of the
steps begun (`WithinSpent`), which never exceeds the whole. `PaidScriptsFinish`: the
fuel given is at most the fuel left and what the steps begun cost (`PaysNoMore`), so
that there is some left for each step to come. `GeneratedCodeAgrees`: a script, its
readings and the fuel decide the fate of each step, whoever does it (`Fate`, `FuelLeft`);
the invariant `SideBySide` says that both machines follow it, each at its own pace, so that they
end alike unless the generated one refuses a step. This one assumes `BindingsExist`:
the bound pins and channels are below the limits of `MicroVm`. The macro does not
enforce it (macros lib.rs:40-60 takes what the attributes say), and without it the
hand-written machine traps where the generated one goes on. `PromisesBesideGeneratedCode`
carries the theorems about one machine over to the specification with both.

`GatewayProofs` proves `TypeCorrect` and `NoPacketWaits`, for any frames and any bytes: a
byte is added to a buffer that holds neither a complete packet nor noise, so that taking a
packet out leaves nothing, and dropping the first of four bytes leaves three. It also proves
`OwedFramesAreForwarded` (`HistorySpec => OwedIsForwarded`). `OwedInv` says of each frame
that is due where its bytes are: the buffer holds the first m of them, perhaps behind up to two
others of which none is the magic byte (`Holds`), and the rest begins the line (`Continues`);
or all are on the line, behind another frame that is due or behind bytes that cannot begin
a packet (`StartsAt`). What one byte does to the buffer is `HoldsMore`, `HoldsAll` and
`JunkStays`; what reading, writing and losing bytes does to the line is `ReadOwes`, `AppendPacket`
and `CutOwes`, of which the last needs that packets that are due follow one another
without a gap (`DueApart`). The only assumption on frames is that two of them
differ in their archives, which fit in the two bytes of a length.

`RelaysInOrder` (`HistorySpec => []InOrderAtMostOnce`) has an assumption more, because the
property is not true of all frames. One whose archive contains the packet of another, or
begins what the next packet completes, is taken apart by a restart at the wrong byte, and
the code has no checksum to tell: with 7, 0xDE, 0xAD, 0, 2, 32, 1 for the payload of `Tricky`,
TLC finds a restart after which the bridge broadcasts a task that nobody sent. `Unmistakable`
says that no packet can be pieced together from a rest of one and beginnings
of others. `MCGateway` has TLC evaluate it for the frames of the run, one of which
does carry the magic bytes in its payload, and `PlainFramesAreUnmistakable` proves it of
all frames of which no byte behind the first is 0xDE. The invariant, `OrderInv`, traces each byte
of the buffer and of the line to the packet and the place in it that it comes
from (`Traces`): what is left of a packet is contiguous, packets follow each other in the order
in which the host began them, and only the first may lack its beginning. Dropping bytes and
writing them keep that (`DropTraceable`, `AppendTraceable`); the places where the trace
goes from one packet to the next are the cuts of `Unmistakable`, so that a packet that the
parser finds is one that was written, whole (`FoundIsWritten`), and it lies behind
all those that were broadcast before (`Relays`).

Only model-checked: `SafeModeHeals`, liveness under fairness, which is out of the prover's
reach.

## 6. Plan

Done: the node and its lease, the arena, the two machines and the verifier, the swarm
and its alarms, the bridge, the power loss within an append, and the proofs of section 5.

Left, in this order:

1. The bytes of a log entry, refined to `TornEntry` and what is lost behind it.
2. Several `TinyNode`s with the queues of their radios: how long healing takes when there
   is more traffic than ticks.
3. The routing tables of `HardwareRouter` and the ownership of the FFI's buffers.

## 7. Not modelled

- `HardwareRouter`: sequential, and without a caller that uses it: the firmware binds one
  channel and applies an empty matrix, whose error it ignores (main.rs:292, 335).
- The two halves of the hardware time on a 32-bit target (unsafe_core.rs:159): only tests
  write it, so that there is no writer to interleave with. `SpatialConsensus` has the
  clock as a whole.
- The host FFI: each buffer's life is a contract with the TypeScript client.
- `io_oi_core` (script viewer, decoder, frames), `cdDB` (the log) and rkyv are dependencies;
  what is assumed of them is said in section 2.
- The signal processing of std_impl.rs (FFT, PID, envelopes, Goertzel) and `rust_fft`, which
  are numeric.
- The radio, the USB port and the LED of the firmware; the TypeScript client, the tools and
  the web page, which hold no state that outlives a call.
