-------------------------- MODULE SpatialConsensus --------------------------
(***************************************************************************)
(* Spatial consensus: the swarm of nodes that confirm each other's hazards *)
(* by gossip (node.rs:134-218, std_impl.rs:307-373).                       *)
(*                                                                         *)
(* A tick prunes the gossip table and takes in what was received: a claim, *)
(* or a script, for which it reads the clock once.  The script may wait    *)
(* (DelayUntil, SyncHibernate).  When it executes SpatialConsensusAssert   *)
(* (0x87) and feels a hazard, it broadcasts a claim with that reading, and *)
(* raises the alarm if the table holds claims of k neighbours that are     *)
(* young enough by that reading.  What was broadcast may arrive at any     *)
(* time, several times, in any order or never.                             *)
(*                                                                         *)
(* The offsets of the clocks (ptp/mod.rs) keep any two of them within Skew *)
(* of each other; the time is that of the fastest.  The ESP32 firmware     *)
(* builds the library without ptp, where every clock reads 0.              *)
(***************************************************************************)
EXTENDS Integers, FiniteSets

CONSTANTS Node,
          Listener,     \* bound: the nodes that gossip reaches
          Speaker,      \* bound: the nodes of which any claim gets on the air
          Ptp,          \* is the feature "ptp" enabled?
          Wrap,         \* 2^64 in the code: the clock is a u64
          Skew,         \* how far a synchronized clock may be behind the time
          MaxWait,      \* how long a script may run: 10_000_000 us for each wait
          Ttl,          \* 5_000_000 us in the code
          TableCap,     \* 8 in the code: recent_gossip, unique_neighbors
          Score,        \* the hazard scores that nodes measure
          Threshold,    \* threshold_q15 of the script
          High,         \* high_threshold of the script
          Window,       \* its time window
          K,            \* the k_neighbors that scripts may ask for
          NoAlarm,
          NoScript,
          Boot,         \* the time at which the swarm is switched on
          MaxTime,      \* bound: the time stops there
          MaxSent       \* bound: claims that are broadcast

ASSUME ClockAssumption == /\ Ptp \in BOOLEAN
                          /\ Skew \in Nat /\ Boot \in Nat /\ MaxTime \in Nat
                          /\ Skew <= Boot /\ Boot <= MaxTime
                          /\ Wrap \in Nat /\ MaxTime < Wrap /\ MaxWait \in Nat
ASSUME SwarmAssumption == /\ IsFiniteSet(Node) /\ Listener \subseteq Node
                          /\ NoAlarm \notin [node : Node, k : K]
ASSUME ScriptAssumption == /\ Ttl \in Nat /\ TableCap \in Nat /\ Window \in Nat
                           /\ High \in Nat /\ Threshold \in Nat
                           /\ Score \subseteq Nat /\ K \subseteq Nat /\ MaxSent \in Nat

VARIABLES now,          \* the time
          gossip,       \* node -> the claims in its table
          ctx,          \* node -> the context of the script that runs, if any
          sent,         \* every claim that was ever broadcast
          alarm         \* the alarm raised by the last step, if it raised one

vars == <<now, gossip, ctx, sent, alarm>>

(* Beside what a frame and a context consist of, from is the time at which *)
(* the tick read its clock, and at the one at which the claim was made.    *)
Claim == [mac : Node, ts : Int, score : Score, from : Int, at : Int]
GossipContext == [current_time_us : Int, from : Int]

-----------------------------------------------------------------------------
(* The clock and the age of a claim.                                       *)

(* What the clock of a node may show: the sum of hardware time and offset, *)
(* cast to u64.  Between two looks at it set_offset may change the offset, *)
(* after another exchange with the leader, and the clock go back.          *)
Readings == IF Ptp THEN {(now - e) % Wrap : e \in 0..Skew} ELSE {0}

(* Variants named Mut... change the definition that follows them the way a  *)
(* plausible bug would.  No specification uses them.                       *)
MutAge(t, ts) == (t - ts) % Wrap                           \* wrapping_sub
Age(t, ts) == IF ts <= t THEN t - ts ELSE 0                \* saturating_sub

Pruned(n, t) == {c \in gossip[n] : Age(t, c.ts) <= Ttl}

-----------------------------------------------------------------------------
(* The table of one node.                                                  *)

(* A claim replaces the one of its mac, or takes a free place, if any.     *)
MutHeedMixes(table, c) ==                             \* the score stays behind
  IF \E d \in table : d.mac = c.mac
  THEN {IF d.mac = c.mac THEN [c EXCEPT !.score = d.score] ELSE d : d \in table}
  ELSE IF Cardinality(table) < TableCap THEN table \cup {c}
  ELSE table
MutHeedKeeps(table, c) ==                                  \* the first one stays
  IF \E d \in table : d.mac = c.mac \/ Cardinality(table) >= TableCap THEN table
  ELSE table \cup {c}
Heed(table, c) ==
  IF \E d \in table : d.mac = c.mac THEN {d \in table : d.mac # c.mac} \cup {c}
  ELSE IF Cardinality(table) < TableCap THEN table \cup {c}
  ELSE table

(* The neighbours that 0x87 counts, at most as many as its list holds.     *)
Confirms(n, c) == /\ Age(ctx[n].current_time_us, c.ts) <= Window
                  /\ c.mac # n
                  /\ c.score >= High
MutCount(n) == Cardinality({c \in gossip[n] : c.mac # n /\ c.score >= High})  \* no window
Count(n) == LET macs == {c.mac : c \in {d \in gossip[n] : Confirms(n, d)}}
            IN  IF Cardinality(macs) <= TableCap THEN Cardinality(macs) ELSE TableCap

-----------------------------------------------------------------------------
(* The steps.                                                              *)

Idle(n) == ctx[n] = NoScript

(* Any tick prunes; one without gossip and without a script does only that. *)
Tick(n) == /\ Idle(n)
           /\ \E t \in Readings : gossip' = [gossip EXCEPT ![n] = Pruned(n, t)]
           /\ alarm' = NoAlarm
           /\ UNCHANGED <<now, ctx, sent>>

Hear(n, c) == /\ Idle(n)
              /\ c.mac # n
              /\ \E t \in Readings :
                   gossip' = [gossip EXCEPT ![n] = Heed(Pruned(n, t), c)]
              /\ alarm' = NoAlarm
              /\ UNCHANGED <<now, ctx, sent>>

(* The tick begins a script, and hears nothing before it has ended.        *)
Dispatch(n) == /\ Idle(n)
               /\ \E t \in Readings : gossip' = [gossip EXCEPT ![n] = Pruned(n, t)]
               /\ \E t \in Readings :
                    ctx' = [ctx EXCEPT ![n] = [current_time_us |-> t, from |-> now]]
               /\ alarm' = NoAlarm
               /\ UNCHANGED <<now, sent>>

Own(n, score) == [mac |-> n, ts |-> ctx[n].current_time_us, score |-> score,
                  from |-> ctx[n].from, at |-> now]

(* 0x87 where the local hazard exceeds the threshold.  Whether the claim   *)
(* could be broadcast is not looked at.  The alarm stops the motor and     *)
(* ends the script, to which the node reacts (TinyNode).                   *)
Hazards == {score \in Score : score > Threshold}
SpatialAssert(n, k) ==
  /\ ~Idle(n)
  /\ sent' \in IF n \in Speaker /\ Cardinality(sent) < MaxSent
               THEN {sent \cup {Own(n, score)} : score \in Hazards} ELSE {sent}
  /\ IF Count(n) >= k
     THEN alarm' = [node |-> n, k |-> k] /\ ctx' = [ctx EXCEPT ![n] = NoScript]
     ELSE alarm' = NoAlarm /\ UNCHANGED ctx
  /\ UNCHANGED <<now, gossip>>

(* The script ends in any other way.                                       *)
Finish(n) == /\ ~Idle(n)
             /\ ctx' = [ctx EXCEPT ![n] = NoScript]
             /\ alarm' = NoAlarm
             /\ UNCHANGED <<now, gossip, sent>>

Restart(n) == /\ gossip' = [gossip EXCEPT ![n] = {}]
              /\ ctx' = [ctx EXCEPT ![n] = NoScript]
              /\ alarm' = NoAlarm
              /\ UNCHANGED <<now, sent>>

(* Time passes during a script only while it waits for the clock.          *)
Patience == IF Ptp THEN MaxWait ELSE 0
Advance == /\ now < MaxTime
           /\ \A n \in Node : ~Idle(n) => now < ctx[n].from + Patience
           /\ now' = now + 1
           /\ alarm' = NoAlarm
           /\ UNCHANGED <<gossip, ctx, sent>>

Init == /\ now = Boot
        /\ gossip = [n \in Node |-> {}]
        /\ ctx = [n \in Node |-> NoScript]
        /\ sent = {}
        /\ alarm = NoAlarm

Step(n) == \/ Tick(n) \/ Dispatch(n) \/ Finish(n) \/ Restart(n)
           \/ n \in Listener /\ \E c \in sent : Hear(n, c)
           \/ \E k \in K : SpatialAssert(n, k)

Next == Advance \/ \E n \in Node : Step(n)

Spec == Init /\ [][Next]_vars

-----------------------------------------------------------------------------
(* Properties.                                                             *)

(* The variables have their types, every table is within its capacity, and *)
(* what it holds was broadcast by the node it names.                       *)
TypeOK == /\ now \in Boot..MaxTime
          /\ sent \subseteq Claim
          /\ IsFiniteSet(sent)
          /\ gossip \in [Node -> SUBSET sent]
          /\ \A n \in Node : Cardinality(gossip[n]) <= TableCap
          /\ ctx \in [Node -> GossipContext \cup {NoScript}]
          /\ alarm \in [node : Node, k : K] \cup {NoAlarm}

(* What a tick leaves in the table, now, is neither too old nor too little, *)
(* whatever the clocks of sender and receiver: no claim whose script began *)
(* longer ago than the validity of 5 seconds and the skew of the clocks    *)
(* stays, not even one from the future, whose age saturates (node.rs:136), *)
(* and none whose script began less long ago, by that skew, goes.  It is   *)
(* the beginning that counts, when the sender's tick read its clock        *)
(* (node.rs:265, 325), and not the hazard, which it may have felt up to    *)
(* MaxWait later (std_impl.rs:332).                                        *)
PruningKeepsTime ==
  \A n \in Node, t \in Readings : \A c \in gossip[n] :
    /\ c \in Pruned(n, t) => now <= c.from + Ttl + Skew
    /\ now + Skew <= c.from + Ttl => c \in Pruned(n, t)

(* Seen from outside the swarm is an alarm that k others have reason for.  *)
(* The node that raises it may itself have waited since it read its clock. *)
(* Serious is a score of at least High, as the code compares it            *)
(* (std_impl.rs:348); SPEC.md:545 asks for one strictly above.             *)
Horizon == Window + Skew + MaxWait
Felt == {<<c.mac, c.at>> : c \in {d \in sent : d.score >= High}}
Promise == INSTANCE QuorumAlarm WITH felt <- Felt
ImplementsPromise == Promise!Spec

(* Of an alarm, at its moment: the k neighbours that confirm it felt the   *)
(* hazard within the time window, up to the skew (SPEC.md:545, 546).       *)
Documented == INSTANCE QuorumAlarm WITH felt <- Felt, Horizon <- Window + Skew
AlarmIsRecent == alarm # NoAlarm => Documented!Backed(alarm)
=============================================================================
