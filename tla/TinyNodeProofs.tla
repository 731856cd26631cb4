--------------------------- MODULE TinyNodeProofs ---------------------------
(***************************************************************************)
(* What holds of TinyNode for every table size, heartbeat score, set of    *)
(* nodes and log, proved from one inductive invariant.                     *)
(***************************************************************************)
EXTENDS TinyNode, FiniteSetTheorems, WellFoundedInduction, TLAPS

-----------------------------------------------------------------------------
(* The score table.                                                        *)

Table == [Slot -> Entry]

(* What max_by_key prefers: the higher score, then the later slot.         *)
Beats(s, j, i) == \/ s[i].score < s[j].score
                  \/ s[i].score = s[j].score /\ i < j

(* A table that holds a score has a leader: the maximum of max_by_key      *)
(* (node.rs:403-408) exists, for any number of slots.                      *)
LEMMA TopIsTop ==
  ASSUME NEW s \in Table, Used(s) # {}
  PROVE  IsTop(s, Top(s))
PROOF
<1> DEFINE Better(i) == {j \in Used(s) : Beats(s, j, i)}
           R == StrictSubsetOrdering(Slot)
           B == {Better(i) : i \in Used(s)}
<1>0. \A i \in Slot : i \in Nat /\ s[i].score \in Nat
  BY CacheAssumption, ScoreAssumption DEF Table, Entry, Slot
<1>1. IsFiniteSet(Slot)
  BY CacheAssumption, FS_Interval DEF Slot
<1>2. B \subseteq FiniteSubsetsOf(Slot) /\ B # {}
  <2>1. \A i \in Used(s) : Better(i) \in SUBSET Slot
    BY DEF Used
  <2>2. FiniteSubsetsOf(Slot) = SUBSET Slot
    BY <1>1, FS_FiniteSubsetsOfFinite
  <2> HIDE DEF Better
  <2>3. B \subseteq SUBSET Slot /\ B # {}
    BY <2>1
  <2> HIDE DEF B
  <2> QED BY <2>2, <2>3
<1>3. IsWellFoundedOn(R, FiniteSubsetsOf(Slot))
  BY FS_StrictSubsetOrderingWellFounded
<1>4. PICK x \in B : \A y \in B : ~ (<<y, x>> \in R)
  <2> HIDE DEF B, R
  <2> QED BY <1>2, <1>3, WFMin
<1>5. PICK i \in Used(s) : x = Better(i)
  OBVIOUS
<1>6. ASSUME NEW j \in Used(s), Beats(s, j, i)
      PROVE  FALSE
  <2>1. j \in Better(i) /\ j \notin Better(j)
    BY <1>6, <1>0 DEF Beats, Used
  <2>2. Better(j) \subseteq Better(i)
    BY <1>6, <1>0 DEF Beats, Used
  <2>3. <<Better(j), Better(i)>> \in R
    BY <2>1, <2>2 DEF StrictSubsetOrdering, Used
  <2> QED BY <2>3, <1>4, <1>5
<1>7. IsTop(s, i)
  BY <1>6, <1>0 DEF IsTop, Beats, Used
<1> QED BY <1>7 DEF Top, Used

(* The leader's slot is the only one that max_by_key can return.           *)
LEMMA TopUnique ==
  ASSUME NEW s \in Table, NEW i \in Slot, IsTop(s, i)
  PROVE  /\ Top(s) = i
         /\ Leader(s) = s[i].id
         /\ TopScore(s) = s[i].score
PROOF
<1>1. Used(s) # {} /\ i \in Used(s)
  BY DEF IsTop
<1>2. IsTop(s, Top(s)) /\ Top(s) \in Used(s)
  BY <1>1, TopIsTop DEF IsTop
<1>3. \A j \in Slot : j \in Nat /\ s[j].score \in Nat
  BY CacheAssumption, ScoreAssumption DEF Slot, Table, Entry
<1>4. Top(s) = i
  BY <1>1, <1>2, <1>3 DEF IsTop, Used
<1> QED BY <1>1, <1>4 DEF Leader, TopScore

(* Ageing: the top slot keeps its place until its last unit is used, and   *)
(* the table is empty from then on.                                        *)
LEMMA DecayLeader ==
  ASSUME NEW s \in Table,
         \A i \in Slot : s[i].id = NoNode <=> s[i].score = 0
  PROVE  /\ Decay(s) \in Table
         /\ \A i \in Slot : /\ Decay(s)[i].id = NoNode <=> Decay(s)[i].score = 0
                            /\ Decay(s)[i].score < HeartbeatScore
         /\ Leader(Decay(s)) = IF TopScore(s) > 1 THEN Leader(s) ELSE NoNode
         /\ TopScore(Decay(s)) = IF TopScore(s) > 1 THEN TopScore(s) - 1 ELSE 0
PROOF
<1> DEFINE d == Decay(s)
<1>0. /\ HeartbeatScore \in Nat /\ HeartbeatScore > 1
      /\ \A i \in Slot : i \in Nat /\ s[i] \in Entry /\ s[i].score \in Nat
  BY CacheAssumption, ScoreAssumption DEF Table, Entry, Slot
<1>1. /\ \A i \in Slot : s[i].score > 1 =>
           d[i].id = s[i].id /\ d[i].score = s[i].score - 1
      /\ \A i \in Slot : ~(s[i].score > 1) =>
           d[i].id = NoNode /\ d[i].score = 0
  BY <1>0 DEF Decay, Entry, NoEntry
<1>2. \A i \in Slot : d[i] \in Entry /\ d[i].score < HeartbeatScore
  BY <1>0 DEF Decay, Entry, NoEntry
<1>3. d \in Table
  BY <1>2 DEF Decay, Table
<1> HIDE DEF d
<1>4. \A i \in Slot : d[i].id = NoNode <=> d[i].score = 0
  <2> TAKE i \in Slot
  <2>1. CASE s[i].score > 1
    <3>1. s[i].score # 0 /\ s[i].score - 1 # 0
      BY <2>1, <1>0
    <3>2. s[i].id # NoNode
      BY <3>1
    <3> QED BY <2>1, <3>1, <3>2, <1>1
  <2>2. CASE ~(s[i].score > 1)
    BY <2>2, <1>1
  <2> QED BY <2>1, <2>2
<1>5. CASE Used(s) = {}
  <2>1. Used(d) = {}
    BY <1>5, <1>1, <1>0 DEF Used
  <2> QED BY <2>1, <1>2, <1>3, <1>4, <1>5 DEF Leader, TopScore, d
<1>6. CASE Used(s) # {}
  <2> DEFINE t == Top(s)
  <2>1. IsTop(s, t) /\ t \in Slot /\ t \in Used(s)
    BY <1>6, TopIsTop DEF IsTop, Used
  <2>2. Leader(s) = s[t].id /\ TopScore(s) = s[t].score
    BY <1>6 DEF Leader, TopScore
  <2>3. CASE s[t].score > 1
    <3>1. \A i \in Slot : i \in Used(d) <=> s[i].score > 1
      BY <1>0, <1>1 DEF Used
    <3>2. IsTop(d, t)
      BY <3>1, <2>1, <2>3, <1>0, <1>1 DEF IsTop, Used
    <3>3. Leader(d) = d[t].id /\ TopScore(d) = d[t].score
      BY <3>2, <2>1, <1>3, TopUnique
    <3> QED BY <3>3, <2>1, <2>2, <2>3, <1>1, <1>2, <1>3, <1>4 DEF d
  <2>4. CASE ~(s[t].score > 1)
    <3>1. \A i \in Slot : ~(s[i].score > 1)
      BY <2>1, <2>4, <1>0 DEF IsTop, Used
    <3>2. Used(d) = {}
      BY <3>1, <1>1 DEF Used
    <3> QED BY <3>2, <2>2, <2>4, <1>2, <1>3, <1>4, <1>0 DEF Leader, TopScore, d
  <2> QED BY <2>3, <2>4
<1> QED BY <1>5, <1>6 DEF d

(* A set of slots has a first one.                                         *)
LEMMA FirstSlot ==
  ASSUME NEW S \in SUBSET Slot, S # {}
  PROVE  First(S) \in S
PROOF
<1> DEFINE Before(i) == {j \in S : j < i}
           R == StrictSubsetOrdering(Slot)
           B == {Before(i) : i \in S}
<1>0. \A i \in Slot : i \in Nat
  BY DEF Slot
<1>1. B \subseteq FiniteSubsetsOf(Slot) /\ B # {}
  <2>1. \A i \in S : Before(i) \in SUBSET Slot
    OBVIOUS
  <2>2. FiniteSubsetsOf(Slot) = SUBSET Slot
    BY CacheAssumption, FS_Interval, FS_FiniteSubsetsOfFinite DEF Slot
  <2> HIDE DEF Before
  <2>3. B \subseteq SUBSET Slot /\ B # {}
    BY <2>1
  <2> HIDE DEF B
  <2> QED BY <2>2, <2>3
<1>2. IsWellFoundedOn(R, FiniteSubsetsOf(Slot))
  BY FS_StrictSubsetOrderingWellFounded
<1>3. PICK x \in B : \A y \in B : ~ (<<y, x>> \in R)
  <2> HIDE DEF B, R
  <2> QED BY <1>1, <1>2, WFMin
<1>4. PICK i \in S : x = Before(i)
  OBVIOUS
<1>5. ASSUME NEW j \in S, j < i
      PROVE  FALSE
  <2>1. j \in Before(i) /\ j \notin Before(j) /\ Before(j) \subseteq Before(i)
    BY <1>5, <1>0
  <2>2. <<Before(j), Before(i)>> \in R
    BY <2>1 DEF StrictSubsetOrdering
  <2> QED BY <2>2, <1>3, <1>4
<1>6. \A j \in S : i <= j
  BY <1>5, <1>0
<1> QED BY <1>6 DEF First

(* A heartbeat that the aged table admits makes its sender the leader,     *)
(* with the full score: nothing in an aged table equals it.  A table that  *)
(* does not admit it is full, so it has a leader already.                  *)
LEMMA UpdateLeader ==
  ASSUME NEW s \in Table,
         \A i \in Slot : /\ s[i].id = NoNode <=> s[i].score = 0
                        /\ s[i].score < HeartbeatScore,
         NEW n \in NodeId
  PROVE  LET u == UpdateScore(s, n, HeartbeatScore)
         IN  /\ u \in Table
             /\ \A i \in Slot : u[i].id = NoNode <=> u[i].score = 0
             /\ Admits(s, n) => Leader(u) = n /\ TopScore(u) = HeartbeatScore
             /\ ~Admits(s, n) => u = s /\ Leader(s) # NoNode
PROOF
<1> DEFINE u == UpdateScore(s, n, HeartbeatScore)
           k == SlotFor(s, n)
<1>0. /\ HeartbeatScore \in Nat /\ HeartbeatScore > 1
      /\ \A i \in Slot : i \in Nat /\ s[i] \in Entry /\ s[i].score \in Nat
  BY CacheAssumption, ScoreAssumption DEF Table, Entry, Slot
<1>1. CASE Admits(s, n)
  <2>1. k \in Slot
    BY <1>1, FirstSlot DEF Admits, SlotFor, Own, Free, Used
  <2>2. u = [s EXCEPT ![k] = [id |-> n, score |-> HeartbeatScore]]
    BY <1>1 DEF UpdateScore
  <2>3. u \in Table /\ u[k] = [id |-> n, score |-> HeartbeatScore]
        /\ \A i \in Slot \ {k} : u[i] = s[i]
    BY <2>1, <2>2, <1>0 DEF Table, Entry
  <2>4. \A i \in Slot : u[i].id = NoNode <=> u[i].score = 0
    BY <2>3, <1>0, NodeAssumption
  <2>5. IsTop(u, k)
    BY <2>1, <2>3, <1>0 DEF IsTop, Used
  <2>6. Leader(u) = n /\ TopScore(u) = HeartbeatScore
    BY <2>1, <2>3, <2>5, TopUnique
  <2> QED BY <1>1, <2>3, <2>4, <2>6
<1>2. CASE ~Admits(s, n)
  <2>1. u = s
    BY <1>2 DEF UpdateScore
  <2>2. Used(s) # {}
    BY <1>2, CacheAssumption DEF Admits, Free, Slot
  <2>3. Top(s) \in Slot /\ s[Top(s)].score > 0
    BY <2>2, TopIsTop DEF IsTop, Used
  <2>4. Leader(s) # NoNode
    BY <2>2, <2>3 DEF Leader
  <2> QED BY <1>2, <2>1, <2>4
<1> QED BY <1>1, <1>2

-----------------------------------------------------------------------------
(* The invariant.                                                          *)

IInv == TypeOK /\ SafeModeMotorStopped /\ LeaderTrust

(* What the prologue of a tick leaves (lines 131-144): either the leader   *)
(* is still there and nothing but its score has changed, or there is none  *)
(* and the node is isolated if it ever had one.                            *)
LEMMA PrologueCases ==
  ASSUME TypeOK, LeaderTrust
  PROVE  /\ Aged \in Table
         /\ \A i \in Slot : /\ Aged[i].id = NoNode <=> Aged[i].score = 0
                            /\ Aged[i].score < HeartbeatScore
         /\ \/ /\ Leader(Aged) = Leader(scores)
               /\ Leader(scores) # NoNode
               /\ TopScore(scores) > 1
               /\ TopScore(Aged) = TopScore(scores) - 1
               /\ leader_active /\ ActiveNow /\ ~LeaderLost
               /\ SafeNow = safe_mode
               /\ MotorNow = motor
               /\ WalNow = {wal}
            \/ /\ Leader(Aged) = NoNode
               /\ TopScore(scores) <= 1
               /\ TopScore(Aged) = 0
               /\ ~ActiveNow
               /\ LeaderLost = leader_active
               /\ SafeNow = (safe_mode \/ leader_active)
               /\ MotorNow = IF leader_active THEN "stopped" ELSE motor
PROOF
<1>1. scores \in Table /\ \A i \in Slot : scores[i].id = NoNode <=> scores[i].score = 0
  BY DEF TypeOK, Table
<1>2. /\ Aged \in Table
      /\ \A i \in Slot : /\ Aged[i].id = NoNode <=> Aged[i].score = 0
                         /\ Aged[i].score < HeartbeatScore
      /\ Leader(Aged) = IF TopScore(scores) > 1 THEN Leader(scores) ELSE NoNode
      /\ TopScore(Aged) = IF TopScore(scores) > 1 THEN TopScore(scores) - 1 ELSE 0
  BY <1>1, DecayLeader DEF Aged
<1>3. TopScore(scores) \in Nat
      /\ (TopScore(scores) > 0 => Leader(scores) # NoNode)
  <2>1. CASE Used(scores) = {}
    BY <2>1 DEF TopScore
  <2>2. CASE Used(scores) # {}
    <3>1. Top(scores) \in Slot /\ Top(scores) \in Used(scores)
      BY <1>1, <2>2, TopIsTop DEF IsTop, Used
    <3>2. scores[Top(scores)].score \in Nat /\ scores[Top(scores)].score > 0
      BY <1>1, <3>1, ScoreAssumption DEF Table, Entry, Used
    <3>3. scores[Top(scores)].id # NoNode
      BY <1>1, <3>1, <3>2
    <3> QED BY <2>2, <3>2, <3>3 DEF Leader, TopScore
  <2> QED BY <2>1, <2>2
<1>4. leader_active \in BOOLEAN /\ safe_mode \in BOOLEAN
  BY DEF TypeOK
<1>5. leader_active <=> Leader(scores) # NoNode
  BY DEF LeaderTrust
<1>6. CASE TopScore(scores) > 1
  <2>1. Leader(Aged) = Leader(scores) /\ Leader(scores) # NoNode /\ leader_active
    BY <1>2, <1>3, <1>5, <1>6
  <2>2. ~LeaderLost
    BY <2>1 DEF LeaderLost
  <2> QED BY <1>2, <1>4, <1>6, <2>1, <2>2 DEF ActiveNow, SafeNow, MotorNow, WalNow
<1>7. CASE ~(TopScore(scores) > 1)
  <2>1. Leader(Aged) = NoNode /\ TopScore(Aged) = 0 /\ TopScore(scores) <= 1
    BY <1>2, <1>3, <1>7
  <2>2. LeaderLost = leader_active
    BY <1>4, <2>1 DEF LeaderLost
  <2> QED BY <1>2, <1>4, <2>1, <2>2 DEF ActiveNow, SafeNow, MotorNow
<1> QED BY <1>6, <1>7

(* The log stays a log whatever the appends of a tick come to.             *)
LEMMA AppendType ==
  ASSUME NEW log \in Seq(LogEntry), NEW e \in LogEntry, NEW l \in AppendTo(log, e)
  PROVE  l \in Seq(LogEntry)
PROOF
<1>1. Append(log, e) \in Seq(LogEntry)
  OBVIOUS
<1> QED BY <1>1 DEF AppendTo

LEMMA WalNowType ==
  ASSUME wal \in Seq(LogEntry), NEW l \in WalNow
  PROVE  l \in Seq(LogEntry)
PROOF
<1>1. ConflictEntry \in LogEntry
  BY DEF ConflictEntry, LogEntry, Mask
<1> QED BY <1>1, AppendType DEF WalNow

(* Pruning only forgets.                                                   *)
LEMMA PrunedType ==
  ASSUME TypeOK
  PROVE  /\ DOMAIN Pruned \subseteq NodeId
         /\ IsFiniteSet(DOMAIN Pruned)
         /\ \A m \in DOMAIN Pruned : Pruned[m] \in Claim
         /\ Cardinality(DOMAIN Pruned) <= GossipCap
PROOF
<1>1. DOMAIN Pruned \subseteq DOMAIN recent_gossip
  BY DEF Pruned
<1>2. /\ IsFiniteSet(DOMAIN Pruned)
      /\ Cardinality(DOMAIN Pruned) <= Cardinality(DOMAIN recent_gossip)
  BY <1>1, FS_Subset DEF TypeOK
<1>3. /\ Cardinality(DOMAIN Pruned) \in Nat
      /\ Cardinality(DOMAIN recent_gossip) \in Nat
  BY <1>2, FS_CardinalityType DEF TypeOK
<1>4. \A m \in DOMAIN Pruned : Pruned[m] \in Claim
  BY DEF Pruned, TypeOK
<1> QED BY <1>1, <1>2, <1>3, <1>4, GossipAssumption DEF TypeOK

(* A tick without an admitted heartbeat and without a conviction keeps the *)
(* table in order and the trust in the leader as they were.                *)
LEMMA PlainTick ==
  ASSUME IInv,
         scores' = Aged,
         safe_mode' = SafeNow,
         \/ leader_active' = ActiveNow
         \/ leader_active' = (ActiveNow \/ Leader(scores') # NoNode),
         disqualified_leader' = disqualified_leader
  PROVE  /\ scores' \in Table
         /\ \A i \in Slot : scores'[i].id = NoNode <=> scores'[i].score = 0
         /\ safe_mode' \in BOOLEAN
         /\ leader_active' \in BOOLEAN
         /\ LeaderTrust'
PROOF
<1>1. safe_mode \in BOOLEAN /\ leader_active \in BOOLEAN /\ TypeOK /\ LeaderTrust
  BY DEF IInv, TypeOK
<1>2. CASE /\ Leader(Aged) = Leader(scores)
           /\ Leader(scores) # NoNode
           /\ leader_active /\ ActiveNow
           /\ SafeNow = safe_mode
  BY <1>1, <1>2, PrologueCases DEF LeaderTrust
<1>3. CASE /\ Leader(Aged) = NoNode
           /\ ~ActiveNow
           /\ SafeNow = (safe_mode \/ leader_active)
  <2>1. leader_active' = FALSE /\ Leader(scores') = NoNode
    BY <1>1, <1>3 DEF ActiveNow
  <2>2. safe_mode' \in BOOLEAN
    BY <1>1, <1>3
  <2> QED BY <1>1, <2>1, <2>2, PrologueCases DEF LeaderTrust
<1> QED BY <1>1, <1>2, <1>3, PrologueCases

(* In safe mode the motor a tick starts from is stopped.                   *)
LEMMA MotorNowSafe ==
  ASSUME IInv
  PROVE  MotorNow \in Motor /\ (SafeNow => MotorNow = "stopped")
BY DEF IInv, TypeOK, SafeModeMotorStopped, MotorNow, SafeNow, Motor

LEMMA CodesAreBytes ==
  /\ \A e \in ScriptError : ScriptCode(e) \in 0..255
  /\ \A e \in StdError : StdCode(e) \in 0..255
BY DEF ScriptError, StdError, ScriptCode, StdCode

LEMMA RunStdType ==
  ASSUME RunStd
  PROVE  motor' \in Motor /\ tx' \subseteq Report
PROOF
<1>1. \A c \in 0..255 : <<"Exception", c>> \in Report
  BY DEF Report
<1>2. <<"SpatialGossip", 0>> \in Report
  BY DEF Report
<1> QED BY <1>1, <1>2, CodesAreBytes DEF RunStd, Trapped, Motor

LEMMA InitInv == Init => IInv
PROOF
<1> SUFFICES ASSUME Init PROVE IInv
  OBVIOUS
<1>1. scores \in [Slot -> Entry] /\ \A i \in Slot : scores[i] = NoEntry
  BY ScoreAssumption DEF Init, NoEntry, Entry
<1>2. Used(scores) = {}
  BY <1>1 DEF Used, NoEntry
<1>3. Leader(scores) = NoNode
  BY <1>2 DEF Leader
<1>4. DOMAIN recent_gossip = {}
  BY DEF Init
<1>5. IsFiniteSet({}) /\ Cardinality({}) = 0
  BY FS_EmptySet
<1>6. TypeOK
  <2>1. \A i \in Slot : scores[i].id = NoNode <=> scores[i].score = 0
    BY <1>1 DEF NoEntry
  <2>2. /\ DOMAIN recent_gossip \subseteq NodeId
        /\ IsFiniteSet(DOMAIN recent_gossip)
        /\ \A m \in DOMAIN recent_gossip : recent_gossip[m] \in Claim
        /\ Cardinality(DOMAIN recent_gossip) <= GossipCap
    BY <1>4, <1>5, GossipAssumption
  <2>3. wal \in Seq(LogEntry) /\ now \in 0..MaxTime /\ tx \subseteq Report
    BY GossipAssumption DEF Init
  <2> QED BY <1>1, <2>1, <2>2, <2>3 DEF Init, TypeOK, Motor, Mask
<1> QED BY <1>3, <1>6 DEF Init, IInv, SafeModeMotorStopped, LeaderTrust
(* The facts every plain tick has: PlainTick's conclusion.                 *)
PlainNow == /\ scores' \in Table
            /\ \A i \in Slot : scores'[i].id = NoNode <=> scores'[i].score = 0
            /\ safe_mode' \in BOOLEAN
            /\ leader_active' \in BOOLEAN
            /\ LeaderTrust'

(* The rest of TypeOK', for an action that prunes the gossip.              *)
RestOK == /\ disqualified_leader' \in NodeId \cup {NoNode}
          /\ last_leader_msg' \in LeaderMsg \cup {NoMsg}
          /\ motor' \in Motor
          /\ flags' \in Mask
          /\ wal' \in Seq(LogEntry)
          /\ now' \in 0..MaxTime
          /\ tx' \subseteq Report

LEMMA PlainType ==
  ASSUME TypeOK, PlainNow, RestOK, recent_gossip' = Pruned
  PROVE  TypeOK'
BY PrunedType DEF TypeOK, PlainNow, RestOK, Table

LEMMA ObeysType ==
  ASSUME TypeOK, NEW n \in NodeId, NEW op \in CommandOp, NEW p \in Payload,
         Obeys(n, op, p)
  PROVE  last_leader_msg' \in LeaderMsg \cup {NoMsg}
BY DEF TypeOK, Obeys, Command, LeaderMsg

(* Every action preserves the invariant.                                   *)
LEMMA NextInv == IInv /\ [Next]_vars => IInv'
PROOF
<1> SUFFICES ASSUME IInv, [Next]_vars PROVE IInv'
  OBVIOUS
<1>0. TypeOK /\ SafeModeMotorStopped /\ LeaderTrust
  BY DEF IInv
<1>1. CASE NoMessage
  <2>1. PlainNow
    BY <1>1, PlainTick DEF NoMessage, Prologue, Epilogue, PlainNow
  <2>2. RestOK
    BY <1>0, <1>1, MotorNowSafe, WalNowType DEF NoMessage, Prologue, RestOK, TypeOK
  <2>3. TypeOK'
    BY <1>0, <1>1, <2>1, <2>2, PlainType DEF NoMessage, Prologue
  <2>4. SafeModeMotorStopped'
    BY <1>1, MotorNowSafe DEF NoMessage, Prologue, SafeModeMotorStopped
  <2> QED BY <2>1, <2>3, <2>4 DEF IInv, PlainNow
<1>2. ASSUME NEW n \in NodeId, IgnoreDisqualified(n) PROVE IInv'
  <2>1. PlainNow
    BY <1>2, PlainTick DEF IgnoreDisqualified, Prologue, PlainNow
  <2>2. RestOK
    BY <1>0, <1>2, MotorNowSafe, WalNowType
    DEF IgnoreDisqualified, Prologue, RestOK, TypeOK
  <2>3. TypeOK'
    BY <1>0, <1>2, <2>1, <2>2, PlainType DEF IgnoreDisqualified, Prologue
  <2>4. SafeModeMotorStopped'
    BY <1>2, MotorNowSafe DEF IgnoreDisqualified, Prologue, SafeModeMotorStopped
  <2> QED BY <2>1, <2>3, <2>4 DEF IInv, PlainNow
<1>3. ASSUME NEW n \in NodeId, OnHeartbeat(n) PROVE IInv'
  <2> DEFINE u == UpdateScore(Aged, n, HeartbeatScore)
  <2>1. /\ Aged \in Table
        /\ \A i \in Slot : /\ Aged[i].id = NoNode <=> Aged[i].score = 0
                           /\ Aged[i].score < HeartbeatScore
    BY <1>0, PrologueCases
  <2>2. /\ u \in Table
        /\ \A i \in Slot : u[i].id = NoNode <=> u[i].score = 0
        /\ Admits(Aged, n) => Leader(u) = n
        /\ ~Admits(Aged, n) => u = Aged /\ Leader(Aged) # NoNode
    BY <2>1, UpdateLeader
  <2>3. scores' = u /\ n # disqualified_leader /\ disqualified_leader' = disqualified_leader
    BY <1>3 DEF OnHeartbeat, Accepts
  <2> HIDE DEF u
  <2>4. leader_active' \in BOOLEAN /\ safe_mode' \in BOOLEAN
    BY <1>0, <1>3 DEF OnHeartbeat, Epilogue, ActiveNow, SafeNow, TypeOK
  <2>5. LeaderTrust'
    <3>1. CASE Admits(Aged, n)
      <4>1. Leader(scores') = n /\ n # NoNode
        BY <2>2, <2>3, <3>1, NodeAssumption
      <4>2. safe_mode' = FALSE
        BY <1>3, <2>3, <4>1 DEF OnHeartbeat
      <4>3. leader_active' = TRUE
        BY <1>3, <4>1 DEF OnHeartbeat, Epilogue
      <4> QED BY <2>3, <4>1, <4>2, <4>3 DEF LeaderTrust
    <3>2. CASE ~Admits(Aged, n)
      <4>1. /\ Leader(scores') = Leader(scores)
            /\ Leader(scores) # NoNode
            /\ leader_active /\ SafeNow = safe_mode
        BY <1>0, <2>2, <2>3, <3>2, PrologueCases
      <4>2. leader_active' = TRUE
        BY <1>3, <4>1 DEF OnHeartbeat, Epilogue
      <4>3. safe_mode' = (safe_mode /\ Leader(scores) \in {NoNode, disqualified_leader})
        BY <1>3, <4>1 DEF OnHeartbeat
      <4> QED BY <1>0, <2>3, <2>4, <4>1, <4>2, <4>3 DEF LeaderTrust, TypeOK
    <3> QED BY <3>1, <3>2
  <2>6. PlainNow
    BY <2>2, <2>3, <2>4, <2>5 DEF PlainNow
  <2>7. RestOK
    BY <1>0, <1>3, MotorNowSafe, WalNowType DEF OnHeartbeat, RestOK, TypeOK
  <2>8. TypeOK'
    BY <1>0, <1>3, <2>6, <2>7, PlainType DEF OnHeartbeat
  <2>9. SafeModeMotorStopped'
    BY <1>3, MotorNowSafe DEF OnHeartbeat, SafeModeMotorStopped
  <2> QED BY <2>5, <2>8, <2>9 DEF IInv
<1>4. ASSUME NEW n \in NodeId, NEW m \in NodeId, NEW c \in Claim \cup {NoPayload},
             OnGossip(n, m, c)
      PROVE  IInv'
  <2>1. PlainNow
    BY <1>4, PlainTick DEF OnGossip, Epilogue, PlainNow
  <2>2. RestOK
    BY <1>0, <1>4, MotorNowSafe, WalNowType DEF OnGossip, RestOK, TypeOK
  <2>3. CASE ~Heeds(m, c)
    <3>1. recent_gossip' = Pruned
      BY <1>4, <2>3 DEF OnGossip
    <3>2. TypeOK'
      BY <1>0, <2>1, <2>2, <3>1, PlainType
    <3> QED BY <1>4, <2>1, <3>2, MotorNowSafe
            DEF IInv, PlainNow, OnGossip, SafeModeMotorStopped
  <2>4. CASE Heeds(m, c)
    <3>1. recent_gossip' = [k \in DOMAIN Pruned \cup {m} |-> IF k = m THEN c ELSE Pruned[k]]
      BY <1>4, <2>4 DEF OnGossip
    <3>2. c \in Claim
      BY <1>4, <2>4 DEF Heeds
    <3>3. DOMAIN recent_gossip' = DOMAIN Pruned \cup {m}
      BY <3>1
    <3>4. \A k \in DOMAIN recent_gossip' : recent_gossip'[k] \in Claim
      BY <1>0, <3>1, <3>2, PrunedType
    <3>5. /\ DOMAIN recent_gossip' \subseteq NodeId
          /\ IsFiniteSet(DOMAIN recent_gossip')
          /\ Cardinality(DOMAIN recent_gossip') =
               IF m \in DOMAIN Pruned THEN Cardinality(DOMAIN Pruned)
                                      ELSE Cardinality(DOMAIN Pruned) + 1
      BY <1>0, <1>4, <3>3, PrunedType, FS_AddElement
    <3>6. Cardinality(DOMAIN Pruned) \in Nat
      BY <1>0, PrunedType, FS_CardinalityType
    <3>7. Cardinality(DOMAIN recent_gossip') <= GossipCap
      BY <1>0, <2>4, <3>5, <3>6, PrunedType, GossipAssumption DEF Heeds
    <3>8. TypeOK'
      BY <2>1, <2>2, <3>4, <3>5, <3>7 DEF TypeOK, PlainNow, RestOK, Table
    <3> QED BY <1>4, <2>1, <3>8, MotorNowSafe
            DEF IInv, PlainNow, OnGossip, SafeModeMotorStopped
  <2> QED BY <2>3, <2>4
<1>5. ASSUME NEW n \in NodeId, NEW p \in Payload, OnTaskDispatch(n, p) PROVE IInv'
  <2>1. PlainNow
    BY <1>5, PlainTick DEF OnTaskDispatch, Prologue, Epilogue, PlainNow
  <2>2. RestOK
    <3>1. last_leader_msg' \in LeaderMsg \cup {NoMsg}
      BY <1>0, <1>5, ObeysType DEF OnTaskDispatch, CommandOp
    <3>2. motor' \in Motor
      BY <1>5, MotorNowSafe DEF OnTaskDispatch, Motor
    <3> QED BY <1>0, <1>5, <3>1, <3>2, WalNowType
            DEF OnTaskDispatch, Prologue, RestOK, TypeOK
  <2>3. TypeOK'
    BY <1>0, <1>5, <2>1, <2>2, PlainType DEF OnTaskDispatch, Prologue
  <2>4. SafeModeMotorStopped'
    BY <1>5, MotorNowSafe DEF OnTaskDispatch, Prologue, SafeModeMotorStopped
  <2> QED BY <2>1, <2>3, <2>4 DEF IInv, PlainNow
<1>6. ASSUME NEW n \in NodeId, NEW p \in Payload, OnStateUpdate(n, p) PROVE IInv'
  <2>1. PlainNow
    BY <1>6, PlainTick DEF OnStateUpdate, Prologue, Epilogue, PlainNow
  <2>2. RestOK
    <3>1. last_leader_msg' \in LeaderMsg \cup {NoMsg}
      BY <1>0, <1>6, ObeysType DEF OnStateUpdate, CommandOp
    <3>2. wal' \in Seq(LogEntry) /\ flags' \in Mask
      <4>1. CASE Rejects(p)
        BY <1>0, <1>6, <4>1, WalNowType DEF OnStateUpdate, TypeOK
      <4>2. CASE ~Rejects(p)
        <5>1. p \in Mask /\ DeltaEntry(p) \in LogEntry
          BY <1>6, <4>2 DEF Rejects, Payload, DeltaEntry, LogEntry
        <5>2. PICK log \in WalNow : wal' \in AppendTo(log, DeltaEntry(p))
          BY <1>6, <4>2 DEF OnStateUpdate
        <5>3. wal' \in Seq(LogEntry)
          BY <1>0, <5>1, <5>2, WalNowType, AppendType DEF TypeOK
        <5>4. flags' = ApplyDelta(flags, p)
          BY <1>6, <4>2 DEF OnStateUpdate
        <5> QED BY <1>0, <5>1, <5>3, <5>4 DEF ApplyDelta, Mask, TypeOK
      <4> QED BY <4>1, <4>2
    <3> QED BY <1>0, <1>6, <3>1, <3>2, MotorNowSafe
            DEF OnStateUpdate, Prologue, RestOK, TypeOK
  <2>3. TypeOK'
    BY <1>0, <1>6, <2>1, <2>2, PlainType DEF OnStateUpdate, Prologue
  <2>4. SafeModeMotorStopped'
    BY <1>6, MotorNowSafe DEF OnStateUpdate, Prologue, SafeModeMotorStopped
  <2> QED BY <2>1, <2>3, <2>4 DEF IInv, PlainNow
<1>7. ASSUME NEW n \in NodeId, NEW p \in Payload, OnVmScript(n, p) PROVE IInv'
  <2>1. PlainNow
    BY <1>7, PlainTick DEF OnVmScript, Prologue, Epilogue, PlainNow
  <2>2. motor' \in Motor /\ tx' \subseteq Report /\ (SafeNow => motor' = "stopped")
    <3>1. CASE SafeNow /\ motor' = MotorNow /\ tx' = {}
      BY <3>1, MotorNowSafe
    <3>2. CASE ~SafeNow /\ motor' \in Motor /\ tx' = {}
      BY <3>2
    <3>3. CASE ~SafeNow /\ \E e \in ScriptError : Trapped(ScriptCode(e), {})
      BY <3>3, CodesAreBytes DEF Trapped, Motor, Report
    <3>4. CASE ~SafeNow /\ RunStd
      BY <3>4, RunStdType
    <3> QED BY <1>7, <3>1, <3>2, <3>3, <3>4 DEF OnVmScript
  <2>3. RestOK
    <3>1. last_leader_msg' \in LeaderMsg \cup {NoMsg}
      BY <1>0, <1>7, ObeysType DEF OnVmScript, CommandOp
    <3> QED BY <1>0, <1>7, <2>2, <3>1, WalNowType
            DEF OnVmScript, Prologue, RestOK, TypeOK
  <2>4. TypeOK'
    BY <1>0, <1>7, <2>1, <2>3, PlainType DEF OnVmScript, Prologue
  <2>5. SafeModeMotorStopped'
    BY <1>7, <2>2 DEF OnVmScript, Prologue, SafeModeMotorStopped
  <2> QED BY <2>1, <2>4, <2>5 DEF IInv, PlainNow
<1>8. ASSUME NEW n \in NodeId, NEW op \in CommandOp, NEW p \in Payload,
             DoubleSign(n, op, p)
      PROVE  IInv'
  <2>1. scores' = Aged /\ safe_mode' = TRUE /\ disqualified_leader' = n /\ n = Leader(Aged)
    BY <1>8 DEF DoubleSign, Conflicts, FromLeader
  <2>2. n # NoNode
    BY <1>8, NodeAssumption
  <2>3. leader_active' = ActiveNow /\ ActiveNow \in BOOLEAN
    BY <1>0, <1>8 DEF DoubleSign, ActiveNow, TypeOK
  <2>4. ActiveNow
    BY <1>0, <2>1, <2>2, PrologueCases
  <2>5. PlainNow
    BY <1>0, <2>1, <2>2, <2>3, <2>4, PrologueCases DEF PlainNow, LeaderTrust
  <2>6. wal' \in Seq(LogEntry)
    <3>1. ConflictEntry \in LogEntry
      BY DEF ConflictEntry, LogEntry, Mask
    <3>2. PICK log \in WalNow : wal' \in AppendTo(log, ConflictEntry)
      BY <1>8 DEF DoubleSign
    <3> QED BY <1>0, <3>1, <3>2, WalNowType, AppendType DEF TypeOK
  <2>7. RestOK
    BY <1>0, <1>8, <2>6 DEF DoubleSign, RestOK, TypeOK, Motor
  <2>8. TypeOK'
    BY <1>0, <1>8, <2>5, <2>7, PlainType DEF DoubleSign
  <2> QED BY <1>8, <2>5, <2>8 DEF IInv, PlainNow, DoubleSign, SafeModeMotorStopped
<1>9. ASSUME NEW n \in NodeId, OnStdBytecode(n) PROVE IInv'
  <2>1. PlainNow
    BY <1>9, PlainTick DEF OnStdBytecode, Prologue, Epilogue, PlainNow
  <2>2. motor' \in Motor /\ tx' \subseteq Report /\ (SafeNow => motor' = "stopped")
    BY <1>9, MotorNowSafe, RunStdType DEF OnStdBytecode
  <2>3. RestOK
    BY <1>0, <1>9, <2>2, WalNowType DEF OnStdBytecode, Prologue, RestOK, TypeOK
  <2>4. TypeOK'
    BY <1>0, <1>9, <2>1, <2>3, PlainType DEF OnStdBytecode, Prologue
  <2>5. SafeModeMotorStopped'
    BY <1>9, <2>2 DEF OnStdBytecode, Prologue, SafeModeMotorStopped
  <2> QED BY <2>1, <2>4, <2>5 DEF IInv, PlainNow
<1>10. ASSUME NEW n \in NodeId, OnOther(n) PROVE IInv'
  BY <1>1, <1>10 DEF OnOther
<1>11. CASE CheckAndHeal
  <2>1. tx' \subseteq Report
    BY <1>11 DEF CheckAndHeal, Report
  <2> QED BY <1>0, <1>11, <2>1
          DEF CheckAndHeal, IInv, TypeOK, SafeModeMotorStopped, LeaderTrust
<1>12. CASE ClockAdvance
  <2>1. now' \in 0..MaxTime
    BY <1>0, <1>12, GossipAssumption DEF ClockAdvance, TypeOK
  <2> QED BY <1>0, <1>12, <2>1
          DEF ClockAdvance, IInv, TypeOK, SafeModeMotorStopped, LeaderTrust
<1>13. ASSUME NEW log \in Seq(LogEntry), Boot(log) PROVE IInv'
  <2>1. scores' \in [Slot -> Entry] /\ \A i \in Slot : scores'[i] = NoEntry
    BY <1>13, ScoreAssumption DEF Boot, NoEntry, Entry
  <2>2. Used(scores') = {}
    BY <2>1 DEF Used, NoEntry
  <2>3. Leader(scores') = NoNode
    BY <2>2 DEF Leader
  <2>4. DOMAIN recent_gossip' = {}
    BY <1>13 DEF Boot
  <2>5. IsFiniteSet({}) /\ Cardinality({}) = 0
    BY FS_EmptySet
  <2>6. flags' \in Mask
    BY <1>13 DEF Boot, Recovered, ReplayOf, Mask
  <2>7. TypeOK'
    <3>1. \A i \in Slot : scores'[i].id = NoNode <=> scores'[i].score = 0
      BY <2>1 DEF NoEntry
    <3>2. /\ DOMAIN recent_gossip' \subseteq NodeId
          /\ IsFiniteSet(DOMAIN recent_gossip')
          /\ \A m \in DOMAIN recent_gossip' : recent_gossip'[m] \in Claim
          /\ Cardinality(DOMAIN recent_gossip') <= GossipCap
      BY <2>4, <2>5, GossipAssumption
    <3> QED BY <1>0, <1>13, <2>1, <2>6, <3>1, <3>2 DEF Boot, TypeOK, Motor
  <2> QED BY <1>13, <2>3, <2>7 DEF Boot, IInv, SafeModeMotorStopped, LeaderTrust
<1>14. CASE Restart \/ CutOff
  <2>1. wal \in Seq(LogEntry) /\ TornEntry \in LogEntry
    BY <1>0 DEF TypeOK, TornEntry, LogEntry, Mask
  <2>2. Append(wal, TornEntry) \in Seq(LogEntry)
    BY <2>1
  <2> QED BY <1>13, <1>14, <2>1, <2>2 DEF Restart, CutOff
<1>15. CASE UNCHANGED vars
  BY <1>0, <1>15 DEF vars, IInv, TypeOK, SafeModeMotorStopped, LeaderTrust
<1> QED
  BY <1>1, <1>2, <1>3, <1>4, <1>5, <1>6, <1>7, <1>8, <1>9, <1>10, <1>11, <1>12,
     <1>14, <1>15 DEF Next, Tick, Receive

(* The types, the stopped motor and the trust in the leader hold in every  *)
(* reachable state, for every value of the constants.                      *)
THEOREM Invariance == Spec => []IInv
BY InitInv, NextInv, PTL DEF Spec

(* The state is well typed: no slot, cache or log leaves its bounds.       *)
THEOREM TypeCorrect == Spec => []TypeOK
PROOF
<1>1. IInv => TypeOK
  BY DEF IInv
<1> QED BY <1>1, Invariance, PTL

(* The actuators are stopped in safe mode (node.rs:74-76).                 *)
THEOREM MotorStopped == Spec => []SafeModeMotorStopped
PROOF
<1>1. IInv => SafeModeMotorStopped
  BY DEF IInv
<1> QED BY <1>1, Invariance, PTL

(* The node trusts exactly a leader it has not disqualified, and a         *)
(* disqualified node never leads again by outliving its successor.         *)
THEOREM TrustInLeader == Spec => []LeaderTrust
PROOF
<1>1. IInv => LeaderTrust
  BY DEF IInv
<1> QED BY <1>1, Invariance, PTL
-----------------------------------------------------------------------------
(* The node implements the lease of module Failover.                       *)

(* There is a leader exactly while some of its lease is left.              *)
LEMMA LeaseLeft ==
  ASSUME TypeOK
  PROVE  TopScore(scores) \in Nat /\ (TopScore(scores) = 0 <=> Leader(scores) = NoNode)
PROOF
<1>1. scores \in Table /\ \A i \in Slot : scores[i].id = NoNode <=> scores[i].score = 0
  BY DEF TypeOK, Table
<1>2. CASE Used(scores) = {}
  BY <1>2 DEF TopScore, Leader
<1>3. CASE Used(scores) # {}
  <2>1. Top(scores) \in Slot /\ Top(scores) \in Used(scores)
    BY <1>1, <1>3, TopIsTop DEF IsTop, Used
  <2>2. scores[Top(scores)].score \in Nat /\ scores[Top(scores)].score # 0
    BY <1>1, <2>1, ScoreAssumption DEF Table, Entry, Used
  <2>3. scores[Top(scores)].id # NoNode
    BY <1>1, <2>1, <2>2
  <2> QED BY <1>3, <2>2, <2>3 DEF Leader, TopScore
<1> QED BY <1>2, <1>3

(* The prologue is one tick of the lease.                                  *)
LEMMA PrologueAges ==
  ASSUME IInv
  PROVE  /\ scores' = Aged => Lease!Age
         /\ SafeNow = (safe_mode \/ Lease!Expiring)
         /\ MotorNow = IF Lease!Expiring THEN "stopped" ELSE motor
         /\ Leader(Aged) # NoNode => /\ TopScore(scores) > 1
                                     /\ Leader(Aged) = Leader(scores)
                                     /\ SafeNow = safe_mode
                                     /\ leader_active
PROOF
<1>0. TypeOK /\ LeaderTrust /\ safe_mode \in BOOLEAN /\ leader_active \in BOOLEAN
  BY DEF IInv, TypeOK
<1>1. /\ TopScore(scores) \in Nat
      /\ TopScore(scores) = 0 <=> Leader(scores) = NoNode
      /\ leader_active <=> Leader(scores) # NoNode
  BY <1>0, LeaseLeft DEF LeaderTrust
<1>2. CASE /\ Leader(Aged) = Leader(scores)
           /\ Leader(scores) # NoNode
           /\ TopScore(scores) > 1
           /\ TopScore(Aged) = TopScore(scores) - 1
           /\ leader_active
           /\ SafeNow = safe_mode
           /\ MotorNow = motor
  BY <1>0, <1>1, <1>2 DEF Lease!Age, Lease!Expiring
<1>3. CASE /\ Leader(Aged) = NoNode
           /\ TopScore(scores) <= 1
           /\ TopScore(Aged) = 0
           /\ SafeNow = (safe_mode \/ leader_active)
           /\ MotorNow = IF leader_active THEN "stopped" ELSE motor
  <2>1. leader_active <=> TopScore(scores) = 1
    BY <1>1, <1>3
  <2> QED BY <1>0, <1>1, <1>3, <2>1 DEF Lease!Age, Lease!Expiring
<1> QED BY <1>0, <1>2, <1>3, PrologueCases

(* A tick that neither admits a heartbeat nor convicts passes.             *)
LEMMA PlainPasses ==
  ASSUME IInv, scores' = Aged, safe_mode' = SafeNow,
         disqualified_leader' = disqualified_leader,
         motor' = MotorNow \/ (~SafeNow /\ motor' \in Motor)
  PROVE  Lease!Pass
BY PrologueAges DEF Lease!Pass, Lease!Motor, Motor

LEMMA InitRefines == Init => Lease!Init
PROOF
<1> SUFFICES ASSUME Init PROVE Lease!Init
  OBVIOUS
<1>1. \A i \in Slot : scores[i].score = 0
  BY DEF Init, NoEntry
<1>2. Used(scores) = {}
  BY <1>1 DEF Used
<1> QED BY <1>2 DEF Init, Lease!Init, Leader, TopScore

LEMMA StepRefines == IInv /\ [Next]_vars => [Lease!Next]_(Lease!vars)
PROOF
<1> SUFFICES ASSUME IInv, [Next]_vars PROVE [Lease!Next]_(Lease!vars)
  OBVIOUS
<1>0. TypeOK /\ LeaderTrust
  BY DEF IInv
<1>1. CASE NoMessage
  <2>1. Lease!Pass
    BY <1>1, PlainPasses DEF NoMessage, Prologue
  <2> QED BY <2>1 DEF Lease!Next
<1>2. ASSUME NEW n \in NodeId, IgnoreDisqualified(n) PROVE Lease!Next
  <2>1. Lease!Pass
    BY <1>2, PlainPasses DEF IgnoreDisqualified, Prologue
  <2> QED BY <2>1 DEF Lease!Next
<1>3. ASSUME NEW n \in NodeId, OnHeartbeat(n) PROVE Lease!Next
  <2> DEFINE u == UpdateScore(Aged, n, HeartbeatScore)
  <2>1. /\ Admits(Aged, n) => Leader(u) = n /\ TopScore(u) = HeartbeatScore
        /\ ~Admits(Aged, n) => u = Aged /\ Leader(Aged) # NoNode
    BY <1>0, PrologueCases, UpdateLeader
  <2>2. scores' = u /\ n # disqualified_leader /\ motor' = MotorNow
        /\ disqualified_leader' = disqualified_leader
        /\ safe_mode' = (SafeNow /\ Leader(u) \in {NoNode, disqualified_leader})
    BY <1>3 DEF OnHeartbeat, Accepts
  <2> HIDE DEF u
  <2>3. CASE Admits(Aged, n)
    <3>1. safe_mode' = FALSE
      BY <2>1, <2>2, <2>3, NodeAssumption
    <3>2. Lease!Take(n)
      BY <2>1, <2>2, <2>3, <3>1, PrologueAges DEF Lease!Take
    <3> QED BY <3>2 DEF Lease!Next
  <2>4. CASE ~Admits(Aged, n)
    <3>1. /\ Leader(u) = Leader(scores) /\ Leader(scores) # NoNode
          /\ leader_active /\ SafeNow = safe_mode
      BY <2>1, <2>4, PrologueAges
    <3>2. safe_mode' = SafeNow
      BY <1>0, <2>2, <3>1 DEF LeaderTrust, TypeOK
    <3>3. Lease!Pass
      BY <2>1, <2>2, <2>4, <3>2, PlainPasses
    <3> QED BY <3>3 DEF Lease!Next
  <2> QED BY <2>3, <2>4
<1>4. ASSUME NEW n \in NodeId, NEW m \in NodeId, NEW c \in Claim \cup {NoPayload},
             OnGossip(n, m, c)
      PROVE  Lease!Next
  <2>1. Lease!Pass
    BY <1>4, PlainPasses DEF OnGossip
  <2> QED BY <2>1 DEF Lease!Next
<1>5. ASSUME NEW n \in NodeId, NEW p \in Payload, OnTaskDispatch(n, p)
      PROVE  Lease!Next
  <2>1. Lease!Pass
    BY <1>5, PlainPasses DEF OnTaskDispatch, Prologue, Motor
  <2> QED BY <2>1 DEF Lease!Next
<1>6. ASSUME NEW n \in NodeId, NEW p \in Payload, OnStateUpdate(n, p)
      PROVE  Lease!Next
  <2>1. Lease!Pass
    BY <1>6, PlainPasses DEF OnStateUpdate, Prologue
  <2> QED BY <2>1 DEF Lease!Next
<1>7. ASSUME NEW n \in NodeId, NEW p \in Payload, OnVmScript(n, p)
      PROVE  Lease!Next
  <2>1. motor' = MotorNow \/ (~SafeNow /\ motor' \in Motor)
    BY <1>7, RunStdType DEF OnVmScript, Trapped, Motor
  <2>2. Lease!Pass
    BY <1>7, <2>1, PlainPasses DEF OnVmScript, Prologue
  <2> QED BY <2>2 DEF Lease!Next
<1>8. ASSUME NEW n \in NodeId, NEW op \in CommandOp, NEW p \in Payload,
             DoubleSign(n, op, p)
      PROVE  Lease!Next
  <2>1. n = Leader(Aged) /\ n # NoNode /\ n # disqualified_leader
    BY <1>8, NodeAssumption DEF DoubleSign, Accepts, Conflicts, FromLeader
  <2>2. Lease!Convict
    BY <1>8, <2>1, PrologueAges DEF DoubleSign, Lease!Convict
  <2> QED BY <2>2 DEF Lease!Next
<1>9. ASSUME NEW n \in NodeId, OnStdBytecode(n) PROVE Lease!Next
  <2>1. motor' = MotorNow \/ (~SafeNow /\ motor' \in Motor)
    BY <1>9, RunStdType DEF OnStdBytecode
  <2>2. Lease!Pass
    BY <1>9, <2>1, PlainPasses DEF OnStdBytecode, Prologue
  <2> QED BY <2>2 DEF Lease!Next
<1>10. ASSUME NEW n \in NodeId, OnOther(n) PROVE [Lease!Next]_(Lease!vars)
  BY <1>1, <1>10 DEF OnOther
<1>11. CASE CheckAndHeal \/ ClockAdvance \/ UNCHANGED vars
  <2>1. /\ scores' = scores /\ safe_mode' = safe_mode /\ motor' = motor
        /\ disqualified_leader' = disqualified_leader
    BY <1>11 DEF CheckAndHeal, ClockAdvance, vars
  <2> QED BY <2>1 DEF Lease!vars, Leader, TopScore, Top, Used, IsTop
<1>12. CASE Restart \/ CutOff
  <2>1. \A i \in Slot : scores'[i].score = 0
    BY <1>12 DEF Restart, CutOff, Boot, NoEntry
  <2>2. Used(scores') = {}
    BY <2>1 DEF Used
  <2>3. Lease!Reboot
    BY <1>12, <2>2 DEF Restart, CutOff, Boot, Lease!Reboot, Leader, TopScore
  <2> QED BY <2>3 DEF Lease!Next
<1> QED
  BY <1>1, <1>2, <1>3, <1>4, <1>5, <1>6, <1>7, <1>8, <1>9, <1>10, <1>11, <1>12
  DEF Next, Tick, Receive

(* Whatever its table, its messages and its log do, the node's leader,     *)
(* safe mode and motor behave as the one lease of module Failover.         *)
THEOREM Implements == Spec => ImplementsLease
PROOF
<1>1. Spec => []IInv
  BY Invariance
<1> QED BY <1>1, InitRefines, StepRefines, PTL DEF Spec, ImplementsLease, Lease!Spec
=============================================================================
