------------------------ MODULE TinyNodeStateProofs ------------------------
(***************************************************************************)
(* What TLAPS proves of the score table and of the log of TinyNode, on top *)
(* of the invariant of TinyNodeProofs.                                     *)
(***************************************************************************)
EXTENDS TinyNodeProofs

-----------------------------------------------------------------------------
(* The score table                                                         *)

Distinct(s) == \A i, j \in Used(s) : i # j => /\ s[i].id # s[j].id
                                             /\ s[i].score # s[j].score

LEMMA DecayDistinct ==
  ASSUME NEW s \in Table, Distinct(s) PROVE Distinct(Decay(s))
<1>1. \A i \in Slot : s[i].score \in Nat
  BY ScoreAssumption DEF Table, Entry
<1>2. \A i \in Used(Decay(s)) : /\ i \in Used(s)
                                /\ Decay(s)[i].id = s[i].id
                                /\ Decay(s)[i].score = s[i].score - 1
  BY <1>1 DEF Decay, Used, NoEntry
<1> QED
  BY <1>1, <1>2 DEF Distinct, Used

(* A heartbeat gives its node the one highest score, in one slot.          *)
LEMMA UpdateDistinct ==
  ASSUME NEW s \in Table, Distinct(s), NEW n \in NodeId,
         \A i \in Slot : s[i].score < HeartbeatScore
  PROVE  Distinct(UpdateScore(s, n, HeartbeatScore))
<1>1. CASE ~Admits(s, n)
  BY <1>1 DEF UpdateScore
<1>2. CASE Admits(s, n)
  <2> DEFINE k == SlotFor(s, n)
             u == UpdateScore(s, n, HeartbeatScore)
  <2>1. k \in Slot /\ \A i \in Used(s) : s[i].id = n => i = k
    <3>1. CASE Own(s, n) # {}
      <4>1. Own(s, n) \subseteq Slot
        BY DEF Own, Used
      <4>2. First(Own(s, n)) \in Own(s, n)
        BY <3>1, <4>1, FirstSlot
      <4> QED
        BY <3>1, <4>1, <4>2 DEF SlotFor, Own, Distinct
    <3>2. CASE Own(s, n) = {}
      <4>1. Free(s) # {} /\ Free(s) \subseteq Slot
        BY <1>2, <3>2 DEF Admits, Free
      <4>2. First(Free(s)) \in Free(s)
        BY <4>1, FirstSlot
      <4> QED
        BY <3>2, <4>1, <4>2 DEF SlotFor, Own
    <3> QED
      BY <3>1, <3>2
  <2> HIDE DEF k
  <2>2. /\ u[k] = [id |-> n, score |-> HeartbeatScore]
        /\ \A i \in Slot \ {k} : u[i] = s[i]
    BY <1>2, <2>1 DEF UpdateScore, Table, k
  <2> HIDE DEF u
  <2>3. \A i \in Used(u) : i # k => i \in Used(s) /\ u[i] = s[i] /\ s[i].id # n
    BY <2>1, <2>2 DEF Used
  <2>4. \A i \in Slot : s[i].score < HeartbeatScore /\ s[i].score \in Nat
    BY ScoreAssumption DEF Table, Entry
  <2>5. Distinct(u)
    BY <2>2, <2>3, <2>4, ScoreAssumption DEF Distinct, Used
  <2> QED
    BY <2>5 DEF u
<1> QED
  BY <1>1, <1>2

LEMMA NextDistinct ==
  ASSUME IInv, Distinct(scores), [Next]_vars
  PROVE  Distinct(scores')
<1>0. scores \in Table /\ TypeOK /\ LeaderTrust
  BY DEF IInv, TypeOK, Table
<1>1. Distinct(Aged)
  BY <1>0, DecayDistinct DEF Aged
<1>2. ASSUME NEW n \in NodeId, OnHeartbeat(n) PROVE Distinct(scores')
  BY <1>0, <1>1, <1>2, PrologueCases, UpdateDistinct DEF OnHeartbeat
<1>3. CASE Restart \/ CutOff
  <2>1. Used(scores') = {}
    BY <1>3 DEF Restart, CutOff, Boot, Used, NoEntry
  <2> QED
    BY <2>1 DEF Distinct
<1>4. CASE scores' = Aged \/ scores' = scores
  BY <1>1, <1>4
<1>5. CASE NoMessage
  BY <1>4, <1>5 DEF NoMessage, Prologue
<1>6. ASSUME NEW n \in NodeId, Receive(n) PROVE Distinct(scores')
  <2>1. CASE IgnoreDisqualified(n)
    BY <1>4, <2>1 DEF IgnoreDisqualified, Prologue
  <2>2. CASE \E m \in NodeId, c \in Claim \cup {NoPayload} : OnGossip(n, m, c)
    BY <1>4, <2>2 DEF OnGossip
  <2>3. CASE \E p \in Payload : OnTaskDispatch(n, p)
    BY <1>4, <2>3 DEF OnTaskDispatch, Prologue
  <2>4. CASE \E p \in Payload : OnStateUpdate(n, p)
    BY <1>4, <2>4 DEF OnStateUpdate, Prologue
  <2>5. CASE \E p \in Payload : OnVmScript(n, p)
    BY <1>4, <2>5 DEF OnVmScript, Prologue
  <2>6. CASE \E op \in CommandOp, p \in Payload : DoubleSign(n, op, p)
    BY <1>4, <2>6 DEF DoubleSign
  <2>7. CASE OnStdBytecode(n)
    BY <1>4, <2>7 DEF OnStdBytecode, Prologue
  <2>8. CASE OnOther(n)
    BY <1>5, <2>8 DEF OnOther
  <2> QED
    BY <1>2, <1>6, <2>1, <2>2, <2>3, <2>4, <2>5, <2>6, <2>7, <2>8 DEF Receive
<1>7. CASE CheckAndHeal \/ ClockAdvance \/ UNCHANGED vars
  BY <1>4, <1>7 DEF CheckAndHeal, ClockAdvance, vars
<1> QED
  BY <1>3, <1>5, <1>6, <1>7 DEF Next, Tick

(* No two slots are of one node or equally fresh, for any table and any    *)
(* number of nodes: who leads never depends on the order of the slots.     *)
THEOREM NoTies == Spec => []OneSlotEachNoTies
<1>1. Init => Distinct(scores)
  BY DEF Init, Distinct, Used, NoEntry
<1>2. IInv /\ Distinct(scores) /\ [Next]_vars => Distinct(scores)'
  BY NextDistinct
<1>3. Distinct(scores) <=> OneSlotEachNoTies
  BY DEF Distinct, OneSlotEachNoTies
<1> QED
  BY <1>1, <1>2, <1>3, Invariance, PTL DEF Spec

-----------------------------------------------------------------------------
(* The log                                                                 *)

LEMMA Parity ==
  ASSUME NEW n \in Nat
  PROVE  (n + 1) % 2 = 1 <=> n % 2 # 1
OBVIOUS

(* An entry appended to the log is one delta more to replay.               *)
LEMMA ReplayAppend ==
  ASSUME NEW log \in Seq(LogEntry), NEW e \in LogEntry
  PROVE  Replay(Append(log, e)) = ApplyDelta(Replay(log), e.mask)
<1> DEFINE new == Append(log, e)
           Old(b) == {i \in DOMAIN log : b \in log[i].mask}
           New(b) == {i \in DOMAIN new : b \in new[i].mask}
<1>1. /\ Len(log) \in Nat /\ DOMAIN log = 1..Len(log)
      /\ DOMAIN new = 1..(Len(log) + 1)
      /\ \A i \in DOMAIN log : new[i] = log[i]
      /\ new[Len(log) + 1] = e
  OBVIOUS
<1>2. ASSUME NEW b \in Bit
      PROVE  /\ IsFiniteSet(Old(b)) /\ Cardinality(Old(b)) \in Nat
             /\ b \notin e.mask => New(b) = Old(b)
             /\ b \in e.mask => Cardinality(New(b)) = Cardinality(Old(b)) + 1
  <2>1. IsFiniteSet(Old(b)) /\ Cardinality(Old(b)) \in Nat
    <3>1. IsFiniteSet(1..Len(log))
      BY <1>1, FS_Interval
    <3>2. Old(b) \subseteq 1..Len(log)
      BY <1>1
    <3> QED
      BY <3>1, <3>2, FS_Subset, FS_CardinalityType
  <2> HIDE DEF new
  <2>2. b \notin e.mask => New(b) = Old(b)
    BY <1>1
  <2>3. b \in e.mask => New(b) = Old(b) \cup {Len(log) + 1}
    BY <1>1
  <2>4. Len(log) + 1 \notin Old(b)
    BY <1>1
  <2> HIDE DEF Old, New
  <2>5. b \in e.mask => Cardinality(New(b)) = Cardinality(Old(b)) + 1
    BY <2>1, <2>3, <2>4, FS_AddElement
  <2> QED
    BY <2>1, <2>2, <2>5
<1>3. /\ Replay(log) = {b \in Bit : Cardinality(Old(b)) % 2 = 1}
      /\ Replay(new) = {b \in Bit : Cardinality(New(b)) % 2 = 1}
  BY DEF Replay, ReplayOf
<1>4. e.mask \subseteq Bit
  BY DEF LogEntry, Mask
<1> HIDE DEF new, Old, New
<1>5. ASSUME NEW b \in Bit
      PROVE  b \in Replay(new) <=> b \in ApplyDelta(Replay(log), e.mask)
  <2>1. CASE b \in e.mask
    <3>1. Cardinality(New(b)) % 2 = 1 <=> Cardinality(Old(b)) % 2 # 1
      BY <1>2, <2>1, Parity
    <3> QED
      BY <1>3, <2>1, <3>1 DEF ApplyDelta
  <2>2. CASE b \notin e.mask
    BY <1>2, <1>3, <2>2 DEF ApplyDelta
  <2> QED
    BY <2>1, <2>2
<1>6. Replay(new) \subseteq Bit /\ ApplyDelta(Replay(log), e.mask) \subseteq Bit
  BY <1>3, <1>4 DEF ApplyDelta
<1> QED
  BY <1>5, <1>6 DEF new

(* A whole log was whole before its last entry.                            *)
LEMMA WholeBefore ==
  ASSUME NEW log \in Seq(LogEntry), NEW e \in LogEntry, BehindTorn(Append(log, e)) = {}
  PROVE  BehindTorn(log) = {}
<1>1. /\ DOMAIN log \subseteq DOMAIN Append(log, e)
      /\ \A i \in DOMAIN log : Append(log, e)[i] = log[i]
  OBVIOUS
<1> QED
  BY <1>1 DEF BehindTorn

(* Appends do not fail, and neither does the read at boot.                 *)
LogWorks == HasWal /\ WalFaults \subseteq {"torn"}

LEMMA AppendKeeps ==
  ASSUME LogWorks, NEW log \in Seq(LogEntry), NEW e \in LogEntry, NEW f,
         BehindTorn(log) = {} => f = Replay(log),
         NEW l \in AppendTo(log, e)
  PROVE  /\ l \in Seq(LogEntry)
         /\ BehindTorn(l) = {} => ApplyDelta(f, e.mask) = Replay(l)
<1>1. l = Append(log, e)
  BY DEF AppendTo, LogWorks
<1>2. Append(log, e) \in Seq(LogEntry)
  OBVIOUS
<1> QED
  BY <1>1, <1>2, ReplayAppend, WholeBefore

LEMMA ConflictKeeps ==
  ASSUME LogWorks, NEW log \in Seq(LogEntry), flags \in Mask,
         BehindTorn(log) = {} => flags = Replay(log),
         NEW l \in AppendTo(log, ConflictEntry)
  PROVE  l \in Seq(LogEntry) /\ (BehindTorn(l) = {} => flags = Replay(l))
<1>1. ConflictEntry \in LogEntry /\ ConflictEntry.mask = {}
  BY DEF ConflictEntry, LogEntry, Mask
<1>2. ApplyDelta(flags, {}) = flags
  BY DEF ApplyDelta
<1> QED
  BY <1>1, <1>2, AppendKeeps

LEMMA WalNowKeeps ==
  ASSUME LogWorks, TypeOK, StateIsReplay, NEW l \in WalNow
  PROVE  l \in Seq(LogEntry) /\ (BehindTorn(l) = {} => flags = Replay(l))
<1>1. wal \in Seq(LogEntry) /\ flags \in Mask /\ (BehindTorn(wal) = {} => flags = Replay(wal))
  BY DEF TypeOK, StateIsReplay, LogWorks
<1> QED
  BY <1>1, ConflictKeeps DEF WalNow

LEMMA BootKeeps ==
  ASSUME LogWorks, NEW log, Boot(log)
  PROVE  StateIsReplay'
<1>1. wal' = log /\ flags' \in Recovered(log)
  BY DEF Boot
<1>2. ASSUME BehindTorn(log) = {} PROVE Recovered(log) = {Replay(log)}
  BY <1>2 DEF Recovered, Replay, LogWorks
<1> QED
  BY <1>1, <1>2 DEF StateIsReplay

LEMMA NextReplay ==
  ASSUME LogWorks, IInv, StateIsReplay, [Next]_vars
  PROVE  StateIsReplay'
<1>0. TypeOK
  BY DEF IInv
<1>1. CASE wal' \in WalNow /\ UNCHANGED flags
  BY <1>0, <1>1, WalNowKeeps DEF StateIsReplay
<1>2. CASE UNCHANGED <<wal, flags>>
  BY <1>2 DEF StateIsReplay
<1>3. CASE NoMessage
  BY <1>1, <1>3 DEF NoMessage
<1>4. ASSUME NEW n \in NodeId, NEW p \in Payload, OnStateUpdate(n, p)
      PROVE  StateIsReplay'
  <2>1. CASE Rejects(p)
    BY <1>1, <1>4, <2>1 DEF OnStateUpdate
  <2>2. CASE ~Rejects(p)
    <3>1. p \in Mask
      BY <2>2 DEF Rejects, Payload
    <3>2. DeltaEntry(p) \in LogEntry /\ DeltaEntry(p).mask = p
      BY <3>1 DEF DeltaEntry, LogEntry
    <3>3. PICK log \in WalNow : wal' \in AppendTo(log, DeltaEntry(p))
      BY <1>4, <2>2 DEF OnStateUpdate
    <3>4. flags' = ApplyDelta(flags, p)
      BY <1>4, <2>2 DEF OnStateUpdate
    <3>5. log \in Seq(LogEntry) /\ (BehindTorn(log) = {} => flags = Replay(log))
      BY <1>0, WalNowKeeps
    <3>6. BehindTorn(wal') = {} => ApplyDelta(flags, p) = Replay(wal')
      BY <3>2, <3>3, <3>5, AppendKeeps
    <3> QED
      BY <3>4, <3>6 DEF StateIsReplay
  <2> QED
    BY <2>1, <2>2
<1>5. ASSUME NEW n \in NodeId, NEW op \in CommandOp, NEW p \in Payload,
             DoubleSign(n, op, p)
      PROVE  StateIsReplay'
  <2>1. PICK log \in WalNow : wal' \in AppendTo(log, ConflictEntry)
    BY <1>5 DEF DoubleSign
  <2>2. log \in Seq(LogEntry) /\ (BehindTorn(log) = {} => flags = Replay(log))
    BY <1>0, WalNowKeeps
  <2>3. BehindTorn(wal') = {} => flags = Replay(wal')
    BY <1>0, <2>1, <2>2, ConflictKeeps DEF TypeOK
  <2>4. UNCHANGED flags
    BY <1>5 DEF DoubleSign
  <2> QED
    BY <2>3, <2>4 DEF StateIsReplay
<1>6. ASSUME NEW n \in NodeId, Receive(n) PROVE StateIsReplay'
  <2>1. CASE IgnoreDisqualified(n) \/ OnHeartbeat(n) \/ OnStdBytecode(n)
    BY <1>1, <2>1 DEF IgnoreDisqualified, OnHeartbeat, OnStdBytecode
  <2>2. CASE \E m \in NodeId, c \in Claim \cup {NoPayload} : OnGossip(n, m, c)
    BY <1>1, <2>2 DEF OnGossip
  <2>3. CASE \E p \in Payload : OnTaskDispatch(n, p) \/ OnVmScript(n, p)
    BY <1>1, <2>3 DEF OnTaskDispatch, OnVmScript
  <2>4. CASE OnOther(n)
    BY <1>3, <2>4 DEF OnOther
  <2> QED
    BY <1>4, <1>5, <1>6, <2>1, <2>2, <2>3, <2>4 DEF Receive
<1>7. CASE CheckAndHeal \/ ClockAdvance \/ UNCHANGED vars
  BY <1>2, <1>7 DEF CheckAndHeal, ClockAdvance, vars
<1>8. CASE Restart \/ CutOff
  BY <1>8, BootKeeps DEF Restart, CutOff
<1> QED
  BY <1>3, <1>6, <1>7, <1>8 DEF Next, Tick

(* The log replays to the state at every moment, for any number of bits,   *)
(* updates, convictions and power losses, as long as nothing was appended  *)
(* to an entry that was cut off.                                           *)
THEOREM LogReplaysToState == ASSUME LogWorks PROVE Spec => []StateIsReplay
<1>1. Init => StateIsReplay
  <2> SUFFICES ASSUME Init PROVE flags = Replay(wal)
    BY DEF StateIsReplay
  <2>1. flags = {} /\ wal = <<>>
    BY DEF Init
  <2>2. \A b \in Bit : {i \in DOMAIN wal : b \in wal[i].mask} = {}
    BY <2>1
  <2>3. Cardinality({}) = 0 /\ 0 % 2 = 0
    BY FS_EmptySet
  <2> QED
    BY <2>1, <2>2, <2>3 DEF Replay, ReplayOf
<1>2. IInv /\ StateIsReplay /\ [Next]_vars => StateIsReplay'
  BY NextReplay
<1> QED
  BY <1>1, <1>2, Invariance, PTL DEF Spec

-----------------------------------------------------------------------------
(* The steps                                                               *)

(* What an appended entry leaves of the log.                               *)
OnlyConflicts(log) ==
  \A i \in DOMAIN log \ DOMAIN wal : log[i].kind = "conflict"

LEMMA ConflictsAppended ==
  ASSUME TypeOK, NEW log \in WalNow
  PROVE  /\ log \in Seq(LogEntry) /\ OnlyConflicts(log)
         /\ \A l \in AppendTo(log, ConflictEntry) : OnlyConflicts(l)
<1>1. wal \in Seq(LogEntry)
  BY DEF TypeOK
<1>2. \A l \in AppendTo(wal, ConflictEntry) : l = wal \/ l = Append(wal, ConflictEntry)
  BY DEF AppendTo
<1>3. log = wal \/ log = Append(wal, ConflictEntry)
  BY <1>2 DEF WalNow
<1>4. log \in Seq(LogEntry)
  BY <1>1, WalNowType
<1>5. ASSUME NEW l \in Seq(LogEntry), OnlyConflicts(l)
      PROVE  OnlyConflicts(Append(l, ConflictEntry))
  BY <1>5 DEF OnlyConflicts, ConflictEntry
<1>6. OnlyConflicts(wal)
  BY DEF OnlyConflicts
<1>7. OnlyConflicts(log)
  BY <1>1, <1>3, <1>5, <1>6
<1> QED
  BY <1>4, <1>5, <1>7 DEF AppendTo

LEMMA StepIntoSafeMode ==
  ASSUME IInv, [Next]_vars, safe_mode'
  PROVE  flags' = flags /\ OnlyConflicts(wal')
<1>0. TypeOK
  BY DEF IInv
<1>1. ASSUME wal' \in WalNow PROVE OnlyConflicts(wal')
  BY <1>0, <1>1, ConflictsAppended
<1>2. ASSUME UNCHANGED wal PROVE OnlyConflicts(wal')
  BY <1>2 DEF OnlyConflicts
<1>3. CASE NoMessage
  BY <1>1, <1>3 DEF NoMessage
<1>4. ASSUME NEW n \in NodeId, NEW p \in Payload, OnStateUpdate(n, p)
      PROVE  flags' = flags /\ OnlyConflicts(wal')
  <2>1. Rejects(p)
    BY <1>4 DEF OnStateUpdate, Prologue, Rejects
  <2> QED
    BY <1>1, <1>4, <2>1 DEF OnStateUpdate
<1>5. ASSUME NEW n \in NodeId, NEW op \in CommandOp, NEW p \in Payload,
             DoubleSign(n, op, p)
      PROVE  flags' = flags /\ OnlyConflicts(wal')
  BY <1>0, <1>5, ConflictsAppended DEF DoubleSign
<1>6. ASSUME NEW n \in NodeId, Receive(n)
      PROVE  flags' = flags /\ OnlyConflicts(wal')
  <2>1. CASE IgnoreDisqualified(n) \/ OnHeartbeat(n) \/ OnStdBytecode(n)
    BY <1>1, <2>1 DEF IgnoreDisqualified, OnHeartbeat, OnStdBytecode
  <2>2. CASE \E m \in NodeId, c \in Claim \cup {NoPayload} : OnGossip(n, m, c)
    BY <1>1, <2>2 DEF OnGossip
  <2>3. CASE \E p \in Payload : OnTaskDispatch(n, p) \/ OnVmScript(n, p)
    BY <1>1, <2>3 DEF OnTaskDispatch, OnVmScript
  <2>4. CASE OnOther(n)
    BY <1>3, <2>4 DEF OnOther
  <2> QED
    BY <1>4, <1>5, <1>6, <2>1, <2>2, <2>3, <2>4 DEF Receive
<1>7. CASE CheckAndHeal \/ ClockAdvance \/ UNCHANGED vars
  BY <1>2, <1>7 DEF CheckAndHeal, ClockAdvance, vars
<1>8. ~(Restart \/ CutOff)
  BY DEF Restart, CutOff, Boot
<1> QED
  BY <1>3, <1>6, <1>7, <1>8 DEF Next, Tick

(* No step that ends in safe mode applied a state update or logged one.    *)
THEOREM SafeModeRejectsUpdates == Spec => NoUpdateIntoSafeMode
<1>1. IInv /\ [Next]_vars =>
        [safe_mode' => /\ flags' = flags
                       /\ \A i \in DOMAIN wal' \ DOMAIN wal : wal'[i].kind = "conflict"]_vars
  BY StepIntoSafeMode DEF OnlyConflicts
<1> QED
  BY <1>1, Invariance, PTL DEF Spec, NoUpdateIntoSafeMode

LEMMA StepWithoutLeader ==
  ASSUME IInv, [Next]_vars, leader_active, Leader(scores') = NoNode,
         ~(Restart \/ CutOff)
  PROVE  safe_mode'
<1>0. TypeOK /\ LeaderTrust
  BY DEF IInv
<1>1. ASSUME scores' = Aged PROVE SafeNow
  BY <1>0, <1>1, PrologueCases
<1>2. CASE NoMessage
  BY <1>1, <1>2 DEF NoMessage, Prologue
<1>3. ASSUME NEW n \in NodeId, OnHeartbeat(n) PROVE safe_mode'
  <2> DEFINE u == UpdateScore(Aged, n, HeartbeatScore)
  <2>1. /\ Admits(Aged, n) => Leader(u) = n
        /\ ~Admits(Aged, n) => u = Aged /\ Leader(Aged) # NoNode
    BY <1>0, PrologueCases, UpdateLeader
  <2>2. Leader(u) = NoNode
    BY <1>3 DEF OnHeartbeat
  <2> HIDE DEF u
  <2> QED
    BY <2>1, <2>2, NodeAssumption
<1>4. ASSUME NEW n \in NodeId, Receive(n) PROVE safe_mode'
  <2>1. CASE IgnoreDisqualified(n)
    BY <1>1, <2>1 DEF IgnoreDisqualified, Prologue
  <2>2. CASE \E m \in NodeId, c \in Claim \cup {NoPayload} : OnGossip(n, m, c)
    BY <1>1, <2>2 DEF OnGossip
  <2>3. CASE \E p \in Payload : OnTaskDispatch(n, p)
    BY <1>1, <2>3 DEF OnTaskDispatch, Prologue
  <2>4. CASE \E p \in Payload : OnStateUpdate(n, p)
    BY <1>1, <2>4 DEF OnStateUpdate, Prologue
  <2>5. CASE \E p \in Payload : OnVmScript(n, p)
    BY <1>1, <2>5 DEF OnVmScript, Prologue
  <2>6. CASE \E op \in CommandOp, p \in Payload : DoubleSign(n, op, p)
    BY <2>6 DEF DoubleSign
  <2>7. CASE OnStdBytecode(n)
    BY <1>1, <2>7 DEF OnStdBytecode, Prologue
  <2>8. CASE OnOther(n)
    BY <1>2, <2>8 DEF OnOther
  <2> QED
    BY <1>3, <1>4, <2>1, <2>2, <2>3, <2>4, <2>5, <2>6, <2>7, <2>8 DEF Receive
<1>5. CASE CheckAndHeal \/ ClockAdvance \/ UNCHANGED vars
  <2>1. scores' = scores
    BY <1>5 DEF CheckAndHeal, ClockAdvance, vars
  <2> QED
    BY <1>0, <2>1 DEF LeaderTrust
<1> QED
  BY <1>2, <1>4, <1>5 DEF Next, Tick

(* Losing the leader isolates the node, whatever else the tick does.       *)
THEOREM LeaderLossIsolates == Spec => LosingTheLeaderStops
<1>1. IInv /\ [Next]_vars =>
        [leader_active /\ Leader(scores') = NoNode =>
           safe_mode' \/ Restart \/ CutOff]_vars
  BY StepWithoutLeader
<1> QED
  BY <1>1, Invariance, PTL DEF Spec, LosingTheLeaderStops
=============================================================================
