--------------------------- MODULE ConsensusProofs ---------------------------
(***************************************************************************)
(* What TLAPS proves of spatial consensus, for every swarm, capacity,      *)
(* script and skew of the clocks.                                          *)
(***************************************************************************)
EXTENDS ConsensusHistory, FiniteSetTheorems, TLAPS

(* What every node broadcasts is stamped with a clock that, when the script *)
(* began, was at most Skew behind, and a table holds one claim for each mac. *)
Honest == \A c \in sent :
  /\ c.from \in Nat /\ c.at \in Nat
  /\ c.from <= c.at /\ c.at <= c.from + MaxWait /\ c.at <= now
  /\ Ptp => c.ts \in Nat /\ c.ts <= c.from /\ c.from <= c.ts + Skew
Frozen == \A n \in Node : ~Idle(n) =>
  /\ ctx[n].from \in Nat /\ ctx[n].from <= now /\ now <= ctx[n].from + MaxWait
  /\ Ptp => /\ ctx[n].current_time_us \in Nat
            /\ ctx[n].current_time_us <= ctx[n].from
            /\ ctx[n].from <= ctx[n].current_time_us + Skew
OneEach == \A n \in Node : \A c, d \in gossip[n] : c.mac = d.mac => c = d

IInv == TypeOK /\ Honest /\ Frozen /\ OneEach

-----------------------------------------------------------------------------
(* The clock and the table                                                 *)

LEMMA ModuloBelow ==
  ASSUME NEW w \in Nat, NEW x \in Nat, x < w
  PROVE  x % w = x
OBVIOUS

LEMMA AddOne ==
  ASSUME NEW S, IsFiniteSet(S), NEW x
  PROVE  /\ IsFiniteSet(S \cup {x})
         /\ Cardinality(S \cup {x}) \in Nat
         /\ Cardinality(S \cup {x}) <= Cardinality(S) + 1
<1>1. Cardinality(S) \in Nat
  BY FS_CardinalityType
<1>2. /\ IsFiniteSet(S \cup {x})
      /\ Cardinality(S \cup {x}) = IF x \in S THEN Cardinality(S) ELSE Cardinality(S) + 1
  BY FS_AddElement
<1> QED
  BY <1>1, <1>2

(* No sum of time and offset is negative or wraps, from Boot to MaxTime.   *)
LEMMA ReadingsKeepTime ==
  ASSUME TypeOK, Ptp, NEW t \in Readings
  PROVE  t \in Nat /\ t <= now /\ now <= t + Skew
<1>1. PICK e \in 0..Skew : t = (now - e) % Wrap
  BY DEF Readings
<1> DEFINE r == now - e
<1>2. now \in Nat /\ now <= MaxTime /\ Boot <= now
  BY ClockAssumption DEF TypeOK
<1>3. r \in Nat /\ r < Wrap /\ r <= now /\ now <= r + Skew
  BY <1>2, ClockAssumption
<1>4. r % Wrap = r
  BY <1>3, ModuloBelow, ClockAssumption
<1> QED
  BY <1>1, <1>3, <1>4

LEMMA ReadingsInt ==
  ASSUME TypeOK, NEW t \in Readings
  PROVE  t \in Int
<1>1. CASE Ptp
  BY <1>1, ReadingsKeepTime
<1>2. CASE ~Ptp
  BY <1>2 DEF Readings
<1> QED
  BY <1>1, <1>2

(* Saturation included, the age of a claim, since its script began, is off *)
(* by the skew at most.  The look at the clock was at the time x.          *)
LEMMA AgeKeepsTime ==
  ASSUME Honest, Ptp, NEW c \in sent, NEW limit \in Nat,
         NEW t \in Nat, NEW x \in Nat, t <= x, x <= t + Skew
  PROVE  /\ Age(t, c.ts) <= limit => x <= c.from + limit + Skew
         /\ x + Skew <= c.from + limit => Age(t, c.ts) <= limit
<1>1. /\ c.from \in Nat /\ c.ts \in Nat
      /\ c.ts <= c.from /\ c.from <= c.ts + Skew
  BY DEF Honest
<1> QED
  BY <1>1, ClockAssumption DEF Age

LEMMA TablesFinite ==
  ASSUME TypeOK, NEW n \in Node, NEW t
  PROVE  /\ IsFiniteSet(gossip[n]) /\ gossip[n] \subseteq sent
         /\ Pruned(n, t) \subseteq gossip[n]
         /\ IsFiniteSet(Pruned(n, t))
         /\ Cardinality(Pruned(n, t)) \in Nat
         /\ Cardinality(Pruned(n, t)) <= TableCap
<1>1. gossip[n] \subseteq sent /\ IsFiniteSet(sent) /\ Cardinality(gossip[n]) <= TableCap
  BY DEF TypeOK
<1>2. IsFiniteSet(gossip[n]) /\ Cardinality(gossip[n]) \in Nat
  BY <1>1, FS_Subset, FS_CardinalityType
<1>3. Pruned(n, t) \in SUBSET gossip[n]
  BY DEF Pruned
<1>4. /\ IsFiniteSet(Pruned(n, t)) /\ Cardinality(Pruned(n, t)) <= Cardinality(gossip[n])
      /\ Cardinality(Pruned(n, t)) \in Nat
  BY <1>2, <1>3, FS_Subset, FS_CardinalityType
<1> QED
  BY <1>1, <1>2, <1>3, <1>4, ScriptAssumption

(* Taking in a claim keeps the table within its capacity and one claim for *)
(* each mac.                                                               *)
LEMMA HeedKeeps ==
  ASSUME NEW table, IsFiniteSet(table), Cardinality(table) <= TableCap, NEW c,
         \A d, e \in table : d.mac = e.mac => d = e
  PROVE  /\ Heed(table, c) \subseteq table \cup {c}
         /\ Cardinality(Heed(table, c)) <= TableCap
         /\ \A d, e \in Heed(table, c) : d.mac = e.mac => d = e
<1> DEFINE rest == {d \in table : d.mac # c.mac}
<1>0. Cardinality(table) \in Nat /\ TableCap \in Nat
  BY FS_CardinalityType, ScriptAssumption
<1>1. CASE \E d \in table : d.mac = c.mac
  <2>1. PICK d \in table : d.mac = c.mac
    BY <1>1
  <2>2. rest \in SUBSET (table \ {d})
    BY <2>1
  <2>3. IsFiniteSet(table \ {d}) /\ Cardinality(table \ {d}) = Cardinality(table) - 1
    BY FS_RemoveElement
  <2>4. /\ IsFiniteSet(rest) /\ Cardinality(rest) <= Cardinality(table) - 1
        /\ Cardinality(rest) \in Nat
    BY <2>2, <2>3, FS_Subset, FS_CardinalityType
  <2>5. /\ Cardinality(rest \cup {c}) <= Cardinality(rest) + 1
        /\ Cardinality(rest \cup {c}) \in Nat
    <3> HIDE DEF rest
    <3> QED
      BY <2>4, AddOne
  <2>6. Heed(table, c) = rest \cup {c}
    BY <1>1 DEF Heed
  <2>7. Cardinality(rest \cup {c}) <= TableCap
    <3> HIDE DEF rest
    <3> QED
      BY <1>0, <2>4, <2>5
  <2> QED
    BY <2>6, <2>7
<1>2. CASE ~\E d \in table : d.mac = c.mac
  <2>1. CASE Cardinality(table) < TableCap
    <3>1. Heed(table, c) = table \cup {c}
      BY <1>2, <2>1 DEF Heed
    <3>2. /\ Cardinality(table \cup {c}) <= Cardinality(table) + 1
          /\ Cardinality(table \cup {c}) \in Nat
      BY AddOne
    <3>3. Cardinality(table \cup {c}) <= TableCap
      BY <1>0, <2>1, <3>2
    <3> QED
      BY <1>2, <3>1, <3>3
  <2>2. CASE ~(Cardinality(table) < TableCap)
    BY <1>2, <2>2 DEF Heed
  <2> QED
    BY <2>1, <2>2
<1> QED
  BY <1>1, <1>2

-----------------------------------------------------------------------------
(* The invariant                                                           *)

LEMMA InitInv == Init => IInv
<1> SUFFICES ASSUME Init PROVE IInv
  OBVIOUS
<1>1. now \in Boot..MaxTime
  BY ClockAssumption DEF Init
<1>2. IsFiniteSet(sent) /\ \A n \in Node : Cardinality(gossip[n]) <= TableCap
  BY FS_EmptySet, ScriptAssumption DEF Init
<1> QED
  BY <1>1, <1>2 DEF Init, IInv, TypeOK, Honest, Frozen, Idle, OneEach

(* A step of one node replaces its table by one of no greater size.        *)
LEMMA TableChange ==
  ASSUME IInv, NEW n \in Node, NEW t, t \subseteq sent, Cardinality(t) <= TableCap,
         \A c, d \in t : c.mac = d.mac => c = d,
         gossip' = [gossip EXCEPT ![n] = t],
         sent \subseteq sent'
  PROVE  /\ gossip' \in [Node -> SUBSET sent']
         /\ \A m \in Node : Cardinality(gossip'[m]) <= TableCap
         /\ OneEach'
BY DEF IInv, TypeOK, OneEach

LEMMA PruneInv ==
  ASSUME IInv, NEW n \in Node, NEW t
  PROVE  /\ Pruned(n, t) \subseteq sent
         /\ Cardinality(Pruned(n, t)) <= TableCap
         /\ \A c, d \in Pruned(n, t) : c.mac = d.mac => c = d
BY TablesFinite DEF IInv, OneEach

(* A script that begins or ends.                                           *)
LEMMA ContextChange ==
  ASSUME IInv, NEW n \in Node, NEW x,
         x = NoScript \/ \E t \in Readings : x = [current_time_us |-> t, from |-> now],
         ctx' = [ctx EXCEPT ![n] = x], now' = now
  PROVE  ctx' \in [Node -> GossipContext \cup {NoScript}] /\ Frozen'
<1>0. /\ ctx \in [Node -> GossipContext \cup {NoScript}] /\ now \in Nat
      /\ TypeOK /\ Frozen
  BY ClockAssumption DEF IInv, TypeOK
<1>1. x \in GossipContext \cup {NoScript}
  BY <1>0, ReadingsInt DEF GossipContext
<1>2. \A m \in Node : ctx'[m] = IF m = n THEN x ELSE ctx[m]
  BY <1>0
<1>3. ASSUME NEW m \in Node, m # n, ctx'[m] # NoScript
      PROVE  /\ ctx'[m].from \in Nat /\ ctx'[m].from <= now
             /\ now <= ctx'[m].from + MaxWait
             /\ Ptp => /\ ctx'[m].current_time_us \in Nat
                       /\ ctx'[m].current_time_us <= ctx'[m].from
                       /\ ctx'[m].from <= ctx'[m].current_time_us + Skew
  BY <1>0, <1>2, <1>3 DEF Frozen, Idle
<1>4. ASSUME x # NoScript
      PROVE  /\ x.from \in Nat /\ x.from <= now /\ now <= x.from + MaxWait
             /\ Ptp => /\ x.current_time_us \in Nat /\ x.current_time_us <= x.from
                       /\ x.from <= x.current_time_us + Skew
  <2>1. PICK t \in Readings : x = [current_time_us |-> t, from |-> now]
    BY <1>4
  <2>2. x.from = now /\ x.current_time_us = t
    BY <2>1
  <2>3. Ptp => t \in Nat /\ t <= now /\ now <= t + Skew
    BY <1>0, ReadingsKeepTime
  <2> QED
    BY <1>0, <2>2, <2>3, ClockAssumption
<1> QED
  BY <1>0, <1>1, <1>2, <1>3, <1>4 DEF Frozen, Idle

(* What a node broadcasts.                                                 *)
LEMMA OwnIsHonest ==
  ASSUME IInv, NEW n \in Node, ~Idle(n), NEW score \in Score
  PROVE  /\ Own(n, score) \in Claim
         /\ Own(n, score).from = ctx[n].from /\ Own(n, score).at = now
         /\ Own(n, score).ts = ctx[n].current_time_us
<1>1. ctx[n] \in GossipContext /\ now \in Int
  BY ClockAssumption DEF IInv, TypeOK, Idle
<1> QED
  BY <1>1 DEF Own, Claim, GossipContext

LEMMA SentGrows ==
  ASSUME IInv, NEW n \in Node, NEW k \in K, SpatialAssert(n, k)
  PROVE  /\ sent \subseteq sent'
         /\ sent' = sent \/ \E score \in Score : sent' = sent \cup {Own(n, score)}
         /\ sent' \subseteq Claim /\ IsFiniteSet(sent') /\ Honest'
<1>0. sent \subseteq Claim /\ IsFiniteSet(sent) /\ Honest /\ ~Idle(n) /\ now' = now
  BY DEF IInv, TypeOK, SpatialAssert
<1>1. sent' = sent \/ \E score \in Score : sent' = sent \cup {Own(n, score)}
  BY DEF SpatialAssert, Hazards
<1>2. CASE sent' = sent
  BY <1>0, <1>2 DEF Honest
<1>3. ASSUME NEW score \in Score, sent' = sent \cup {Own(n, score)}
      PROVE  sent' \subseteq Claim /\ IsFiniteSet(sent') /\ Honest'
  <2>1. /\ Own(n, score) \in Claim
        /\ Own(n, score).from = ctx[n].from /\ Own(n, score).at = now
        /\ Own(n, score).ts = ctx[n].current_time_us
    BY <1>0, OwnIsHonest
  <2>2. /\ ctx[n].from \in Nat /\ ctx[n].from <= now /\ now <= ctx[n].from + MaxWait
        /\ Ptp => /\ ctx[n].current_time_us \in Nat
                  /\ ctx[n].current_time_us <= ctx[n].from
                  /\ ctx[n].from <= ctx[n].current_time_us + Skew
    BY <1>0 DEF IInv, Frozen
  <2>3. now \in Nat
    BY ClockAssumption DEF IInv, TypeOK
  <2>4. IsFiniteSet(sent')
    BY <1>0, <1>3, FS_AddElement
  <2> HIDE DEF Own
  <2>5. Honest'
    BY <1>0, <1>3, <2>1, <2>2, <2>3 DEF Honest
  <2> QED
    BY <1>0, <1>3, <2>1, <2>4, <2>5
<1> QED
  BY <1>0, <1>1, <1>2, <1>3

LEMMA NextInv == IInv /\ [Next]_vars => IInv'
<1> SUFFICES ASSUME IInv, [Next]_vars PROVE IInv'
  OBVIOUS
<1>0. TypeOK /\ Honest /\ Frozen /\ OneEach
  BY DEF IInv
<1>1. ASSUME NEW n \in Node, Tick(n) PROVE IInv'
  <2>1. PICK t \in Readings : gossip' = [gossip EXCEPT ![n] = Pruned(n, t)]
    BY <1>1 DEF Tick
  <2>2. alarm' = NoAlarm /\ UNCHANGED <<now, ctx, sent>>
    BY <1>1 DEF Tick
  <2>3. /\ gossip' \in [Node -> SUBSET sent'] /\ OneEach'
        /\ \A m \in Node : Cardinality(gossip'[m]) <= TableCap
    BY <2>1, <2>2, PruneInv, TableChange
  <2> QED
    BY <1>0, <2>2, <2>3 DEF IInv, TypeOK, Honest, Frozen, Idle
<1>2. ASSUME NEW n \in Node, NEW c \in sent, Hear(n, c) PROVE IInv'
  <2>1. PICK t \in Readings : gossip' = [gossip EXCEPT ![n] = Heed(Pruned(n, t), c)]
    BY <1>2 DEF Hear
  <2>2. alarm' = NoAlarm /\ UNCHANGED <<now, ctx, sent>>
    BY <1>2 DEF Hear
  <2>3. /\ Heed(Pruned(n, t), c) \subseteq sent
        /\ Cardinality(Heed(Pruned(n, t), c)) <= TableCap
        /\ \A d, e \in Heed(Pruned(n, t), c) : d.mac = e.mac => d = e
    BY <1>0, PruneInv, TablesFinite, HeedKeeps
  <2>4. /\ gossip' \in [Node -> SUBSET sent'] /\ OneEach'
        /\ \A m \in Node : Cardinality(gossip'[m]) <= TableCap
    BY <2>1, <2>2, <2>3, TableChange
  <2> QED
    BY <1>0, <2>2, <2>4 DEF IInv, TypeOK, Honest, Frozen, Idle
<1>3. ASSUME NEW n \in Node, Dispatch(n) PROVE IInv'
  <2>1. PICK t \in Readings : gossip' = [gossip EXCEPT ![n] = Pruned(n, t)]
    BY <1>3 DEF Dispatch
  <2>2. PICK x : /\ \E r \in Readings : x = [current_time_us |-> r, from |-> now]
                 /\ ctx' = [ctx EXCEPT ![n] = x]
    BY <1>3 DEF Dispatch
  <2>3. alarm' = NoAlarm /\ UNCHANGED <<now, sent>>
    BY <1>3 DEF Dispatch
  <2>4. /\ gossip' \in [Node -> SUBSET sent'] /\ OneEach'
        /\ \A m \in Node : Cardinality(gossip'[m]) <= TableCap
    BY <2>1, <2>3, PruneInv, TableChange
  <2>5. ctx' \in [Node -> GossipContext \cup {NoScript}] /\ Frozen'
    BY <2>2, <2>3, ContextChange
  <2> QED
    BY <1>0, <2>3, <2>4, <2>5 DEF IInv, TypeOK, Honest
<1>4. ASSUME NEW n \in Node, NEW k \in K, SpatialAssert(n, k) PROVE IInv'
  <2>1. UNCHANGED <<now, gossip>> /\ alarm' \in {[node |-> n, k |-> k], NoAlarm}
    BY <1>4 DEF SpatialAssert
  <2>2. sent \subseteq sent' /\ sent' \subseteq Claim /\ IsFiniteSet(sent') /\ Honest'
    BY <1>4, SentGrows
  <2>3. ctx' \in [Node -> GossipContext \cup {NoScript}] /\ Frozen'
    <3>1. CASE Count(n) >= k
      <4>1. ctx' = [ctx EXCEPT ![n] = NoScript]
        BY <1>4, <3>1 DEF SpatialAssert
      <4> QED
        BY <2>1, <4>1, ContextChange
    <3>2. CASE ~(Count(n) >= k)
      <4>1. UNCHANGED ctx
        BY <1>4, <3>2 DEF SpatialAssert
      <4> QED
        BY <1>0, <2>1, <4>1 DEF TypeOK, Frozen, Idle
    <3> QED
      BY <3>1, <3>2
  <2>4. gossip' \in [Node -> SUBSET sent']
    BY <1>0, <2>1, <2>2 DEF TypeOK
  <2> QED
    BY <1>0, <2>1, <2>2, <2>3, <2>4 DEF IInv, TypeOK, OneEach
<1>5. ASSUME NEW n \in Node, Finish(n) PROVE IInv'
  <2>1. /\ ctx' = [ctx EXCEPT ![n] = NoScript] /\ alarm' = NoAlarm
        /\ UNCHANGED <<now, gossip, sent>>
    BY <1>5 DEF Finish
  <2>2. ctx' \in [Node -> GossipContext \cup {NoScript}] /\ Frozen'
    BY <2>1, ContextChange
  <2> QED
    BY <1>0, <2>1, <2>2 DEF IInv, TypeOK, Honest, OneEach
<1>6. ASSUME NEW n \in Node, Restart(n) PROVE IInv'
  <2>1. /\ gossip' = [gossip EXCEPT ![n] = {}] /\ alarm' = NoAlarm
        /\ ctx' = [ctx EXCEPT ![n] = NoScript] /\ UNCHANGED <<now, sent>>
    BY <1>6 DEF Restart
  <2>2. /\ {} \subseteq sent /\ Cardinality({}) <= TableCap
        /\ \A d, e \in {} : d.mac = e.mac => d = e
    BY FS_EmptySet, ScriptAssumption
  <2>3. /\ gossip' \in [Node -> SUBSET sent'] /\ OneEach'
        /\ \A m \in Node : Cardinality(gossip'[m]) <= TableCap
    BY <1>0, <2>1, <2>2 DEF TypeOK, OneEach
  <2>4. ctx' \in [Node -> GossipContext \cup {NoScript}] /\ Frozen'
    BY <2>1, ContextChange
  <2> QED
    BY <1>0, <2>1, <2>3, <2>4 DEF IInv, TypeOK, Honest
<1>7. CASE Advance
  <2>1. /\ now' = now + 1 /\ now' \in Boot..MaxTime /\ alarm' = NoAlarm
        /\ UNCHANGED <<gossip, ctx, sent>> /\ now \in Nat
    BY <1>0, <1>7, ClockAssumption DEF Advance, TypeOK
  <2>2. Honest'
    BY <1>0, <2>1, ClockAssumption DEF Honest
  <2>3. \A n \in Node : ~Idle(n) => now < ctx[n].from + MaxWait
    <3>1. Patience \in Nat /\ Patience <= MaxWait
      BY ClockAssumption DEF Patience
    <3>2. \A n \in Node : ~Idle(n) => ctx[n].from \in Nat /\ now < ctx[n].from + Patience
      BY <1>0, <1>7 DEF Advance, Frozen
    <3> HIDE DEF Patience
    <3> QED
      BY <2>1, <3>1, <3>2, ClockAssumption
  <2>4. Frozen'
    BY <1>0, <2>1, <2>3, ClockAssumption DEF Frozen, Idle
  <2> QED
    BY <1>0, <2>1, <2>2, <2>4 DEF IInv, TypeOK, OneEach
<1>8. CASE UNCHANGED vars
  BY <1>0, <1>8 DEF vars, IInv, TypeOK, Honest, Frozen, Idle, OneEach
<1> QED
  BY <1>1, <1>2, <1>3, <1>4, <1>5, <1>6, <1>7, <1>8 DEF Next, Step

LEMMA Invariance == Spec => []IInv
BY InitInv, NextInv, PTL DEF Spec

(* The tables stay within their capacity and hold only what was broadcast. *)
THEOREM TypeCorrect == Spec => []TypeOK
<1>1. IInv => TypeOK
  BY DEF IInv
<1> QED
  BY <1>1, Invariance, PTL

(* Pruning by clocks that disagree, of claims from the past and from the   *)
(* future, is right up to the skew of the clocks, counted from the moment  *)
(* at which the sender's tick read its clock (node.rs:134-137, 265, 325).  *)
THEOREM PruningIsTimely == ASSUME Ptp PROVE Spec => []PruningKeepsTime
<1>1. IInv => PruningKeepsTime
  <2> SUFFICES ASSUME IInv, NEW n \in Node, NEW t \in Readings, NEW c \in gossip[n]
               PROVE  /\ c \in Pruned(n, t) => now <= c.from + Ttl + Skew
                      /\ now + Skew <= c.from + Ttl => c \in Pruned(n, t)
    BY DEF PruningKeepsTime
  <2>1. c \in sent /\ now \in Nat
    BY TablesFinite, ClockAssumption DEF IInv, TypeOK
  <2>2. t \in Nat /\ t <= now /\ now <= t + Skew
    BY ReadingsKeepTime DEF IInv
  <2>3. /\ Age(t, c.ts) <= Ttl => now <= c.from + Ttl + Skew
        /\ now + Skew <= c.from + Ttl => Age(t, c.ts) <= Ttl
    BY <2>1, <2>2, AgeKeepsTime, ScriptAssumption DEF IInv
  <2> QED
    BY <2>3 DEF Pruned
<1> QED
  BY <1>1, Invariance, PTL

-----------------------------------------------------------------------------
(* The alarm                                                               *)

(* The neighbours that a node counts.                                      *)
Counted(n) == {c.mac : c \in {d \in gossip[n] : Confirms(n, d)}}

(* Each of them felt the hazard, at most Horizon ago: the window, the skew *)
(* and the time that the script of the node has waited.                    *)
LEMMA CountedFelt ==
  ASSUME IInv, Ptp, NEW n \in Node, ~Idle(n)
  PROVE  Counted(n) \subseteq Promise!Witnesses(n)
<1> SUFFICES ASSUME NEW c \in gossip[n], Confirms(n, c)
             PROVE  c.mac \in Promise!Witnesses(n)
  BY DEF Counted
<1> DEFINE t == ctx[n].current_time_us
           x == ctx[n].from
<1>1. c \in sent /\ c \in Claim
  BY TablesFinite DEF IInv, TypeOK
<1>2. c.mac \in Node /\ c.mac # n /\ c.score >= High /\ Age(t, c.ts) <= Window
  BY <1>1 DEF Confirms, Claim
<1>3. /\ t \in Nat /\ x \in Nat /\ t <= x /\ x <= t + Skew /\ now <= x + MaxWait
  BY DEF IInv, Frozen
<1> HIDE DEF t, x
<1>4. x <= c.from + Window + Skew
  BY <1>1, <1>2, <1>3, AgeKeepsTime, ScriptAssumption DEF IInv
<1>5. /\ c.at \in Nat /\ c.from \in Nat /\ c.from <= c.at /\ c.at <= now
      /\ now \in Nat
  BY <1>1, ClockAssumption DEF IInv, Honest, TypeOK
<1>6. c.at \in (now - Horizon)..now
  BY <1>3, <1>4, <1>5, ClockAssumption, ScriptAssumption DEF Horizon
<1>7. <<c.mac, c.at>> \in Felt
  BY <1>1, <1>2 DEF Felt
<1> QED
  BY <1>2, <1>6, <1>7 DEF Promise!Witnesses

LEMMA CountedFinite ==
  ASSUME NEW n \in Node, Counted(n) \subseteq Node
  PROVE  /\ IsFiniteSet(Counted(n)) /\ Cardinality(Counted(n)) \in Nat
         /\ Count(n) \in Nat /\ Count(n) <= Cardinality(Counted(n))
         /\ Cardinality(Counted(n)) <= TableCap => Count(n) = Cardinality(Counted(n))
<1>1. IsFiniteSet(Counted(n)) /\ Cardinality(Counted(n)) \in Nat
  BY SwarmAssumption, FS_Subset, FS_CardinalityType
<1>2. Count(n) = IF Cardinality(Counted(n)) <= TableCap THEN Cardinality(Counted(n))
                 ELSE TableCap
  BY DEF Count, Counted
<1> QED
  BY <1>1, <1>2, ScriptAssumption

LEMMA CountIsBacked ==
  ASSUME IInv, Ptp, NEW n \in Node, ~Idle(n), NEW k \in K, Count(n) >= k
  PROVE  Promise!Backed([node |-> n, k |-> k])
<1>1. Counted(n) \subseteq Promise!Witnesses(n) /\ Promise!Witnesses(n) \subseteq Node
  BY CountedFelt DEF Promise!Witnesses
<1>2. /\ Cardinality(Promise!Witnesses(n)) \in Nat
      /\ Cardinality(Counted(n)) <= Cardinality(Promise!Witnesses(n))
  BY <1>1, SwarmAssumption, FS_Subset, FS_CardinalityType
<1>3. Cardinality(Counted(n)) \in Nat /\ Count(n) \in Nat
      /\ Count(n) <= Cardinality(Counted(n))
  BY <1>1, CountedFinite
<1>4. Cardinality(Promise!Witnesses(n)) >= k
  BY <1>2, <1>3, ScriptAssumption
<1> QED
  BY <1>4, Z3 DEF Promise!Backed, Promise!Cardinality, Cardinality

LEMMA FeltGrows ==
  ASSUME NEW n, NEW score \in Nat, sent' = sent \cup {Own(n, score)}
  PROVE  Felt' = IF score >= High THEN Felt \cup {<<n, now>>} ELSE Felt
<1>1. Own(n, score).mac = n /\ Own(n, score).at = now /\ Own(n, score).score = score
  BY DEF Own
<1>2. {d \in sent' : d.score >= High} =
        IF score >= High THEN {d \in sent : d.score >= High} \cup {Own(n, score)}
        ELSE {d \in sent : d.score >= High}
  BY <1>1
<1> QED
  BY <1>1, <1>2 DEF Felt

(* A hazard is felt by the node alone, and only if it is serious.          *)
LEMMA FeltByOne ==
  ASSUME IInv, NEW n \in Node, NEW k \in K, SpatialAssert(n, k)
  PROVE  Felt' \in {Felt, Felt \cup {<<n, now>>}}
<1>1. CASE sent' = sent
  BY <1>1 DEF Felt
<1>2. ASSUME NEW score \in Score, sent' = sent \cup {Own(n, score)}
      PROVE  Felt' \in {Felt, Felt \cup {<<n, now>>}}
  BY <1>2, FeltGrows, ScriptAssumption
<1> QED
  BY <1>1, <1>2, SentGrows

LEMMA AssertImplements ==
  ASSUME IInv, Ptp, NEW n \in Node, NEW k \in K, SpatialAssert(n, k)
  PROVE  Promise!Next
<1>1. /\ ~Idle(n) /\ UNCHANGED now
      /\ alarm' = IF Count(n) >= k THEN [node |-> n, k |-> k] ELSE NoAlarm
  BY DEF SpatialAssert
<1>2. Felt' \in {Felt, Felt \cup {<<n, now>>}}
  BY FeltByOne
<1>3. CASE Count(n) >= k
  <2> DEFINE a == [node |-> n, k |-> k]
  <2>1. a \in Promise!Alarm /\ a.node = n /\ Promise!Backed(a)
    BY <1>1, <1>3, CountIsBacked DEF Promise!Alarm
  <2>2. alarm' = a /\ Felt' \in {Felt, Felt \cup {<<a.node, now>>}}
    BY <1>1, <1>2, <1>3, <2>1
  <2> HIDE DEF a
  <2>3. Promise!Raise(a)
    BY <1>1, <2>1, <2>2 DEF Promise!Raise
  <2> QED
    BY <2>1, <2>3 DEF Promise!Next
<1>4. CASE ~(Count(n) >= k)
  <2>1. CASE Felt' = Felt \cup {<<n, now>>}
    BY <1>1, <1>4, <2>1 DEF Promise!Next, Promise!Feel
  <2>2. CASE Felt' = Felt
    BY <1>1, <1>4, <2>2 DEF Promise!Next, Promise!Quiet
  <2> QED
    BY <1>2, <2>1, <2>2
<1> QED
  BY <1>3, <1>4

LEMMA StepImplements ==
  ASSUME IInv, Ptp, [Next]_vars
  PROVE  [Promise!Next]_(Promise!vars)
<1>1. ASSUME UNCHANGED <<now, sent>>, alarm' = NoAlarm PROVE Promise!Next
  BY <1>1 DEF Promise!Next, Promise!Quiet, Felt
<1>2. ASSUME NEW n \in Node, Step(n) PROVE Promise!Next
  <2>1. CASE Tick(n) \/ Dispatch(n) \/ Finish(n) \/ Restart(n)
    BY <1>1, <2>1 DEF Tick, Dispatch, Finish, Restart
  <2>2. CASE \E c \in sent : Hear(n, c)
    BY <1>1, <2>2 DEF Hear
  <2>3. CASE \E k \in K : SpatialAssert(n, k)
    BY <2>3, AssertImplements
  <2> QED
    BY <1>2, <2>1, <2>2, <2>3 DEF Step
<1>3. CASE Advance
  <2>1. now' > now
    BY <1>3, ClockAssumption DEF Advance, IInv, TypeOK
  <2> QED
    BY <1>3, <2>1 DEF Advance, Promise!Next, Promise!Pass, Felt
<1>4. CASE UNCHANGED vars
  BY <1>4 DEF vars, Promise!vars, Felt
<1> QED
  BY <1>2, <1>3, <1>4 DEF Next

(* In a swarm with synchronized clocks every alarm is backed by as many    *)
(* other nodes as the script asked for, each of which felt a serious       *)
(* hazard within the time window, the skew and the longest wait of a       *)
(* script: claims that arrive late, twice, out of order or before a        *)
(* restart confirm nothing they should not (std_impl.rs:345-354).          *)
THEOREM AlarmsAreBacked == ASSUME Ptp PROVE Spec => ImplementsPromise
<1>1. Init => Promise!Init
  BY DEF Init, Promise!Init, Felt
<1>2. IInv /\ [Next]_vars => [Promise!Next]_(Promise!vars)
  BY StepImplements
<1> QED
  BY <1>1, <1>2, Invariance, PTL DEF Spec, ImplementsPromise, Promise!Spec

-----------------------------------------------------------------------------
(* The confirmations                                                       *)

(* When a node last looked at the clock, to prune or to count.             *)
Since(n) == IF Idle(n) THEN now ELSE ctx[n].from

(* What a node heard last of a neighbour is in its table while it counts.  *)
Kept == \A n \in Node :
  /\ heard[n] \subseteq sent
  /\ \A c \in gossip[n] \cup heard[n] : c.mac # n
  /\ \A d \in heard[n] : Since(n) + Skew <= d.from + Ttl => d \in gossip[n]

HInv == IInv /\ heard \in [Node -> SUBSET sent] /\ Kept

(* A table with a place for each neighbour, kept as long as a claim counts. *)
Room == Cardinality(Node) <= TableCap + 1 /\ Window <= Ttl

LEMMA SinceNat ==
  ASSUME IInv, NEW n \in Node
  PROVE  Since(n) \in Nat /\ Since(n) <= now /\ now \in Nat
<1>1. now \in Nat
  BY ClockAssumption DEF IInv, TypeOK
<1> QED
  BY <1>1 DEF Since, IInv, Frozen

(* A script takes its context when it begins and keeps it to its end.      *)
LEMMA SinceGrows ==
  ASSUME IInv, [Next]_vars, NEW n \in Node
  PROVE  Since(n)' \in Nat /\ Since(n) <= Since(n)'
<1>0. /\ IInv' /\ ctx \in [Node -> GossipContext \cup {NoScript}]
      /\ Since(n) \in Nat /\ Since(n) <= now /\ now \in Nat
  BY NextInv, SinceNat DEF IInv, TypeOK
<1>1. now' \in Nat /\ now <= now'
  <2>1. CASE Advance
    BY <1>0, <2>1 DEF Advance
  <2>2. CASE \E m \in Node : Step(m)
    BY <1>0, <2>2 DEF Step, Tick, Hear, Dispatch, SpatialAssert, Finish, Restart
  <2>3. CASE UNCHANGED vars
    BY <1>0, <2>3 DEF vars
  <2> QED
    BY <2>1, <2>2, <2>3 DEF Next
<1>2. CASE ctx'[n] = NoScript
  BY <1>0, <1>1, <1>2 DEF Since, Idle
<1>3. CASE ctx'[n] = ctx[n] /\ ctx[n] # NoScript
  BY <1>0, <1>3 DEF Since, Idle
<1>4. CASE ctx'[n] # NoScript /\ ctx'[n] # ctx[n]
  <2>1. PICK m \in Node : Step(m)
    BY <1>4 DEF Next, Advance, vars
  <2>2. m = n /\ Dispatch(n)
    <3>1. CASE Tick(m) \/ \E c \in sent : Hear(m, c)
      BY <1>4, <3>1 DEF Tick, Hear
    <3>2. CASE Finish(m) \/ Restart(m) \/ \E k \in K : SpatialAssert(m, k)
      BY <1>0, <1>4, <3>2 DEF Finish, Restart, SpatialAssert
    <3>3. CASE Dispatch(m)
      BY <1>0, <1>4, <3>3 DEF Dispatch
    <3> QED
      BY <2>1, <3>1, <3>2, <3>3 DEF Step
  <2>3. PICK t \in Readings : ctx' = [ctx EXCEPT ![n] = [current_time_us |-> t, from |-> now]]
    BY <2>2 DEF Dispatch
  <2>4. ctx'[n].from = now
    BY <1>0, <2>3
  <2> QED
    BY <1>0, <1>4, <2>4 DEF Since, Idle
<1> QED
  BY <1>2, <1>3, <1>4

LEMMA YoungStays ==
  ASSUME HInv, Ptp, NEW n \in Node, Idle(n), NEW t \in Readings,
         NEW d \in heard[n], now + Skew <= d.from + Ttl
  PROVE  d \in Pruned(n, t)
<1>1. d \in gossip[n] /\ d \in sent
  BY DEF HInv, Kept, Since
<1>2. t \in Nat /\ t <= now /\ now <= t + Skew /\ now \in Nat
  BY ReadingsKeepTime, ClockAssumption DEF HInv, IInv, TypeOK
<1>3. Age(t, d.ts) <= Ttl
  BY <1>1, <1>2, AgeKeepsTime, ScriptAssumption DEF HInv, IInv
<1> QED
  BY <1>1, <1>3 DEF Pruned

(* Without a claim of the mac in it, the table has a place for one.        *)
LEMMA PlaceLeft ==
  ASSUME HInv, Room, NEW n \in Node, NEW m \in Node \ {n}, NEW t,
         \A d \in Pruned(n, t) : d.mac # m
  PROVE  Cardinality(Pruned(n, t)) < TableCap
<1> DEFINE others == (Node \ {n}) \ {m}
           table == Pruned(n, t)
           macOf == [d \in table |-> d.mac]
<1>1. /\ IsFiniteSet(others) /\ Cardinality(others) = Cardinality(Node) - 2
      /\ Cardinality(others) \in Nat /\ Cardinality(Node) \in Nat
  <2>1. IsFiniteSet(Node \ {n}) /\ Cardinality(Node \ {n}) = Cardinality(Node) - 1
    BY SwarmAssumption, FS_RemoveElement
  <2>2. IsFiniteSet(others) /\ Cardinality(others) = Cardinality(Node \ {n}) - 1
    BY <2>1, FS_RemoveElement
  <2>3. Cardinality(others) \in Nat /\ Cardinality(Node) \in Nat
    BY <2>2, SwarmAssumption, FS_CardinalityType
  <2> QED
    BY <2>1, <2>2, <2>3
<1>2. \A d \in table : d \in gossip[n] /\ d \in Claim
  BY TablesFinite DEF HInv, IInv, TypeOK
<1>3. \A d \in table : d.mac \in others
  BY <1>2 DEF HInv, Kept, Claim
<1>4. macOf \in Injection(table, others)
  <2>1. \A d, e \in table : d.mac = e.mac => d = e
    BY PruneInv DEF HInv
  <2> HIDE DEF table
  <2> QED
    BY <1>3, <2>1 DEF Injection, IsInjective
<1>5. Cardinality(table) \in Nat /\ IsFiniteSet(table)
  BY TablesFinite DEF HInv, IInv
<1> HIDE DEF table, others
<1>6. Cardinality(table) <= Cardinality(others)
  BY <1>1, <1>4, FS_Injection
<1>7. Cardinality(table) < TableCap
  BY <1>1, <1>5, <1>6, ScriptAssumption DEF Room
<1> QED
  BY <1>7 DEF table

LEMMA InitKept == HistoryInit => HInv
<1> SUFFICES ASSUME HistoryInit PROVE HInv
  OBVIOUS
<1>1. IInv
  BY InitInv DEF HistoryInit
<1> QED
  BY <1>1 DEF HistoryInit, HInv, Kept, Init

(* A table that is left alone, and one that only lost what is too old.     *)
LEMMA SameKeeps ==
  ASSUME HInv, [Next]_vars, UNCHANGED <<gossip, heard>>, sent \subseteq sent'
  PROVE  Kept' /\ heard' \in [Node -> SUBSET sent']
<1>1. ASSUME NEW n \in Node, NEW d \in heard[n], Since(n)' + Skew <= d.from + Ttl
      PROVE  d \in gossip[n]
  <2>1. Since(n)' \in Nat /\ Since(n) \in Nat /\ Since(n) <= Since(n)'
    BY SinceGrows, SinceNat DEF HInv
  <2>2. d.from \in Nat
    BY DEF HInv, Kept, IInv, Honest
  <2>3. Since(n) + Skew <= d.from + Ttl
    BY <1>1, <2>1, <2>2, ClockAssumption, ScriptAssumption
  <2> QED
    BY <2>3 DEF HInv, Kept
<1> QED
  BY <1>1 DEF HInv, Kept

LEMMA PrunedKeeps ==
  ASSUME HInv, [Next]_vars, Ptp, NEW n \in Node, Idle(n), NEW t \in Readings,
         gossip' = [gossip EXCEPT ![n] = Pruned(n, t)], UNCHANGED <<now, sent, heard>>
  PROVE  Kept' /\ heard' \in [Node -> SUBSET sent']
<1>1. gossip \in [Node -> SUBSET sent] /\ Pruned(n, t) \subseteq gossip[n]
  BY TablesFinite DEF HInv, IInv, TypeOK
<1>2. ASSUME NEW m \in Node, NEW d \in heard[m], Since(m)' + Skew <= d.from + Ttl
      PROVE  d \in gossip'[m]
  <2>1. Since(m)' \in Nat /\ Since(m) \in Nat /\ Since(m) <= Since(m)'
    BY SinceGrows, SinceNat DEF HInv
  <2>2. d.from \in Nat
    BY DEF HInv, Kept, IInv, Honest
  <2>3. Since(m) + Skew <= d.from + Ttl
    BY <1>2, <2>1, <2>2, ClockAssumption, ScriptAssumption
  <2>4. CASE m = n
    <3>1. now + Skew <= d.from + Ttl
      BY <2>3, <2>4 DEF Since
    <3>2. d \in Pruned(n, t)
      BY <2>4, <3>1, YoungStays
    <3> QED
      BY <1>1, <2>4, <3>2
  <2>5. CASE m # n
    BY <1>1, <2>3, <2>5 DEF HInv, Kept
  <2> QED
    BY <2>4, <2>5
<1> QED
  BY <1>1, <1>2 DEF HInv, Kept

LEMMA HearsKeeps ==
  ASSUME HInv, Ptp, Room, NEW n \in Node, NEW c \in sent, Hears(n, c)
  PROVE  Kept' /\ heard' \in [Node -> SUBSET sent']
<1>0. PICK t \in Readings : gossip' = [gossip EXCEPT ![n] = Heed(Pruned(n, t), c)]
  BY DEF Hears, Hear
<1> DEFINE table == Heed(Pruned(n, t), c)
           last == {d \in heard[n] : d.mac # c.mac} \cup {c}
<1>1. /\ gossip' = [gossip EXCEPT ![n] = table] /\ heard' = [heard EXCEPT ![n] = last]
      /\ UNCHANGED <<now, ctx, sent>> /\ c.mac # n /\ Idle(n)
  BY <1>0 DEF Hears, Hear
<1>2. c.mac \in Node \ {n}
  BY <1>1 DEF HInv, IInv, TypeOK, Claim
<1>3. c \in table /\ \A d \in Pruned(n, t) : d.mac # c.mac => d \in table
  <2>1. CASE \E d \in Pruned(n, t) : d.mac = c.mac
    BY <2>1 DEF Heed
  <2>2. CASE \A d \in Pruned(n, t) : d.mac # c.mac
    <3>1. Cardinality(Pruned(n, t)) < TableCap
      BY <1>2, <2>2, PlaceLeft
    <3> QED
      BY <2>2, <3>1 DEF Heed
  <2> QED
    BY <2>1, <2>2
<1>4. \A d \in last : now + Skew <= d.from + Ttl => d \in table
  BY <1>1, <1>3, YoungStays
<1>5. /\ gossip \in [Node -> SUBSET sent] /\ heard \in [Node -> SUBSET sent]
      /\ Pruned(n, t) \subseteq gossip[n]
  BY TablesFinite DEF HInv, IInv, TypeOK
<1>6. table \subseteq gossip[n] \cup {c} /\ last \subseteq heard[n] \cup {c}
  BY <1>5 DEF Heed
<1>7. \A d \in table \cup last : d.mac # n
  BY <1>1, <1>6 DEF HInv, Kept
<1>8. table \subseteq sent /\ last \subseteq sent
  BY <1>5, <1>6
<1>9. \A m \in Node : Since(m)' = Since(m) /\ (m = n => Since(m) = now)
  BY <1>1 DEF Since, Idle
<1> HIDE DEF table, last
<1> QED
  BY <1>1, <1>4, <1>5, <1>7, <1>8, <1>9 DEF HInv, Kept

LEMMA ForgetsKeeps ==
  ASSUME HInv, NEW n \in Node, Forgets(n)
  PROVE  Kept' /\ heard' \in [Node -> SUBSET sent']
<1>1. /\ gossip' = [gossip EXCEPT ![n] = {}] /\ heard' = [heard EXCEPT ![n] = {}]
      /\ ctx' = [ctx EXCEPT ![n] = NoScript] /\ UNCHANGED <<now, sent>>
  BY DEF Forgets, Restart
<1>2. /\ gossip \in [Node -> SUBSET sent] /\ heard \in [Node -> SUBSET sent]
      /\ ctx \in [Node -> GossipContext \cup {NoScript}]
  BY DEF HInv, IInv, TypeOK
<1>3. \A m \in Node : m # n => Since(m)' = Since(m)
  BY <1>1, <1>2 DEF Since, Idle
<1> QED
  BY <1>1, <1>2, <1>3 DEF HInv, Kept

LEMMA NextKept ==
  ASSUME Ptp, Room, HInv, [HistoryNext]_historyVars
  PROVE  HInv'
<1>0. [Next]_vars
  BY SwarmAssumption DEF HistoryNext, historyVars, Hears, Forgets, Next, Step
<1>1. IInv'
  BY <1>0, NextInv DEF HInv
<1>2. ASSUME NEW n \in Listener, NEW c \in sent, Hears(n, c)
      PROVE  Kept' /\ heard' \in [Node -> SUBSET sent']
  BY <1>2, HearsKeeps, SwarmAssumption
<1>3. ASSUME NEW n \in Node, Forgets(n)
      PROVE  Kept' /\ heard' \in [Node -> SUBSET sent']
  BY <1>3, ForgetsKeeps
<1>4. ASSUME NEW n \in Node, Tick(n) \/ Dispatch(n), UNCHANGED heard
      PROVE  Kept' /\ heard' \in [Node -> SUBSET sent']
  <2>1. PICK t \in Readings : gossip' = [gossip EXCEPT ![n] = Pruned(n, t)]
    BY <1>4 DEF Tick, Dispatch
  <2>2. Idle(n) /\ UNCHANGED <<now, sent>>
    BY <1>4 DEF Tick, Dispatch
  <2> QED
    BY <1>0, <1>4, <2>1, <2>2, PrunedKeeps
<1>5. ASSUME NEW n \in Node, NEW k \in K, SpatialAssert(n, k), UNCHANGED heard
      PROVE  Kept' /\ heard' \in [Node -> SUBSET sent']
  <2>1. gossip' = gossip /\ sent \subseteq sent'
    BY <1>5, SentGrows DEF SpatialAssert, HInv
  <2> QED
    BY <1>0, <1>5, <2>1, SameKeeps
<1>6. ASSUME \/ Advance \/ \E n \in Node : Finish(n), UNCHANGED heard
      PROVE  Kept' /\ heard' \in [Node -> SUBSET sent']
  <2>1. UNCHANGED <<gossip, sent>>
    BY <1>6 DEF Advance, Finish
  <2> QED
    BY <1>0, <1>6, <2>1, SameKeeps
<1>7. ASSUME UNCHANGED historyVars
      PROVE  Kept' /\ heard' \in [Node -> SUBSET sent']
  <2>1. UNCHANGED <<gossip, heard, sent>>
    BY <1>7 DEF historyVars, vars
  <2> QED
    BY <1>0, <2>1, SameKeeps
<1>8. Kept' /\ heard' \in [Node -> SUBSET sent']
  BY <1>2, <1>3, <1>4, <1>5, <1>6, <1>7 DEF HistoryNext
<1> QED
  BY <1>1, <1>8 DEF HInv

LEMMA KeptIsCounted ==
  ASSUME Ptp, Room, HInv
  PROVE  NoWitnessForgotten
<1> SUFFICES ASSUME NEW n \in Node, ~Idle(n)
             PROVE  Cardinality(LastHeardSerious(n)) <= Count(n)
  BY DEF NoWitnessForgotten
<1> DEFINE t == ctx[n].current_time_us
           x == ctx[n].from
<1>0. /\ t \in Nat /\ x \in Nat /\ t <= x /\ x <= t + Skew /\ Since(n) = x
  BY DEF HInv, IInv, Frozen, Since
<1>1. ASSUME NEW d \in heard[n], d.score >= High, x + Skew <= d.from + Window
      PROVE  d.mac \in Counted(n)
  <2> HIDE DEF t, x
  <2>1. d \in sent /\ d.from \in Nat /\ d.mac # n
    BY DEF HInv, Kept, IInv, Honest
  <2>2. x + Skew <= d.from + Ttl
    BY <1>0, <1>1, <2>1, ClockAssumption, ScriptAssumption DEF Room
  <2>3. d \in gossip[n]
    BY <1>0, <2>2 DEF HInv, Kept
  <2>4. Age(t, d.ts) <= Window
    BY <1>0, <1>1, <2>1, AgeKeepsTime, ScriptAssumption DEF HInv, IInv
  <2>5. Confirms(n, d)
    BY <1>1, <2>1, <2>4 DEF Confirms, t
  <2> QED
    BY <2>3, <2>5 DEF Counted
<1>2. LastHeardSerious(n) \subseteq Counted(n)
  BY <1>1 DEF LastHeardSerious
<1>3. Counted(n) \subseteq Node \ {n}
  <2>1. \A c \in gossip[n] : c \in Claim
    BY TablesFinite DEF HInv, IInv, TypeOK
  <2> QED
    BY <2>1 DEF Counted, Confirms, Claim
<1>4. /\ IsFiniteSet(Node \ {n}) /\ Cardinality(Node \ {n}) = Cardinality(Node) - 1
      /\ Cardinality(Node) \in Nat
  BY SwarmAssumption, FS_RemoveElement, FS_CardinalityType
<1>5. IsFiniteSet(Counted(n)) /\ Cardinality(Counted(n)) <= Cardinality(Node \ {n})
      /\ Cardinality(Counted(n)) \in Nat
  BY <1>3, <1>4, FS_Subset, FS_CardinalityType
<1>6. Count(n) = Cardinality(Counted(n))
  <2>1. Cardinality(Counted(n)) <= TableCap
    BY <1>4, <1>5, ScriptAssumption DEF Room
  <2> QED
    BY <1>3, <2>1, CountedFinite
<1>7. Cardinality(LastHeardSerious(n)) <= Cardinality(Counted(n))
  BY <1>2, <1>5, FS_Subset
<1> QED
  BY <1>6, <1>7

(* In a swarm no larger than the table, with a window within the validity, *)
(* no confirmation that the radio delivered is lost before it is counted:  *)
(* not by the pruning, the places of the table or the clocks.              *)
THEOREM ConfirmationsAreKept ==
  ASSUME Ptp, Room PROVE HistorySpec => []NoWitnessForgotten
<1>1. HInv /\ [HistoryNext]_historyVars => HInv'
  BY NextKept
<1>2. HInv => NoWitnessForgotten
  BY KeptIsCounted
<1> QED
  BY <1>1, <1>2, InitKept, PTL DEF HistorySpec
=============================================================================
