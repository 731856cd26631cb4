--------------------------- MODULE VerifiedVmProofs ---------------------------
(***************************************************************************)
(* Theorems about what the verifier promises of a run, and about the       *)
(* MicroVm and the generated code side by side.                            *)
(***************************************************************************)
EXTENDS MicroVmProofs, SumTheorems

-----------------------------------------------------------------------------
(* The sum of the speeds.                                                  *)

(* The most that a step or an instruction may add to the sum, as the       *)
(* verifier counts it, and the sums of it over the first steps.            *)
ScriptSpeeds(steps) ==
  [i \in DOMAIN steps |-> IF steps[i].op = "SetPwm" THEN steps[i].speed ELSE 0]
CodeSpeeds(code) == [i \in DOMAIN code |-> WorstSpeed(code[i].op)]
SumsTo(f, n) == CHOOSE P : IsPartialSums(P, f, n)

SpentSoFar == IF entry = "script"
              THEN SumsTo(ScriptSpeeds(program.steps), Len(program.steps))[pc]
              ELSE SumsTo(CodeSpeeds(program.code), Len(program.code))[pc]

(* What has been set is at most what the verifier counts for the steps     *)
(* that the machine has begun.                                             *)
WithinSpent == /\ machine = "script" => pc <= Len(program.steps)
               /\ machine = "std" => pc <= Len(program.code)
               /\ Verified => work <= SpentSoFar

LEMMA ScriptSums ==
  ASSUME NEW steps \in Seq(VmStep), NEW P, P = SumsTo(ScriptSpeeds(steps), Len(steps))
  PROVE  /\ ScriptCurrent(steps) \in Nat
         /\ \A k \in 0..Len(steps) : P[k] \in Nat /\ P[k] <= ScriptCurrent(steps)
         /\ P[0] = 0
         /\ \A k \in 0..Len(steps) - 1 :
              /\ P[k] <= P[k + 1]
              /\ steps[k + 1].op = "SetPwm" => P[k + 1] = P[k] + steps[k + 1].speed
<1> DEFINE n == Len(steps)
           f == ScriptSpeeds(steps)
<1>1. n \in Nat /\ DOMAIN steps = 1..n /\ \A i \in 1..n : steps[i] \in VmStep
  OBVIOUS
<1>0. \A v \in Speed : v \in Nat
  BY SpeedAssumption
<1>2. \A i \in 1..n : steps[i].op = "SetPwm" => steps[i].speed \in Nat
  <2> SUFFICES ASSUME NEW i \in 1..n, steps[i].op = "SetPwm" PROVE steps[i].speed \in Nat
    OBVIOUS
  <2>1. steps[i].speed \in Speed
    BY <1>1 DEF VmStep
  <2> QED BY <1>0, <2>1
<1>3. /\ f \in [1..n -> Nat]
      /\ \A i \in 1..n : steps[i].op = "SetPwm" => f[i] = steps[i].speed
  BY <1>1, <1>2 DEF ScriptSpeeds
<1>4. SumFunction(f) = ScriptCurrent(steps)
  BY DEF ScriptSpeeds, ScriptCurrent
<1> HIDE DEF f, n
<1>5. IsPartialSums(P, f, n)
  BY <1>1, <1>3, PartialSums DEF SumsTo, f, n
<1>6. \A k \in 0..n - 1 : k \in 0..n /\ k + 1 \in 0..n /\ k + 1 \in 1..n
  BY <1>1
<1>7. \A k \in 0..n - 1 : P[k] <= P[k + 1] /\ P[k + 1] = P[k] + f[k + 1]
  BY <1>3, <1>5, <1>6 DEF IsPartialSums
<1>8. /\ SumFunction(f) \in Nat
      /\ \A k \in 0..n : P[k] \in Nat /\ P[k] <= SumFunction(f)
  BY <1>1, <1>5 DEF IsPartialSums
<1>9. P[0] = 0
  BY <1>5 DEF IsPartialSums
<1> QED BY <1>3, <1>4, <1>6, <1>7, <1>8, <1>9 DEF n

LEMMA CodeSums ==
  ASSUME NEW code \in Seq(StdStep), NEW P, P = SumsTo(CodeSpeeds(code), Len(code))
  PROVE  /\ SumFunction(CodeSpeeds(code)) \in Nat
         /\ \A k \in 0..Len(code) : P[k] \in Nat /\ P[k] <= SumFunction(CodeSpeeds(code))
         /\ P[0] = 0
         /\ \A k \in 0..Len(code) - 1 : P[k + 1] = P[k] + WorstSpeed(code[k + 1].op)
<1> DEFINE n == Len(code)
           f == CodeSpeeds(code)
<1>1. n \in Nat /\ DOMAIN code = 1..n
  OBVIOUS
<1>2. f \in [1..n -> Nat] /\ \A i \in 1..n : f[i] = WorstSpeed(code[i].op)
  BY <1>1 DEF CodeSpeeds, WorstSpeed
<1> HIDE DEF f, n
<1>3. IsPartialSums(P, f, n)
  BY <1>1, <1>2, PartialSums DEF SumsTo, f, n
<1>4. \A k \in 0..n - 1 : k + 1 \in 1..n
  BY <1>1
<1>5. \A k \in 0..n - 1 : P[k + 1] = P[k] + WorstSpeed(code[k + 1].op)
  BY <1>2, <1>3, <1>4 DEF IsPartialSums
<1>6. /\ SumFunction(f) \in Nat
      /\ \A k \in 0..n : P[k] \in Nat /\ P[k] <= SumFunction(f)
  BY <1>1, <1>3 DEF IsPartialSums
<1>7. P[0] = 0
  BY <1>3 DEF IsPartialSums
<1> QED BY <1>5, <1>6, <1>7 DEF n, f

(* No instruction sets a speed above the one the verifier counts for it.   *)
LEMMA WorstSpeedIsWorst ==
  ASSUME NEW s \in StdStep, NEW e \in ExecuteStep(s), NEW v \in e.sets
  PROVE  v \in Nat /\ v <= WorstSpeed(s.op) /\ WorstSpeed(s.op) \in Nat
<1> USE DEF Quiet, Sets, Fails, Hazard, WorstSpeed
<1>0. \A w \in Speed : w \in Nat /\ w <= 255
  BY SpeedAssumption
<1>1. CASE s.op = "AssertVibration"
  BY <1>1 DEF ExecuteStep, AssertVibration
<1>2. CASE s.op = "AvoidResonance"
  BY <1>2 DEF ExecuteStep, AvoidResonance, Steering
<1>3. CASE s.op = "MultiBandAssert"
  BY <1>3 DEF ExecuteStep, MultiBandAssert
<1>4. CASE s.op = "SpectrumAdaptive"
  BY <1>4 DEF ExecuteStep, SpectrumAdaptive, Steering
<1>5. CASE s.op \in {"DelayUntil", "SyncHibernate"}
  BY <1>5 DEF ExecuteStep, DelayUntil, SyncHibernate
<1>6. CASE s.op = "SpatialConsensusAssert"
  BY <1>6 DEF ExecuteStep, SpatialConsensusAssert
<1>7. CASE s.op = "HardwareFadePwm"
  <2>1. v = s.a0
    BY <1>7 DEF ExecuteStep, HardwareFadePwm
  <2>2. s.a0 \in Speed
    BY DEF StdStep
  <2> QED BY <1>0, <1>7, <2>1, <2>2
<1>8. CASE s.op = "SensorFusion"
  BY <1>8 DEF ExecuteStep, SensorFusion
<1>9. CASE s.op = "ClosedLoopPID"
  <2>1. v \in Speed
    BY EffectTypes
  <2> QED BY <1>0, <1>9, <2>1
<1>10. CASE s.op = "SpatialRanging"
  BY <1>10 DEF ExecuteStep, SpatialRanging
<1>11. CASE s.op \in {"AcousticCheck", "EnvelopeCheck", "Unknown"}
  BY <1>11 DEF ExecuteStep
<1> QED BY <1>1, <1>2, <1>3, <1>4, <1>5, <1>6, <1>7, <1>8, <1>9, <1>10, <1>11
        DEF StdStep, StdOpCode

LEMMA CurrentTypes == MaxCurrent \in Nat /\ \A v \in Speed : v \in Nat
BY CurrentAssumption, SpeedAssumption

LEMMA Spends == Spec => []WithinSpent
<1>0. ASSUME TypeOK
      PROVE  /\ program.steps \in Seq(VmStep) /\ program.code \in Seq(StdStep)
             /\ Len(program.steps) \in Nat /\ Len(program.code) \in Nat
             /\ pc \in Nat /\ work \in Nat
  BY <1>0, StepTypes DEF TypeOK, Program
<1>1. Init => WithinSpent
  <2> SUFFICES ASSUME Init PROVE WithinSpent
    OBVIOUS
  <2>1. /\ program.steps \in Seq(VmStep) /\ program.code \in Seq(StdStep)
        /\ pc = 0 /\ work = 0
    BY ProgramAssumption DEF Init, Program
  <2>2. SpentSoFar = 0
    BY <2>1, ScriptSums, CodeSums DEF SpentSoFar
  <2>3. Len(program.steps) \in Nat /\ Len(program.code) \in Nat
    BY <2>1
  <2> QED BY <2>1, <2>2, <2>3 DEF WithinSpent
<1>2. IInv /\ WithinSpent /\ [Next]_vars => WithinSpent'
  <2> SUFFICES ASSUME IInv, WithinSpent, [Next]_vars PROVE WithinSpent'
    OBVIOUS
  <2>0. TypeOK /\ Dispatched
    BY DEF IInv
  <2>t. /\ program.steps \in Seq(VmStep) /\ program.code \in Seq(StdStep)
        /\ Len(program.steps) \in Nat /\ Len(program.code) \in Nat
        /\ pc \in Nat /\ work \in Nat
    BY <2>0, <1>0
  <2>c. program' = program /\ entry' = entry /\ Verified' = Verified
    BY DEF Next, RunSetPwm, RunDelay, RunAssert, Fetches, FallBack, RunStd, OutOfFuel,
           Complete, Over, vars, Verified
  <2>m. machine' = machine /\ pc' = pc /\ work' = work => WithinSpent'
    BY <2>c DEF WithinSpent, SpentSoFar
  <2>1. ASSUME RunSetPwm \/ RunDelay \/ RunAssert PROVE WithinSpent'
    <3>1. /\ machine = "script" /\ machine' = machine /\ entry = "script" /\ More
          /\ pc' = pc + 1
      BY <2>1, <2>0 DEF RunSetPwm, RunDelay, RunAssert, Fetches, Dispatched
    <3>2. pc < Len(program.steps)
      BY <3>1 DEF More
    <3> DEFINE P == SumsTo(ScriptSpeeds(program.steps), Len(program.steps))
    <3>3. SpentSoFar = P[pc] /\ SpentSoFar' = P[pc + 1]
      BY <2>c, <3>1 DEF SpentSoFar
    <3>4. pc \in 0..Len(program.steps) - 1 /\ pc + 1 \in 0..Len(program.steps)
          /\ pc \in 0..Len(program.steps)
      BY <3>2, <2>t
    <3>5. /\ P[pc] \in Nat /\ P[pc + 1] \in Nat /\ P[pc] <= P[pc + 1]
          /\ Step.op = "SetPwm" => P[pc + 1] = P[pc] + Step.speed
      BY <3>4, <2>t, ScriptSums DEF Step
    <3> HIDE DEF P
    <3>6. \/ work' = work
          \/ Step.op = "SetPwm" /\ work' = work + Step.speed /\ Step.speed \in Nat
      <4>1. CASE RunSetPwm
        <5>1. Step \in VmStep /\ Step.op = "SetPwm"
          BY <4>1, <2>0, StepTypes DEF RunSetPwm, Fetches
        <5>2. Step.speed \in Speed
          BY <5>1 DEF VmStep
        <5>3. Step.speed \in Nat
          BY <5>2, CurrentTypes
        <5>4. work' = work \/ work' = work + Step.speed
          BY <4>1 DEF RunSetPwm
        <5> QED BY <5>1, <5>3, <5>4, <2>t
      <4>2. CASE RunDelay \/ RunAssert
        BY <4>2, <2>t DEF RunDelay, RunAssert
      <4> QED BY <2>1, <4>1, <4>2
    <3>7. work <= SpentSoFar => work' <= SpentSoFar'
      BY <2>t, <3>3, <3>5, <3>6
    <3>8. Verified' => work' <= SpentSoFar'
      BY <2>c, <3>7 DEF WithinSpent
    <3> QED BY <3>1, <3>4, <3>8, <2>c, <2>t DEF WithinSpent
  <2>2. CASE FallBack
    <3>1. program.readable < Len(program.steps) /\ entry = "script"
      BY <2>2, <2>0, <2>t, StepTypes DEF FallBack, More, Dispatched
    <3>2. ~Verified
      BY <3>1, <2>0, StepTypes DEF Verified, VerifyScript
    <3> QED BY <2>2, <2>c, <2>t, <3>2 DEF FallBack, WithinSpent
  <2>3. CASE RunStd
    <3> DEFINE s == program.code[pc + 1]
    <3>1. s \in StdStep /\ machine = "std" /\ machine' = machine /\ pc' = pc + 1 /\ More
      BY <2>3, <2>0, StepTypes DEF RunStd
    <3>2. pc < Len(program.code)
      BY <3>1 DEF More
    <3>3. Verified => entry # "script"
      BY <3>1, <2>0, StepTypes DEF Dispatched, Verified, VerifyScript
    <3> DEFINE P == SumsTo(CodeSpeeds(program.code), Len(program.code))
    <3>4. Verified => SpentSoFar = P[pc] /\ SpentSoFar' = P[pc + 1]
      BY <2>c, <3>1, <3>3 DEF SpentSoFar
    <3>5. pc \in 0..Len(program.code) - 1 /\ pc + 1 \in 0..Len(program.code)
          /\ pc \in 0..Len(program.code)
      BY <3>2, <2>t
    <3>6. /\ P[pc] \in Nat /\ P[pc + 1] \in Nat
          /\ P[pc + 1] = P[pc] + WorstSpeed(s.op)
      BY <3>5, <2>t, CodeSums
    <3> HIDE DEF P
    <3>7. work' \in Nat /\ work' <= work + WorstSpeed(s.op)
      <4>0. WorstSpeed(s.op) \in Nat
        BY DEF WorstSpeed
      <4>1. CASE s.pin >= Pins
        BY <2>3, <4>0, <4>1, <2>t DEF RunStd
      <4>2. CASE ~(s.pin >= Pins)
        <5>1. PICK e \in ExecuteStep(s), v \in Speed :
                /\ e.sets \subseteq {v}
                /\ work' = IF e.sets = {} THEN work ELSE work + v
          BY <2>3, <4>2 DEF RunStd
        <5>2. CASE e.sets = {}
          BY <5>1, <5>2, <4>0, <2>t
        <5>3. CASE e.sets # {}
          <6>1. v \in e.sets
            BY <5>1, <5>3
          <6>2. v \in Nat /\ v <= WorstSpeed(s.op)
            BY <6>1, <3>1, WorstSpeedIsWorst
          <6> QED BY <5>1, <5>3, <6>2, <4>0, <2>t
        <5> QED BY <5>2, <5>3
      <4> QED BY <4>1, <4>2
    <3>8. WorstSpeed(s.op) \in Nat
      BY DEF WorstSpeed
    <3>9. SpentSoFar = P[pc] /\ SpentSoFar' = P[pc + 1] /\ work <= SpentSoFar
          => work' <= SpentSoFar'
      BY <2>t, <3>6, <3>7, <3>8
    <3>10. Verified' => work' <= SpentSoFar'
      BY <2>c, <3>4, <3>9 DEF WithinSpent
    <3> QED BY <3>1, <3>5, <3>10, <2>c DEF WithinSpent
  <2>4. CASE OutOfFuel \/ Complete \/ UNCHANGED vars
    BY <2>4, <2>m DEF OutOfFuel, Complete, vars
  <2> QED BY <2>1, <2>2, <2>3, <2>4 DEF Next, Over
<1> QED BY <1>1, <1>2, Invariance, PTL DEF Spec

(* A program that the verifier accepts never sets speeds that add up to    *)
(* more than the limit (verifier/mod.rs:101, 276), whatever its sensors    *)
(* read and wherever its run ends, for every program and every limit.      *)
THEOREM AcceptedNeverOverloads == Spec => []VerifiedKeepsCurrent
<1>1. IInv /\ WithinSpent => VerifiedKeepsCurrent
  <2> SUFFICES ASSUME IInv, WithinSpent, Verified PROVE work <= MaxCurrent
    BY DEF VerifiedKeepsCurrent
  <2>0. TypeOK /\ Dispatched
    BY DEF IInv
  <2>1. /\ program.steps \in Seq(VmStep) /\ program.code \in Seq(StdStep)
        /\ Len(program.steps) \in Nat /\ Len(program.code) \in Nat
        /\ pc \in Nat /\ work \in Nat /\ machine \in {"script", "std"}
    BY <2>0, StepTypes DEF TypeOK, Program
  <2>2. CASE entry = "script"
    <3>1. machine = "script" /\ ScriptCurrent(program.steps) <= MaxCurrent
      BY <2>0, <2>1, <2>2, StepTypes DEF Dispatched, Verified, VerifyScript
    <3>2. pc \in 0..Len(program.steps)
      BY <2>1, <3>1 DEF WithinSpent
    <3>3. /\ SpentSoFar \in Nat /\ ScriptCurrent(program.steps) \in Nat
          /\ SpentSoFar <= ScriptCurrent(program.steps)
      BY <2>1, <2>2, <3>2, ScriptSums DEF SpentSoFar
    <3>4. work <= SpentSoFar
      BY DEF WithinSpent
    <3> QED BY <2>1, <3>1, <3>3, <3>4, CurrentTypes
  <2>3. CASE entry # "script"
    <3>1. machine = "std" /\ SumFunction(CodeSpeeds(program.code)) <= MaxCurrent
      BY <2>0, <2>1, <2>3 DEF Dispatched, Verified, VerifyCode, CodeSpeeds
    <3>2. pc \in 0..Len(program.code)
      BY <2>1, <3>1 DEF WithinSpent
    <3>3. /\ SpentSoFar \in Nat /\ SumFunction(CodeSpeeds(program.code)) \in Nat
          /\ SpentSoFar <= SumFunction(CodeSpeeds(program.code))
      BY <2>1, <2>3, <3>2, CodeSums DEF SpentSoFar
    <3>4. work <= SpentSoFar
      BY DEF WithinSpent
    <3> QED BY <2>1, <3>1, <3>3, <3>4, CurrentTypes
  <2> QED BY <2>2, <2>3
<1> QED BY <1>1, Invariance, Spends, PTL
-----------------------------------------------------------------------------
(* The fuel.                                                               *)

StepCosts(steps) ==
  [i \in DOMAIN steps |-> IF steps[i].op = "Delay" THEN 1 + steps[i].ticks ELSE 1]

(* The machine has paid no more than the steps that it has begun cost, and *)
(* it runs out of fuel before a step that it cannot pay.                   *)
PaysNoMore ==
  machine = "script" =>
    LET P == SumsTo(StepCosts(program.steps), Len(program.steps))
    IN  /\ pc <= Len(program.steps)
        /\ budget <= fuel + P[pc]
        /\ outcome = "OutOfFuel" => pc < Len(program.steps) /\ fuel = 0

LEMMA CostSums ==
  ASSUME NEW steps \in Seq(VmStep), NEW P, P = SumsTo(StepCosts(steps), Len(steps))
  PROVE  /\ ScriptCost(steps) \in Nat
         /\ \A k \in 0..Len(steps) : P[k] \in Nat /\ P[k] <= ScriptCost(steps)
         /\ P[0] = 0
         /\ \A k \in 0..Len(steps) - 1 :
              P[k + 1] = P[k] + IF steps[k + 1].op = "Delay" THEN 1 + steps[k + 1].ticks ELSE 1
<1> DEFINE n == Len(steps)
           f == StepCosts(steps)
           Cost(s) == IF s.op = "Delay" THEN 1 + s.ticks ELSE 1
<1>1. n \in Nat /\ DOMAIN steps = 1..n /\ \A i \in 1..n : steps[i] \in VmStep
  OBVIOUS
<1>2. \A i \in 1..n : Cost(steps[i]) \in Nat
  <2> SUFFICES ASSUME NEW i \in 1..n, steps[i].op = "Delay" PROVE steps[i].ticks \in Nat
    OBVIOUS
  <2> QED BY <1>1 DEF VmStep
<1>3. f = [i \in 1..n |-> Cost(steps[i])]
  BY <1>1 DEF StepCosts
<1>4. SumFunction(f) = ScriptCost(steps)
  BY DEF StepCosts, ScriptCost
<1> HIDE DEF f, n, Cost
<1>5. f \in [1..n -> Nat] /\ \A i \in 1..n : f[i] = Cost(steps[i])
  BY <1>2, <1>3
<1>6. IsPartialSums(P, f, n)
  BY <1>1, <1>5, PartialSums DEF SumsTo, f, n
<1>7. \A k \in 0..n - 1 : k + 1 \in 1..n
  BY <1>1
<1>8. \A k \in 0..n - 1 : P[k + 1] = P[k] + Cost(steps[k + 1])
  BY <1>5, <1>6, <1>7 DEF IsPartialSums
<1>9. /\ SumFunction(f) \in Nat
      /\ \A k \in 0..n : P[k] \in Nat /\ P[k] <= SumFunction(f)
  BY <1>1, <1>6 DEF IsPartialSums
<1>10. P[0] = 0
  BY <1>6 DEF IsPartialSums
<1> QED BY <1>4, <1>8, <1>9, <1>10 DEF n, Cost

LEMMA PaysNoMoreHolds == Spec => []PaysNoMore
<1>1. Init => PaysNoMore
  <2> SUFFICES ASSUME Init, machine = "script" PROVE PaysNoMore
    BY DEF PaysNoMore
  <2>1. /\ program.steps \in Seq(VmStep) /\ pc = 0 /\ fuel = budget /\ budget = NodeFuel
        /\ outcome = "running"
    BY ProgramAssumption DEF Init, Program
  <2>2. Len(program.steps) \in Nat /\ NodeFuel \in Nat
    BY <2>1, FuelAssumption
  <2>3. SumsTo(StepCosts(program.steps), Len(program.steps))[0] = 0
    BY <2>1, CostSums
  <2> QED BY <2>1, <2>2, <2>3 DEF PaysNoMore
<1>2. IInv /\ PaysNoMore /\ [Next]_vars => PaysNoMore'
  <2> SUFFICES ASSUME IInv, PaysNoMore, [Next]_vars, machine' = "script" PROVE PaysNoMore'
    BY DEF PaysNoMore
  <2>0. TypeOK /\ program \in Program
    BY DEF IInv, TypeOK
  <2>t. /\ program.steps \in Seq(VmStep) /\ Len(program.steps) \in Nat
        /\ pc \in Nat /\ fuel \in Nat /\ budget \in Nat
    BY <2>0, StepTypes DEF TypeOK, Program
  <2>c. machine = "script" /\ program' = program /\ budget' = budget
    BY DEF Next, RunSetPwm, RunDelay, RunAssert, Fetches, FallBack, RunStd, OutOfFuel,
           Complete, Over, vars
  <2> DEFINE P == SumsTo(StepCosts(program.steps), Len(program.steps))
             Cost == IF Step.op = "Delay" THEN 1 + Step.ticks ELSE 1
  <2>p. pc <= Len(program.steps) /\ budget <= fuel + P[pc]
    BY <2>c DEF PaysNoMore
  <2>1. ASSUME NEW op, Fetches(op), fuel' \in Nat, fuel <= fuel' + Cost, Cost \in Nat,
               outcome' # "OutOfFuel"
        PROVE  PaysNoMore'
    <3>1. pc' = pc + 1 /\ pc < Len(program.steps)
      BY <2>1, <2>c DEF Fetches, More
    <3>2. pc \in 0..Len(program.steps) - 1 /\ pc \in 0..Len(program.steps)
      BY <3>1, <2>t
    <3>3. P[pc + 1] = P[pc] + Cost /\ P[pc] \in Nat
      BY <3>2, <2>t, CostSums DEF Step
    <3> HIDE DEF P, Cost
    <3>4. budget <= fuel' + P[pc + 1]
      <4> DEFINE x == P[pc]
                 y == P[pc + 1]
                 z == fuel'
      <4>1. z \in Nat /\ fuel <= z + Cost /\ Cost \in Nat
        BY <2>1
      <4>2. x \in Nat /\ budget <= fuel + x /\ y = x + Cost
        BY <2>p, <3>3
      <4> HIDE DEF x, y, z
      <4>3. budget <= z + y
        BY <2>t, <4>1, <4>2
      <4> QED BY <4>3 DEF y, z
    <3>5. pc + 1 <= Len(program.steps)
      BY <2>t, <3>1
    <3> QED BY <2>1, <2>c, <3>1, <3>4, <3>5 DEF PaysNoMore, P
  <2>2. CASE RunSetPwm
    <3>1. /\ Fetches("SetPwm") /\ Step.op = "SetPwm" /\ fuel' = fuel - 1 /\ fuel > 0
          /\ outcome' # "OutOfFuel"
      BY <2>2 DEF RunSetPwm, Fetches, Pays, End, Running
    <3> QED BY <3>1, <2>1, <2>t
  <2>3. CASE RunDelay
    <3>1. /\ Fetches("Delay") /\ Step.op = "Delay" /\ fuel > 0 /\ outcome' # "OutOfFuel"
          /\ fuel' = fuel - (1 + DelayCost(Step.ticks, fuel - 1))
      BY <2>3 DEF RunDelay, Fetches, Pays, Running
    <3>2. Step \in VmStep
      BY <3>1, <2>0, StepTypes DEF Fetches
    <3>3. Step.ticks \in Nat
      BY <3>1, <3>2 DEF VmStep
    <3>4. fuel' \in Nat /\ fuel <= fuel' + Cost /\ Cost \in Nat
      BY <3>1, <3>3, <2>t DEF DelayCost
    <3> QED BY <3>1, <3>4, <2>1
  <2>4. CASE RunAssert
    <3>1. /\ Fetches("AssertOrYield") /\ Step.op = "AssertOrYield" /\ fuel' = fuel - 1
          /\ fuel > 0 /\ outcome' # "OutOfFuel"
      BY <2>4 DEF RunAssert, Fetches, Pays, End, Running
    <3> QED BY <3>1, <2>1, <2>t
  <2>5. CASE OutOfFuel \/ Complete
    <3>1. /\ pc' = pc /\ fuel' = fuel
          /\ outcome' = "OutOfFuel" => pc < Len(program.steps) /\ fuel = 0
      BY <2>5, <2>c DEF OutOfFuel, Complete, End, More
    <3> QED BY <2>c, <2>p, <3>1 DEF PaysNoMore
  <2>6. CASE UNCHANGED vars
    BY <2>6 DEF vars, PaysNoMore
  <2>7. CASE FallBack \/ RunStd
    BY <2>7, <2>c DEF FallBack, RunStd
  <2> QED BY <2>2, <2>3, <2>4, <2>5, <2>6, <2>7 DEF Next, Over
<1> QED BY <1>1, <1>2, Invariance, PTL DEF Spec

(* A script whose steps and ticks add up to no more than the fuel never    *)
(* runs out of it (vm.rs:44-88), for every script and every fuel.          *)
THEOREM PaidScriptsFinish == Spec => []PaidScriptFinishes
<1>1. IInv /\ PaysNoMore => PaidScriptFinishes
  <2> SUFFICES ASSUME IInv, PaysNoMore, machine = "script", outcome = "OutOfFuel",
                      ScriptCost(program.steps) <= budget
               PROVE  FALSE
    BY DEF PaidScriptFinishes
  <2>t. /\ program.steps \in Seq(VmStep) /\ Len(program.steps) \in Nat
        /\ pc \in Nat /\ fuel \in Nat /\ budget \in Nat
    BY StepTypes DEF IInv, TypeOK, Program
  <2> DEFINE P == SumsTo(StepCosts(program.steps), Len(program.steps))
             Cost == IF program.steps[pc + 1].op = "Delay"
                     THEN 1 + program.steps[pc + 1].ticks ELSE 1
  <2>1. pc < Len(program.steps) /\ fuel = 0 /\ budget <= fuel + P[pc]
    BY DEF PaysNoMore
  <2>2. /\ pc \in 0..Len(program.steps) - 1 /\ pc \in 0..Len(program.steps)
        /\ pc + 1 \in 0..Len(program.steps) /\ pc + 1 \in 1..Len(program.steps)
    BY <2>1, <2>t
  <2>3. /\ P[pc + 1] = P[pc] + Cost /\ P[pc] \in Nat
        /\ P[pc + 1] <= ScriptCost(program.steps) /\ ScriptCost(program.steps) \in Nat
    BY <2>2, <2>t, CostSums
  <2>4. Cost \in Nat /\ Cost > 0
    <3>1. program.steps[pc + 1] \in VmStep
      BY <2>2, <2>t
    <3>2. program.steps[pc + 1].op = "Delay" => program.steps[pc + 1].ticks \in Nat
      BY <3>1 DEF VmStep
    <3> QED BY <3>2
  <2> HIDE DEF P, Cost
  <2> QED BY <2>1, <2>3, <2>4, <2>t
<1> QED BY <1>1, Invariance, PaysNoMoreHolds, PTL

-----------------------------------------------------------------------------
(* The MicroVm and the generated code, side by side.                       *)

(* What a step costs, and what is left of the fuel b after each step.      *)
Burn(f, s) == IF s.op = "Delay" THEN IF s.ticks < f - 1 THEN f - 1 - s.ticks ELSE 0
              ELSE IF f = 0 THEN 0 ELSE f - 1
FuelLeft(steps, b) ==
  LET F[k \in 0..Len(steps)] == IF k = 0 THEN b ELSE Burn(F[k - 1], steps[k])
  IN  F

Left(p) == FuelLeft(p.steps, NodeFuel)

(* What a program p and the readings r decide about step k+1, for whoever  *)
(* has done k of them: the run ends there, or goes on.                     *)
Refused(s) == \/ s.op = "SetPwm" /\ s.channel >= Channels
              \/ s.op = "AssertOrYield" /\ s.pin >= Pins
Fate(p, r, k) ==
  IF k = Len(p.steps) THEN "ok"
  ELSE IF Left(p)[k] = 0 THEN "OutOfFuel"
  ELSE IF k >= p.readable THEN "BufferOverflow"
  ELSE IF Refused(p.steps[k + 1]) THEN "UnauthorizedAccess"
  ELSE IF p.steps[k + 1].op = "AssertOrYield" /\ r[k + 1] # p.steps[k + 1].expected
       THEN "AssertionFailed"
  ELSE "running"
Reaches(p, r, k) == \A i \in 0..k - 1 : Fate(p, r, i) = "running"

(* The step that ends a run counts as begun if it could be decoded.        *)
EndsIn(p, r, e, n) == \E k \in 0..Len(p.steps) :
  /\ Reaches(p, r, k) /\ Fate(p, r, k) = e
  /\ n = IF e \in {"UnauthorizedAccess", "AssertionFailed"} THEN k + 1 ELSE k

ScriptFollows ==
  machine = "script" =>
    /\ fuel = Left(program)[pc]
    /\ pc \in 0..Len(program.steps)
    /\ IF outcome = "running" THEN Reaches(program, reads, pc)
       ELSE EndsIn(program, reads, outcome, pc)
FallBackFollows ==
  machine = "std" =>
    \E n \in 0..Len(program.steps) : EndsIn(program, reads, "BufferOverflow", n)
MacroFollows ==
  /\ macro_pc \in 0..Len(program.steps)
  /\ macro_outcome = "running" =>
       macro_fuel = Left(program)[macro_pc] /\ Reaches(program, reads, macro_pc)
  /\ macro_outcome \notin {"running", "UnauthorizedAccess"} =>
       /\ EndsIn(program, reads, macro_outcome, macro_pc)
       /\ macro_outcome # "BufferOverflow" => macro_fuel = Left(program)[macro_pc]
SideBySide == entry = "script" => ScriptFollows /\ FallBackFollows /\ MacroFollows

LEMMA BurnType ==
  ASSUME NEW s \in VmStep, NEW f \in Nat
  PROVE  Burn(f, s) \in Nat
<1>1. CASE s.op = "Delay"
  <2>1. s.ticks \in Nat
    BY <1>1 DEF VmStep
  <2> QED BY <1>1, <2>1 DEF Burn
<1>2. CASE s.op # "Delay"
  BY <1>2 DEF Burn
<1> QED BY <1>1, <1>2

LEMMA FuelLeftIs ==
  ASSUME NEW steps \in Seq(VmStep), NEW b \in Nat, NEW F, F = FuelLeft(steps, b)
  PROVE  /\ F[0] = b
         /\ \A k \in 0..Len(steps) : F[k] \in Nat
         /\ \A k \in 0..Len(steps) - 1 : F[k + 1] = Burn(F[k], steps[k + 1])
<1> DEFINE n == Len(steps)
           R(G, k) == IF k = 0 THEN b ELSE Burn(G[k - 1], steps[k])
<1>1. n \in Nat /\ \A k \in 1..n : steps[k] \in VmStep
  OBVIOUS
<1>2. F = CHOOSE G : G = [k \in 0..n |-> R(G, k)]
  BY DEF FuelLeft
<1> HIDE DEF n
<1>3. \E G : G = [k \in 0..n |-> R(G, k)]
  <2> DEFINE Upto(G, m) == \A k \in 0..n : k <= m => G[k] = R(G, k)
             T == {m \in Nat : \E G \in [0..n -> Nat] : Upto(G, m)}
  <2>1. 0 \in T
    <3> DEFINE G == [k \in 0..n |-> b]
    <3>1. G \in [0..n -> Nat] /\ Upto(G, 0)
      BY <1>1
    <3> QED BY <3>1
  <2>2. ASSUME NEW m \in T PROVE m + 1 \in T
    <3>1. m \in Nat
      OBVIOUS
    <3>2. PICK G \in [0..n -> Nat] : Upto(G, m)
      OBVIOUS
    <3> DEFINE H == [k \in 0..n |-> R(G, k)]
    <3>3. \A k \in 0..n : R(G, k) \in Nat
      <4> SUFFICES ASSUME NEW k \in 0..n, k # 0 PROVE Burn(G[k - 1], steps[k]) \in Nat
        OBVIOUS
      <4>1. G[k - 1] \in Nat /\ steps[k] \in VmStep
        BY <1>1
      <4> QED BY <4>1, BurnType
    <3>4. H \in [0..n -> Nat]
      BY <3>3
    <3>5. \A k \in 0..n : H[k] = R(G, k)
      OBVIOUS
    <3> HIDE DEF H
    <3>6. ASSUME NEW k \in 0..n, k <= m + 1 PROVE H[k] = R(H, k)
      <4>1. CASE k = 0
        BY <3>5, <4>1
      <4>2. CASE k # 0
        <5>1. k - 1 \in 0..n /\ k - 1 <= m
          BY <1>1, <3>1, <3>6, <4>2
        <5>2. G[k - 1] = H[k - 1]
          BY <3>2, <3>5, <5>1
        <5> QED BY <3>5, <4>2, <5>2
      <4> QED BY <4>1, <4>2
    <3>7. m + 1 \in Nat /\ Upto(H, m + 1)
      BY <3>1, <3>6
    <3> QED BY <3>4, <3>7
  <2>3. T = Nat
    <3> HIDE DEF T
    <3>1. T \subseteq Nat
      BY DEF T
    <3> QED BY <2>1, <2>2, <3>1, Induction
  <2>4. PICK G \in [0..n -> Nat] : Upto(G, n)
    BY <1>1, <2>3
  <2>5. \A k \in 0..n : G[k] = R(G, k)
    BY <1>1, <2>4
  <2>6. G = [k \in 0..n |-> G[k]]
    OBVIOUS
  <2> QED BY <2>5, <2>6
<1>4. F = [k \in 0..n |-> R(F, k)]
  BY <1>2, <1>3
<1>5. F[0] = b /\ \A k \in 0..n - 1 : F[k + 1] = Burn(F[k], steps[k + 1])
  <2>1. \A k \in 0..n : F[k] = R(F, k)
    BY <1>4
  <2>2. 0 \in 0..n /\ \A k \in 0..n - 1 : k + 1 \in 0..n /\ k + 1 # 0 /\ (k + 1) - 1 = k
    BY <1>1
  <2> QED BY <2>1, <2>2
<1>6. \A k \in 0..n : F[k] \in Nat
  <2> DEFINE T == {m \in Nat : m \in 0..n => F[m] \in Nat}
  <2>1. 0 \in T
    BY <1>5
  <2>2. ASSUME NEW m \in T PROVE m + 1 \in T
    <3>1. m \in Nat /\ m + 1 \in Nat
      OBVIOUS
    <3> SUFFICES ASSUME m + 1 \in 0..n PROVE F[m + 1] \in Nat
      BY <3>1
    <3>2. m \in 0..n - 1 /\ m \in 0..n /\ m + 1 \in 1..n
      BY <3>1, <1>1
    <3>3. F[m] \in Nat /\ steps[m + 1] \in VmStep
      BY <3>2, <1>1
    <3> QED BY <3>2, <3>3, <1>5, BurnType
  <2>3. T = Nat
    <3> HIDE DEF T
    <3>1. T \subseteq Nat
      BY DEF T
    <3> QED BY <2>1, <2>2, <3>1, Induction
  <2> SUFFICES ASSUME NEW k \in 0..n PROVE F[k] \in Nat
    OBVIOUS
  <2>4. k \in T
    BY <2>3
  <2> QED BY <2>4
<1> QED BY <1>5, <1>6 DEF n

(* Nobody gets beyond the step where the run ends, so it ends in one way.  *)
LEMMA OneEnd ==
  ASSUME NEW p \in Program, NEW r, NEW e, NEW f, NEW m, NEW n,
         EndsIn(p, r, e, m), EndsIn(p, r, f, n), e # "running", f # "running"
  PROVE  e = f /\ m = n
<1>1. PICK k \in 0..Len(p.steps) :
        /\ Reaches(p, r, k) /\ Fate(p, r, k) = e
        /\ m = IF e \in {"UnauthorizedAccess", "AssertionFailed"} THEN k + 1 ELSE k
  BY DEF EndsIn
<1>2. PICK l \in 0..Len(p.steps) :
        /\ Reaches(p, r, l) /\ Fate(p, r, l) = f
        /\ n = IF f \in {"UnauthorizedAccess", "AssertionFailed"} THEN l + 1 ELSE l
  BY DEF EndsIn
<1>3. k \in Nat /\ l \in Nat
  BY DEF Program
<1>4. ~(k < l) /\ ~(l < k)
  BY <1>1, <1>2, <1>3 DEF Reaches
<1>5. k = l
  BY <1>3, <1>4
<1> QED BY <1>1, <1>2, <1>5

LEMMA GoesOn ==
  ASSUME NEW p, NEW r, NEW k \in Nat, Reaches(p, r, k), Fate(p, r, k) = "running"
  PROVE  Reaches(p, r, k + 1)
<1>1. \A i \in 0..k : i = k \/ i \in 0..k - 1
  OBVIOUS
<1>2. (k + 1) - 1 = k
  OBVIOUS
<1> QED BY <1>1, <1>2 DEF Reaches

(* A step that both machines begin, with fuel f in the tank.               *)
LEMMA StepFate ==
  ASSUME NEW p \in Program, NEW r, NEW k \in 0..Len(p.steps), k < Len(p.steps),
         NEW f, f = Left(p)[k], f > 0, k < p.readable,
         NEW s, s = p.steps[k + 1]
  PROVE  /\ s \in VmStep /\ k + 1 \in 0..Len(p.steps) /\ f \in Nat
         /\ Left(p)[k + 1] = Burn(f, s)
         /\ Refused(s) => Fate(p, r, k) = "UnauthorizedAccess"
         /\ ~Refused(s) /\ s.op = "AssertOrYield" /\ r[k + 1] # s.expected =>
              Fate(p, r, k) = "AssertionFailed"
         /\ ~Refused(s) /\ (s.op = "AssertOrYield" => r[k + 1] = s.expected) =>
              Fate(p, r, k) = "running"
<1>1. p.steps \in Seq(VmStep) /\ Len(p.steps) \in Nat /\ p.readable \in Nat
  BY DEF Program
<1>2. k \in 0..Len(p.steps) - 1 /\ k + 1 \in 0..Len(p.steps) /\ k + 1 \in 1..Len(p.steps)
  BY <1>1
<1>3. s \in VmStep
  BY <1>1, <1>2
<1>4. Left(p)[k + 1] = Burn(f, s) /\ f \in Nat
  BY <1>1, <1>2, FuelLeftIs, FuelAssumption DEF Left
<1>5. k # Len(p.steps) /\ Left(p)[k] # 0 /\ ~(k >= p.readable)
  BY <1>1, <1>4
<1> QED BY <1>2, <1>3, <1>4, <1>5 DEF Fate

LEMMA BothStart == PairInit => SideBySide
<1> SUFFICES ASSUME PairInit, entry = "script" PROVE SideBySide
  BY DEF SideBySide
<1>1. /\ program \in Program /\ machine = "script" /\ pc = 0 /\ macro_pc = 0
      /\ fuel = NodeFuel /\ macro_fuel = NodeFuel
      /\ outcome = "running" /\ macro_outcome = "running"
  BY ProgramAssumption DEF PairInit, Init
<1>2. program.steps \in Seq(VmStep)
  BY <1>1 DEF Program
<1>3. Len(program.steps) \in Nat /\ 0 \in 0..Len(program.steps)
  BY <1>2
<1>4. Left(program)[0] = NodeFuel
  BY <1>2, FuelLeftIs, FuelAssumption DEF Left
<1>5. Reaches(program, reads, 0)
  BY DEF Reaches
<1> QED BY <1>1, <1>3, <1>4, <1>5 DEF SideBySide, ScriptFollows, FallBackFollows, MacroFollows

(* Every binding of a board names a channel or a pin that there is.        *)
(* Nothing in the macro enforces it.                                       *)
BindingsExist == BoundPwm \subseteq 0..Channels - 1 /\ BoundPins \subseteq 0..Pins - 1

LEMMA ScriptAdvances ==
  ASSUME IInv, ScriptFollows, FallBackFollows, entry = "script", [Next]_vars
  PROVE  ScriptFollows' /\ FallBackFollows'
<1>0. TypeOK /\ Dispatched /\ program \in Program
  BY DEF IInv, TypeOK
<1>t. pc \in Nat /\ fuel \in Nat /\ Len(program.steps) \in Nat /\ program.readable \in Nat
  BY <1>0, StepTypes DEF TypeOK
<1>c. program' = program /\ reads' = reads
  BY DEF Next, RunSetPwm, RunDelay, RunAssert, Fetches, FallBack, RunStd, OutOfFuel,
         Complete, Over, vars
<1>1. ASSUME NEW op, Fetches(op)
      PROVE  /\ machine = "script" /\ machine' = "script" /\ outcome = "running"
             /\ pc' = pc + 1 /\ pc' \in 0..Len(program.steps)
             /\ Step \in VmStep /\ Step.op = op
             /\ Reaches(program, reads, pc)
             /\ fuel' = Burn(fuel, Step) => fuel' = Left(program)[pc']
             /\ Refused(Step) =>
                  EndsIn(program, reads, "UnauthorizedAccess", pc')
             /\ ~Refused(Step) /\ op = "AssertOrYield" /\ reads[pc + 1] # Step.expected =>
                  EndsIn(program, reads, "AssertionFailed", pc')
             /\ ~Refused(Step) /\ (op = "AssertOrYield" => reads[pc + 1] = Step.expected) =>
                  Reaches(program, reads, pc')
  <2>1. /\ machine = "script" /\ machine' = "script" /\ outcome = "running" /\ More
        /\ fuel > 0 /\ pc < program.readable /\ Step.op = op /\ pc' = pc + 1
    BY <1>1 DEF Fetches, Running
  <2>2. /\ pc < Len(program.steps) /\ pc \in 0..Len(program.steps)
        /\ Reaches(program, reads, pc) /\ fuel = Left(program)[pc]
    BY <2>1 DEF More, ScriptFollows
  <2>3. /\ Step \in VmStep /\ pc + 1 \in 0..Len(program.steps)
        /\ Left(program)[pc + 1] = Burn(fuel, Step)
        /\ Refused(Step) => Fate(program, reads, pc) = "UnauthorizedAccess"
        /\ ~Refused(Step) /\ Step.op = "AssertOrYield" /\ reads[pc + 1] # Step.expected =>
             Fate(program, reads, pc) = "AssertionFailed"
        /\ ~Refused(Step) /\ (Step.op = "AssertOrYield" => reads[pc + 1] = Step.expected) =>
             Fate(program, reads, pc) = "running"
    <3> HIDE DEF Step
    <3>1. Step = program.steps[pc + 1]
      BY DEF Step
    <3> QED BY <1>0, <2>1, <2>2, <3>1, StepFate
  <2>4. ASSUME NEW e \in {"UnauthorizedAccess", "AssertionFailed"},
               Fate(program, reads, pc) = e
        PROVE  EndsIn(program, reads, e, pc')
    BY <2>1, <2>2, <2>4 DEF EndsIn
  <2>5. Fate(program, reads, pc) = "running" => Reaches(program, reads, pc')
    BY <2>1, <2>2, <1>t, GoesOn
  <2> QED BY <2>1, <2>2, <2>3, <2>4, <2>5
<1>2. ASSUME machine' = machine, pc' = pc, fuel' = fuel, outcome' = outcome
      PROVE  ScriptFollows' /\ FallBackFollows'
  BY <1>2, <1>c DEF ScriptFollows, FallBackFollows
<1>3. CASE RunSetPwm
  <2>1. Fetches("SetPwm") /\ fuel' = fuel - 1 /\ fuel > 0
    BY <1>3 DEF RunSetPwm, Pays, Fetches
  <2>2. /\ machine' = "script" /\ outcome = "running" /\ Step.op = "SetPwm" /\ Step \in VmStep
        /\ pc' \in 0..Len(program.steps)
    BY <2>1, <1>1
  <2>3. fuel' = Burn(fuel, Step)
    BY <2>1, <2>2, <1>t DEF Burn
  <2>4. CASE Step.channel >= Channels
    <3>1. outcome' = "UnauthorizedAccess"
      BY <1>3, <2>4 DEF RunSetPwm, End
    <3>2. Refused(Step)
      BY <2>2, <2>4 DEF Refused
    <3>3. fuel' = Left(program)[pc'] /\ EndsIn(program, reads, "UnauthorizedAccess", pc')
      BY <2>1, <2>3, <3>2, <1>1
    <3> QED BY <1>c, <2>2, <3>1, <3>3 DEF ScriptFollows, FallBackFollows
  <2>5. CASE ~(Step.channel >= Channels)
    <3>1. outcome' = "running"
      BY <1>3, <2>2, <2>5 DEF RunSetPwm
    <3>2. ~Refused(Step)
      BY <2>2, <2>5 DEF Refused
    <3>3. fuel' = Left(program)[pc'] /\ Reaches(program, reads, pc')
      BY <2>1, <2>3, <3>2, <1>1
    <3> QED BY <1>c, <2>2, <3>1, <3>3 DEF ScriptFollows, FallBackFollows
  <2> QED BY <2>4, <2>5
<1>4. CASE RunDelay
  <2>1. /\ Fetches("Delay") /\ fuel > 0 /\ outcome' = outcome
        /\ fuel' = fuel - (1 + DelayCost(Step.ticks, fuel - 1))
    BY <1>4 DEF RunDelay, Pays, Fetches
  <2>2. /\ machine' = "script" /\ outcome = "running" /\ Step.op = "Delay" /\ Step \in VmStep
        /\ pc' \in 0..Len(program.steps)
    BY <2>1, <1>1
  <2>3. Step.ticks \in Nat
    BY <2>2 DEF VmStep
  <2>4. fuel' = Burn(fuel, Step)
    BY <2>1, <2>2, <2>3, <1>t DEF Burn, DelayCost
  <2>5. ~Refused(Step)
    BY <2>2 DEF Refused
  <2>6. fuel' = Left(program)[pc'] /\ Reaches(program, reads, pc')
    BY <2>1, <2>4, <2>5, <1>1
  <2> QED BY <1>c, <2>1, <2>2, <2>6 DEF ScriptFollows, FallBackFollows
<1>5. CASE RunAssert
  <2>1. Fetches("AssertOrYield") /\ fuel' = fuel - 1 /\ fuel > 0
    BY <1>5 DEF RunAssert, Pays, Fetches
  <2>2. /\ machine' = "script" /\ outcome = "running" /\ Step.op = "AssertOrYield"
        /\ Step \in VmStep /\ pc' \in 0..Len(program.steps)
    BY <2>1, <1>1
  <2>3. fuel' = Burn(fuel, Step)
    BY <2>1, <2>2, <1>t DEF Burn
  <2>4. CASE Step.pin >= Pins
    <3>1. outcome' = "UnauthorizedAccess"
      BY <1>5, <2>4 DEF RunAssert, End
    <3>2. Refused(Step)
      BY <2>2, <2>4 DEF Refused
    <3>3. fuel' = Left(program)[pc'] /\ EndsIn(program, reads, "UnauthorizedAccess", pc')
      BY <2>1, <2>3, <3>2, <1>1
    <3> QED BY <1>c, <2>2, <3>1, <3>3 DEF ScriptFollows, FallBackFollows
  <2>5. CASE ~(Step.pin >= Pins) /\ reads[pc + 1] # Step.expected
    <3>1. outcome' = "AssertionFailed"
      BY <1>5, <2>5 DEF RunAssert, End
    <3>2. ~Refused(Step)
      BY <2>2, <2>5 DEF Refused
    <3>3. fuel' = Left(program)[pc'] /\ EndsIn(program, reads, "AssertionFailed", pc')
      BY <2>1, <2>3, <2>5, <3>2, <1>1
    <3> QED BY <1>c, <2>2, <3>1, <3>3 DEF ScriptFollows, FallBackFollows
  <2>6. CASE ~(Step.pin >= Pins) /\ reads[pc + 1] = Step.expected
    <3>1. outcome' = "running"
      BY <1>5, <2>2, <2>6 DEF RunAssert
    <3>2. ~Refused(Step)
      BY <2>2, <2>6 DEF Refused
    <3>3. fuel' = Left(program)[pc'] /\ Reaches(program, reads, pc')
      BY <2>1, <2>3, <2>6, <3>2, <1>1
    <3> QED BY <1>c, <2>2, <3>1, <3>3 DEF ScriptFollows, FallBackFollows
  <2> QED BY <2>4, <2>5, <2>6
<1>6. CASE FallBack
  <2>1. /\ machine = "script" /\ outcome = "running" /\ machine' = "std"
        /\ pc < Len(program.steps) /\ fuel > 0 /\ pc >= program.readable
    BY <1>6 DEF FallBack, Running, More
  <2>2. /\ pc \in 0..Len(program.steps) /\ Reaches(program, reads, pc)
        /\ Left(program)[pc] = fuel
    BY <2>1 DEF ScriptFollows
  <2>3. pc # Len(program.steps) /\ fuel # 0
    BY <2>1, <1>t
  <2>4. Fate(program, reads, pc) = "BufferOverflow"
    BY <2>1, <2>2, <2>3 DEF Fate
  <2>5. EndsIn(program, reads, "BufferOverflow", pc)
    BY <2>2, <2>4 DEF EndsIn
  <2> QED BY <1>c, <2>1, <2>2, <2>5 DEF ScriptFollows, FallBackFollows
<1>7. CASE RunStd
  BY <1>7, <1>c DEF RunStd, ScriptFollows, FallBackFollows
<1>8. CASE OutOfFuel \/ Complete
  <2>1. /\ machine' = machine /\ pc' = pc /\ fuel' = fuel /\ outcome = "running"
        /\ \/ outcome' = "OutOfFuel" /\ More /\ fuel = 0
           \/ outcome' = "ok" /\ ~More
    BY <1>8 DEF OutOfFuel, Complete, End, Running
  <2>2. CASE machine = "script"
    <3>1. /\ pc \in 0..Len(program.steps) /\ Reaches(program, reads, pc)
          /\ Left(program)[pc] = fuel
      BY <2>1, <2>2 DEF ScriptFollows
    <3>2. \/ outcome' = "OutOfFuel" /\ pc # Len(program.steps) /\ fuel = 0
          \/ outcome' = "ok" /\ pc = Len(program.steps)
      BY <2>1, <2>2, <3>1, <1>t DEF More
    <3>3. Fate(program, reads, pc) = outcome'
      BY <3>1, <3>2 DEF Fate
    <3>4. EndsIn(program, reads, outcome', pc) /\ outcome' # "running"
      BY <3>1, <3>2, <3>3 DEF EndsIn
    <3> QED BY <1>c, <2>1, <2>2, <3>1, <3>4 DEF ScriptFollows, FallBackFollows
  <2>3. CASE machine # "script"
    BY <1>c, <2>1, <2>3 DEF ScriptFollows, FallBackFollows
  <2> QED BY <2>2, <2>3
<1>9. CASE UNCHANGED vars
  BY <1>9, <1>2 DEF vars
<1> QED BY <1>3, <1>4, <1>5, <1>6, <1>7, <1>8, <1>9 DEF Next, Over

LEMMA MacroAdvances ==
  ASSUME BindingsExist, TypeOK, MacroFollows, Macro!Next
  PROVE  MacroFollows'
<1>0. program \in Program
  BY DEF TypeOK
<1>t. Len(program.steps) \in Nat /\ program.readable \in Nat
  BY StepTypes
<1>c. program' = program /\ reads' = reads /\ macro_outcome = "running"
  BY DEF Macro!Next, Macro!RunSetPwm, Macro!RunDelay, Macro!RunAssert, Macro!Fetches,
         Macro!Unreadable, Macro!OutOfFuel, Macro!Complete, Macro!Running
<1>m. /\ macro_pc \in 0..Len(program.steps) /\ macro_fuel = Left(program)[macro_pc]
      /\ Reaches(program, reads, macro_pc)
  BY <1>c DEF MacroFollows
<1>f. macro_fuel \in Nat
  <2>1. program.steps \in Seq(VmStep)
    BY <1>0 DEF Program
  <2> QED BY <2>1, <1>m, FuelLeftIs, FuelAssumption DEF Left
<1> DEFINE s == Macro!Step
<1>1. ASSUME NEW op, Macro!Fetches(op)
      PROVE  /\ macro_pc' = macro_pc + 1 /\ macro_pc' \in 0..Len(program.steps)
             /\ s \in VmStep /\ s.op = op /\ macro_fuel > 0
             /\ macro_fuel' = Burn(macro_fuel, s) =>
                  macro_fuel' = Left(program)[macro_pc']
             /\ ~Refused(s) /\ op = "AssertOrYield" /\ reads[macro_pc + 1] # s.expected =>
                  EndsIn(program, reads, "AssertionFailed", macro_pc')
             /\ ~Refused(s) /\ (op = "AssertOrYield" => reads[macro_pc + 1] = s.expected) =>
                  Reaches(program, reads, macro_pc')
  <2>1. /\ macro_pc < Len(program.steps) /\ macro_fuel > 0 /\ macro_pc < program.readable
        /\ s.op = op /\ macro_pc' = macro_pc + 1 /\ s = program.steps[macro_pc + 1]
    BY <1>1 DEF Macro!Fetches, Macro!More, Macro!Step
  <2> HIDE DEF s
  <2>2. /\ s \in VmStep /\ macro_pc + 1 \in 0..Len(program.steps)
        /\ Left(program)[macro_pc + 1] = Burn(macro_fuel, s)
        /\ ~Refused(s) /\ s.op = "AssertOrYield" /\ reads[macro_pc + 1] # s.expected =>
             Fate(program, reads, macro_pc) = "AssertionFailed"
        /\ ~Refused(s) /\ (s.op = "AssertOrYield" => reads[macro_pc + 1] = s.expected) =>
             Fate(program, reads, macro_pc) = "running"
    BY <1>0, <1>m, <2>1, StepFate
  <2>3. Fate(program, reads, macro_pc) = "AssertionFailed" =>
          EndsIn(program, reads, "AssertionFailed", macro_pc')
    BY <1>m, <2>1 DEF EndsIn
  <2>4. Fate(program, reads, macro_pc) = "running" => Reaches(program, reads, macro_pc')
    BY <1>m, <1>t, <2>1, GoesOn
  <2> QED BY <2>1, <2>2, <2>3, <2>4
<1> HIDE DEF s
<1>2. CASE Macro!RunSetPwm
  <2>1. Macro!Fetches("SetPwm") /\ macro_fuel' = macro_fuel - 1
    BY <1>2 DEF Macro!RunSetPwm
  <2>2. /\ s.op = "SetPwm" /\ s \in VmStep /\ macro_pc' \in 0..Len(program.steps)
        /\ macro_fuel > 0
    BY <2>1, <1>1
  <2>3. CASE s.channel \in BoundPwm
    <3>1. macro_outcome' = "running"
      BY <1>2, <1>c, <2>3 DEF Macro!RunSetPwm, s
    <3>2. ~Refused(s)
      <4>1. s.channel \in 0..Channels - 1
        BY <2>3 DEF BindingsExist
      <4>2. ~(s.channel >= Channels)
        BY <4>1, LimitsAssumption
      <4> QED BY <2>2, <4>2 DEF Refused
    <3>3. macro_fuel' = Burn(macro_fuel, s)
      BY <2>1, <2>2, <1>f DEF Burn
    <3>4. macro_fuel' = Left(program)[macro_pc'] /\ Reaches(program, reads, macro_pc')
      BY <2>1, <3>2, <3>3, <1>1
    <3> QED BY <1>c, <2>2, <3>1, <3>4 DEF MacroFollows
  <2>4. CASE s.channel \notin BoundPwm
    <3>1. macro_outcome' = "UnauthorizedAccess"
      BY <1>2, <2>4 DEF Macro!RunSetPwm, Macro!Trap, s
    <3> QED BY <1>c, <2>2, <3>1 DEF MacroFollows
  <2> QED BY <2>3, <2>4
<1>3. CASE Macro!RunDelay
  <2>1. /\ Macro!Fetches("Delay") /\ macro_outcome' = "running"
        /\ macro_fuel' = IF s.ticks < macro_fuel - 1 THEN macro_fuel - 1 - s.ticks ELSE 0
    BY <1>3, <1>c DEF Macro!RunDelay, s
  <2>2. s.op = "Delay" /\ s \in VmStep /\ macro_pc' \in 0..Len(program.steps)
    BY <2>1, <1>1
  <2>3. ~Refused(s)
    BY <2>2 DEF Refused
  <2>4. macro_fuel' = Burn(macro_fuel, s)
    BY <2>1, <2>2 DEF Burn
  <2>5. macro_fuel' = Left(program)[macro_pc'] /\ Reaches(program, reads, macro_pc')
    BY <2>1, <2>3, <2>4, <1>1
  <2> QED BY <1>c, <2>1, <2>2, <2>5 DEF MacroFollows
<1>4. CASE Macro!RunAssert
  <2>1. Macro!Fetches("AssertOrYield") /\ macro_fuel' = macro_fuel - 1
    BY <1>4 DEF Macro!RunAssert
  <2>2. /\ s.op = "AssertOrYield" /\ s \in VmStep /\ macro_pc' \in 0..Len(program.steps)
        /\ macro_pc' = macro_pc + 1 /\ macro_fuel > 0
    BY <2>1, <1>1
  <2>3. macro_fuel' = Burn(macro_fuel, s)
    BY <2>1, <2>2, <1>f DEF Burn
  <2>4. CASE s.pin \notin BoundPins
    <3>1. macro_outcome' = "UnauthorizedAccess"
      BY <1>4, <2>4 DEF Macro!RunAssert, Macro!Trap, s
    <3> QED BY <1>c, <2>2, <3>1 DEF MacroFollows
  <2>5. CASE s.pin \in BoundPins
    <3>1. ~Refused(s)
      <4>1. s.pin \in 0..Pins - 1
        BY <2>5 DEF BindingsExist
      <4>2. ~(s.pin >= Pins)
        BY <4>1, LimitsAssumption
      <4> QED BY <2>2, <4>2 DEF Refused
    <3>2. CASE reads[macro_pc + 1] # s.expected
      <4>1. macro_outcome' = "AssertionFailed"
        BY <1>4, <2>5, <3>2 DEF Macro!RunAssert, Macro!Trap, s
      <4>2. /\ macro_fuel' = Left(program)[macro_pc']
            /\ EndsIn(program, reads, "AssertionFailed", macro_pc')
        BY <2>1, <2>3, <3>1, <3>2, <1>1
      <4> QED BY <1>c, <2>2, <4>1, <4>2 DEF MacroFollows
    <3>3. CASE reads[macro_pc + 1] = s.expected
      <4>1. macro_outcome' = "running"
        BY <1>4, <1>c, <2>5, <3>3 DEF Macro!RunAssert, s
      <4>2. macro_fuel' = Left(program)[macro_pc'] /\ Reaches(program, reads, macro_pc')
        BY <2>1, <2>3, <3>1, <3>3, <1>1
      <4> QED BY <1>c, <2>2, <4>1, <4>2 DEF MacroFollows
    <3> QED BY <3>2, <3>3
  <2> QED BY <2>4, <2>5
<1>5. CASE Macro!Unreadable
  <2>1. /\ macro_pc < Len(program.steps) /\ macro_fuel > 0 /\ macro_pc >= program.readable
        /\ macro_outcome' = "BufferOverflow" /\ macro_pc' = macro_pc
    BY <1>5 DEF Macro!Unreadable, Macro!More
  <2>2. macro_pc # Len(program.steps) /\ macro_fuel # 0
    BY <2>1, <1>m, <1>t, <1>f
  <2>3. Fate(program, reads, macro_pc) = "BufferOverflow"
    BY <1>m, <2>1, <2>2 DEF Fate
  <2>4. EndsIn(program, reads, "BufferOverflow", macro_pc)
    BY <1>m, <2>3 DEF EndsIn
  <2> QED BY <1>c, <1>m, <2>1, <2>4 DEF MacroFollows
<1>6. CASE Macro!OutOfFuel \/ Macro!Complete
  <2>1. /\ macro_pc' = macro_pc /\ macro_fuel' = macro_fuel
        /\ \/ macro_outcome' = "OutOfFuel" /\ macro_pc < Len(program.steps) /\ macro_fuel = 0
           \/ macro_outcome' = "ok" /\ ~(macro_pc < Len(program.steps))
    BY <1>6 DEF Macro!OutOfFuel, Macro!Complete, Macro!Trap, Macro!More
  <2>2. \/ macro_outcome' = "OutOfFuel" /\ macro_pc # Len(program.steps) /\ macro_fuel = 0
        \/ macro_outcome' = "ok" /\ macro_pc = Len(program.steps)
    BY <2>1, <1>m, <1>t
  <2>3. Fate(program, reads, macro_pc) = macro_outcome'
    BY <1>m, <2>2 DEF Fate
  <2>4. EndsIn(program, reads, macro_outcome', macro_pc)
    BY <1>m, <2>2, <2>3 DEF EndsIn
  <2> QED BY <1>c, <1>m, <2>1, <2>4 DEF MacroFollows
<1> QED BY <1>2, <1>3, <1>4, <1>5, <1>6 DEF Macro!Next

(* A run beside the generated code is a run.                               *)
LEMMA PairRuns == PairSpec => Spec
<1>1. PairInit => Init
  BY DEF PairInit
<1>2. [PairNext]_<<vars, macroVars>> => [Next]_vars
  BY DEF PairNext
<1> QED BY <1>1, <1>2, PTL DEF PairSpec, Spec

(* On a board whose bindings exist, the code that #[io_oi_node] generates  *)
(* ends a script as MicroVm::run does unless it refuses a step, with the   *)
(* same fuel left (macros lib.rs:151-174 against vm.rs:44-88): for every   *)
(* script and every reading of the pins, in every order of their steps.    *)
THEOREM GeneratedCodeAgrees == BindingsExist => (PairSpec => []RoutingOnlyRestricts)
<1> SUFFICES ASSUME BindingsExist PROVE PairSpec => []RoutingOnlyRestricts
  OBVIOUS
<1>1. IInv /\ SideBySide /\ [PairNext]_<<vars, macroVars>> => SideBySide'
  <2> SUFFICES ASSUME IInv, SideBySide, [PairNext]_<<vars, macroVars>>, entry' = "script"
               PROVE  SideBySide'
    BY DEF SideBySide
  <2>1. entry = "script" /\ program' = program /\ reads' = reads
    BY DEF PairNext, Next, RunSetPwm, RunDelay, RunAssert, Fetches, FallBack, RunStd,
           OutOfFuel, Complete, Over, vars
  <2>2. ScriptFollows /\ FallBackFollows /\ MacroFollows /\ TypeOK
    BY <2>1 DEF SideBySide, IInv
  <2>3. [Next]_vars
    BY DEF PairNext
  <2>4. ScriptFollows' /\ FallBackFollows'
    BY <2>1, <2>2, <2>3, ScriptAdvances
  <2>5. CASE UNCHANGED macroVars
    <3>1. MacroFollows'
      BY <2>1, <2>2, <2>5 DEF macroVars, MacroFollows
    <3> QED BY <2>4, <3>1 DEF SideBySide
  <2>6. CASE Macro!Next
    <3>1. MacroFollows'
      BY <2>2, <2>6, MacroAdvances
    <3> QED BY <2>4, <3>1 DEF SideBySide
  <2> QED BY <2>5, <2>6 DEF PairNext, macroVars
<1>2. IInv /\ SideBySide => RoutingOnlyRestricts
  <2> SUFFICES ASSUME IInv, SideBySide, entry = "script", RunOutcome # "running",
                      macro_outcome \notin {"running", "UnauthorizedAccess"}
               PROVE  /\ macro_outcome = RunOutcome
                      /\ machine = "script" => macro_fuel = fuel
    BY DEF RoutingOnlyRestricts
  <2>1. ScriptFollows /\ FallBackFollows /\ MacroFollows
    BY DEF SideBySide
  <2>2. program \in Program /\ machine \in {"script", "std"}
    BY DEF IInv, TypeOK
  <2>3. /\ EndsIn(program, reads, macro_outcome, macro_pc)
        /\ macro_outcome # "BufferOverflow" => macro_fuel = Left(program)[macro_pc]
    BY <2>1 DEF MacroFollows
  <2>4. CASE machine = "script"
    <3>1. RunOutcome = outcome /\ outcome \notin {"running", "BufferOverflow"}
      BY <2>4 DEF RunOutcome, IInv, TypeOK, Outcome, ScriptError, StdError
    <3>2. EndsIn(program, reads, outcome, pc) /\ fuel = Left(program)[pc]
      BY <2>1, <2>4, <3>1 DEF ScriptFollows
    <3>3. macro_outcome = outcome /\ macro_pc = pc
      BY <2>2, <2>3, <3>1, <3>2, OneEnd
    <3> QED BY <2>3, <3>1, <3>2, <3>3
  <2>5. CASE machine = "std"
    <3>1. PICK n \in 0..Len(program.steps) : EndsIn(program, reads, "BufferOverflow", n)
      BY <2>1, <2>5 DEF FallBackFollows
    <3>2. macro_outcome = "BufferOverflow"
      BY <2>2, <2>3, <3>1, OneEnd
    <3> QED BY <2>5, <3>2 DEF RunOutcome
  <2> QED BY <2>2, <2>4, <2>5
<1>3. PairSpec => []IInv
  BY PairRuns, Invariance, PTL
<1> QED BY <1>1, <1>2, <1>3, BothStart, PTL DEF PairSpec

(* What is promised of a run holds of it beside the generated code too,    *)
(* which is the specification that TLC checks.                             *)
THEOREM PromisesBesideGeneratedCode ==
  PairSpec => /\ []TypeOK /\ []FuelPays
              /\ []VerifiedStaysInBounds /\ []VerifiedKeepsCurrent /\ []PaidScriptFinishes
              /\ ImplementsPromise
BY PairRuns, TypeCorrect, NeverOutrunsFuel, AcceptedIsNeverRefused, AcceptedNeverOverloads,
   PaidScriptsFinish, Implements, PTL
=============================================================================
