---------------------------- MODULE MicroVmProofs ----------------------------
(***************************************************************************)
(* Theorems about MicroVm, and about the generated code beside it.         *)
(***************************************************************************)
EXTENDS VerifiedVm, TLAPS

(* A machine that runs a script was given one; it reads a script as        *)
(* bytecode only if it could not decode all of its steps.                  *)
Dispatched == /\ machine = "script" => entry = "script"
              /\ machine = "std" /\ entry = "script" =>
                   program.readable < Len(program.steps)

IInv == TypeOK /\ FuelPays /\ Dispatched

-----------------------------------------------------------------------------
(* What an instruction may do.                                             *)

USE DEF StdStep, StdOpCode

(* The channel that an instruction holds does not exist.                   *)
Refuses(s) == \/ s.op = "AvoidResonance" /\ s.b2 >= Channels
              \/ s.op = "SpectrumAdaptive" /\ s.a1 >= Channels
              \/ s.op = "ClosedLoopPID" /\ s.b0 >= Channels

LEMMA EffectTypes ==
  ASSUME NEW s \in StdStep, NEW e \in ExecuteStep(s)
  PROVE  /\ e.result \in {"ok"} \cup StdError
         /\ e.said \subseteq Promise!Gossip
         /\ e.sets \subseteq Speed
         /\ e.result \in Promise!Sensed => e.sets = {0}
         /\ e.result = "UnauthorizedAccess" => Refuses(s)
<1> USE DEF Quiet, Sets, Fails, Hazard, StdError, Promise!Sensed, Promise!Gossip
<1> USE SpeedAssumption
<1>1. CASE s.op = "AssertVibration"
  BY <1>1 DEF ExecuteStep, AssertVibration
<1>2. CASE s.op = "AvoidResonance"
  BY <1>2 DEF ExecuteStep, AvoidResonance, Steering, Refuses
<1>3. CASE s.op = "MultiBandAssert"
  BY <1>3 DEF ExecuteStep, MultiBandAssert
<1>4. CASE s.op = "SpectrumAdaptive"
  BY <1>4 DEF ExecuteStep, SpectrumAdaptive, Steering, Refuses
<1>5. CASE s.op \in {"DelayUntil", "SyncHibernate"}
  BY <1>5 DEF ExecuteStep, DelayUntil, SyncHibernate
<1>6. CASE s.op = "SpatialConsensusAssert"
  BY <1>6 DEF ExecuteStep, SpatialConsensusAssert
<1>7. CASE s.op = "HardwareFadePwm"
  BY <1>7 DEF ExecuteStep, HardwareFadePwm
<1>8. CASE s.op = "SensorFusion"
  BY <1>8 DEF ExecuteStep, SensorFusion
<1>9. CASE s.op = "ClosedLoopPID"
  <2>1. CASE s.b0 >= Channels
    BY <1>9, <2>1 DEF ExecuteStep, ClosedLoopPID, Steering, Refuses
  <2>2. CASE ~(s.b0 >= Channels)
    <3>1. PICK v \in Speed, r \in {"ok", "PidHazard"} :
            e = [Sets(v) EXCEPT !.result = r]
      <4> HIDE DEF Sets
      <4> QED BY <1>9, <2>2 DEF ExecuteStep, ClosedLoopPID, Steering
    <3>2. e = [sets |-> {v}, said |-> {}, result |-> r]
      BY <3>1
    <3>3. e.said = {} /\ e.sets = {v} /\ e.result \in {"ok", "PidHazard"}
      BY <3>2
    <3> QED BY <3>3
  <2> QED BY <2>1, <2>2
<1>10. CASE s.op = "SpatialRanging"
  BY <1>10 DEF ExecuteStep, SpatialRanging
<1>11. CASE s.op \in {"AcousticCheck", "EnvelopeCheck", "Unknown"}
  BY <1>11 DEF ExecuteStep
<1> QED BY <1>1, <1>2, <1>3, <1>4, <1>5, <1>6, <1>7, <1>8, <1>9, <1>10, <1>11

LEMMA DrivesTypes ==
  ASSUME NEW s \in StdStep
  PROVE  Drives(s) \subseteq {"speed", "fade"} \X Nat
BY DEF Drives

(* What a program is made of.                                              *)
LEMMA StepTypes ==
  ASSUME TypeOK
  PROVE  /\ Len(program.steps) \in Nat /\ Len(program.code) \in Nat
         /\ program.readable \in Nat
         /\ machine = "script" /\ More =>
              /\ Step \in VmStep /\ pc + 1 \in DOMAIN program.steps
         /\ machine = "std" /\ More =>
              /\ program.code[pc + 1] \in StdStep
              /\ pc + 1 \in DOMAIN program.code
<1>1. /\ program.steps \in Seq(VmStep) /\ program.code \in Seq(StdStep)
      /\ program.readable \in Nat /\ pc \in Nat
      /\ machine \in {"script", "std"}
  BY DEF TypeOK, Program
<1> HIDE DEF StdStep
<1>2. \A i \in 1..Len(program.steps) : program.steps[i] \in VmStep
  BY <1>1
<1>3. \A i \in 1..Len(program.code) : program.code[i] \in StdStep
  BY <1>1
<1>4. machine = "script" /\ More => pc + 1 \in 1..Len(program.steps)
  BY <1>1 DEF More
<1>5. machine = "std" /\ More => pc + 1 \in 1..Len(program.code)
  BY <1>1 DEF More
<1>6. DOMAIN program.steps = 1..Len(program.steps) /\ DOMAIN program.code = 1..Len(program.code)
  BY <1>1
<1> QED BY <1>1, <1>2, <1>3, <1>4, <1>5, <1>6 DEF Step

LEMMA EndTypes ==
  ASSUME NEW e \in {"ok"} \cup ScriptError \cup StdError, NEW v \in Speed, NEW said,
         said \subseteq {"SpatialGossip", "Exception"} \X (0..255),
         End(e, v, said)
  PROVE  /\ outcome' \in Outcome
         /\ motor' \in Speed
         /\ tx' \subseteq {"SpatialGossip", "Exception"} \X (0..255)
<1>1. ErrorCode(e) \in 0..255
  BY DEF ErrorCode
<1> QED BY <1>1, SpeedAssumption DEF End, Outcome

LEMMA Invariance == Spec => []IInv
<1>1. Init => IInv
  <2> SUFFICES ASSUME Init PROVE IInv
    OBVIOUS
  <2> USE ProgramAssumption, FuelAssumption
  <2>1. TypeOK /\ fuel = budget /\ pc = 0
    BY DEF Init, TypeOK, Outcome
  <2>2. FuelPays
    BY <2>1 DEF FuelPays, TypeOK, Init
  <2>3. Dispatched
    BY DEF Init, Dispatched
  <2> QED BY <2>1, <2>2, <2>3 DEF IInv
<1>2. IInv /\ [Next]_vars => IInv'
  <2> SUFFICES ASSUME IInv, [Next]_vars PROVE IInv'
    OBVIOUS
  <2>0. TypeOK /\ FuelPays /\ Dispatched
    BY DEF IInv
  <2>t. /\ pc \in Nat /\ fuel \in Nat /\ budget \in Nat /\ work \in Nat
        /\ motor \in Speed /\ outcome \in Outcome
        /\ driven \subseteq {"speed", "fade"} \X Nat
        /\ tx \subseteq {"SpatialGossip", "Exception"} \X (0..255)
    BY <2>0 DEF TypeOK
  <2>u. \A v \in Speed : v \in Nat
    BY SpeedAssumption
  <2>1. CASE RunSetPwm
    <3>1. Step \in VmStep /\ Step.op = "SetPwm"
      BY <2>1, <2>0, StepTypes DEF RunSetPwm, Fetches
    <3>2. Step.speed \in Speed /\ Step.channel \in Nat
      BY <3>1 DEF VmStep
    <3>3. fuel' = fuel - 1 /\ fuel > 0 /\ pc' = pc + 1
      BY <2>1 DEF RunSetPwm, Fetches, Pays
    <3>5. driven' \subseteq {"speed", "fade"} \X Nat
      BY <2>1, <3>2, <2>t DEF RunSetPwm
    <3>4. /\ motor' \in Speed /\ outcome' \in Outcome /\ work' \in Nat
          /\ tx' \subseteq {"SpatialGossip", "Exception"} \X (0..255)
      <4>1. CASE Step.channel >= Channels
        <5>1. End("UnauthorizedAccess", motor, tx) /\ work' = work
          BY <2>1, <4>1 DEF RunSetPwm
        <5> QED BY <5>1, EndTypes, <2>t DEF ScriptError
      <4>2. CASE ~(Step.channel >= Channels)
        BY <2>1, <4>2, <3>2, <2>t, <2>u DEF RunSetPwm
      <4> QED BY <4>1, <4>2
    <3> QED BY <2>1, <2>0, <2>t, <3>3, <3>4, <3>5
            DEF RunSetPwm, Fetches, IInv, TypeOK, FuelPays, Dispatched
  <2>2. CASE RunDelay
    <3>1. Step \in VmStep /\ Step.op = "Delay"
      BY <2>2, <2>0, StepTypes DEF RunDelay, Fetches
    <3>2. Step.ticks \in Nat
      BY <3>1 DEF VmStep
    <3>3. /\ fuel > 0 /\ fuel' = fuel - (1 + DelayCost(Step.ticks, fuel - 1))
          /\ pc' = pc + 1
      BY <2>2 DEF RunDelay, Fetches, Pays
    <3>4. fuel' \in 0..(fuel - 1)
      BY <3>2, <3>3, <2>t DEF DelayCost
    <3>5. fuel' \in Nat /\ fuel' <= fuel - 1
      BY <3>4, <2>t
    <3> QED BY <2>2, <2>0, <2>t, <3>3, <3>5
            DEF RunDelay, Fetches, IInv, TypeOK, FuelPays, Dispatched
  <2>3. CASE RunAssert
    <3>1. fuel' = fuel - 1 /\ fuel > 0 /\ pc' = pc + 1
      BY <2>3 DEF RunAssert, Fetches, Pays
    <3>2. \/ End("UnauthorizedAccess", motor, tx)
          \/ End("AssertionFailed", motor, tx)
          \/ UNCHANGED <<motor, tx, outcome>>
      BY <2>3 DEF RunAssert
    <3>3. /\ motor' \in Speed /\ outcome' \in Outcome
          /\ tx' \subseteq {"SpatialGossip", "Exception"} \X (0..255)
      BY <3>2, EndTypes, <2>t DEF ScriptError
    <3> QED BY <2>3, <2>0, <2>t, <3>1, <3>3
            DEF RunAssert, Fetches, IInv, TypeOK, FuelPays, Dispatched
  <2>4. CASE FallBack
    <3>1. program.readable < Len(program.steps)
      BY <2>4, <2>0, <2>t, StepTypes DEF FallBack, More
    <3> QED BY <2>4, <2>0, <3>1, FuelAssumption
            DEF FallBack, IInv, TypeOK, FuelPays, Dispatched
  <2>5. CASE RunStd
    <3> DEFINE s == program.code[pc + 1]
    <3>1. s \in StdStep /\ fuel' = fuel - 1 /\ fuel > 0 /\ pc' = pc + 1
      BY <2>5, <2>0, StepTypes DEF RunStd, Pays
    <3>2. /\ motor' \in Speed /\ outcome' \in Outcome /\ work' \in Nat
          /\ tx' \subseteq {"SpatialGossip", "Exception"} \X (0..255)
      <4>1. CASE s.pin >= Pins
        <5>1. End("UnauthorizedAccess", motor, tx) /\ work' = work
          BY <2>5, <4>1 DEF RunStd
        <5> QED BY <5>1, EndTypes, <2>t DEF ScriptError
      <4>2. CASE ~(s.pin >= Pins)
        <5>1. PICK e \in ExecuteStep(s), v \in Speed :
                /\ work' = IF e.sets = {} THEN work ELSE work + v
                /\ IF e.result = "ok"
                   THEN motor' = v /\ tx' = tx \cup e.said /\ UNCHANGED outcome
                   ELSE End(e.result, v, tx \cup e.said)
          BY <2>5, <4>2 DEF RunStd
        <5>2. e.result \in {"ok"} \cup StdError /\ e.said \subseteq Promise!Gossip
          BY <3>1, EffectTypes
        <5>3. tx \cup e.said \subseteq {"SpatialGossip", "Exception"} \X (0..255)
          BY <5>2, <2>t DEF Promise!Gossip
        <5>4. work' \in Nat
          BY <5>1, <2>t, <2>u
        <5>5. CASE e.result = "ok"
          BY <5>1, <5>3, <5>4, <5>5, <2>t
        <5>6. CASE e.result # "ok"
          <6>1. End(e.result, v, tx \cup e.said)
            BY <5>1, <5>6
          <6> DEFINE said == tx \cup e.said
          <6>2. said \subseteq {"SpatialGossip", "Exception"} \X (0..255)
            BY <5>3
          <6>3. End(e.result, v, said)
            BY <6>1
          <6> HIDE DEF said
          <6>4. /\ outcome' \in Outcome /\ motor' \in Speed
                /\ tx' \subseteq {"SpatialGossip", "Exception"} \X (0..255)
            <7> DEFINE r == e.result
            <7>1. r \in {"ok"} \cup ScriptError \cup StdError /\ End(r, v, said)
              BY <5>2, <6>3
            <7> HIDE DEF r
            <7> QED BY <6>2, <7>1, EndTypes
          <6> QED BY <5>4, <6>4
        <5> QED BY <5>5, <5>6
      <4> QED BY <4>1, <4>2
    <3>3. driven' \subseteq {"speed", "fade"} \X Nat
      <4>1. Drives(s) \subseteq {"speed", "fade"} \X Nat
        BY <3>1, DrivesTypes
      <4>2. driven' = driven \/ driven' = driven \cup Drives(s)
        BY <2>5 DEF RunStd
      <4> QED BY <4>1, <4>2, <2>t
    <3> HIDE DEF s
    <3> QED BY <2>5, <2>0, <2>t, <3>1, <3>2, <3>3
            DEF RunStd, IInv, TypeOK, FuelPays, Dispatched
  <2>6. CASE OutOfFuel
    <3>1. End("OutOfFuel", motor, tx)
      BY <2>6 DEF OutOfFuel
    <3>2. /\ motor' \in Speed /\ outcome' \in Outcome
          /\ tx' \subseteq {"SpatialGossip", "Exception"} \X (0..255)
      BY <3>1, EndTypes, <2>t DEF ScriptError
    <3> QED BY <2>6, <2>0, <3>2 DEF OutOfFuel, IInv, TypeOK, FuelPays, Dispatched
  <2>7. CASE Complete
    <3>1. End("ok", motor, tx)
      BY <2>7 DEF Complete
    <3>2. /\ motor' \in Speed /\ outcome' \in Outcome
          /\ tx' \subseteq {"SpatialGossip", "Exception"} \X (0..255)
      BY <3>1, EndTypes, <2>t
    <3> QED BY <2>7, <2>0, <3>2 DEF Complete, IInv, TypeOK, FuelPays, Dispatched
  <2>8. CASE UNCHANGED vars
    BY <2>8, <2>0 DEF vars, IInv, TypeOK, FuelPays, Dispatched, More
  <2> QED BY <2>1, <2>2, <2>3, <2>4, <2>5, <2>6, <2>7, <2>8 DEF Next, Over
<1> QED BY <1>1, <1>2, PTL DEF Spec

(* The types of MicroVm (vm.rs), for every set of programs and every fuel. *)
THEOREM TypeCorrect == Spec => []TypeOK
BY Invariance, PTL DEF IInv

(* No program outruns its fuel: the steps that MicroVm::run or run_std     *)
(* begins (vm.rs:44-49, 98-103) and the fuel it has left never exceed what *)
(* it was created with.                                                    *)
THEOREM NeverOutrunsFuel == Spec => []FuelPays
BY Invariance, PTL DEF IInv

-----------------------------------------------------------------------------
(* The verdict.                                                            *)

(* A run that is refused a pin or a channel has a step that the verifier   *)
(* does not accept.                                                        *)
LEMMA RefusalMeansRejected ==
  ASSUME IInv, [Next]_vars, outcome # "UnauthorizedAccess",
         outcome' = "UnauthorizedAccess"
  PROVE  ~Verified
<1>0. TypeOK /\ Dispatched
  BY DEF IInv
<1>1. CASE RunSetPwm
  <2>1. /\ Step \in VmStep /\ Step.op = "SetPwm" /\ pc + 1 \in DOMAIN program.steps
        /\ entry = "script"
    BY <1>1, <1>0, StepTypes DEF RunSetPwm, Fetches, Dispatched
  <2>2. Step.channel >= Channels
    BY <1>1 DEF RunSetPwm
  <2>3. Step.channel \in Nat
    BY <2>1 DEF VmStep
  <2>4. ~StepInBounds(Step)
    BY <2>1, <2>2, <2>3, LimitsAssumption DEF StepInBounds
  <2> QED BY <2>1, <2>4 DEF Verified, VerifyScript, Step
<1>2. CASE RunAssert
  <2>1. /\ Step \in VmStep /\ Step.op = "AssertOrYield" /\ pc + 1 \in DOMAIN program.steps
        /\ entry = "script"
    BY <1>2, <1>0, StepTypes DEF RunAssert, Fetches, Dispatched
  <2>2. Step.pin >= Pins
    BY <1>2 DEF RunAssert, End
  <2>3. Step.pin \in Nat
    BY <2>1 DEF VmStep
  <2>4. ~StepInBounds(Step)
    BY <2>1, <2>2, <2>3, LimitsAssumption DEF StepInBounds
  <2> QED BY <2>1, <2>4 DEF Verified, VerifyScript, Step
<1>3. CASE RunStd
  <2> DEFINE s == program.code[pc + 1]
  <2>1. s \in StdStep /\ pc + 1 \in DOMAIN program.code /\ machine = "std"
    BY <1>3, <1>0, StepTypes DEF RunStd
  <2>2. s.pin \in Nat /\ s.a1 \in Nat /\ s.b0 \in Nat /\ s.b2 \in Nat
    BY <2>1
  <2>3. \/ s.pin >= Pins
        \/ \E e \in ExecuteStep(s) : e.result = "UnauthorizedAccess"
    BY <1>3 DEF RunStd, End
  <2>4. s.pin >= Pins \/ Refuses(s)
    BY <2>1, <2>3, EffectTypes
  <2>5. ~InstructionInBounds(s)
    BY <2>2, <2>4, LimitsAssumption DEF InstructionInBounds, Refuses
  <2>6. ~VerifyCode(program)
    BY <2>1, <2>5 DEF VerifyCode
  <2>7. CASE entry = "script"
    <3>1. program.readable < Len(program.steps)
      BY <2>1, <2>7, <1>0 DEF Dispatched
    <3> QED BY <3>1, <2>7, <1>0, StepTypes DEF Verified, VerifyScript
  <2> QED BY <2>6, <2>7 DEF Verified
<1>4. CASE RunDelay \/ FallBack \/ OutOfFuel \/ Complete \/ UNCHANGED vars
  BY <1>4 DEF RunDelay, FallBack, OutOfFuel, Complete, End, vars
<1> QED BY <1>1, <1>2, <1>3, <1>4 DEF Next, Over

(* A channel exists, or is that of a fade and a pin.                       *)
Bounded(d) == d[2] < IF d[1] = "fade" THEN Pins ELSE Channels

LEMMA AcceptedDrives ==
  ASSUME NEW s \in StdStep, InstructionInBounds(s)
  PROVE  \A d \in Drives(s) : Bounded(d)
BY DEF InstructionInBounds, Drives, Bounded

(* What an accepted program sets is set by a step that is in bounds.       *)
LEMMA DrivenStaysBounded ==
  ASSUME IInv, [Next]_vars, Verified, \A d \in driven : Bounded(d)
  PROVE  \A d \in driven' : Bounded(d)
<1>0. TypeOK /\ Dispatched
  BY DEF IInv
<1>1. CASE RunSetPwm
  <2>1. Step \in VmStep /\ Step.op = "SetPwm"
    BY <1>1, <1>0, StepTypes DEF RunSetPwm, Fetches
  <2>2. Step.channel \in Nat
    BY <2>1 DEF VmStep
  <2>3. \/ driven' = driven
        \/ driven' = driven \cup {<<"speed", Step.channel>>} /\ Step.channel < Channels
    BY <1>1, <2>2, LimitsAssumption DEF RunSetPwm
  <2> QED BY <2>3 DEF Bounded
<1>2. CASE RunStd
  <2> DEFINE s == program.code[pc + 1]
  <2>1. s \in StdStep /\ pc + 1 \in DOMAIN program.code /\ machine = "std"
    BY <1>2, <1>0, StepTypes DEF RunStd
  <2>2. entry # "script"
    BY <1>0, <2>1, StepTypes DEF Dispatched, Verified, VerifyScript
  <2>3. InstructionInBounds(s)
    BY <2>1, <2>2 DEF Verified, VerifyCode
  <2>4. driven' = driven \/ driven' = driven \cup Drives(s)
    BY <1>2 DEF RunStd
  <2> HIDE DEF s
  <2> QED BY <2>1, <2>3, <2>4, AcceptedDrives
<1>3. CASE RunDelay \/ RunAssert \/ FallBack \/ OutOfFuel \/ Complete \/ UNCHANGED vars
  BY <1>3 DEF RunDelay, RunAssert, FallBack, OutOfFuel, Complete, vars
<1> QED BY <1>1, <1>2, <1>3 DEF Next, Over

(* Whatever StaticVerifier accepts (verify_vm_script, verify_std_bytecode) *)
(* is never refused a pin or a channel by the machine that runs it, and    *)
(* every channel that it sets exists, or is that of a fade and a pin.      *)
THEOREM AcceptedIsNeverRefused == Spec => []VerifiedStaysInBounds
<1>1. Init => VerifiedStaysInBounds
  BY DEF Init, VerifiedStaysInBounds
<1>2. IInv /\ VerifiedStaysInBounds /\ [Next]_vars => VerifiedStaysInBounds'
  <2> SUFFICES ASSUME IInv, VerifiedStaysInBounds, [Next]_vars, Verified'
               PROVE  /\ outcome' # "UnauthorizedAccess"
                      /\ \A d \in driven' : Bounded(d)
    BY DEF VerifiedStaysInBounds, Bounded
  <2>1. program' = program /\ entry' = entry
    BY DEF Next, vars, RunSetPwm, RunDelay, RunAssert, Fetches, FallBack, RunStd,
           OutOfFuel, Complete, Over
  <2>2. Verified
    BY <2>1 DEF Verified, VerifyScript, VerifyCode
  <2>3. outcome # "UnauthorizedAccess" /\ \A d \in driven : Bounded(d)
    BY <2>2 DEF VerifiedStaysInBounds, Bounded
  <2>4. outcome' # "UnauthorizedAccess"
    BY <2>2, <2>3, RefusalMeansRejected
  <2>5. \A d \in driven' : Bounded(d)
    BY <2>2, <2>3, DrivenStaysBounded
  <2> QED BY <2>4, <2>5
<1> QED BY <1>1, <1>2, Invariance, PTL DEF Spec

-----------------------------------------------------------------------------
(* The promise to the caller.                                              *)

(* The end of a run is a Fail of the promise, or its Succeed.              *)
LEMMA EndKeepsPromise ==
  ASSUME TypeOK, Running, entry' = entry,
         NEW e \in ScriptError \cup StdError, NEW v \in Speed, NEW said,
         said \in {tx, tx \cup Promise!Gossip},
         e \in Promise!Sensed => v = 0,
         End(e, v, said)
  PROVE  Promise!Next
<1>1. e \in Promise!Failure
  BY DEF ScriptError, StdError, Promise!Failure, Promise!Sensed
<1>2. ErrorCode(e) \in Promise!Code
  BY DEF ErrorCode, Promise!Code
<1>3. entry # "host" \/ e \in Promise!Sensed => motor' = 0
  BY DEF End, Stops, ScriptError, StdError
<1>4. tx' = said \cup IF entry = "host" THEN {} ELSE {<<"Exception", ErrorCode(e)>>}
  BY DEF End, ScriptError, StdError
<1>5. outcome = "running" /\ outcome' = e
  BY DEF End, Running
<1>6. Promise!Fail(e)
  BY <1>2, <1>3, <1>4, <1>5 DEF Promise!Fail
<1> QED BY <1>1, <1>6 DEF Promise!Next

(* Every run, of any program with any fuel, is one that ProgramRun         *)
(* describes: no way out of vm.rs or std_impl.rs leaves the node with a    *)
(* running motor after an error, or with no exception to report.           *)
THEOREM Implements == Spec => ImplementsPromise
<1> USE DEF Promise!Next, Promise!Work, Promise!Succeed
<1>1. Init => Promise!Init
  BY DEF Init, Promise!Init
<1>2. IInv /\ [Next]_vars =>
        [Promise!Next]_<<entry, IF motor = 0 THEN "stopped" ELSE "running", tx, outcome>>
  <2> SUFFICES ASSUME IInv, [Next]_vars
               PROVE  \/ Promise!Next
                      \/ UNCHANGED <<entry, motor, tx, outcome>>
    OBVIOUS
  <2>0. TypeOK /\ motor \in Speed /\ (outcome = "running" <=> Running)
    BY DEF IInv, TypeOK, Running
  <2> DEFINE Quits(e) == Running /\ entry' = entry /\ End(e, motor, tx)
  <2>q. ASSUME NEW e \in ScriptError, Quits(e)
        PROVE  Promise!Next
    BY <2>0, <2>q, EndKeepsPromise DEF ScriptError, Promise!Sensed
  <2>1. CASE RunSetPwm
    <3>1. CASE Step.channel >= Channels
      BY <2>1, <3>1, <2>q DEF RunSetPwm, Fetches, ScriptError
    <3>2. CASE ~(Step.channel >= Channels)
      BY <2>1, <3>2 DEF RunSetPwm, Fetches, Running
    <3> QED BY <3>1, <3>2
  <2>2. CASE RunDelay
    BY <2>2 DEF RunDelay, Fetches
  <2>3. CASE RunAssert
    <3>1. \/ Quits("UnauthorizedAccess") \/ Quits("AssertionFailed")
          \/ UNCHANGED <<entry, motor, tx, outcome>>
      BY <2>3 DEF RunAssert, Fetches
    <3> QED BY <3>1, <2>q DEF ScriptError
  <2>4. CASE FallBack
    BY <2>4 DEF FallBack
  <2>5. CASE RunStd
    <3> DEFINE s == program.code[pc + 1]
    <3>1. s \in StdStep /\ Running /\ entry' = entry
      BY <2>5, <2>0, StepTypes DEF RunStd
    <3>2. CASE s.pin >= Pins
      BY <2>5, <3>1, <3>2, <2>q DEF RunStd, ScriptError
    <3>3. CASE ~(s.pin >= Pins)
      <4>1. PICK e \in ExecuteStep(s), v \in Speed :
              /\ e.sets \subseteq {v}
              /\ IF e.result = "ok"
                 THEN motor' = v /\ tx' = tx \cup e.said /\ UNCHANGED outcome
                 ELSE End(e.result, v, tx \cup e.said)
        BY <2>5, <3>3 DEF RunStd
      <4>2. /\ e.result \in {"ok"} \cup StdError
            /\ e.said \subseteq Promise!Gossip
            /\ e.result \in Promise!Sensed => v = 0
        BY <3>1, <4>1, EffectTypes
      <4>3. tx \cup e.said \in {tx, tx \cup Promise!Gossip}
        BY <4>2 DEF Promise!Gossip
      <4>4. CASE e.result = "ok"
        BY <4>1, <4>3, <4>4, <3>1 DEF Running
      <4>5. CASE e.result # "ok"
        BY <4>1, <4>2, <4>3, <4>5, <3>1, <2>0, EndKeepsPromise
      <4> QED BY <4>4, <4>5
    <3> QED BY <3>2, <3>3
  <2>6. CASE OutOfFuel
    BY <2>6, <2>q DEF OutOfFuel, ScriptError
  <2>7. CASE Complete
    BY <2>7 DEF Complete, End, Stops, Running
  <2>8. CASE UNCHANGED vars
    BY <2>8 DEF vars
  <2> QED BY <2>1, <2>2, <2>3, <2>4, <2>5, <2>6, <2>7, <2>8 DEF Next, Over
<1> QED BY <1>1, <1>2, Invariance, PTL DEF Spec, ImplementsPromise, Promise!Spec

-----------------------------------------------------------------------------
(* The generated code.                                                     *)

(* Every trap of the generated code that SPEC.md:507 names stops every     *)
(* motor that is bound, for every binding.                                 *)
THEOREM TrapsShutDown == PairSpec => []TrapShutsDown
<1>1. PairInit => TrapShutsDown
  BY DEF PairInit, TrapShutsDown, ScriptError
<1>2. TrapShutsDown /\ [PairNext]_<<vars, macroVars>> => TrapShutsDown'
  <2> SUFFICES ASSUME TrapShutsDown, [PairNext]_<<vars, macroVars>>
               PROVE  TrapShutsDown'
    OBVIOUS
  <2>1. ASSUME NEW e, Macro!Trap(e)
        PROVE  TrapShutsDown'
    BY <2>1 DEF Macro!Trap, Macro!SafeShutdown, TrapShutsDown
  <2>2. CASE UNCHANGED macroVars
    BY <2>2 DEF macroVars, TrapShutsDown
  <2>3. CASE Macro!Next
    <3>1. \/ \E e : Macro!Trap(e)
          \/ macro_outcome' \in {"running", "ok", "BufferOverflow"}
      BY <2>3 DEF Macro!Next, Macro!RunSetPwm, Macro!RunDelay, Macro!RunAssert,
                  Macro!Unreadable, Macro!OutOfFuel, Macro!Complete, Macro!Fetches,
                  Macro!Running
    <3>2. CASE macro_outcome' \in {"running", "ok", "BufferOverflow"}
      BY <3>2 DEF TrapShutsDown, ScriptError
    <3> QED BY <3>1, <3>2, <2>1
  <2> QED BY <2>2, <2>3 DEF PairNext, macroVars
<1> QED BY <1>1, <1>2, PTL DEF PairSpec
=============================================================================
