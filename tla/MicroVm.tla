------------------------------- MODULE MicroVm -------------------------------
(***************************************************************************)
(* One run of a program: MicroVm in crates/tiny-io-oi/src/vm.rs with the   *)
(* StdExecutor of std_impl.rs, called in one of the ways the code has:     *)
(*   "script"  the node received VmScriptDispatch: MicroVm::run, and if    *)
(*             that cannot decode a step, run_std over the same bytes;     *)
(*   "std"     the node received StdBytecodeDispatch: run_std;             *)
(*   "host"    the foreign-function interface: run_std on a mock motor,    *)
(*             without gossip, and nobody to react to an error.            *)
(* A step of the machine is an action; the last one includes what the      *)
(* caller does with the result.                                            *)
(***************************************************************************)
EXTENDS Programs

CONSTANTS Arriving,   \* the programs that may arrive
          NodeFuel,    \* 100 in node.rs
          HostFuel     \* the budgets the host may give

ASSUME ProgramAssumption == Arriving \subseteq Program
ASSUME FuelAssumption == NodeFuel \in Nat /\ HostFuel \subseteq Nat

VARIABLES entry,     \* "script", "std" or "host"
          program,
          reads,     \* the level that the pin of step i has when i reads it
          machine,   \* "script" (run) or "std" (run_std)
          pc,        \* the steps that the machine has begun
          budget,    \* the fuel that the machine was created with
          fuel,
          motor,     \* the speed of the motor, 0 when stopped
          work,      \* the sum of the speeds set so far
          driven,    \* the channels set so far, <<"speed" or "fade", channel>>
          tx,        \* what has been broadcast
          outcome    \* "running", "ok" or the error

vars == <<entry, program, reads, machine, pc, budget, fuel, motor, work, driven, tx,
          outcome>>

ScriptError == {"OutOfFuel", "AssertionFailed", "UnauthorizedAccess"}
StdError == {"OutOfFuel", "UnauthorizedAccess", "VibrationHazard",
             "MultiBandSpectrumHazard", "AcousticFailureDetected",
             "SensorFusionHazard", "PidHazard", "SpatialRangingHazard",
             "InvalidStdOpCode"}
Outcome == {"running", "ok"} \cup ScriptError \cup StdError

Running == outcome = "running"
More == IF machine = "script" THEN pc < Len(program.steps) ELSE pc < Len(program.code)

(* The code an error is reported with, and the node's reaction to the end  *)
(* of a run: an error stops the motor and broadcasts an exception.         *)
ErrorCode(e) == CASE e = "OutOfFuel" -> 1
                  [] e = "AssertionFailed" -> 2
                  [] e = "UnauthorizedAccess" -> IF machine = "script" THEN 3 ELSE 5
                  [] e = "VibrationHazard" -> 2
                  [] e = "MultiBandSpectrumHazard" -> 3
                  [] e = "AcousticFailureDetected" -> 4
                  [] OTHER -> 153
Stops(e) == e # "ok" /\ entry # "host"

(* The end of the run, which has left the motor at speed v.                *)
End(e, v, said) == /\ outcome' = e
                   /\ motor' = IF Stops(e) THEN 0 ELSE v
                   /\ tx' = said \cup IF e = "ok" \/ entry = "host" THEN {}
                                      ELSE {<<"Exception", ErrorCode(e)>>}

-----------------------------------------------------------------------------
(* MicroVm::run                                                            *)

(* fuel -= 1 is forgotten.                                                 *)
MutPays(cost) == fuel > 0 /\ fuel' = fuel - (cost - 1)
Pays(cost) == fuel > 0 /\ fuel' = fuel - cost

Step == program.steps[pc + 1]

(* The loop's head: a step that can be decoded, for those who can pay.     *)
Fetches(op) == /\ machine = "script" /\ Running /\ More
               /\ fuel > 0
               /\ pc < program.readable
               /\ Step.op = op
               /\ pc' = pc + 1
               /\ UNCHANGED <<entry, program, reads, machine, budget>>

RunSetPwm ==
  /\ Fetches("SetPwm")
  /\ Pays(1)
  /\ IF Step.channel >= Channels
     THEN End("UnauthorizedAccess", motor, tx) /\ UNCHANGED <<work, driven>>
     ELSE /\ motor' = Step.speed
          /\ work' = work + Step.speed
          /\ driven' = driven \cup {<<"speed", Step.channel>>}
          /\ UNCHANGED <<tx, outcome>>

(* A delay burns fuel, as much as there is.                                *)
MutDelayCost(ticks, f) == ticks                       \* without min
MutDelayCharge(ticks, f) == IF ticks < f THEN ticks + 1 ELSE f   \* the step twice
DelayCost(ticks, f) == IF ticks < f THEN ticks ELSE f
RunDelay == /\ Fetches("Delay")
            /\ Pays(1 + DelayCost(Step.ticks, fuel - 1))
            /\ UNCHANGED <<motor, work, driven, tx, outcome>>

RunAssert ==
  /\ Fetches("AssertOrYield")
  /\ Pays(1)
  /\ UNCHANGED <<work, driven>>
  /\ IF Step.pin >= Pins THEN End("UnauthorizedAccess", motor, tx)
     ELSE IF reads[pc + 1] # Step.expected THEN End("AssertionFailed", motor, tx)
     ELSE UNCHANGED <<motor, tx, outcome>>

(* BufferOverflow: the node starts again, with fresh fuel, and reads the   *)
(* bytes as standard bytecode.                                             *)
FallBack == /\ machine = "script" /\ Running /\ More
            /\ fuel > 0
            /\ pc >= program.readable
            /\ machine' = "std"
            /\ pc' = 0
            /\ budget' = NodeFuel
            /\ fuel' = NodeFuel
            /\ UNCHANGED <<entry, program, reads, motor, work, driven, tx, outcome>>

-----------------------------------------------------------------------------
(* StdExecutor::execute_step: the possible effects of an instruction, as   *)
(* the speeds that it sets, what it broadcasts and its result.             *)

Quiet == [sets |-> {}, said |-> {}, result |-> "ok"]
Sets(v) == [Quiet EXCEPT !.sets = {v}]
Fails(e) == [Quiet EXCEPT !.result = e]
Hazard(e) == [sets |-> {0}, said |-> {}, result |-> e]
Steering(channel, effects) ==
  IF channel >= Channels THEN {Fails("UnauthorizedAccess")} ELSE effects

AssertVibration == {Quiet, Hazard("VibrationHazard")}
AvoidResonance(s) == Steering(s.b2, {Quiet, Sets(110)})
MultiBandAssert == {Quiet, Hazard("MultiBandSpectrumHazard")}
(* The motor goes on through an acoustic failure.                          *)
MutSpectrumAdaptive(s) ==
  Steering(s.a1, {Quiet, Sets(115), Sets(70), Fails("AcousticFailureDetected")})
SpectrumAdaptive(s) ==
  Steering(s.a1, {Quiet, Sets(115), Sets(70), Hazard("AcousticFailureDetected")})
(* Both wait for the clock, ten seconds at most.                           *)
DelayUntil == {Quiet, Fails("OutOfFuel")}
SyncHibernate == {Quiet, Fails("OutOfFuel")}
(* A node that senses a hazard says so, and raises it if enough others do. *)
SpatialConsensusAssert ==
  {Quiet} \cup IF entry = "host" THEN {}
               ELSE {[e EXCEPT !.said = {<<"SpatialGossip", 0>>}] :
                       e \in {Quiet, Hazard("MultiBandSpectrumHazard")}}
(* The channel of a fade is the pin, which was compared with Pins only.    *)
HardwareFadePwm(s) == {Sets(s.a0)}
SensorFusion == {Quiet, Hazard("SensorFusionHazard")}
ClosedLoopPID(s) ==
  Steering(s.b0, {[Sets(v) EXCEPT !.result = r] : v \in Speed, r \in {"ok", "PidHazard"}})
SpatialRanging == {Quiet, Hazard("SpatialRangingHazard")}

ExecuteStep(s) ==
  CASE s.op = "AssertVibration" -> AssertVibration
    [] s.op = "AvoidResonance" -> AvoidResonance(s)
    [] s.op = "MultiBandAssert" -> MultiBandAssert
    [] s.op = "SpectrumAdaptive" -> SpectrumAdaptive(s)
    [] s.op = "DelayUntil" -> DelayUntil
    [] s.op = "SyncHibernate" -> SyncHibernate
    [] s.op = "SpatialConsensusAssert" -> SpatialConsensusAssert
    [] s.op = "HardwareFadePwm" -> HardwareFadePwm(s)
    [] s.op = "SensorFusion" -> SensorFusion
    [] s.op = "ClosedLoopPID" -> ClosedLoopPID(s)
    [] s.op = "SpatialRanging" -> SpatialRanging
    [] OTHER -> {Fails("InvalidStdOpCode")}

(* The channel that an instruction names for the motor.  Only fade_to is   *)
(* handed it; set_speed takes none, and speaks to the motor of the node.   *)
Drives(s) == CASE s.op = "AvoidResonance" -> {<<"speed", s.b2>>}
               [] s.op = "SpectrumAdaptive" -> {<<"speed", s.a1>>}
               [] s.op = "ClosedLoopPID" -> {<<"speed", s.b0>>}
               [] s.op = "HardwareFadePwm" -> {<<"fade", s.pin>>}
               [] OTHER -> {}

-----------------------------------------------------------------------------
(* MicroVm::run_std                                                        *)

RunStd ==
  /\ machine = "std" /\ Running /\ More
  /\ Pays(1)
  /\ pc' = pc + 1
  /\ LET s == program.code[pc + 1] IN
       IF s.pin >= Pins
       THEN End("UnauthorizedAccess", motor, tx) /\ UNCHANGED <<work, driven>>
       ELSE \E e \in ExecuteStep(s), v \in Speed :
              /\ v = motor \/ e.sets # {}
              /\ e.sets \subseteq {v}
              /\ work' = IF e.sets = {} THEN work ELSE work + v
              /\ driven' = IF e.sets = {} THEN driven ELSE driven \cup Drives(s)
              /\ IF e.result = "ok"
                 THEN motor' = v /\ tx' = tx \cup e.said /\ UNCHANGED outcome
                 ELSE End(e.result, v, tx \cup e.said)
  /\ UNCHANGED <<entry, program, reads, machine, budget>>

(* Both machines.                                                          *)
OutOfFuel == /\ Running /\ More
             /\ fuel = 0
             /\ End("OutOfFuel", motor, tx)
             /\ UNCHANGED <<entry, program, reads, machine, pc, budget, fuel, work, driven>>
Complete == /\ Running /\ ~More
            /\ End("ok", motor, tx)
            /\ UNCHANGED <<entry, program, reads, machine, pc, budget, fuel, work, driven>>

(* A run is over; the next one is another behavior.                        *)
Over == ~Running /\ UNCHANGED vars

Init == /\ entry \in {"script", "std", "host"}
        /\ program \in Arriving
        /\ entry # "script" => program.steps = <<>>   \* which nobody reads
        /\ reads \in [DOMAIN program.steps -> Level]
        /\ machine = IF entry = "script" THEN "script" ELSE "std"
        /\ pc = 0
        /\ budget \in IF entry = "host" THEN HostFuel ELSE {NodeFuel}
        /\ fuel = budget
        /\ motor \in Speed
        /\ work = 0
        /\ driven = {}
        /\ tx = {}
        /\ outcome = "running"

Next == RunSetPwm \/ RunDelay \/ RunAssert \/ FallBack \/ RunStd
          \/ OutOfFuel \/ Complete \/ Over

Spec == Init /\ [][Next]_vars

-----------------------------------------------------------------------------
(* Properties.                                                             *)

TypeOK == /\ entry \in {"script", "std", "host"}
          /\ program \in Program
          /\ reads \in [DOMAIN program.steps -> Level]
          /\ machine \in {"script", "std"}
          /\ pc \in Nat /\ budget \in Nat /\ fuel \in Nat /\ work \in Nat
          /\ motor \in Speed
          /\ driven \subseteq {"speed", "fade"} \X Nat
          /\ tx \subseteq {"SpatialGossip", "Exception"} \X (0..255)
          /\ outcome \in Outcome

(* The fuel pays for every step: what a machine has begun and what it has  *)
(* left never exceed what it was given, so no program runs longer than its *)
(* budget, and a program that falls back no longer than two (vm.rs:44-49). *)
FuelPays == /\ pc + fuel <= budget
            /\ entry # "host" => budget = NodeFuel

(* A run is what the node takes it for when it calls it within one tick.   *)
Promise == INSTANCE ProgramRun WITH motor <- IF motor = 0 THEN "stopped" ELSE "running"
ImplementsPromise == Promise!Spec
=============================================================================
