--------------------------- MODULE StaticVerifier ---------------------------
(***************************************************************************)
(* The host's verdict on a program: StaticVerifier in                      *)
(* crates/tiny-io-oi/src/verifier/mod.rs.  The wording of the report is    *)
(* left out; what it claims are the properties of VerifiedVm.              *)
(***************************************************************************)
EXTENDS Programs, Functions

CONSTANT MaxCurrent   \* max_current_limit

ASSUME CurrentAssumption == MaxCurrent \in Nat

(* A step of a script stays within pins and channels.                      *)
StepInBounds(s) == \/ s.op = "SetPwm" /\ s.channel < Channels
                   \/ s.op = "AssertOrYield" /\ s.pin < Pins
                   \/ s.op = "Delay"

ScriptCurrent(steps) ==
  SumFunction([i \in DOMAIN steps |-> IF steps[i].op = "SetPwm" THEN steps[i].speed ELSE 0])

(* verify_vm_script, after its caller has checked that the bytes are one.  *)
VerifyScript(p) == /\ p.readable = Len(p.steps)
                   /\ \A i \in DOMAIN p.steps : StepInBounds(p.steps[i])
                   /\ ScriptCurrent(p.steps) <= MaxCurrent

(* An instruction stays within opcodes, pins and, where it holds a channel, *)
(* channels.  What a fade has for a channel is compared as a pin only.     *)
MutInstructionInBounds(s) ==                      \* channel of 0x84 in b2
  /\ s.op \in StdOpCode
  /\ s.pin < Pins
  /\ s.op \in {"AvoidResonance", "SpectrumAdaptive"} => s.b2 < Channels
  /\ s.op = "ClosedLoopPID" => s.b0 < Channels
InstructionInBounds(s) == /\ s.op \in StdOpCode
                          /\ s.pin < Pins
                          /\ s.op = "AvoidResonance" => s.b2 < Channels
                          /\ s.op = "SpectrumAdaptive" => s.a1 < Channels
                          /\ s.op = "ClosedLoopPID" => s.b0 < Channels

(* The most that an instruction may add to the sum of the speeds.          *)
MutWorstSpeed(op) == CASE op = "AvoidResonance" -> 110
                       [] op = "SpectrumAdaptive" -> 70     \* not 115
                       [] op \in {"HardwareFadePwm", "ClosedLoopPID"} -> 255
                       [] OTHER -> 0
WorstSpeed(op) == CASE op = "AvoidResonance" -> 110
                    [] op = "SpectrumAdaptive" -> 115
                    [] op \in {"HardwareFadePwm", "ClosedLoopPID"} -> 255
                    [] OTHER -> 0

(* verify_std_bytecode.                                                    *)
VerifyCode(p) ==
  /\ ~p.rest
  /\ \A i \in DOMAIN p.code : InstructionInBounds(p.code[i])
  /\ SumFunction([i \in DOMAIN p.code |-> WorstSpeed(p.code[i].op)]) <= MaxCurrent
=============================================================================
