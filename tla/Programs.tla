------------------------------ MODULE Programs ------------------------------
(***************************************************************************)
(* What a payload of VmScriptDispatch or StdBytecodeDispatch holds: the    *)
(* steps of a VmScript (io_oi_core) and, when the same bytes are read in   *)
(* groups of eight, the instructions of the standard library               *)
(* (crates/tiny-io-oi/src/std_impl.rs).                                    *)
(*                                                                         *)
(* A threshold, a window or a filter constant is not represented: sensors  *)
(* may read anything, so every outcome of a comparison is possible.        *)
(***************************************************************************)
EXTENDS Naturals, Sequences

CONSTANTS Channels,   \* 8 in the code: the PWM channels are 0..Channels-1
          Pins,       \* 32 in the code: the pins are 0..Pins-1
          Speed       \* the motor speeds in use (0..255 in the code)

ASSUME LimitsAssumption == Channels \in Nat /\ Pins \in Nat
ASSUME SpeedAssumption == {0, 70, 110, 115} \subseteq Speed /\ Speed \subseteq 0..255

SetPwm(channel, speed) == [op |-> "SetPwm", channel |-> channel, speed |-> speed]
Delay(ticks) == [op |-> "Delay", ticks |-> ticks]
AssertOrYield(pin, expected) ==
  [op |-> "AssertOrYield", pin |-> pin, expected |-> expected]
Level == {0, 1}
VmStep == [op : {"SetPwm"}, channel : Nat, speed : Speed]
            \cup [op : {"Delay"}, ticks : Nat]
            \cup [op : {"AssertOrYield"}, pin : Nat, expected : Level]

(* 0x80..0x8C, in order.  AcousticCheck (0x82) and EnvelopeCheck (0x85)    *)
(* have a number and no implementation.  Any other byte is Unknown.        *)
StdOpCode == {"AssertVibration", "AvoidResonance", "AcousticCheck",
              "MultiBandAssert", "SpectrumAdaptive", "EnvelopeCheck",
              "DelayUntil", "SpatialConsensusAssert", "HardwareFadePwm",
              "SensorFusion", "ClosedLoopPID", "SyncHibernate",
              "SpatialRanging"}

(* Of the two bytes a0, a1 of param_a and the four b0..b3 of param_b, the  *)
(* lowest first, those are represented in which an instruction may hold a  *)
(* channel or a duty.                                                      *)
Instruction(op, pin, a0, a1, b0, b2) ==
  [op |-> op, pin |-> pin, a0 |-> a0, a1 |-> a1, b0 |-> b0, b2 |-> b2]
StdStep == [op : StdOpCode \cup {"Unknown"}, pin : Nat,
            a0 : Speed, a1 : Nat, b0 : Nat, b2 : Nat]

(* The steps of a script of which only the first `readable` can be decoded *)
(* (VmScriptViewer::get_step), the instructions that the same bytes spell, *)
(* and whether bytes are left over after the last group of eight.          *)
Program == [steps : Seq(VmStep), readable : Nat, code : Seq(StdStep), rest : BOOLEAN]
=============================================================================
