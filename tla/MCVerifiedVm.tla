---------------------------- MODULE MCVerifiedVm ----------------------------
(* The programs of the runs: three channels of which two are bound, four   *)
(* pins of which one is bound, and one of each that does not exist; a byte *)
(* that is no channel where an instruction holds one and where it does not; *)
(* a fade on the pin that is no channel.                                   *)
EXTENDS VerifiedVm, SequencesExt

MCSteps == {SetPwm(0, 70), SetPwm(1, 150), SetPwm(2, 70), SetPwm(Channels, 70),
            Delay(1), Delay(5),
            AssertOrYield(0, 1), AssertOrYield(1, 1), AssertOrYield(Pins, 1)}
NoChannel == Channels
MCCode == {Instruction(op, 0, 0, 0, 0, 0) : op \in StdOpCode \cup {"Unknown"}}
            \cup {Instruction("AvoidResonance", 0, 0, 0, 0, NoChannel),
                  Instruction("AvoidResonance", 0, 0, NoChannel, NoChannel, 1),
                  Instruction("SpectrumAdaptive", 0, 0, NoChannel, 0, 0),
                  Instruction("SpectrumAdaptive", 0, 0, 1, NoChannel, NoChannel),
                  Instruction("ClosedLoopPID", 0, 0, 0, NoChannel, 0),
                  Instruction("ClosedLoopPID", 0, 0, NoChannel, 1, NoChannel),
                  Instruction("HardwareFadePwm", NoChannel, 255, 0, 0, 0),
                  Instruction("AssertVibration", Pins, 0, 0, 0, 0)}

Scripts == {[steps |-> s, readable |-> Len(s), code |-> <<>>, rest |-> FALSE] :
              s \in BoundedSeq(MCSteps, 3)}
Bytecode == {[steps |-> <<>>, readable |-> 0, code |-> c, rest |-> r] :
               c \in BoundedSeq(MCCode, 2), r \in BOOLEAN}
(* Scripts that break off after r steps, over every instruction.           *)
Broken == {[steps |-> s, readable |-> r, code |-> c, rest |-> TRUE] :
             s \in TupleOf({SetPwm(0, 70), Delay(1)}, 2), r \in 0..1,
             c \in BoundedSeq(MCCode, 1)}
MCPrograms == Scripts \cup Bytecode \cup Broken
=============================================================================
