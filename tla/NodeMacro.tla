------------------------------ MODULE NodeMacro ------------------------------
(***************************************************************************)
(* run_vm_script, which the attribute #[io_oi_node] generates for a struct *)
(* of motors and pins (crates/tiny-io-oi-macros/src/lib.rs).  A step is    *)
(* routed to the field that is bound to its channel or pin.                *)
(***************************************************************************)
EXTENDS Programs

CONSTANTS BoundPwm,   \* the channels that a field with strategy PWM has
          BoundPins   \* the channels that a field with strategy GPIO has

VARIABLES program, reads, pc, fuel,
          motors,     \* bound channel -> speed
          outcome

vars == <<program, reads, pc, fuel, motors, outcome>>

Running == outcome = "running"
More == pc < Len(program.steps)
Step == program.steps[pc + 1]

(* Only the motor of channel 0 is stopped.                                 *)
MutSafeShutdown == [c \in BoundPwm |-> IF c = 0 THEN 0 ELSE motors[c]]
SafeShutdown == [c \in BoundPwm |-> 0]
Trap(e) == outcome' = e /\ motors' = SafeShutdown

Fetches(op) == /\ Running /\ More
               /\ fuel > 0
               /\ pc < program.readable
               /\ Step.op = op
               /\ pc' = pc + 1
               /\ UNCHANGED <<program, reads>>

(* A channel without a field is ignored.                                   *)
MutRunSetPwm == /\ Fetches("SetPwm")
                /\ fuel' = fuel - 1
                /\ motors' = [c \in BoundPwm |-> IF c = Step.channel THEN Step.speed
                                                 ELSE motors[c]]
                /\ UNCHANGED outcome
RunSetPwm == /\ Fetches("SetPwm")
             /\ fuel' = fuel - 1
             /\ IF Step.channel \in BoundPwm
                THEN /\ motors' = [motors EXCEPT ![Step.channel] = Step.speed]
                     /\ UNCHANGED outcome
                ELSE Trap("UnauthorizedAccess")

RunDelay ==
  /\ Fetches("Delay")
  /\ fuel' = IF Step.ticks < fuel - 1 THEN fuel - 1 - Step.ticks ELSE 0
  /\ UNCHANGED <<motors, outcome>>

RunAssert ==
  /\ Fetches("AssertOrYield")
  /\ fuel' = fuel - 1
  /\ IF Step.pin \notin BoundPins THEN Trap("UnauthorizedAccess")
     ELSE IF reads[pc + 1] # Step.expected THEN Trap("AssertionFailed")
     ELSE UNCHANGED <<motors, outcome>>

(* A step that cannot be decoded is the one error without a shutdown.      *)
Unreadable == /\ Running /\ More
              /\ fuel > 0
              /\ pc >= program.readable
              /\ fuel' = fuel - 1
              /\ outcome' = "BufferOverflow"
              /\ UNCHANGED <<program, reads, pc, motors>>

OutOfFuel == /\ Running /\ More
             /\ fuel = 0
             /\ Trap("OutOfFuel")
             /\ UNCHANGED <<program, reads, pc, fuel>>
Complete == /\ Running /\ ~More
            /\ outcome' = "ok"
            /\ UNCHANGED <<program, reads, pc, fuel, motors>>

Next == RunSetPwm \/ RunDelay \/ RunAssert \/ Unreadable \/ OutOfFuel \/ Complete
=============================================================================
