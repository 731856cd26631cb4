----------------------------- MODULE VerifiedVm -----------------------------
(***************************************************************************)
(* The three parts of the system that read a program, on the same one: the *)
(* MicroVm runs it, the code that #[io_oi_node] generates runs it on a     *)
(* board of its own with the same fuel and the same readings of the pins,  *)
(* and StaticVerifier has judged it beforehand.                            *)
(***************************************************************************)
EXTENDS MicroVm, StaticVerifier

CONSTANTS BoundPwm, BoundPins

VARIABLES macro_pc, macro_fuel, macro_motors, macro_outcome

Macro == INSTANCE NodeMacro WITH pc <- macro_pc, fuel <- macro_fuel,
                                 motors <- macro_motors, outcome <- macro_outcome

macroVars == <<macro_pc, macro_fuel, macro_motors, macro_outcome>>

(* The board is in use only when the bytes arrive as a script.             *)
PairInit == /\ Init
            /\ macro_pc = 0
            /\ macro_fuel = budget
            /\ macro_motors = [c \in BoundPwm |-> motor]
            /\ macro_outcome = IF entry = "script" THEN "running" ELSE "unused"

PairNext == \/ Next /\ UNCHANGED macroVars
            \/ Macro!Next /\ UNCHANGED vars

PairSpec == PairInit /\ [][PairNext]_<<vars, macroVars>>

-----------------------------------------------------------------------------
(* Properties.                                                             *)

Verified == IF entry = "script" THEN VerifyScript(program) ELSE VerifyCode(program)

(* What remains of "all pins/channels reside within authorized hardware    *)
(* boundaries" (verifier/mod.rs:73, 229): the run of a verified program is *)
(* never refused a pin or a channel, and every channel that it sets exists, *)
(* but for that of a fade (0x88), which the verifier takes for a pin.      *)
VerifiedStaysInBounds ==
  Verified => /\ outcome # "UnauthorizedAccess"
              /\ \A d \in driven : d[2] < IF d[1] = "fade" THEN Pins ELSE Channels

(* "Cumulative current bounds verified" (verifier/mod.rs:101, 276): the    *)
(* speeds that the run of a verified program sets add up to no more than   *)
(* the limit, although the verifier sees neither sensors nor early ends.   *)
VerifiedKeepsCurrent == Verified => work <= MaxCurrent

(* "Any VM allocation with Fuel >= the steps is MATHEMATICALLY PROVEN to   *)
(* terminate safely" (verifier/mod.rs:37): such a run of a verified script *)
(* does not run out of fuel.                                               *)
VerifiedHasFuel ==
  entry = "script" /\ Verified /\ Len(program.steps) <= budget => outcome # "OutOfFuel"

(* What it takes to finish: a script whose steps and ticks add up to no    *)
(* more than the fuel never runs out of it, wherever its delays are        *)
(* (vm.rs:44-88 burns a delay's ticks, as far as there is fuel).           *)
ScriptCost(steps) ==
  SumFunction([i \in DOMAIN steps |-> IF steps[i].op = "Delay" THEN 1 + steps[i].ticks ELSE 1])
PaidScriptFinishes ==
  machine = "script" /\ ScriptCost(program.steps) <= budget => outcome # "OutOfFuel"

(* The generated routing only restricts: unless it refuses a channel or a  *)
(* pin, the generated code ends a script as MicroVm::run does, with the    *)
(* same fuel left (macros lib.rs:151-174 against vm.rs:44-88).             *)
RunOutcome == IF machine = "std" THEN "BufferOverflow" ELSE outcome
RoutingOnlyRestricts ==
  (/\ entry = "script" /\ RunOutcome # "running"
   /\ macro_outcome \notin {"running", "UnauthorizedAccess"})
  => /\ macro_outcome = RunOutcome
     /\ machine = "script" => macro_fuel = fuel

(* A script that runs out of fuel, fails an assertion or is refused leaves *)
(* every bound motor of the generated node at 0 (SPEC.md:507), also those  *)
(* that it never addressed.                                                *)
TrapShutsDown ==
  macro_outcome \in ScriptError => \A c \in BoundPwm : macro_motors[c] = 0
=============================================================================
