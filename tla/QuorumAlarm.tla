----------------------------- MODULE QuorumAlarm -----------------------------
(***************************************************************************)
(* What spatial consensus promises (SPEC.md:545): an alarm that asked for  *)
(* k neighbours is backed by k other nodes, each of which has itself felt  *)
(* a serious hazard, at most Horizon ago.                                  *)
(***************************************************************************)
EXTENDS Integers, FiniteSets

CONSTANTS Node,
          K,            \* the numbers of neighbours an alarm may ask for
          Horizon,      \* how old a confirmation may be
          NoAlarm

VARIABLES now,          \* the time
          felt,         \* the pairs <<node, time>> at which a hazard was felt
          alarm         \* the alarm raised by the last step, if it raised one

vars == <<now, felt, alarm>>

Alarm == [node : Node, k : K]
Witnesses(n) == {m \in Node \ {n} : \E t \in (now - Horizon)..now : <<m, t>> \in felt}
Backed(a) == Cardinality(Witnesses(a.node)) >= a.k

Init == felt = {} /\ alarm = NoAlarm

Pass == /\ now' > now
        /\ alarm' = NoAlarm
        /\ UNCHANGED felt

Feel(n) == /\ felt' = felt \cup {<<n, now>>}
           /\ alarm' = NoAlarm
           /\ UNCHANGED now

Quiet == alarm' = NoAlarm /\ UNCHANGED <<now, felt>>

(* A node that raises an alarm may feel a serious hazard itself.           *)
Raise(a) == /\ Backed(a)
            /\ felt' \in {felt, felt \cup {<<a.node, now>>}}
            /\ alarm' = a
            /\ UNCHANGED now

Next == \/ Pass \/ Quiet
        \/ \E n \in Node : Feel(n)
        \/ \E a \in Alarm : Raise(a)

Spec == Init /\ [][Next]_vars
=============================================================================
