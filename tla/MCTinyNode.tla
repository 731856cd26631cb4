----------------------------- MODULE MCTinyNode -----------------------------
(* The soldier node on small instances, and under the fairness that its    *)
(* recovery depends on.                                                    *)
EXTENDS TinyNode, TLC

(* Nodes are interchangeable: nothing orders them.                         *)
Symmetry == Permutations(NodeId)

CONSTANT Steady        \* the nodes that never cease to send heartbeats
ASSUME SteadyAssumption == Steady \subseteq NodeId /\ Cardinality(Steady) >= 2

(* Some of the heartbeats of a steady node arrive, whatever else is lost.  *)
FairSpec == Spec /\ \A n \in Steady : WF_vars(OnHeartbeat(n))

(* Safe mode is never a trap: a node that goes on hearing the heartbeats   *)
(* of two nodes leaves it, although its table may be full of others and    *)
(* one of the two may be disqualified (node.rs:179-186).                   *)
SafeModeHeals == safe_mode ~> ~safe_mode
=============================================================================
