-------------------------- MODULE ConsensusHistory --------------------------
(***************************************************************************)
(* SpatialConsensus with a record of the last claim that every node has    *)
(* heard of each neighbour since it booted, by which the table that it     *)
(* really has, with its places, its pruning and its clock, is judged.      *)
(***************************************************************************)
EXTENDS SpatialConsensus

VARIABLE heard          \* node -> the last claim heard of each neighbour

historyVars == <<vars, heard>>

HistoryInit == Init /\ heard = [n \in Node |-> {}]

Hears(n, c) == /\ Hear(n, c)
               /\ heard' = [heard EXCEPT ![n] = {d \in heard[n] : d.mac # c.mac} \cup {c}]
Forgets(n) == Restart(n) /\ heard' = [heard EXCEPT ![n] = {}]

HistoryNext ==
  \/ \E n \in Listener, c \in sent : Hears(n, c)
  \/ \E n \in Node : \/ Forgets(n)
                     \/ /\ \/ Tick(n) \/ Dispatch(n) \/ Finish(n)
                           \/ \E k \in K : SpatialAssert(n, k)
                        /\ UNCHANGED heard
  \/ Advance /\ UNCHANGED heard

HistorySpec == HistoryInit /\ [][HistoryNext]_historyVars

(* No confirmation is lost on the way from the radio to the count: a       *)
(* script on a node with a place for each neighbour counts every one of    *)
(* them of which the last that the node heard is a serious hazard, of a    *)
(* script that began, before this one, no longer ago than the window less  *)
(* the skew of the clocks (std_impl.rs:345-354), however long either waits. *)
LastHeardSerious(n) ==
  {c.mac : c \in {d \in heard[n] : d.score >= High /\ ctx[n].from + Skew <= d.from + Window}}
NoWitnessForgotten ==
  \A n \in Node : ~Idle(n) => Cardinality(LastHeardSerious(n)) <= Count(n)
=============================================================================
