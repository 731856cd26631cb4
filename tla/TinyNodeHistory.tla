-------------------------- MODULE TinyNodeHistory --------------------------
(***************************************************************************)
(* TinyNode with two history variables that its conviction rule (node.rs   *)
(* lines 158-174) is judged by: what every node has really commanded since *)
(* this node booted, and which nodes this node has convicted since.        *)
(***************************************************************************)
EXTENDS TinyNode

VARIABLES issued,      \* the set of <<node, opcode, payload>> received
          convicted    \* the nodes that were ever written to disqualified_leader

historyVars == <<vars, issued, convicted>>

Commands(n, op, p) == /\ op = "TaskDispatch" => OnTaskDispatch(n, p)
                      /\ op = "StateUpdate" => OnStateUpdate(n, p)
                      /\ op = "VmScriptDispatch" => OnVmScript(n, p)

HistoryInit == Init /\ issued = {} /\ convicted = {}

HistoryNext ==
  \/ \E n \in NodeId, op \in CommandOp, p \in Payload :
        /\ issued' = issued \cup {<<n, op, p>>}
        /\ \/ Commands(n, op, p) /\ UNCHANGED convicted
           \/ DoubleSign(n, op, p) /\ convicted' = convicted \cup {n}
  \/ /\ \/ NoMessage
        \/ \E n \in NodeId : IgnoreDisqualified(n) \/ OnHeartbeat(n)
     /\ UNCHANGED <<issued, convicted>>
  \/ Restart /\ issued' = {} /\ convicted' = {}

HistorySpec == HistoryInit /\ [][HistoryNext]_historyVars

(* A node is disqualified only for contradicting itself: it has sent two   *)
(* different payloads under one opcode ("the same Leader", SPEC.md:515).   *)
NoFalseConviction ==
  disqualified_leader # NoNode =>
    \E op \in CommandOp, p, q \in Payload :
      /\ p # q
      /\ {<<disqualified_leader, op, p>>, <<disqualified_leader, op, q>>} \subseteq issued

(* The node works for a leader only if it has not disqualified it since it *)
(* booted ("a new Leader that is not disqualified", SPEC.md:517).          *)
NoConvictReadmitted ==
  leader_active /\ ~safe_mode => Leader(scores) \notin convicted
=============================================================================
