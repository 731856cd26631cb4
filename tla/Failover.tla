------------------------------ MODULE Failover ------------------------------
(***************************************************************************)
(* What a soldier node promises about its leader, independently of the     *)
(* score table, the message types and the log that implement it.           *)
(*                                                                         *)
(* The node holds one lease.  A heartbeat that the node admits gives the   *)
(* lease to its sender for Lease ticks; nothing else extends it.  A tick   *)
(* uses up one unit of the lease.  The actuators are stopped for as long   *)
(* as the node distrusts its leader: from the tick that ends the lease, or *)
(* from the tick that convicts the holder of contradicting itself, until   *)
(* a node that is not barred takes the lease.                              *)
(***************************************************************************)
EXTENDS Naturals

CONSTANTS NodeId,   \* the nodes that may lead
          NoNode,   \* nobody
          Lease     \* the ticks a heartbeat is good for: at least 2

VARIABLES leader, ttl, safe_mode, barred, motor

vars == <<leader, ttl, safe_mode, barred, motor>>

Motor == {"stopped", "running"}

Init == /\ leader = NoNode
        /\ ttl = 0
        /\ safe_mode = FALSE
        /\ barred = NoNode
        /\ motor = "stopped"

Expiring == ttl = 1

(* One tick of the lease runs out; the holder keeps it unless it was the   *)
(* last one.                                                               *)
Age == /\ leader' = IF Expiring THEN NoNode ELSE leader
       /\ ttl' = IF ttl = 0 THEN 0 ELSE ttl - 1

(* A tick in which nobody takes the lease and nobody is convicted.  A      *)
(* command may move the motor unless the node is, or has just gone, into   *)
(* safe mode.                                                              *)
Pass == /\ Age
        /\ safe_mode' = (safe_mode \/ Expiring)
        /\ \/ motor' = IF Expiring THEN "stopped" ELSE motor
           \/ ~safe_mode' /\ motor' \in Motor
        /\ UNCHANGED barred

(* A node that is not barred takes, or renews, the lease.  This is the     *)
(* only way out of safe mode.                                              *)
Take(n) == /\ n # barred
           /\ leader' = n
           /\ ttl' = Lease
           /\ safe_mode' = FALSE
           /\ motor' = IF Expiring THEN "stopped" ELSE motor
           /\ UNCHANGED barred

(* The holder of the lease contradicts itself.  It keeps what is left of   *)
(* the lease, which it can no longer renew.                                *)
Convict == /\ ttl > 1
           /\ leader # barred
           /\ Age
           /\ barred' = leader
           /\ safe_mode' = TRUE
           /\ motor' = "stopped"

(* The node loses power and boots.                                         *)
Reboot == /\ leader' = NoNode
          /\ ttl' = 0
          /\ safe_mode' = FALSE
          /\ barred' = NoNode
          /\ motor' = "stopped"

Next == \/ Pass
        \/ \E n \in NodeId : Take(n)
        \/ Convict
        \/ Reboot

Spec == Init /\ [][Next]_vars
=============================================================================
