----------------------------- MODULE ProgramRun -----------------------------
(***************************************************************************)
(* What a run of a program promises its caller, whatever the program is:   *)
(* it plays with the motor and may broadcast gossip, and then it either    *)
(* ends well and in silence, or fails.  When it fails in the node, the     *)
(* motor is stopped and exactly one exception has been broadcast, with one *)
(* of the codes of node.rs:267-346.  On the host there is nobody to stop   *)
(* the motor, but the hazards that are sensed (std_impl.rs) stop it        *)
(* themselves; PidHazard, which a controller raises, does not.             *)
(***************************************************************************)
EXTENDS Naturals

VARIABLES entry, motor, tx, outcome

Sensed == {"VibrationHazard", "MultiBandSpectrumHazard", "SensorFusionHazard",
           "AcousticFailureDetected", "SpatialRangingHazard"}
Failure == Sensed \cup {"OutOfFuel", "AssertionFailed", "UnauthorizedAccess",
                        "PidHazard", "InvalidStdOpCode"}
Code == (1..5) \cup {153}
Gossip == IF entry = "host" THEN {} ELSE {<<"SpatialGossip", 0>>}

Init == /\ entry \in {"script", "std", "host"}
        /\ motor \in {"stopped", "running"}
        /\ tx = {}
        /\ outcome = "running"

Work == /\ outcome = "running"
        /\ motor' \in {"stopped", "running"}
        /\ tx' \in {tx, tx \cup Gossip}
        /\ UNCHANGED <<entry, outcome>>

Succeed == /\ outcome = "running"
           /\ outcome' = "ok"
           /\ UNCHANGED <<entry, motor, tx>>

Fail(e) == /\ outcome = "running"
           /\ outcome' = e
           /\ entry # "host" \/ e \in Sensed => motor' = "stopped"
           /\ motor' \in {"stopped", "running"}
           /\ \E said \in {tx, tx \cup Gossip}, c \in Code :
                tx' = said \cup IF entry = "host" THEN {} ELSE {<<"Exception", c>>}
           /\ UNCHANGED entry

Next == Work \/ Succeed \/ \E e \in Failure : Fail(e)

Spec == Init /\ [][Next]_<<entry, motor, tx, outcome>>
=============================================================================
