---------------------------- MODULE ArenaDemand ----------------------------
(***************************************************************************)
(* The arena with a history variable that tells whether it was ever asked  *)
(* for more slots than it has, since the oldest of the calls of alloc in   *)
(* progress began.                                                         *)
(***************************************************************************)
EXTENDS Arena

VARIABLE crowded

demandVars == <<vars, crowded>>

Scanning == {h \in Handle : phase[h] = "scanning"}
Taken == {s \in Slot : ref_counts[s] # 0}
Demand == Cardinality(Scanning) + Cardinality(Taken)

DemandInit == Init /\ crowded = FALSE

DemandNext == /\ Next
              /\ crowded' = (Scanning' # {} /\ (crowded \/ Demand' > N))

DemandSpec == DemandInit /\ [][DemandNext]_demandVars

(* alloc's scan is not atomic: slots behind it may be freed, and slots     *)
(* ahead of it taken, while it runs.  Still it fails only when more slots  *)
(* than the arena has were wanted at once: as many slots as clients, each  *)
(* with one slot, and no alloc ever returns None (what the "thread alloc"  *)
(* of the test at lib.rs:483 relies on, for threads that allocate once).   *)
RefusedOnlyWhenCrowded ==
  \A h \in Scanning : index[h] = N => crowded
=============================================================================
