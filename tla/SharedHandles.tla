--------------------------- MODULE SharedHandles ---------------------------
(***************************************************************************)
(* What Arena and TinyArc promise to their callers, independently of the   *)
(* slots, the reference counts and the scan that implement it: a handle is *)
(* a share of one value, which stays what it was for as long as the handle *)
(* lives.                                                                  *)
(***************************************************************************)
CONSTANTS Handle, Value, NoValue

VARIABLE share           \* what each handle reads; NoValue when there is none

Init == share = [h \in Handle |-> NoValue]

New(h, v) == /\ share[h] = NoValue
             /\ share' = [share EXCEPT ![h] = v]

(* g becomes another share of what h reads.                                *)
Clone(h, g) == /\ share[h] # NoValue
               /\ New(g, share[h])

Drop(h) == /\ share[h] # NoValue
           /\ share' = [share EXCEPT ![h] = NoValue]

Next == \E h \in Handle : \/ \E v \in Value : New(h, v)
                          \/ \E g \in Handle : Clone(h, g)
                          \/ Drop(h)

Spec == Init /\ [][Next]_share
=============================================================================
