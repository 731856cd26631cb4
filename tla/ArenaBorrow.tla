---------------------------- MODULE ArenaBorrow ----------------------------
(***************************************************************************)
(* The arena with the reference that get returns.  Its lifetime is the     *)
(* arena's and not the handle's (unsafe_core.rs:126, &self is elided), so  *)
(* safe code may keep it after the handle is dropped.                      *)
(***************************************************************************)
EXTENDS Arena

CONSTANT NoRef
VARIABLE borrowed        \* the slot a reference points to and what it read

borrowVars == <<vars, borrowed>>

BorrowInit == Init /\ borrowed = NoRef

Borrow(h) == /\ phase[h] = "live" /\ borrowed = NoRef
             /\ borrowed' = [slot |-> index[h], value |-> Get(h)]
             /\ UNCHANGED vars

Release == /\ borrowed # NoRef
           /\ borrowed' = NoRef
           /\ UNCHANGED vars

BorrowNext == \/ Next /\ UNCHANGED borrowed
              \/ \E h \in Handle : Borrow(h)
              \/ Release

BorrowSpec == BorrowInit /\ [][BorrowNext]_borrowVars

(* What a shared reference points to does not change while the reference   *)
(* exists ("absolute memory safety", ReadMe.md:88).                        *)
BorrowedStays == borrowed # NoRef => data[borrowed.slot] = borrowed.value
=============================================================================
