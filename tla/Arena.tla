------------------------------- MODULE Arena -------------------------------
(***************************************************************************)
(* The lock-free arena and its reference-counted handles: Arena and        *)
(* TinyArc in crates/tiny-io-oi/src/unsafe_core.rs.                        *)
(*                                                                         *)
(* Any number of threads call alloc, clone and drop.  A handle may be sent *)
(* to another thread, so what matters is the handle and not the thread: a  *)
(* member of Handle stands for the call of alloc that will return it and   *)
(* then for the handle itself.  Every atomic operation on a reference      *)
(* count is a step (all of them are SeqCst), and so is the write of the    *)
(* data, which alloc makes after it has reserved the slot.                 *)
(***************************************************************************)
EXTENDS Integers, FiniteSets

CONSTANTS Handle,
          N,          \* the slots of the arena
          Value,
          NoValue,    \* None, in a slot
          Wrap        \* 2^16 in the code: the width of AtomicU16

ASSUME HandleAssumption == IsFiniteSet(Handle) /\ Cardinality(Handle) < Wrap
ASSUME SlotAssumption == N \in Nat \ {0}
ASSUME WrapAssumption == Wrap \in Nat \ {0, 1}
ASSUME ValueAssumption == NoValue \notin Value

VARIABLES ref_counts,  \* slot -> the atomic counter
          data,        \* slot -> the value written last
          phase,       \* handle -> where its life is
          index,       \* handle -> the slot it scans or holds
          arg          \* handle -> the value alloc was called with

vars == <<ref_counts, data, phase, index, arg>>

Slot == 0..(N - 1)
Phase == {"none",      \* there is no such handle
          "scanning",  \* in alloc, before the compare_exchange at index
          "reserved",  \* in alloc, between the compare_exchange and the write
          "live"}      \* alloc or clone has returned it

(* AtomicU16: fetch_add and fetch_sub wrap around.                         *)
FetchAdd(s) == ref_counts' = [ref_counts EXCEPT ![s] = (@ + 1) % Wrap]
FetchSub(s) == ref_counts' = [ref_counts EXCEPT ![s] = (@ + Wrap - 1) % Wrap]

(* The handles that a slot's counter stands for.                           *)
Owners(s) == {h \in Handle : phase[h] \in {"reserved", "live"} /\ index[h] = s}

Init == /\ ref_counts = [s \in Slot |-> 0]
        /\ data = [s \in Slot |-> NoValue]
        /\ phase = [h \in Handle |-> "none"]
        /\ index = [h \in Handle |-> 0]
        /\ arg = [h \in Handle |-> NoValue]

-----------------------------------------------------------------------------
(* alloc                                                                   *)

(* The scan starts behind slot 0.                                          *)
MutCall(h, v) == /\ phase[h] = "none"
                 /\ phase' = [phase EXCEPT ![h] = "scanning"]
                 /\ index' = [index EXCEPT ![h] = 1]
                 /\ arg' = [arg EXCEPT ![h] = v]
                 /\ UNCHANGED <<ref_counts, data>>
Call(h, v) == /\ phase[h] = "none"
              /\ phase' = [phase EXCEPT ![h] = "scanning"]
              /\ index' = [index EXCEPT ![h] = 0]
              /\ arg' = [arg EXCEPT ![h] = v]
              /\ UNCHANGED <<ref_counts, data>>

At(h) == phase[h] = "scanning" /\ index[h] < N

(* A slot with one handle is taken for a free one.                         *)
MutVacant(s) == ref_counts[s] <= 1
Vacant(s) == ref_counts[s] = 0

(* The compare_exchange from 0 to 1 succeeds.                              *)
Reserve(h) == /\ At(h)
              /\ Vacant(index[h])
              /\ ref_counts' = [ref_counts EXCEPT ![index[h]] = 1]
              /\ phase' = [phase EXCEPT ![h] = "reserved"]
              /\ UNCHANGED <<data, index, arg>>

(* It fails: on to the next slot.  MutPass: past the end.                  *)
MutPass(h) == /\ phase[h] = "scanning" /\ index[h] <= N
              /\ index[h] = N \/ ~Vacant(index[h])
              /\ index' = [index EXCEPT ![h] = @ + 1]
              /\ UNCHANGED <<ref_counts, data, phase, arg>>
Pass(h) == /\ At(h)
           /\ ~Vacant(index[h])
           /\ index' = [index EXCEPT ![h] = @ + 1]
           /\ UNCHANGED <<ref_counts, data, phase, arg>>

(* No slot is left: alloc returns None.                                    *)
Refuse(h) == /\ phase[h] = "scanning" /\ index[h] = N
             /\ phase' = [phase EXCEPT ![h] = "none"]
             /\ index' = [index EXCEPT ![h] = 0]
             /\ arg' = [arg EXCEPT ![h] = NoValue]
             /\ UNCHANGED <<ref_counts, data>>

(* The value is moved into the slot and the handle is returned.            *)
Write(h) == /\ phase[h] = "reserved"
            /\ data' = [data EXCEPT ![index[h]] = arg[h]]
            /\ phase' = [phase EXCEPT ![h] = "live"]
            /\ arg' = [arg EXCEPT ![h] = NoValue]
            /\ UNCHANGED <<ref_counts, index>>

-----------------------------------------------------------------------------
(* Clone and Drop of TinyArc                                               *)

(* The clone is not counted.                                               *)
MutClone(h, g) == /\ phase[h] = "live" /\ phase[g] = "none"
                  /\ phase' = [phase EXCEPT ![g] = "live"]
                  /\ index' = [index EXCEPT ![g] = index[h]]
                  /\ UNCHANGED <<ref_counts, data, arg>>
Clone(h, g) == /\ phase[h] = "live" /\ phase[g] = "none"
               /\ FetchAdd(index[h])
               /\ phase' = [phase EXCEPT ![g] = "live"]
               /\ index' = [index EXCEPT ![g] = index[h]]
               /\ UNCHANGED <<data, arg>>

(* The value stays in the slot.                                            *)
Drop(h) == /\ phase[h] = "live"
           /\ FetchSub(index[h])
           /\ phase' = [phase EXCEPT ![h] = "none"]
           /\ index' = [index EXCEPT ![h] = 0]
           /\ UNCHANGED <<data, arg>>

-----------------------------------------------------------------------------
Step(h) == \/ \E v \in Value : Call(h, v)
           \/ Reserve(h)
           \/ Pass(h)
           \/ Refuse(h)
           \/ Write(h)
           \/ \E g \in Handle : Clone(h, g)
           \/ Drop(h)

Next == \E h \in Handle : Step(h)

Spec == Init /\ [][Next]_vars

(* get: what a handle reads.                                               *)
Get(h) == data[index[h]]

-----------------------------------------------------------------------------
(* Properties.                                                             *)

TypeOK == /\ ref_counts \in [Slot -> 0..(Wrap - 1)]
          /\ data \in [Slot -> Value \cup {NoValue}]
          /\ phase \in [Handle -> Phase]
          /\ index \in [Handle -> 0..N]
          /\ arg \in [Handle -> Value \cup {NoValue}]

(* Every counter is the number of the handles of its slot at every moment, *)
(* also between the steps of calls that run at once: nothing leaks, and no *)
(* counter reaches zero, by underflow, wrap-around or a race of alloc with *)
(* drop, while a handle is left.                                           *)
CountsAreOwners == \A s \in Slot : ref_counts[s] = Cardinality(Owners(s))

(* While a slot is written nobody else has a handle of it, so the plain    *)
(* write of alloc (unsafe_core.rs:109) races with no reader; and a handle  *)
(* that was returned always finds a value.                                 *)
SoleWriter == \A h \in Handle :
                /\ phase[h] = "reserved" => Owners(index[h]) = {h}
                /\ phase[h] = "live" => Get(h) # NoValue

(* Handles behave as shares of values that nobody else can touch.          *)
Shares == INSTANCE SharedHandles WITH
  share <- [h \in Handle |-> IF phase[h] = "live" THEN Get(h) ELSE NoValue]
ImplementsShares == Shares!Spec
=============================================================================
