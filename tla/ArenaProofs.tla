---------------------------- MODULE ArenaProofs ----------------------------
(***************************************************************************)
(* What TLAPS proves of the arena, for every number of handles, slots and  *)
(* values, and every width of the counters that no number of handles can   *)
(* overflow.                                                               *)
(***************************************************************************)
EXTENDS ArenaDemand, FiniteSetTheorems, TLAPS

Owning == {"reserved", "live"}

(* What the invariants need besides themselves: the value of a call is     *)
(* kept until it is written, and only a real slot is held.                 *)
CallsOK == \A h \in Handle :
             /\ phase[h] \in {"scanning", "reserved"} => arg[h] \in Value
             /\ phase[h] \in Owning => index[h] \in Slot

IInv == TypeOK /\ CountsAreOwners /\ SoleWriter /\ CallsOK

-----------------------------------------------------------------------------
(* The counters                                                            *)

(* A counter does not wrap while there are fewer handles than its values.  *)
LEMMA CountUp ==
  ASSUME NEW c \in Nat, c + 1 < Wrap
  PROVE  (c + 1) % Wrap = c + 1
BY WrapAssumption

LEMMA CountDown ==
  ASSUME NEW c \in Nat, 0 < c, c < Wrap
  PROVE  (c + Wrap - 1) % Wrap = c - 1
BY WrapAssumption

(* The owners of a slot are a finite set, smaller than the counter's width. *)
LEMMA OwnersFinite ==
  ASSUME NEW s
  PROVE  /\ IsFiniteSet(Owners(s))
         /\ Cardinality(Owners(s)) \in Nat
         /\ Cardinality(Owners(s)) < Wrap
<1>1. Owners(s) \in SUBSET Handle
  BY DEF Owners
<1>2. IsFiniteSet(Owners(s)) /\ Cardinality(Owners(s)) <= Cardinality(Handle)
  BY <1>1, FS_Subset, HandleAssumption
<1>3. Cardinality(Owners(s)) \in Nat /\ Cardinality(Handle) \in Nat
  BY <1>2, FS_CardinalityType, HandleAssumption
<1> QED
  BY <1>2, <1>3, HandleAssumption, WrapAssumption

(* A slot whose counter is zero has no owner, and the other way round.     *)
LEMMA VacantIsUnowned ==
  ASSUME CountsAreOwners, NEW s \in Slot
  PROVE  ref_counts[s] = 0 <=> Owners(s) = {}
<1>1. IsFiniteSet(Owners(s))
  BY OwnersFinite
<1> QED
  BY <1>1, FS_EmptySet DEF CountsAreOwners

-----------------------------------------------------------------------------
(* The invariant                                                           *)

LEMMA InitInv == Init => IInv
<1> SUFFICES ASSUME Init PROVE IInv
  OBVIOUS
<1>1. TypeOK
  BY SlotAssumption, WrapAssumption DEF Init, TypeOK, Phase
<1>2. \A s : Owners(s) = {}
  BY DEF Init, Owners
<1>3. CountsAreOwners
  BY <1>2, FS_EmptySet DEF Init, CountsAreOwners
<1>4. SoleWriter /\ CallsOK
  BY DEF Init, SoleWriter, CallsOK, Owning
<1> QED
  BY <1>1, <1>3, <1>4 DEF IInv

(* The steps that neither take nor give up a slot.                         *)
LEMMA OwnersStay ==
  ASSUME UNCHANGED ref_counts, CountsAreOwners,
         \A g \in Handle : /\ phase'[g] \in Owning <=> phase[g] \in Owning
                           /\ phase[g] \in Owning => index'[g] = index[g]
  PROVE  /\ \A s : Owners(s)' = Owners(s)
         /\ CountsAreOwners'
<1>1. \A s : Owners(s)' = Owners(s)
  BY DEF Owners, Owning
<1> QED
  BY <1>1 DEF CountsAreOwners

LEMMA CallInv ==
  ASSUME IInv, NEW h \in Handle, NEW v \in Value, Call(h, v)
  PROVE  IInv'
<1> USE DEF IInv
<1>1. TypeOK'
  BY SlotAssumption DEF TypeOK, Call, Phase
<1>2. \A g \in Handle : /\ phase'[g] \in Owning => phase'[g] = phase[g] /\ g # h
                        /\ phase[g] \in Owning => phase'[g] = phase[g] /\ g # h
                        /\ g # h => index'[g] = index[g] /\ arg'[g] = arg[g]
                                    /\ phase'[g] = phase[g]
  BY DEF TypeOK, Call, Owning
<1>3. (\A s : Owners(s)' = Owners(s)) /\ CountsAreOwners'
  BY <1>2, OwnersStay DEF Call
<1>4. SoleWriter'
  BY <1>2, <1>3 DEF SoleWriter, Get, Call, Owning
<1>5. CallsOK'
  BY <1>2 DEF CallsOK, Call, TypeOK, Owning
<1> QED
  BY <1>1, <1>3, <1>4, <1>5

LEMMA PassInv ==
  ASSUME IInv, NEW h \in Handle, Pass(h)
  PROVE  IInv'
<1> USE DEF IInv
<1>1. TypeOK'
  BY SlotAssumption DEF TypeOK, Pass, At
<1>2. \A g \in Handle : g # h => index'[g] = index[g]
  BY DEF TypeOK, Pass
<1>3. phase[h] \notin Owning /\ phase' = phase /\ arg' = arg
  BY DEF Pass, At, Owning
<1>4. (\A s : Owners(s)' = Owners(s)) /\ CountsAreOwners'
  BY <1>2, <1>3, OwnersStay DEF Pass
<1>5. SoleWriter'
  BY <1>2, <1>3, <1>4 DEF SoleWriter, Get, Pass, Owning
<1>6. CallsOK'
  BY <1>2, <1>3 DEF CallsOK
<1> QED
  BY <1>1, <1>4, <1>5, <1>6

LEMMA RefuseInv ==
  ASSUME IInv, NEW h \in Handle, Refuse(h)
  PROVE  IInv'
<1> USE DEF IInv
<1>1. TypeOK'
  BY SlotAssumption DEF TypeOK, Refuse, Phase
<1>2. /\ \A g \in Handle : g # h => /\ phase'[g] = phase[g] /\ index'[g] = index[g]
                                    /\ arg'[g] = arg[g]
      /\ phase[h] = "scanning" /\ phase'[h] = "none"
  BY DEF TypeOK, Refuse
<1>3. (\A s : Owners(s)' = Owners(s)) /\ CountsAreOwners'
  BY <1>2, OwnersStay DEF Refuse, Owning
<1>4. SoleWriter'
  BY <1>2, <1>3 DEF SoleWriter, Get, Refuse
<1>5. CallsOK'
  BY <1>2 DEF CallsOK, Owning
<1> QED
  BY <1>1, <1>3, <1>4, <1>5

(* The slot is written by its only owner.                                  *)
LEMMA WriteInv ==
  ASSUME IInv, NEW h \in Handle, Write(h)
  PROVE  /\ IInv'
         /\ \A g \in Handle : g # h /\ phase[g] = "live" => Get(g)' = Get(g)
         /\ Get(h)' = arg[h]
<1> USE DEF IInv
<1>1. arg[h] \in Value /\ index[h] \in Slot
  BY DEF Write, CallsOK, Owning
<1>2. TypeOK'
  BY <1>1 DEF TypeOK, Write, Phase
<1>3. /\ \A g \in Handle : g # h => phase'[g] = phase[g] /\ arg'[g] = arg[g]
      /\ phase[h] = "reserved" /\ phase'[h] = "live"
      /\ index' = index
  BY DEF TypeOK, Write
<1>4. (\A s : Owners(s)' = Owners(s)) /\ CountsAreOwners'
  <2>1. \A g \in Handle : /\ phase'[g] \in Owning <=> phase[g] \in Owning
                          /\ phase[g] \in Owning => index'[g] = index[g]
    BY <1>3 DEF Owning
  <2> QED
    BY <2>1, OwnersStay DEF Write
<1>5. Owners(index[h]) = {h}
  BY <1>3 DEF SoleWriter
<1>6. \A g \in Handle : g # h /\ phase[g] \in Owning => index[g] # index[h]
  BY <1>5 DEF Owners, Owning
<1>7. \A g \in Handle : g # h /\ phase[g] = "live" => Get(g)' = Get(g)
  BY <1>1, <1>3, <1>6 DEF Get, Write, TypeOK, Owning, CallsOK
<1>8. Get(h)' = arg[h]
  BY <1>1, <1>3 DEF Get, Write, TypeOK
<1>9. SoleWriter'
  BY <1>1, <1>3, <1>4, <1>7, <1>8, ValueAssumption DEF SoleWriter
<1>10. CallsOK'
  BY <1>3 DEF CallsOK, Owning
<1> QED
  BY <1>2, <1>4, <1>7, <1>8, <1>9, <1>10

(* The compare_exchange finds a slot that nobody owns.                     *)
LEMMA ReserveInv ==
  ASSUME IInv, NEW h \in Handle, Reserve(h)
  PROVE  IInv'
<1> USE DEF IInv
<1>1. index[h] \in Slot
  BY SlotAssumption DEF Reserve, At, TypeOK, Slot
<1>2. TypeOK'
  BY <1>1, WrapAssumption DEF TypeOK, Reserve, Phase
<1>3. /\ \A g \in Handle : g # h => phase'[g] = phase[g]
      /\ phase[h] = "scanning" /\ phase'[h] = "reserved"
      /\ index' = index /\ arg' = arg /\ data' = data
      /\ \A s \in Slot : ref_counts'[s] = IF s = index[h] THEN 1 ELSE ref_counts[s]
  BY <1>1 DEF TypeOK, Reserve, At
<1>4. Owners(index[h]) = {}
  BY <1>1, VacantIsUnowned DEF Reserve, Vacant
<1>5. Owners(index[h])' = {h}
  BY <1>3, <1>4 DEF Owners
<1>6. \A s : s # index[h] => Owners(s)' = Owners(s)
  BY <1>3 DEF Owners
<1>7. CountsAreOwners'
  <2> SUFFICES ASSUME NEW s \in Slot
               PROVE  ref_counts'[s] = Cardinality(Owners(s)')
    BY DEF CountsAreOwners
  <2>1. CASE s = index[h]
    BY <2>1, <1>3, <1>5, FS_Singleton
  <2>2. CASE s # index[h]
    BY <2>2, <1>3, <1>6 DEF CountsAreOwners
  <2> QED
    BY <2>1, <2>2
<1>8. \A g \in Handle : g # h /\ phase[g] \in Owning => index[g] # index[h]
  BY <1>4 DEF Owners, Owning
<1>9. SoleWriter'
  BY <1>3, <1>5, <1>6, <1>8 DEF SoleWriter, Get, Owning
<1>10. CallsOK'
  BY <1>1, <1>3 DEF CallsOK, Owning
<1> QED
  BY <1>2, <1>7, <1>9, <1>10

(* One more owner: there are too few handles for the counter to wrap.      *)
LEMMA CloneInv ==
  ASSUME IInv, NEW h \in Handle, NEW g \in Handle, Clone(h, g)
  PROVE  IInv'
<1> USE DEF IInv
<1>1. PICK i \in Slot : i = index[h]
  BY DEF Clone, CallsOK, Owning
<1>2. /\ \A k \in Handle : k # g => phase'[k] = phase[k] /\ index'[k] = index[k]
      /\ phase[g] = "none" /\ phase'[g] = "live" /\ index'[g] = i
      /\ phase[h] = "live"
      /\ arg' = arg /\ data' = data
  BY <1>1 DEF TypeOK, Clone
<1>3. Owners(i)' = Owners(i) \cup {g} /\ g \notin Owners(i)
  BY <1>1, <1>2 DEF Owners
<1>4. \A s : s # i => Owners(s)' = Owners(s)
  BY <1>1, <1>2 DEF Owners
<1>5. /\ Cardinality(Owners(i)') = Cardinality(Owners(i)) + 1
      /\ Cardinality(Owners(i)') < Wrap
  <2>1. Cardinality(Owners(i) \cup {g}) = Cardinality(Owners(i)) + 1
    BY <1>3, OwnersFinite, FS_AddElement
  <2>2. Owners(i) \cup {g} \in SUBSET Handle
    BY DEF Owners
  <2>3. Cardinality(Owners(i) \cup {g}) <= Cardinality(Handle)
    BY <2>2, FS_Subset, HandleAssumption
  <2> QED
    BY <2>1, <2>3, <1>3, HandleAssumption, WrapAssumption, FS_CardinalityType, OwnersFinite
<1>6. ref_counts'[i] = ref_counts[i] + 1
  <2>1. ref_counts[i] \in Nat /\ ref_counts[i] + 1 < Wrap
    BY <1>1, <1>5, OwnersFinite DEF CountsAreOwners
  <2> QED
    BY <1>1, <2>1, CountUp DEF Clone, FetchAdd, TypeOK
<1>7. \A s \in Slot : s # i => ref_counts'[s] = ref_counts[s]
  BY <1>1 DEF Clone, FetchAdd, TypeOK
<1>8. CountsAreOwners'
  BY <1>1, <1>4, <1>5, <1>6, <1>7 DEF CountsAreOwners
<1>9. TypeOK'
  <2>1. \A s \in Slot : ref_counts'[s] \in 0..(Wrap - 1)
    BY <1>1, <1>3, <1>5, <1>6, <1>7, OwnersFinite, WrapAssumption DEF TypeOK, CountsAreOwners
  <2>2. ref_counts' = [s \in Slot |-> ref_counts'[s]]
    BY <1>1 DEF Clone, FetchAdd, TypeOK
  <2>3. ref_counts' \in [Slot -> 0..(Wrap - 1)]
    BY <2>1, <2>2
  <2> QED
    BY <2>3 DEF TypeOK, Clone, Phase
<1>10. SoleWriter'
  <2>1. \A k \in Handle : phase[k] = "reserved" => index[k] # i
    BY <1>1, <1>2 DEF SoleWriter, Owners
  <2>2. Get(h) # NoValue
    BY <1>2 DEF SoleWriter
  <2> QED
    BY <2>1, <2>2, <1>1, <1>2, <1>4 DEF SoleWriter, Get
<1>11. CallsOK'
  BY <1>1, <1>2 DEF CallsOK, Owning
<1> QED
  BY <1>8, <1>9, <1>10, <1>11

(* One owner less: the counter it leaves was not zero.                     *)
LEMMA DropInv ==
  ASSUME IInv, NEW h \in Handle, Drop(h)
  PROVE  IInv'
<1> USE DEF IInv
<1>1. PICK i \in Slot : i = index[h]
  BY DEF Drop, CallsOK, Owning
<1>2. /\ \A k \in Handle : k # h => phase'[k] = phase[k] /\ index'[k] = index[k]
      /\ phase[h] = "live" /\ phase'[h] = "none"
      /\ arg' = arg /\ data' = data
  BY DEF TypeOK, Drop
<1>3. Owners(i)' = Owners(i) \ {h} /\ h \in Owners(i)
  BY <1>1, <1>2 DEF Owners
<1>4. \A s : s # i => Owners(s)' = Owners(s)
  BY <1>1, <1>2 DEF Owners
<1>5. Cardinality(Owners(i)') = Cardinality(Owners(i)) - 1
  BY <1>3, OwnersFinite, FS_RemoveElement
<1>6. 0 < Cardinality(Owners(i))
  BY <1>3, OwnersFinite, FS_EmptySet
<1>7. ref_counts'[i] = ref_counts[i] - 1
  <2>1. /\ ref_counts[i] \in Nat /\ ref_counts[i] < Wrap
        /\ 0 < ref_counts[i]
    BY <1>1, <1>6, OwnersFinite DEF CountsAreOwners
  <2> QED
    BY <1>1, <2>1, CountDown DEF Drop, FetchSub, TypeOK
<1>8. \A s \in Slot : s # i => ref_counts'[s] = ref_counts[s]
  BY <1>1 DEF Drop, FetchSub, TypeOK
<1>9. CountsAreOwners'
  BY <1>1, <1>4, <1>5, <1>7, <1>8 DEF CountsAreOwners
<1>10. TypeOK'
  <2>1. \A s \in Slot : ref_counts'[s] \in 0..(Wrap - 1)
    BY <1>1, <1>6, <1>7, <1>8, OwnersFinite, WrapAssumption DEF TypeOK, CountsAreOwners
  <2>2. ref_counts' = [s \in Slot |-> ref_counts'[s]]
    BY <1>1 DEF Drop, FetchSub, TypeOK
  <2>3. ref_counts' \in [Slot -> 0..(Wrap - 1)]
    BY <2>1, <2>2
  <2> QED
    BY <2>3, SlotAssumption DEF TypeOK, Drop, Phase
<1>11. SoleWriter'
  <2>1. \A k \in Handle : phase[k] = "reserved" => index[k] # i
    BY <1>2, <1>3 DEF SoleWriter
  <2> QED
    BY <2>1, <1>2, <1>4 DEF SoleWriter, Get
<1>12. CallsOK'
  BY <1>2 DEF CallsOK, Owning
<1> QED
  BY <1>9, <1>10, <1>11, <1>12

LEMMA NextInv == IInv /\ [Next]_vars => IInv'
<1> SUFFICES ASSUME IInv, [Next]_vars PROVE IInv'
  OBVIOUS
<1>1. CASE Next
  <2>1. PICK h \in Handle : Step(h)
    BY <1>1 DEF Next
  <2> QED
    BY <2>1, CallInv, PassInv, RefuseInv, WriteInv, ReserveInv, CloneInv, DropInv
    DEF Step
<1>2. CASE UNCHANGED vars
  BY <1>2 DEF vars, IInv, TypeOK, CountsAreOwners, Owners, SoleWriter, Get, CallsOK
<1> QED
  BY <1>1, <1>2

(* Whatever threads do at once, the invariant holds.                       *)
THEOREM Invariance == Spec => []IInv
<1> QED
  BY InitInv, NextInv, PTL DEF Spec

(* The variables of the arena never leave their types.                     *)
THEOREM TypeCorrect == Spec => []TypeOK
<1>1. IInv => TypeOK
  BY DEF IInv
<1> QED
  BY <1>1, Invariance, PTL

(* No handle is ever uncounted and no count is ever without its handle.    *)
THEOREM CountsExact == Spec => []CountsAreOwners
<1>1. IInv => CountsAreOwners
  BY DEF IInv
<1> QED
  BY <1>1, Invariance, PTL

(* alloc writes only where nobody else holds a handle.                     *)
THEOREM NoWriteRace == Spec => []SoleWriter
<1>1. IInv => SoleWriter
  BY DEF IInv
<1> QED
  BY <1>1, Invariance, PTL

-----------------------------------------------------------------------------
(* The refinement                                                          *)

Share == [h \in Handle |-> IF phase[h] = "live" THEN Get(h) ELSE NoValue]

LEMMA InitRefines == Init => Shares!Init
BY DEF Init, Shares!Init

(* A step that changes neither the live handles nor what they read.        *)
LEMMA QuietStep ==
  ASSUME \A g \in Handle : /\ phase'[g] = "live" <=> phase[g] = "live"
                           /\ phase[g] = "live" => Get(g)' = Get(g)
  PROVE  Share' = Share
BY DEF Share

LEMMA StepRefines ==
  ASSUME IInv, NEW h \in Handle, Step(h)
  PROVE  [Shares!Next]_Share
<1> USE DEF IInv
<1>1. ASSUME NEW v \in Value, Call(h, v) PROVE Share' = Share
  BY <1>1, QuietStep DEF Call, TypeOK, Get
<1>2. CASE Reserve(h)
  BY <1>2, QuietStep DEF Reserve, At, TypeOK, Get
<1>3. CASE Pass(h)
  BY <1>3, QuietStep DEF Pass, At, TypeOK, Get
<1>4. CASE Refuse(h)
  BY <1>4, QuietStep DEF Refuse, TypeOK, Get
<1>5. CASE Write(h)
  <2>1. arg[h] \in Value /\ phase[h] = "reserved"
    BY <1>5 DEF Write, CallsOK
  <2>2. \A g \in Handle : g # h => phase'[g] = phase[g]
    BY <1>5 DEF Write, TypeOK
  <2>3. phase'[h] = "live" /\ Get(h)' = arg[h]
    BY <1>5, WriteInv DEF Write, TypeOK
  <2>4. \A g \in Handle : g # h /\ phase[g] = "live" => Get(g)' = Get(g)
    BY <1>5, WriteInv
  <2>5. Share' = [Share EXCEPT ![h] = arg[h]]
    BY <2>2, <2>3, <2>4 DEF Share
  <2>6. Share[h] = NoValue
    BY <2>1 DEF Share
  <2>7. PICK v \in Value : v = arg[h]
    BY <2>1
  <2>8. Shares!New(h, v)
    BY <2>5, <2>6, <2>7 DEF Shares!New, Share
  <2>9. Shares!Next
    BY <2>8 DEF Shares!Next
  <2> QED
    BY <2>9
<1>6. ASSUME NEW g \in Handle, Clone(h, g) PROVE Shares!Next
  <2>1. /\ phase[h] = "live" /\ phase[g] = "none" /\ phase'[g] = "live"
        /\ index'[g] = index[h] /\ data' = data
        /\ \A k \in Handle : k # g => phase'[k] = phase[k] /\ index'[k] = index[k]
    BY <1>6 DEF Clone, TypeOK
  <2>2. Share' = [Share EXCEPT ![g] = Get(h)]
    BY <2>1 DEF Share, Get
  <2>3. Share[h] = Get(h) /\ Share[h] # NoValue /\ Share[g] = NoValue
    BY <2>1 DEF Share, SoleWriter
  <2>4. Shares!Clone(h, g)
    BY <2>2, <2>3 DEF Shares!Clone, Shares!New, Share
  <2> QED
    BY <2>4 DEF Shares!Next
<1>7. CASE Drop(h)
  <2>1. /\ phase[h] = "live" /\ phase'[h] = "none" /\ data' = data
        /\ \A k \in Handle : k # h => phase'[k] = phase[k] /\ index'[k] = index[k]
    BY <1>7 DEF Drop, TypeOK
  <2>2. Share' = [Share EXCEPT ![h] = NoValue]
    BY <2>1 DEF Share, Get
  <2>3. Share[h] # NoValue
    BY <2>1 DEF Share, SoleWriter
  <2>4. Shares!Drop(h)
    BY <2>2, <2>3 DEF Shares!Drop, Share
  <2> QED
    BY <2>4 DEF Shares!Next
<1> QED
  BY <1>1, <1>2, <1>3, <1>4, <1>5, <1>6, <1>7 DEF Step

(* A handle reads the value it was made with until it is dropped, whoever  *)
(* allocates, clones and drops at the same time.                           *)
THEOREM Implements == Spec => ImplementsShares
<1>1. ASSUME IInv, [Next]_vars PROVE [Shares!Next]_Share
  <2>1. CASE Next
    BY <1>1, <2>1, StepRefines DEF Next
  <2>2. CASE UNCHANGED vars
    BY <2>2 DEF vars, Share, Get
  <2> QED
    BY <1>1, <2>1, <2>2
<1>2. IInv /\ [Next]_vars => [Shares!Next]_Share
  BY <1>1
<1> QED
  BY InitRefines, <1>2, Invariance, PTL DEF Spec, ImplementsShares, Shares!Spec, Share

-----------------------------------------------------------------------------
(* Refusals                                                                *)

(* The calls that scan from slot i on, and the slots taken there.          *)
Callers(i) == {h \in Scanning : index[h] >= i}
Held(i) == {s \in Taken : s >= i}

(* From every slot on there is room for all who want one there: a call     *)
(* that passes a slot leaves behind both itself and the slot's owner.      *)
RoomAt(i) == Cardinality(Callers(i)) + Cardinality(Held(i)) <= N - i
RoomEverywhere == \A i \in 0..N : RoomAt(i)
Room == ~crowded => RoomEverywhere

LEMMA ClaimsFinite ==
  ASSUME NEW i
  PROVE  /\ IsFiniteSet(Callers(i)) /\ Cardinality(Callers(i)) \in Nat
         /\ IsFiniteSet(Held(i)) /\ Cardinality(Held(i)) \in Nat
<1>1. Callers(i) \in SUBSET Handle
  BY DEF Callers, Scanning
<1>2. Held(i) \in SUBSET (0..(N - 1))
  BY DEF Held, Taken, Slot
<1>3. IsFiniteSet(0..(N - 1))
  BY FS_Interval, SlotAssumption
<1> QED
  BY <1>1, <1>2, <1>3, FS_Subset, FS_CardinalityType, HandleAssumption

(* A part of the claims needs no more room than all of them.               *)
LEMMA Fewer ==
  ASSUME NEW S, IsFiniteSet(S), NEW S1 \in SUBSET S,
         NEW T, IsFiniteSet(T), NEW T1 \in SUBSET T,
         NEW k \in Int, Cardinality(S) + Cardinality(T) <= k
  PROVE  Cardinality(S1) + Cardinality(T1) <= k
<1>1. /\ Cardinality(S1) \in Nat /\ Cardinality(T1) \in Nat
      /\ Cardinality(S1) <= Cardinality(S) /\ Cardinality(T1) <= Cardinality(T)
      /\ Cardinality(S) \in Nat /\ Cardinality(T) \in Nat
  BY FS_Subset, FS_CardinalityType
<1> QED
  BY <1>1

(* With nobody scanning, the slots taken from i on are all there is.       *)
LEMMA RoomWhenIdle == Scanning = {} => RoomEverywhere
<1> SUFFICES ASSUME Scanning = {}, NEW i \in 0..N
             PROVE  RoomAt(i)
  BY DEF RoomEverywhere
<1>1. Callers(i) = {}
  BY DEF Callers
<1>2. Held(i) \in SUBSET (i..(N - 1))
  BY SlotAssumption DEF Held, Taken, Slot
<1>3. IsFiniteSet(i..(N - 1)) /\ Cardinality(i..(N - 1)) = N - i
  BY FS_Interval, SlotAssumption
<1>4. Cardinality(Held(i)) <= N - i
  <2>1. Cardinality(Held(i)) <= Cardinality(i..(N - 1))
    BY <1>2, <1>3, FS_Subset
  <2> QED
    BY <1>3, <2>1
<1> QED
  BY <1>1, <1>4, FS_EmptySet, ClaimsFinite DEF RoomAt

(* At slot 0 the room is what the demand leaves.                           *)
LEMMA RoomAtZero == TypeOK /\ ~(Demand > N) => RoomAt(0)
<1> SUFFICES ASSUME TypeOK, ~(Demand > N)
             PROVE  RoomAt(0)
  OBVIOUS
<1>1. Callers(0) = Scanning
  BY DEF Callers, Scanning, TypeOK
<1>2. Held(0) = Taken
  BY DEF Held, Taken, Slot
<1>3. Cardinality(Callers(0)) + Cardinality(Held(0)) = Demand
  BY <1>1, <1>2 DEF Demand
<1> QED
  BY <1>3, ClaimsFinite, SlotAssumption DEF RoomAt

(* A call passes a taken slot.                                             *)
LEMMA PassRoom ==
  ASSUME TypeOK, \A i \in 0..N : RoomAt(i), NEW h \in Handle, Pass(h),
         NEW i \in 1..N
  PROVE  RoomAt(i)'
<1>1. /\ h \in Scanning /\ Scanning' = Scanning /\ Taken' = Taken
      /\ index[h] \in Slot /\ index[h] \in Taken /\ index'[h] = index[h] + 1
      /\ \A g \in Handle : g # h => index'[g] = index[g]
  BY SlotAssumption DEF TypeOK, Pass, At, Vacant, Scanning, Taken, Slot
<1>2. Held(i)' = Held(i)
  BY <1>1 DEF Held
<1>3. CASE i # index[h] + 1
  <2>1. Callers(i)' = Callers(i)
    BY <1>1, <1>3 DEF Callers, TypeOK, Scanning, Slot
  <2> QED
    BY <2>1, <1>2 DEF RoomAt
<1>4. CASE i = index[h] + 1
  <2>1. PICK j \in Slot : j = index[h] /\ j \in 0..N /\ i = j + 1
    BY <1>1, <1>4, SlotAssumption DEF Slot
  <2>2. RoomAt(j)
    BY <2>1
  <2>3. Callers(i)' \in SUBSET Callers(j)
    BY <1>1, <2>1 DEF Callers, TypeOK, Scanning, Slot
  <2>4. Held(i) \cup {j} \in SUBSET Held(j) /\ j \notin Held(i)
    BY <1>1, <2>1 DEF Held, Taken, Slot
  <2>5. Cardinality(Callers(i)') + Cardinality(Held(i) \cup {j}) <= N - j
    <3>1. Cardinality(Callers(j)) + Cardinality(Held(j)) <= N - j /\ N - j \in Int
      BY <2>1, <2>2, SlotAssumption DEF RoomAt
    <3>2. IsFiniteSet(Callers(j)) /\ IsFiniteSet(Held(j))
      BY ClaimsFinite
    <3> HIDE DEF Callers, Held
    <3> QED
      BY <2>3, <2>4, <3>1, <3>2, Fewer
  <2>6. Cardinality(Held(i) \cup {j}) = Cardinality(Held(i)) + 1
    BY <2>4, ClaimsFinite, FS_AddElement
  <2>7. Cardinality(Callers(i)') \in Nat
    BY <2>3, ClaimsFinite, FS_Subset, FS_CardinalityType
  <2> QED
    BY <1>2, <2>1, <2>5, <2>6, <2>7, ClaimsFinite, SlotAssumption DEF RoomAt
<1> QED
  BY <1>3, <1>4

(* A call becomes the owner of the slot that it scans.                     *)
LEMMA ReserveRoom ==
  ASSUME TypeOK, NEW h \in Handle, Reserve(h), NEW i \in 0..N, RoomAt(i)
  PROVE  RoomAt(i)'
<1>1. PICK j \in Slot : j = index[h]
  BY SlotAssumption DEF TypeOK, Reserve, At, Slot
<1>2. /\ Scanning' = Scanning \ {h} /\ h \in Scanning
      /\ Taken' = Taken \cup {j} /\ index' = index
  BY <1>1, WrapAssumption DEF TypeOK, Reserve, At, Scanning, Taken
<1>3. CASE j >= i
  <2>1. Callers(i)' = Callers(i) \ {h} /\ h \in Callers(i)
    BY <1>1, <1>2, <1>3 DEF Callers
  <2>2. Held(i)' = Held(i) \cup {j}
    BY <1>2, <1>3 DEF Held
  <2>3. Cardinality(Callers(i)') = Cardinality(Callers(i)) - 1
    BY <2>1, ClaimsFinite, FS_RemoveElement
  <2>4. Cardinality(Held(i)') <= Cardinality(Held(i)) + 1 /\ Cardinality(Held(i)') \in Nat
    <3>1. /\ IsFiniteSet(Held(i) \cup {j})
          /\ Cardinality(Held(i) \cup {j}) =
               IF j \in Held(i) THEN Cardinality(Held(i)) ELSE Cardinality(Held(i)) + 1
      BY ClaimsFinite, FS_AddElement
    <3> QED
      BY <2>2, <3>1, ClaimsFinite
  <2> QED
    BY <2>3, <2>4, ClaimsFinite, SlotAssumption DEF RoomAt
<1>4. CASE ~(j >= i)
  <2>1. Callers(i)' = Callers(i)
    BY <1>1, <1>2, <1>4 DEF Callers
  <2>2. Held(i)' = Held(i)
    BY <1>2, <1>4 DEF Held
  <2> QED
    BY <2>1, <2>2 DEF RoomAt
<1> QED
  BY <1>3, <1>4

(* Every other step leaves no more claims than it finds.                   *)
LEMMA OtherRoom ==
  ASSUME IInv, NEW h \in Handle, Step(h), ~Pass(h), ~Reserve(h),
         NEW i \in 1..N, RoomAt(i)
  PROVE  RoomAt(i)'
<1> USE DEF IInv
<1>1. Callers(i)' \subseteq Callers(i)
  BY DEF Step, TypeOK, Call, Refuse, Write, Clone, Drop, Callers, Scanning
<1>2. Taken' \subseteq Taken
  <2>1. ASSUME NEW v \in Value, Call(h, v) PROVE Taken' \subseteq Taken
    BY <2>1 DEF Call, Taken
  <2>2. CASE Refuse(h)
    BY <2>2 DEF Refuse, Taken
  <2>3. CASE Write(h)
    BY <2>3 DEF Write, Taken
  <2>4. ASSUME NEW g \in Handle, Clone(h, g) PROVE Taken' \subseteq Taken
    <3>1. index[h] \in Slot /\ h \in Owners(index[h])
      BY <2>4 DEF Clone, CallsOK, Owning, Owners
    <3>2. ref_counts[index[h]] # 0
      BY <3>1, VacantIsUnowned
    <3> QED
      BY <2>4, <3>1, <3>2 DEF Clone, FetchAdd, Taken, TypeOK
  <2>5. CASE Drop(h)
    <3>1. index[h] \in Slot /\ h \in Owners(index[h])
      BY <2>5 DEF Drop, CallsOK, Owning, Owners
    <3>2. ref_counts[index[h]] # 0
      BY <3>1, VacantIsUnowned
    <3> QED
      BY <2>5, <3>1, <3>2 DEF Drop, FetchSub, Taken, TypeOK
  <2> QED
    BY <2>1, <2>2, <2>3, <2>4, <2>5 DEF Step
<1>3. Held(i)' \subseteq Held(i)
  BY <1>2 DEF Held
<1>4. N - i \in Int
  BY SlotAssumption
<1> QED
  BY <1>1, <1>3, <1>4, ClaimsFinite, Fewer DEF RoomAt

LEMMA RoomInit == DemandInit => Room
<1> SUFFICES ASSUME DemandInit PROVE RoomEverywhere
  BY DEF Room
<1>1. Scanning = {}
  BY DEF DemandInit, Init, Scanning
<1> QED
  BY <1>1, RoomWhenIdle

LEMMA RoomNext ==
  ASSUME IInv, Room, [DemandNext]_demandVars
  PROVE  Room'
<1>1. CASE UNCHANGED demandVars
  BY <1>1 DEF demandVars, vars, Room, RoomEverywhere, RoomAt, Callers, Held, Scanning, Taken
<1>2. CASE DemandNext
  <2> SUFFICES ASSUME ~crowded', NEW i \in 0..N PROVE RoomAt(i)'
    BY DEF Room, RoomEverywhere
  <2>1. CASE Scanning' = {}
    <3>1. (Scanning = {} => RoomEverywhere)'
      BY RoomWhenIdle, PTL
    <3> QED
      BY <2>1, <3>1 DEF RoomEverywhere
  <2>2. CASE ~crowded /\ ~(Demand' > N)
    <3>1. \A j \in 0..N : RoomAt(j)
      BY <2>2 DEF Room, RoomEverywhere
    <3>2. PICK h \in Handle : Step(h)
      BY <1>2 DEF DemandNext, Next
    <3>3. CASE i = 0
      <4>1. TypeOK'
        BY <1>2, NextInv DEF DemandNext, IInv
      <4>2. (TypeOK /\ ~(Demand > N) => RoomAt(0))'
        BY RoomAtZero, PTL
      <4>3. RoomAt(0)'
        BY <2>2, <4>1, <4>2
      <4> QED
        BY <3>3, <4>3
    <3>4. CASE i \in 1..N
      BY <3>1, <3>2, <3>4, PassRoom, ReserveRoom, OtherRoom, SlotAssumption DEF IInv
    <3> QED
      BY <3>3, <3>4, SlotAssumption
  <2> QED
    BY <1>2, <2>1, <2>2 DEF DemandNext
<1> QED
  BY <1>1, <1>2

(* A call at the end of the scan is a claim on slots that do not exist.    *)
LEMMA RoomSuffices == TypeOK /\ Room => RefusedOnlyWhenCrowded
<1> SUFFICES ASSUME TypeOK, Room, ~crowded, NEW h \in Scanning, index[h] = N
             PROVE  FALSE
  BY DEF RefusedOnlyWhenCrowded
<1>1. RoomAt(N)
  BY SlotAssumption DEF Room, RoomEverywhere
<1>2. h \in Callers(N)
  BY SlotAssumption DEF Callers
<1>3. Cardinality(Callers(N)) # 0
  BY <1>2, ClaimsFinite, FS_EmptySet
<1> QED
  BY <1>1, <1>3, ClaimsFinite, SlotAssumption DEF RoomAt

(* alloc, although it looks at one slot at a time, gives up only if more   *)
(* slots than there are were asked for at once.                            *)
THEOREM NoSpuriousRefusal == DemandSpec => []RefusedOnlyWhenCrowded
<1>1. DemandInit => IInv /\ Room
  BY InitInv, RoomInit DEF DemandInit
<1>2. IInv /\ Room /\ [DemandNext]_demandVars => IInv' /\ Room'
  BY NextInv, RoomNext DEF DemandNext, demandVars
<1>3. IInv /\ Room => RefusedOnlyWhenCrowded
  BY RoomSuffices DEF IInv
<1> QED
  BY <1>1, <1>2, <1>3, PTL DEF DemandSpec
=============================================================================
