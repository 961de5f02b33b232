------------------------ MODULE SlotAllocator_proofs ------------------------
(***************************************************************************)
(* PsychAllocator never gives one slot to two holders, for every number of *)
(* slots, every stack size and every set of holders, and it implements     *)
(* ExclusiveSlots.                                                         *)
(***************************************************************************)
EXTENDS SlotAllocator, SequenceTheorems, TLAPS

(* The inductive invariant.  NoAliasing alone is not inductive: it says    *)
(* nothing of what the next alloc_slot() will return.                      *)
IInv == TypeOK /\ PoolSound /\ NoAliasing

(* The slot a successful alloc_slot() returns. *)
LEMMA TopOfPool ==
  ASSUME TypeOK, free_slots # <<>>
  PROVE  /\ Len(free_slots) \in Nat \ {0}
         /\ free_slots[Len(free_slots)] \in Slot
         /\ free_slots[Len(free_slots)] \in Pool
  BY DEF TypeOK, Pool

(* Popping the stack keeps the other entries where they are. *)
LEMMA PoppedPool ==
  ASSUME TypeOK, free_slots # <<>>,
         free_slots' = SubSeq(free_slots, 1, Len(free_slots) - 1)
  PROVE  /\ free_slots' \in Seq(Slot)
         /\ Len(free_slots') = Len(free_slots) - 1
         /\ \A i \in 1 .. Len(free_slots') : free_slots'[i] = free_slots[i]
<1> DEFINE n == Len(free_slots) - 1
<1>1. n \in Nat /\ 1 \in Int
  BY TopOfPool
<1>2. \A i \in 1 .. n : free_slots[i] \in Slot
  BY <1>1 DEF TypeOK
<1>3. /\ SubSeq(free_slots, 1, n) \in Seq(Slot)
      /\ Len(SubSeq(free_slots, 1, n)) = IF 1 <= n THEN n - 1 + 1 ELSE 0
      /\ \A i \in 1 .. n - 1 + 1 : SubSeq(free_slots, 1, n)[i] = free_slots[1 + i - 1]
  <2> HIDE DEF n
  <2> QED BY <1>1, <1>2, SubSeqProperties
<1>4. free_slots' = SubSeq(free_slots, 1, n)
  OBVIOUS
<1> HIDE DEF n
<1>5. Len(free_slots') = n /\ free_slots' \in Seq(Slot)
  BY <1>1, <1>3, <1>4
<1>6. \A i \in 1 .. n : free_slots'[i] = free_slots[i]
  <2> SUFFICES ASSUME NEW i \in 1 .. n PROVE free_slots'[i] = free_slots[i]
    OBVIOUS
  <2>1. i \in 1 .. n - 1 + 1 /\ 1 + i - 1 = i
    BY <1>1
  <2>2. SubSeq(free_slots, 1, n)[i] = free_slots[1 + i - 1]
    BY <1>3, <2>1
  <2> QED BY <1>4, <2>1, <2>2
<1>7. n = Len(free_slots) - 1
  BY DEF n
<1> QED BY <1>5, <1>6, <1>7

(* Init establishes the invariant. *)
LEMMA InitIInv == Init => IInv
  BY SlotRange DEF Init, IInv, TypeOK, PoolSound, NoAliasing, Slot

(* alloc_slot() preserves the invariant. *)
LEMMA AllocIInv ==
  ASSUME IInv, NEW c \in Client, alloc_slot(c)
  PROVE  IInv'
<1> USE SlotRange DEF IInv
<1>1. CASE /\ free_slots # <<>>
           /\ Give(c, free_slots[Len(free_slots)])
           /\ free_slots' = SubSeq(free_slots, 1, Len(free_slots) - 1)
           /\ UNCHANGED current_slot
  <2> DEFINE s == free_slots[Len(free_slots)]
  <2>1. /\ s \in Slot
        /\ Len(free_slots) \in Nat \ {0}
    BY <1>1, TopOfPool
  <2>2. /\ free_slots' \in Seq(Slot)
        /\ Len(free_slots') = Len(free_slots) - 1
        /\ \A i \in 1 .. Len(free_slots') : free_slots'[i] = free_slots[i]
    BY <1>1, PoppedPool
  <2>3. held' = [held EXCEPT ![c] = @ \cup {s}]
    BY <1>1 DEF Give
  <2>4. TypeOK'
    BY <1>1, <2>1, <2>2, <2>3 DEF TypeOK
  <2>5. s < current_slot /\ \A d \in Client : s \notin held[d]
    BY <2>1 DEF PoolSound, TypeOK
  <2>6. \A i \in 1 .. Len(free_slots') : free_slots'[i] # s
    BY <2>1, <2>2 DEF PoolSound, TypeOK
  <2>7. \A i \in 1 .. Len(free_slots') : i \in 1 .. Len(free_slots)
    BY <2>1, <2>2
  <2>8. \A i, j \in 1 .. Len(free_slots') : i # j => free_slots'[i] # free_slots'[j]
    BY <2>2, <2>7 DEF PoolSound
  <2>9. \A d \in Client : held'[d] \subseteq held[d] \cup {s}
    BY <2>3 DEF TypeOK
  <2>10. \A i \in 1 .. Len(free_slots') :
          /\ free_slots'[i] < current_slot'
          /\ \A d \in Client : free_slots'[i] \notin held'[d]
    <3> HIDE DEF s
    <3> QED BY <1>1, <2>2, <2>6, <2>7, <2>9 DEF PoolSound
  <2>11. PoolSound'
    BY <1>1, <2>5, <2>8, <2>9, <2>10 DEF PoolSound
  <2>12. NoAliasing'
    BY <2>3, <2>5 DEF NoAliasing, TypeOK
  <2> QED BY <2>4, <2>11, <2>12
<1>2. CASE /\ free_slots = <<>> /\ current_slot < EndSlot
           /\ Give(c, current_slot)
           /\ current_slot' = current_slot + 1
           /\ UNCHANGED free_slots
  <2>1. /\ held' = [held EXCEPT ![c] = @ \cup {current_slot}]
        /\ current_slot \in Slot
    BY <1>2 DEF Give, TypeOK, Slot
  <2>2. TypeOK'
    BY <1>2, <2>1 DEF TypeOK, Slot
  <2>3. \A d \in Client : \A s \in held[d] : s < current_slot /\ s \in Nat
    BY DEF PoolSound, TypeOK, Slot
  <2>4. PoolSound'
    BY <1>2, <2>1, <2>3 DEF PoolSound, TypeOK
  <2>5. NoAliasing'
    BY <2>1, <2>3 DEF NoAliasing, TypeOK
  <2> QED BY <2>2, <2>4, <2>5
<1>3. CASE UNCHANGED vars
  BY <1>3 DEF vars, TypeOK, PoolSound, NoAliasing
<1> QED BY <1>1, <1>2, <1>3 DEF alloc_slot

(* What Push leaves on the stack: the old entries, and s unless it was     *)
(* ignored.                                                                *)
LEMMA PushEffect ==
  ASSUME TypeOK, NEW s \in Slot, Push(s)
  PROVE  \/ UNCHANGED free_slots
         \/ /\ free_slots' \in Seq(Slot)
            /\ Len(free_slots') = Len(free_slots) + 1
            /\ Len(free_slots') <= FREE_POOL_SIZE
            /\ \A i \in 1 .. Len(free_slots) :
                  free_slots'[i] = free_slots[i] /\ free_slots[i] # s
            /\ free_slots'[Len(free_slots')] = s
<1> USE SlotRange
<1>1. CASE UNCHANGED free_slots
  BY <1>1
<1>2. CASE /\ Len(free_slots) < FREE_POOL_SIZE
           /\ s \notin Pool
           /\ free_slots' = Append(free_slots, s)
  BY <1>2 DEF TypeOK, Pool
<1> QED BY <1>1, <1>2 DEF Push, TypeOK

(* free() of a slot its caller holds preserves the invariant. *)
LEMMA FreeIInv ==
  ASSUME IInv, NEW c \in Client, NEW s \in held[c], free(c, s)
  PROVE  IInv'
<1> USE SlotRange DEF IInv
<1>1. /\ s \in Slot
      /\ held' = [held EXCEPT ![c] = @ \ {s}]
      /\ current_slot' = current_slot
      /\ Push(s)
  BY DEF free, TypeOK
<1>2. s < current_slot /\ \A d \in Client : s \notin held'[d]
  BY <1>1 DEF PoolSound, NoAliasing, TypeOK
<1>3. \A d \in Client : held'[d] \subseteq held[d] /\ held' \in [Client -> SUBSET Slot]
  BY <1>1 DEF TypeOK
<1>4. NoAliasing'
  BY <1>3 DEF NoAliasing
<1>5. CASE UNCHANGED free_slots
  BY <1>1, <1>3, <1>4, <1>5 DEF TypeOK, PoolSound
<1>6. CASE /\ free_slots' \in Seq(Slot)
           /\ Len(free_slots') = Len(free_slots) + 1
           /\ Len(free_slots') <= FREE_POOL_SIZE
           /\ \A i \in 1 .. Len(free_slots) :
                 free_slots'[i] = free_slots[i] /\ free_slots[i] # s
           /\ free_slots'[Len(free_slots')] = s
  <2>1. TypeOK'
    BY <1>1, <1>3, <1>6 DEF TypeOK
  <2>2. Len(free_slots) \in Nat
    BY DEF TypeOK
  <2>3. \A i \in 1 .. Len(free_slots') :
          i \in 1 .. Len(free_slots) \/ i = Len(free_slots')
    BY <1>6, <2>2
  <2>4. \A i, j \in 1 .. Len(free_slots') : i # j => free_slots'[i] # free_slots'[j]
    BY <1>6, <2>2, <2>3 DEF PoolSound
  <2>5. \A i \in 1 .. Len(free_slots') :
          /\ free_slots'[i] < current_slot'
          /\ \A d \in Client : free_slots'[i] \notin held'[d]
    BY <1>1, <1>2, <1>3, <1>6, <2>3 DEF PoolSound
  <2>6. PoolSound'
    BY <1>1, <1>3, <2>4, <2>5 DEF PoolSound
  <2> QED BY <1>4, <2>1, <2>6
<1> QED BY <1>1, <1>5, <1>6, PushEffect

(* A second free() of a slot that is still on the stack changes nothing:   *)
(* the duplicate check of free().                                          *)
LEMMA DoubleFreeIsIgnored ==
  ASSUME NEW s \in Pool \cup {0}, double_free(s)
  PROVE  UNCHANGED vars
  BY DEF double_free, Push, vars

(* The invariant is inductive. *)
LEMMA NextIInv == IInv /\ [Next]_vars => IInv'
<1> SUFFICES ASSUME IInv, [Next]_vars PROVE IInv'
  OBVIOUS
<1>1. ASSUME NEW c \in Client, alloc_slot(c) PROVE IInv'
  BY <1>1, AllocIInv
<1>2. ASSUME NEW c \in Client, NEW s \in held[c], free(c, s) PROVE IInv'
  BY <1>2, FreeIInv
<1>3. CASE UNCHANGED vars
  BY <1>3 DEF vars, IInv, TypeOK, PoolSound, NoAliasing
<1>4. ASSUME NEW s \in Pool \cup {0}, double_free(s) PROVE IInv'
  BY <1>3, <1>4, DoubleFreeIsIgnored
<1> QED BY <1>1, <1>2, <1>3, <1>4 DEF Next

(* The inductive invariant of the allocator and its callers. *)
THEOREM InductiveInvariant == Spec => []IInv
  BY InitIInv, NextIInv, PTL DEF Spec

(* The arrays behind the allocator are never indexed out of range. *)
THEOREM TypeCorrect == Spec => []TypeOK
  BY InductiveInvariant, PTL DEF IInv

(* The slots on the stack are pairwise different, in nobody's hands and    *)
(* below the bump pointer: free() never lets a slot onto the stack twice,  *)
(* so two calls of alloc_slot() in a row return different slots.           *)
THEOREM StackIsSound == Spec => []PoolSound
  BY InductiveInvariant, PTL DEF IInv

(* No two holders share a slot, whatever they return and however often     *)
(* they return a slot that is still on the stack.                          *)
THEOREM NoSlotAliasing == Spec => []NoAliasing
  BY InductiveInvariant, PTL DEF IInv

(* Every step of the allocator is a step of ExclusiveSlots or leaves held  *)
(* alone: a slot that is handed out was held by nobody.                    *)
THEOREM ImplementsExclusiveSlots == Spec => Refinement
<1>1. Init => Exclusive!Init
  BY DEF Init, Exclusive!Init
<1>2. IInv /\ [Next]_vars => [Exclusive!Next]_held
  <2> SUFFICES ASSUME IInv, [Next]_vars PROVE Exclusive!Next \/ UNCHANGED held
    OBVIOUS
  <2>1. ASSUME NEW c \in Client, alloc_slot(c)
        PROVE  Exclusive!Next \/ UNCHANGED held
    <3>1. CASE /\ free_slots # <<>>
               /\ Give(c, free_slots[Len(free_slots)])
      <4> DEFINE s == free_slots[Len(free_slots)]
      <4>1. s \in Slot /\ Len(free_slots) \in Nat \ {0}
        BY <3>1, TopOfPool DEF IInv
      <4>2. \A d \in Client : s \notin held[d]
        BY <4>1 DEF IInv, PoolSound
      <4>3. Exclusive!Grant(c, s)
        BY <3>1, <4>2 DEF Exclusive!Grant, Give
      <4> QED BY <4>1, <4>3 DEF Exclusive!Next
    <3>2. CASE /\ free_slots = <<>> /\ current_slot < EndSlot
               /\ Give(c, current_slot)
      <4>1. current_slot \in Slot
        BY <3>2, SlotRange DEF IInv, TypeOK, Slot
      <4>2. \A d \in Client : current_slot \notin held[d]
        BY SlotRange DEF IInv, PoolSound, TypeOK
      <4>3. Exclusive!Grant(c, current_slot)
        BY <3>2, <4>2 DEF Exclusive!Grant, Give
      <4> QED BY <4>1, <4>3 DEF Exclusive!Next
    <3> QED BY <2>1, <3>1, <3>2 DEF alloc_slot, vars
  <2>2. ASSUME NEW c \in Client, NEW s \in held[c], free(c, s)
        PROVE  Exclusive!Next \/ UNCHANGED held
    <3>1. s \in Slot
      BY DEF IInv, TypeOK
    <3>2. Exclusive!Return(c, s)
      BY <2>2 DEF free, Exclusive!Return
    <3> QED BY <3>1, <3>2 DEF Exclusive!Next
  <2>3. ASSUME NEW s \in Pool \cup {0}, double_free(s)
        PROVE  UNCHANGED held
    BY <2>3 DEF double_free
  <2> QED BY <2>1, <2>2, <2>3 DEF Next, vars
<1> QED BY <1>1, <1>2, InductiveInvariant, PTL DEF Spec, Refinement, Exclusive!Spec
=============================================================================
