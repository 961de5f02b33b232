--------------------------- MODULE SlotAllocator ----------------------------
(***************************************************************************)
(* PsychAllocator (allocator.cpp): the allocator of root-CNode slots.  A   *)
(* bump pointer hands out fresh slots; returned slots go to a bounded LIFO *)
(* stack that is served first.                                             *)
(*                                                                         *)
(* The environment is the rootserver: clients take slots, return slots     *)
(* they hold, and by mistake return a slot once more while it is still on  *)
(* the stack, which is the case the duplicate check in free() is for.      *)
(***************************************************************************)
EXTENDS Naturals, Sequences

CONSTANTS
  Client,           \* holders of slots
  FirstSlot,        \* info->empty.start
  EndSlot,          \* info->empty.end (exclusive)
  FREE_POOL_SIZE    \* capacity of free_slots[]

ASSUME SlotRange ==
  /\ FirstSlot \in Nat \ {0}
  /\ EndSlot \in Nat
  /\ FirstSlot <= EndSlot
  /\ FREE_POOL_SIZE \in Nat

VARIABLES
  current_slot,     \* the bump pointer
  free_slots,       \* free_slots[0..free_count-1], the top at the end
  held              \* held[c]: what c was given and has not returned

vars == <<current_slot, free_slots, held>>

Slot == FirstSlot .. (EndSlot - 1)

Pool == {free_slots[i] : i \in 1 .. Len(free_slots)}

(* PsychAllocator::PsychAllocator *)
Init ==
  /\ current_slot = FirstSlot
  /\ free_slots = <<>>
  /\ held = [c \in Client |-> {}]

-----------------------------------------------------------------------------
Give(c, s) == held' = [held EXCEPT ![c] = @ \cup {s}]

(* Mutant of alloc_slot: free_slots[free_count - 1] without the decrement. *)
alloc_slot_NoPop(c) ==
  \/ /\ free_slots # <<>>
     /\ Give(c, free_slots[Len(free_slots)])
     /\ UNCHANGED <<current_slot, free_slots>>
  \/ /\ free_slots = <<>> /\ current_slot < EndSlot
     /\ Give(c, current_slot)
     /\ current_slot' = current_slot + 1
     /\ UNCHANGED free_slots

(* alloc_slot(): the top of the stack, else a fresh slot, else 0 (which     *)
(* changes nothing).                                                       *)
alloc_slot(c) ==
  \/ /\ free_slots # <<>>
     /\ Give(c, free_slots[Len(free_slots)])
     /\ free_slots' = SubSeq(free_slots, 1, Len(free_slots) - 1)
     /\ UNCHANGED current_slot
  \/ /\ free_slots = <<>> /\ current_slot < EndSlot
     /\ Give(c, current_slot)
     /\ current_slot' = current_slot + 1
     /\ UNCHANGED free_slots
  \/ /\ free_slots = <<>> /\ current_slot >= EndSlot
     /\ UNCHANGED vars

(* Mutant of Push: the duplicate check dropped. *)
Push_NoDuplicateCheck(s) ==
  IF s = 0 \/ Len(free_slots) >= FREE_POOL_SIZE
  THEN UNCHANGED free_slots
  ELSE free_slots' = Append(free_slots, s)

(* Mutant of Push: the bound off by one. *)
Push_OffByOne(s) ==
  IF s = 0 \/ Len(free_slots) > FREE_POOL_SIZE \/ s \in Pool
  THEN UNCHANGED free_slots
  ELSE free_slots' = Append(free_slots, s)

(* The body of free(): slot 0, a full stack and a slot that is already on  *)
(* the stack are ignored.                                                  *)
Push(s) ==
  IF s = 0 \/ Len(free_slots) >= FREE_POOL_SIZE \/ s \in Pool
  THEN UNCHANGED free_slots
  ELSE free_slots' = Append(free_slots, s)

(* A client returns a slot it holds. *)
free(c, s) ==
  /\ s \in held[c]
  /\ held' = [held EXCEPT ![c] = @ \ {s}]
  /\ Push(s)
  /\ UNCHANGED current_slot

(* A second free() of a slot that is still on the stack, or of slot 0. *)
double_free(s) ==
  /\ s \in Pool \cup {0}
  /\ Push(s)
  /\ UNCHANGED <<current_slot, held>>

Next ==
  \/ \E c \in Client : alloc_slot(c)
  \/ \E c \in Client : \E s \in held[c] : free(c, s)
  \/ \E s \in Pool \cup {0} : double_free(s)

Spec == Init /\ [][Next]_vars

-----------------------------------------------------------------------------
(* The stack and the bump pointer stay within the arrays that back them    *)
(* (free_slots[FREE_POOL_SIZE], the empty range of boot info).             *)
TypeOK ==
  /\ current_slot \in FirstSlot .. EndSlot
  /\ free_slots \in Seq(Slot)
  /\ Len(free_slots) <= FREE_POOL_SIZE
  /\ held \in [Client -> SUBSET Slot]

(* Slots that are on the stack are pairwise different, are held by nobody, *)
(* and lie below the bump pointer, as held slots do.  This is what makes   *)
(* the next two calls of alloc_slot() return different slots.              *)
PoolSound ==
  /\ \A i, j \in 1 .. Len(free_slots) : i # j => free_slots[i] # free_slots[j]
  /\ \A i \in 1 .. Len(free_slots) :
        /\ free_slots[i] < current_slot
        /\ \A c \in Client : free_slots[i] \notin held[c]
  /\ \A c \in Client : \A s \in held[c] : s < current_slot

(* No slot is in the hands of two clients: the aliasing that the comment   *)
(* in PsychAllocator::free() is about.                                     *)
NoAliasing ==
  \A c, d \in Client : c # d => held[c] \cap held[d] = {}

(* Every allocation and every return is a step of the abstract allocator;  *)
(* in particular alloc_slot() never hands out a slot somebody holds, not   *)
(* even to its holder.                                                     *)
Exclusive == INSTANCE ExclusiveSlots
Refinement == Exclusive!Spec
=============================================================================
