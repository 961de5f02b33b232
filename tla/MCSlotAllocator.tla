-------------------------- MODULE MCSlotAllocator ---------------------------
(* Two holders, four slots, a stack of two: the stack overflows and the    *)
(* bump pointer runs out.                                                  *)
EXTENDS SlotAllocator
=============================================================================
