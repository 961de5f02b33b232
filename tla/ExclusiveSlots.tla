--------------------------- MODULE ExclusiveSlots ---------------------------
(***************************************************************************)
(* What the rootserver needs of PsychAllocator, and nothing else: a        *)
(* capability slot of the root CNode is in the hands of at most one holder *)
(* at a time.  Which slot a request receives, in which order returned      *)
(* slots come back, and whether a returned slot ever comes back, is left   *)
(* open.  SlotAllocator implements this specification.                     *)
(***************************************************************************)
CONSTANTS
  Client,   \* the holders of slots: PCBs, pipes, the readiness barrier
  Slot      \* the slots of the root CNode that boot info reports as empty

VARIABLE held    \* held[c]: the slots client c was given and has not returned

Init == held = [c \in Client |-> {}]

(* A slot nobody holds is given to c. *)
Grant(c, s) ==
  /\ \A d \in Client : s \notin held[d]
  /\ held' = [held EXCEPT ![c] = @ \cup {s}]

(* c returns one of its slots. *)
Return(c, s) ==
  /\ s \in held[c]
  /\ held' = [held EXCEPT ![c] = @ \ {s}]

Next == \E c \in Client, s \in Slot : Grant(c, s) \/ Return(c, s)

Spec == Init /\ [][Next]_held
=============================================================================
