-------------------------- MODULE Rootserver_proofs --------------------------
(***************************************************************************)
(* What the rootserver guarantees for any number of PIDs, pipes and slots, *)
(* provided no process asks for shared memory twice (ShmOnce): its tables  *)
(* stay within bounds, and no slot of the root CNode ever has two owners.  *)
(*                                                                         *)
(* The argument.  TypeOK /\ NoAliasing is inductive.  A handler either     *)
(* moves slots from the allocator to one owner (lemma SoundAcquire) or     *)
(* takes slots from owners and returns some of them (lemma SoundRelease);  *)
(* recovery does the one after the other.  The bounds on the stack and on  *)
(* the CapTracker need NoAliasing in turn: only because the stack and the  *)
(* fresh slots are disjoint do k allocations yield k different slots.      *)
(***************************************************************************)
EXTENDS Rootserver, FiniteSetTheorems, TLAPS

-----------------------------------------------------------------------------
(* The allocator. *)

(* What k allocations return: k available slots. *)
LEMMA GrantsOf ==
  ASSUME NEW k \in Nat, NEW pool \in SUBSET Slot,
         fresh_slots \in SUBSET Slot, pool \cap fresh_slots = {},
         NEW N \in Grants(k, pool)
  PROVE  /\ N \subseteq pool \cup fresh_slots
         /\ N \subseteq Slot
         /\ IsFiniteSet(N)
         /\ Cardinality(N) = k
<1>1. IsFiniteSet(pool) /\ IsFiniteSet(fresh_slots)
  BY FS_Subset, SlotAssumption
<1>2. Cardinality(pool) \in Nat
  BY <1>1, FS_CardinalityType
<1>3. CASE k <= Cardinality(pool)
  <2>1. N \in SUBSET pool /\ Cardinality(N) = k
    BY <1>3 DEF Grants
  <2> QED
    BY <2>1, <1>1, FS_Subset
<1>4. CASE ~(k <= Cardinality(pool))
  <2>1. PICK F \in SUBSET fresh_slots :
          N = pool \cup F /\ Cardinality(F) = k - Cardinality(pool)
    BY <1>4 DEF Grants
  <2>2. IsFiniteSet(F)
    BY <1>1, FS_Subset
  <2>3. pool \cap F = {}
    BY <2>1
  <2>4. /\ IsFiniteSet(pool \cup F)
        /\ Cardinality(pool \cup F) =
             Cardinality(pool) + Cardinality(F) - Cardinality(pool \cap F)
    BY <1>1, <2>2, FS_Union
  <2>5. Cardinality(pool \cap F) = 0
    BY <2>3, FS_EmptySet
  <2> QED
    BY <2>1, <2>4, <2>5, <1>2
<1> QED
  BY <1>3, <1>4

(* What free() leaves: the old pool and some of the returned slots. *)
LEMMA FreedOf ==
  ASSUME NEW pool \in SUBSET Slot, NEW S \in SUBSET Slot0,
         NEW P \in Freed(pool, S)
  PROVE  /\ pool \subseteq P
         /\ P \subseteq pool \cup (S \ {NoSlot})
         /\ P \in SUBSET Slot
         /\ Cardinality(P) <= FREE_POOL_SIZE
BY DEF Freed, Slot0

(* Taking slots off the stack keeps it within free_slots[]. *)
LEMMA SmallerPool ==
  ASSUME NEW pool \in SUBSET Slot, Cardinality(pool) <= FREE_POOL_SIZE, NEW N
  PROVE  Cardinality(pool \ N) <= FREE_POOL_SIZE
<1>1. IsFiniteSet(pool)
  BY FS_Subset, SlotAssumption
<1>2. Cardinality(pool \ N) <= Cardinality(pool) /\ IsFiniteSet(pool \ N)
  BY <1>1, FS_Subset
<1>3. Cardinality(pool) \in Nat /\ Cardinality(pool \ N) \in Nat
  BY <1>1, <1>2, FS_CardinalityType
<1> QED
  BY <1>2, <1>3, SlotAssumption

(* A CapTracker that gets at most n more slots. *)
LEMMA TrackerBound ==
  ASSUME NEW C \in SUBSET Slot, NEW N \in SUBSET Slot, NEW n \in Nat,
         Cardinality(N) <= n, Cardinality(C) + n <= MaxCaps
  PROVE  Cardinality(C \cup N) <= MaxCaps
<1>1. IsFiniteSet(C) /\ IsFiniteSet(N)
  BY FS_Subset, SlotAssumption
<1>2. /\ Cardinality(C) \in Nat /\ Cardinality(N) \in Nat
      /\ Cardinality(C \cap N) \in Nat
  <2>1. IsFiniteSet(C \cap N)
    BY <1>1, FS_Intersection
  <2> QED
    BY <1>1, <2>1, FS_CardinalityType
<1>3. Cardinality(C \cup N) =
        Cardinality(C) + Cardinality(N) - Cardinality(C \cap N)
  BY <1>1, FS_Union
<1> QED
  BY <1>2, <1>3, SlotAssumption

-----------------------------------------------------------------------------
(* Ownership.  own[o] are the slots of o, A those of the allocator. *)
Exclusive(own, A) ==
  /\ \A o \in Owner : own[o] \cap A = {}
  /\ \A o, q \in Owner : o # q => own[o] \cap own[q] = {}

(* Owners give slots up, and the allocator may get what nobody keeps. *)
LEMMA Release ==
  ASSUME NEW own, NEW own2, NEW A, NEW B,
         Exclusive(own, A),
         \A o \in Owner : own2[o] \subseteq own[o],
         \A s \in B : s \in A \/ \E o \in Owner : s \in own[o] \ own2[o]
  PROVE  Exclusive(own2, B)
BY DEF Exclusive

(* The same for explicit tables: a turn of the loop may pass through       *)
(* tables that are not those of a state.                                   *)
ShmOf(c) ==
  IF c.has_shm THEN {c.shm_copies[k] : k \in ShmPage} \ {NoSlot} ELSE {}

OwnOf(T, P, r) ==
  [o \in Owner |->
     CASE o[1] = "caps"   -> T[o[2]].caps
       [] o[1] = "reply"  -> {T[o[2]].reply_cap} \ {NoSlot}
       [] o[1] = "shm"    -> ShmOf(T[o[2]])
       [] o[1] = "reader" -> {P[o[2]].reader_reply_cap} \ {NoSlot}
       [] o[1] = "ready"  -> {r} \ {NoSlot}]

DistinctCopies(T) ==
  \A p \in Pid : T[p].has_shm =>
     \A j, k \in ShmPage : j # k => T[p].shm_copies[j] # T[p].shm_copies[k]

Sound(T, P, r, free, fresh) ==
  /\ free \cap fresh = {}
  /\ Exclusive(OwnOf(T, P, r), free \cup fresh)
  /\ DistinctCopies(T)

(* Sound of the tables of a state is NoAliasing, before and after a step. *)
LEMMA SoundIsNoAliasing ==
  /\ NoAliasing <=>
       Sound(pcbs, g_pipes, driver_ready_wait_reply, free_slots, fresh_slots)
  /\ NoAliasing' <=>
       Sound(pcbs', g_pipes', driver_ready_wait_reply', free_slots', fresh_slots')
<1>1. \A o \in Owner : OwnOf(pcbs, g_pipes, driver_ready_wait_reply)[o] = Owns(o)
  BY DEF OwnOf, Owns, Copies, ShmOf
<1>2. \A o \in Owner :
        OwnOf(pcbs', g_pipes', driver_ready_wait_reply')[o] = Owns(o)'
  BY DEF OwnOf, Owns, Copies, ShmOf
<1> QED
  BY <1>1, <1>2 DEF NoAliasing, Sound, Exclusive, DistinctCopies, Available

(* Who the owners are. *)
LEMMA OwnedSlots ==
  ASSUME NEW T, NEW P, NEW r
  PROVE  /\ \A p \in Pid :
              /\ <<"caps", p>> \in Owner
              /\ OwnOf(T, P, r)[<<"caps", p>>] = T[p].caps
              /\ <<"reply", p>> \in Owner
              /\ OwnOf(T, P, r)[<<"reply", p>>] = {T[p].reply_cap} \ {NoSlot}
              /\ <<"shm", p>> \in Owner
              /\ OwnOf(T, P, r)[<<"shm", p>>] = ShmOf(T[p])
         /\ \A i \in PipeId :
              /\ <<"reader", i>> \in Owner
              /\ OwnOf(T, P, r)[<<"reader", i>>] =
                   {P[i].reader_reply_cap} \ {NoSlot}
         /\ <<"ready", 0>> \in Owner
         /\ OwnOf(T, P, r)[<<"ready", 0>>] = {r} \ {NoSlot}
BY DEF OwnOf, Owner

(* An owner is an entry of a PCB, of a pipe, or the readiness slot. *)
LEMMA OwnerCases ==
  ASSUME NEW o \in Owner
  PROVE  \/ \E p \in Pid : o \in {<<"caps", p>>, <<"reply", p>>, <<"shm", p>>}
         \/ \E i \in PipeId : o = <<"reader", i>>
         \/ o = <<"ready", 0>>
BY DEF Owner

(* PCB d refers to no slot that PCB c does not refer to. *)
Within(d, c) ==
  /\ d.caps \subseteq c.caps
  /\ d.reply_cap \in {c.reply_cap, NoSlot}
  /\ d.has_shm => c.has_shm /\ d.shm_copies = c.shm_copies

PipesWithin(Q, P) ==
  \A i \in PipeId : Q[i].reader_reply_cap \in {P[i].reader_reply_cap, NoSlot}

(* Tables that refer to fewer slots own fewer slots. *)
LEMMA ShrinkOwn ==
  ASSUME NEW T, NEW P, NEW r, NEW U, NEW Q, NEW q,
         \A p \in Pid : Within(U[p], T[p]),
         PipesWithin(Q, P), q \in {r, NoSlot},
         NEW o \in Owner
  PROVE  OwnOf(U, Q, q)[o] \subseteq OwnOf(T, P, r)[o]
<1>1. ASSUME NEW p \in Pid
      PROVE  /\ OwnOf(U, Q, q)[<<"caps", p>>] \subseteq OwnOf(T, P, r)[<<"caps", p>>]
             /\ OwnOf(U, Q, q)[<<"reply", p>>] \subseteq OwnOf(T, P, r)[<<"reply", p>>]
             /\ OwnOf(U, Q, q)[<<"shm", p>>] \subseteq OwnOf(T, P, r)[<<"shm", p>>]
  <2>1. Within(U[p], T[p])
    OBVIOUS
  <2>2. U[p].caps \subseteq T[p].caps
    BY <2>1 DEF Within
  <2>3. {U[p].reply_cap} \ {NoSlot} \subseteq {T[p].reply_cap} \ {NoSlot}
    BY <2>1 DEF Within
  <2>4. ShmOf(U[p]) \subseteq ShmOf(T[p])
    BY <2>1 DEF Within, ShmOf
  <2>5. /\ OwnOf(U, Q, q)[<<"caps", p>>] = U[p].caps
        /\ OwnOf(U, Q, q)[<<"reply", p>>] = {U[p].reply_cap} \ {NoSlot}
        /\ OwnOf(U, Q, q)[<<"shm", p>>] = ShmOf(U[p])
    BY OwnedSlots
  <2>6. /\ OwnOf(T, P, r)[<<"caps", p>>] = T[p].caps
        /\ OwnOf(T, P, r)[<<"reply", p>>] = {T[p].reply_cap} \ {NoSlot}
        /\ OwnOf(T, P, r)[<<"shm", p>>] = ShmOf(T[p])
    BY OwnedSlots
  <2> QED
    BY <2>2, <2>3, <2>4, <2>5, <2>6
<1>2. ASSUME NEW i \in PipeId
      PROVE  OwnOf(U, Q, q)[<<"reader", i>>] \subseteq OwnOf(T, P, r)[<<"reader", i>>]
  BY OwnedSlots DEF PipesWithin
<1>3. OwnOf(U, Q, q)[<<"ready", 0>>] \subseteq OwnOf(T, P, r)[<<"ready", 0>>]
  BY OwnedSlots
<1> QED
  BY <1>1, <1>2, <1>3, OwnerCases, Zenon

(* Slots are given up, and some of them are returned. *)
LEMMA SoundRelease ==
  ASSUME NEW T, NEW P, NEW r, NEW free, NEW fresh,
         NEW U, NEW Q, NEW q, NEW free2,
         Sound(T, P, r, free, fresh),
         \A p \in Pid : Within(U[p], T[p]),
         PipesWithin(Q, P), q \in {r, NoSlot},
         \A s \in free2 : \/ s \in free
                          \/ \E o \in Owner :
                               s \in OwnOf(T, P, r)[o] \ OwnOf(U, Q, q)[o]
  PROVE  Sound(U, Q, q, free2, fresh)
<1>1. \A o \in Owner : OwnOf(U, Q, q)[o] \subseteq OwnOf(T, P, r)[o]
  BY ShrinkOwn
<1>2. Exclusive(OwnOf(T, P, r), free \cup fresh)
  BY DEF Sound
<1>3. Exclusive(OwnOf(U, Q, q), free2 \cup fresh)
  BY <1>1, <1>2, Release
<1>4. free2 \cap fresh = {}
  BY <1>2 DEF Sound, Exclusive
<1>5. DistinctCopies(U)
  BY DEF Sound, DistinctCopies, Within
<1> QED
  BY <1>3, <1>4, <1>5 DEF Sound

(* Owner x gets the slots N; nobody else gets any. *)
Gains(T, P, r, U, Q, q, x, N) ==
  /\ \A p \in Pid :
       /\ \/ U[p].caps \subseteq T[p].caps
          \/ x = <<"caps", p>> /\ U[p].caps \subseteq T[p].caps \cup N
       /\ \/ U[p].reply_cap \in {T[p].reply_cap, NoSlot}
          \/ x = <<"reply", p>> /\ U[p].reply_cap \in N
       /\ \/ ShmOf(U[p]) \subseteq ShmOf(T[p])
          \/ x = <<"shm", p>> /\ ShmOf(U[p]) \subseteq N
  /\ \A i \in PipeId :
       \/ Q[i].reader_reply_cap \in {P[i].reader_reply_cap, NoSlot}
       \/ x = <<"reader", i>> /\ Q[i].reader_reply_cap \in N
  /\ \/ q \in {r, NoSlot}
     \/ x = <<"ready", 0>> /\ q \in N

(* Only the owner that gains slots owns more than before. *)
LEMMA GrowOwn ==
  ASSUME NEW T, NEW P, NEW r, NEW U, NEW Q, NEW q, NEW x \in Owner, NEW N,
         Gains(T, P, r, U, Q, q, x, N),
         NEW o \in Owner
  PROVE  \/ OwnOf(U, Q, q)[o] \subseteq OwnOf(T, P, r)[o]
         \/ o = x /\ OwnOf(U, Q, q)[o] \subseteq OwnOf(T, P, r)[o] \cup N
<1> DEFINE Good(y) ==
       \/ OwnOf(U, Q, q)[y] \subseteq OwnOf(T, P, r)[y]
       \/ y = x /\ OwnOf(U, Q, q)[y] \subseteq OwnOf(T, P, r)[y] \cup N
<1>1. ASSUME NEW p \in Pid
      PROVE  Good(<<"caps", p>>) /\ Good(<<"reply", p>>) /\ Good(<<"shm", p>>)
  <2>1. /\ OwnOf(U, Q, q)[<<"caps", p>>] = U[p].caps
        /\ OwnOf(U, Q, q)[<<"reply", p>>] = {U[p].reply_cap} \ {NoSlot}
        /\ OwnOf(U, Q, q)[<<"shm", p>>] = ShmOf(U[p])
    BY OwnedSlots
  <2>2. /\ OwnOf(T, P, r)[<<"caps", p>>] = T[p].caps
        /\ OwnOf(T, P, r)[<<"reply", p>>] = {T[p].reply_cap} \ {NoSlot}
        /\ OwnOf(T, P, r)[<<"shm", p>>] = ShmOf(T[p])
    BY OwnedSlots
  <2>3. /\ \/ U[p].caps \subseteq T[p].caps
           \/ x = <<"caps", p>> /\ U[p].caps \subseteq T[p].caps \cup N
        /\ \/ U[p].reply_cap \in {T[p].reply_cap, NoSlot}
           \/ x = <<"reply", p>> /\ U[p].reply_cap \in N
        /\ \/ ShmOf(U[p]) \subseteq ShmOf(T[p])
           \/ x = <<"shm", p>> /\ ShmOf(U[p]) \subseteq N
    BY DEF Gains
  <2> QED
    BY <2>1, <2>2, <2>3
<1>2. ASSUME NEW i \in PipeId
      PROVE  Good(<<"reader", i>>)
  BY OwnedSlots DEF Gains
<1>3. Good(<<"ready", 0>>)
  BY OwnedSlots DEF Gains
<1> HIDE DEF Good
<1>4. Good(o)
  BY <1>1, <1>2, <1>3, OwnerCases, Zenon
<1> QED
  BY <1>4 DEF Good

(* Slots go from the allocator to one owner. *)
LEMMA SoundAcquire ==
  ASSUME NEW T, NEW P, NEW r, NEW free, NEW fresh,
         NEW U, NEW Q, NEW q, NEW x \in Owner, NEW N,
         Sound(T, P, r, free, fresh), N \subseteq free \cup fresh,
         Gains(T, P, r, U, Q, q, x, N), DistinctCopies(U)
  PROVE  Sound(U, Q, q, free \ N, fresh \ N)
<1>1. \A o \in Owner :
        \/ OwnOf(U, Q, q)[o] \subseteq OwnOf(T, P, r)[o]
        \/ o = x /\ OwnOf(U, Q, q)[o] \subseteq OwnOf(T, P, r)[o] \cup N
  BY GrowOwn
<1>2. Exclusive(OwnOf(T, P, r), free \cup fresh)
  BY DEF Sound
<1>3. (free \ N) \cup (fresh \ N) \subseteq (free \cup fresh) \ N
  OBVIOUS
<1>4. Exclusive(OwnOf(U, Q, q), (free \ N) \cup (fresh \ N))
  <2>1. OwnOf(U, Q, q)[x] \subseteq OwnOf(T, P, r)[x] \cup N
    BY <1>1
  <2>2. \A o \in Owner : o # x => OwnOf(U, Q, q)[o] \subseteq OwnOf(T, P, r)[o]
    BY <1>1
  <2> DEFINE own == OwnOf(T, P, r)
             own2 == OwnOf(U, Q, q)
             A == free \cup fresh
             B == (free \ N) \cup (fresh \ N)
  <2>3. /\ Exclusive(own, A) /\ N \subseteq A /\ B \subseteq A \ N
        /\ own2[x] \subseteq own[x] \cup N
        /\ \A o \in Owner : o # x => own2[o] \subseteq own[o]
    BY <1>2, <1>3, <2>1, <2>2
  <2> HIDE DEF own, own2, A, B
  <2>4. Exclusive(own2, B)
    BY <2>3 DEF Exclusive
  <2> QED
    BY <2>4 DEF own2, B
<1> QED
  BY <1>4 DEF Sound

-----------------------------------------------------------------------------
(* The inductive invariant.  Threads look up their pipe through parent. *)
GoodPcb == {c \in PCB : /\ Cardinality(c.caps) <= MaxCaps
                        /\ c.name = "shell_thread" => c.parent \in Pid}
Table == [Pid -> GoodPcb]

Inv == TypeOK /\ pcbs \in Table /\ NoAliasing

(* Nobody (0) and every PID are values of the PID fields. *)
LEMMA PidTypes == 0 \in Pid0 /\ Pid \subseteq Pid0
<1>1. MaxPid \in Nat
  BY BootAssumption, Zenon
<1> QED
  BY <1>1 DEF Pid, Pid0

(* What memset() and spawn_process write into a PCB is in range. *)
LEMMA PcbTypes ==
  /\ UnusedPcb \in PCB /\ UnusedPcb.caps = {}
  /\ \A name \in Name, N \in SUBSET Slot, t \in Slot, v \in Slot :
       /\ ProcessPcb(name, N, t, v) \in PCB
       /\ ProcessPcb(name, N, t, v).caps = N
<1>1. NoPipe \in PipeId \cup {NoPipe}
  OBVIOUS
<1>2. NoCopies \in [ShmPage -> Slot0] /\ NoSlot \in Slot0
  BY DEF NoCopies, Slot0
<1>3. 0 \in Pid0
  BY PidTypes
<1>4. "" \in Name
  BY DEF Name
<1>5. UnusedPcb \in PCB /\ UnusedPcb.caps = {}
  BY <1>1, <1>2, <1>3, <1>4 DEF PCB, UnusedPcb
<1>6. ASSUME NEW name \in Name, NEW N \in SUBSET Slot, NEW t \in Slot, NEW v \in Slot
      PROVE  /\ ProcessPcb(name, N, t, v) \in PCB
             /\ ProcessPcb(name, N, t, v).caps = N
  <2>1. t \in Slot0 /\ v \in Slot0
    BY DEF Slot0
  <2> QED
    BY <1>1, <1>2, <1>3, <2>1 DEF PCB, ProcessPcb
<1> QED
  BY <1>5, <1>6

(* TypeOK, the process table aside. *)
RestOK ==
  /\ g_pipes \in [PipeId -> Pipe]
  /\ \A i \in PipeId : Len(g_pipes[i].buffer) <= PipeSize
  /\ driver_ready \in [Driver -> BOOLEAN]
  /\ driver_ready_wait_reply \in Slot0
  /\ fresh_slots \in SUBSET Slot
  /\ free_slots \in SUBSET Slot
  /\ Cardinality(free_slots) <= FREE_POOL_SIZE
  /\ occupied \in SUBSET Slot
  /\ replies \in [Slot0 -> Pid0]
  /\ thread \in [Pid -> {"none", "running", "blocked"}]
  /\ halted \in BOOLEAN

(* The invariant, table by table. *)
LEMMA InvParts == Inv <=> pcbs \in Table /\ RestOK /\ NoAliasing
BY DEF Inv, RestOK, TypeOK, Table, GoodPcb

(* The same after a step. *)
LEMMA InvPartsNext == Inv' <=> pcbs' \in Table /\ RestOK' /\ NoAliasing'
BY DEF Inv, RestOK, TypeOK, Table, GoodPcb

(* A call that only replies keeps the invariant. *)
LEMMA StutterInv == Inv /\ UNCHANGED vars => Inv'
BY SoundIsNoAliasing, InvParts, InvPartsNext DEF RestOK, vars

(* So does a panic: the while(1) loops change no table. *)
LEMMA PanicInv == Inv /\ Panic => Inv'
BY SoundIsNoAliasing, InvParts, InvPartsNext DEF RestOK, Panic, readyVars, slotVars

(* A saved reply cap. *)
LEMMA AllocSlot ==
  ASSUME Inv, NEW s \in Slot0, alloc_slot(s)
  PROVE  /\ {s} \ {NoSlot} \subseteq free_slots \cup fresh_slots
         /\ free_slots' = free_slots \ ({s} \ {NoSlot})
         /\ fresh_slots' = fresh_slots \ ({s} \ {NoSlot})
         /\ free_slots' \in SUBSET Slot /\ fresh_slots' \in SUBSET Slot
         /\ Cardinality(free_slots') <= FREE_POOL_SIZE
<1>1. /\ free_slots \in SUBSET Slot /\ fresh_slots \in SUBSET Slot
      /\ Cardinality(free_slots) <= FREE_POOL_SIZE
      /\ free_slots \cap fresh_slots = {}
  BY DEF Inv, TypeOK, NoAliasing
<1>2. CASE {s} \in Grants(1, free_slots) /\ free_slots' = free_slots \ {s}
             /\ fresh_slots' = fresh_slots \ {s}
  <2>1. {s} \subseteq free_slots \cup fresh_slots /\ {s} \subseteq Slot
    BY <1>1, <1>2, GrantsOf
  <2>2. s # NoSlot
    BY <2>1, SlotAssumption
  <2>3. Cardinality(free_slots \ {s}) <= FREE_POOL_SIZE
    BY <1>1, SmallerPool
  <2> QED
    BY <1>1, <1>2, <2>1, <2>2, <2>3
<1>3. CASE s = NoSlot /\ UNCHANGED allocVars
  BY <1>1, <1>3 DEF allocVars
<1> QED
  BY <1>2, <1>3 DEF alloc_slot

(* seL4_CNode_SaveCaller keeps the kernel part in range. *)
LEMMA SaveCallerType ==
  ASSUME TypeOK, NEW s \in Slot0, NEW p \in Pid, SaveCaller(s, p)
  PROVE  /\ replies' \in [Slot0 -> Pid0]
         /\ thread' \in [Pid -> {"none", "running", "blocked"}]
<1>1. p \in Pid0
  BY PidTypes
<1>2. replies \in [Slot0 -> Pid0]
  BY DEF TypeOK
<1>3. PICK x \in Pid0 : replies' = [replies EXCEPT ![s] = x]
  BY <1>1, <1>2 DEF SaveCaller
<1>4. replies' \in [Slot0 -> Pid0]
  BY <1>2, <1>3
<1>5. thread' \in [Pid -> {"none", "running", "blocked"}]
  BY DEF TypeOK, SaveCaller
<1> QED
  BY <1>4, <1>5

(* The pager tracks one more frame. *)
LEMMA PageFaultInv ==
  ASSUME Inv, NEW p \in Pid, PageFault(p)
  PROVE  Inv'
<1> USE DEF readyVars
<1>1. /\ pcbs \in Table /\ pcbs[p] \in GoodPcb
      /\ free_slots \in SUBSET Slot /\ fresh_slots \in SUBSET Slot
      /\ Cardinality(free_slots) <= FREE_POOL_SIZE
      /\ free_slots \cap fresh_slots = {}
  BY DEF Inv, TypeOK, NoAliasing, Table
<1>2. CASE Panic
  BY <1>2, PanicInv
<1>3. CASE ~Panic
  <2>1. PICK N \in Grants(1, free_slots) :
          /\ Cardinality(pcbs[p].caps) < MaxCaps
          /\ pcbs' = [pcbs EXCEPT ![p].caps = @ \cup N]
          /\ free_slots' = free_slots \ N
          /\ fresh_slots' = fresh_slots \ N
          /\ occupied' = occupied \cup N
          /\ UNCHANGED <<g_pipes, readyVars, replies, thread, halted>>
    BY <1>3 DEF PageFault
  <2>2. N \subseteq free_slots \cup fresh_slots /\ N \subseteq Slot
        /\ Cardinality(N) = 1
    BY <1>1, <2>1, GrantsOf
  <2> DEFINE c == [pcbs[p] EXCEPT !.caps = @ \cup N]
  <2>4. Cardinality(pcbs[p].caps \cup N) <= MaxCaps
    <3>1. pcbs[p].caps \in SUBSET Slot
      BY <1>1 DEF GoodPcb, PCB
    <3>2. Cardinality(pcbs[p].caps) \in Nat
      BY <3>1, FS_Subset, FS_CardinalityType, SlotAssumption
    <3>3. Cardinality(pcbs[p].caps) + 1 <= MaxCaps
      BY <2>1, <3>2, SlotAssumption
    <3> QED
      BY <2>2, <3>1, <3>3, TrackerBound
  <2>5. pcbs' = [pcbs EXCEPT ![p] = c] /\ c.caps = pcbs[p].caps \cup N
        /\ c.name = pcbs[p].name /\ c.parent = pcbs[p].parent
        /\ c.reply_cap = pcbs[p].reply_cap /\ c.has_shm = pcbs[p].has_shm
        /\ c.shm_copies = pcbs[p].shm_copies
    BY <1>1, <2>1 DEF Table, GoodPcb, PCB
  <2>6. c \in GoodPcb
    BY <1>1, <2>2, <2>4, <2>5 DEF GoodPcb, PCB
  <2> HIDE DEF c
  <2>7. Cardinality(free_slots') <= FREE_POOL_SIZE
    BY <1>1, <2>1, SmallerPool
  <2>8. pcbs' \in Table /\ RestOK'
    BY <1>1, <2>1, <2>2, <2>5, <2>6, <2>7 DEF Inv, TypeOK, RestOK, Table
  <2>9. Gains(pcbs, g_pipes, driver_ready_wait_reply,
              pcbs', g_pipes', driver_ready_wait_reply', <<"caps", p>>, N)
    BY <1>1, <2>1, <2>5 DEF Gains, Table, ShmOf
  <2>10. DistinctCopies(pcbs')
    BY <1>1, <2>5 DEF Inv, NoAliasing, DistinctCopies, Table
  <2>11. NoAliasing'
    BY <2>1, <2>2, <2>9, <2>10, SoundIsNoAliasing, SoundAcquire, OwnedSlots DEF Inv
  <2> QED
    BY <2>8, <2>11, InvPartsNext
<1> QED
  BY <1>2, <1>3

-----------------------------------------------------------------------------
(* Handlers that only give slots up. *)

(* A pipe capability names an entry of g_pipes[]. *)
LEMMA PipeOfType ==
  ASSUME pcbs \in Table, NEW p \in Pid, PipeOf(p) # NoPipe
  PROVE  PipeOf(p) \in PipeId
<1>1. \A q \in Pid : pcbs[q].pipe_fd \in PipeId \cup {NoPipe}
  BY DEF Table, GoodPcb, PCB
<1>2. (IF IsThread(p) THEN pcbs[p].parent ELSE p) \in Pid
  BY DEF Table, GoodPcb, IsThread
<1> QED
  BY <1>1, <1>2 DEF PipeOf

(* Sends to reply slots and suspensions keep the kernel's state in range. *)
LEMMA KernelTypes ==
  ASSUME RestOK, NEW R, NEW V
  PROVE  /\ Resumed(R) \in [Pid -> {"none", "running", "blocked"}]
         /\ RepliesLeft(R, V) \in [Slot0 -> Pid0]
BY PidTypes DEF RestOK, Resumed, RepliesLeft

(* The table as it is, or with slots given up. *)
LEMMA WithinSelf ==
  ASSUME NEW T
  PROVE  \A p \in Pid : Within(T[p], T[p])
BY DEF Within

(* Blocked readers are recorded by slots. *)
LEMMA ReaderSlots ==
  ASSUME RestOK, NEW I \in SUBSET PipeId
  PROVE  Readers(I) \in SUBSET Slot /\ Readers(I) \in SUBSET Slot0
<1>1. \A i \in PipeId : g_pipes[i].reader_reply_cap \in Slot0
  BY DEF RestOK, Pipe
<1> QED
  BY <1>1 DEF Readers, Slot0

(* The reader slots of the pipes I are given up and returned. *)
LEMMA ReadersReleased ==
  ASSUME NEW Q, NEW I \in SUBSET PipeId, NEW s \in Readers(I),
         \A i \in I : Q[i].reader_reply_cap = NoSlot
  PROVE  \E o \in Owner :
           s \in OwnOf(pcbs, g_pipes, driver_ready_wait_reply)[o]
                 \ OwnOf(pcbs, Q, driver_ready_wait_reply)[o]
<1>1. PICK i \in I : s = g_pipes[i].reader_reply_cap /\ s # NoSlot
  BY DEF Readers
<1>2. /\ <<"reader", i>> \in Owner
      /\ OwnOf(pcbs, g_pipes, driver_ready_wait_reply)[<<"reader", i>>] =
           {g_pipes[i].reader_reply_cap} \ {NoSlot}
  BY OwnedSlots
<1>3. OwnOf(pcbs, Q, driver_ready_wait_reply)[<<"reader", i>>] =
        {Q[i].reader_reply_cap} \ {NoSlot}
  BY OwnedSlots
<1> QED
  BY <1>1, <1>2, <1>3

(* SYS_PIPE touches no slot of the root CNode. *)
LEMMA SysPipeInv ==
  ASSUME Inv, NEW p \in Pid, SysPipe(p)
  PROVE  Inv'
<1> USE DEF readyVars, slotVars
<1>1. pcbs \in Table /\ RestOK /\ NoAliasing
  BY InvParts
<1>2. PICK i \in PipeId :
        /\ g_pipes' = [g_pipes EXCEPT ![i] =
                         [active |-> TRUE, buffer |-> <<>>,
                          reader_reply_cap |-> NoSlot, writer_pid |-> p,
                          owner_pid |-> p, eof |-> FALSE]]
        /\ pcbs' = [pcbs EXCEPT ![p].pipe_fd = i]
  BY DEF SysPipe
<1>3. UNCHANGED <<readyVars, slotVars, thread, halted>>
  BY DEF SysPipe
<1>4. pcbs' \in Table
  <2>1. [pcbs[p] EXCEPT !.pipe_fd = i] \in GoodPcb
    BY <1>1 DEF Table, GoodPcb, PCB
  <2> QED
    BY <1>1, <1>2, <2>1 DEF Table
<1>5. g_pipes' \in [PipeId -> Pipe]
  BY <1>1, <1>2, PidTypes DEF RestOK, Pipe, Slot0
<1>6. \A j \in PipeId : Len(g_pipes'[j].buffer) <= PipeSize
  BY <1>1, <1>2, PipeAssumption DEF RestOK
<1>7. RestOK'
  BY <1>1, <1>3, <1>5, <1>6 DEF RestOK
<1>8. \A q \in Pid : Within(pcbs'[q], pcbs[q])
  BY <1>1, <1>2 DEF Within, Table, GoodPcb, PCB
<1>9. PipesWithin(g_pipes', g_pipes)
  BY <1>1, <1>2 DEF PipesWithin, RestOK, Pipe
<1>10. NoAliasing'
  BY <1>1, <1>3, <1>8, <1>9, SoundIsNoAliasing, SoundRelease
<1> QED
  BY <1>4, <1>7, <1>10, InvPartsNext

(* What AtEof does to pipes. *)
LEMMA AtEofPipes ==
  ASSUME RestOK, NEW I \in SUBSET PipeId
  PROVE  /\ AtEof(I) \in [PipeId -> Pipe]
         /\ \A i \in PipeId : AtEof(I)[i].buffer = g_pipes[i].buffer
         /\ \A i \in I : AtEof(I)[i].reader_reply_cap = NoSlot
         /\ PipesWithin(AtEof(I), g_pipes)
<1>1. ASSUME NEW i \in PipeId
      PROVE  /\ AtEof(I)[i] \in Pipe
             /\ AtEof(I)[i].buffer = g_pipes[i].buffer
             /\ i \in I => AtEof(I)[i].reader_reply_cap = NoSlot
             /\ i \notin I => AtEof(I)[i] = g_pipes[i]
  BY DEF RestOK, AtEof, Pipe, Slot0
<1>2. DOMAIN AtEof(I) = PipeId /\ AtEof(I) = [i \in PipeId |-> AtEof(I)[i]]
  BY DEF AtEof
<1> QED
  BY <1>1, <1>2 DEF PipesWithin

(* Blocked readers are answered: their slots go back to the allocator. *)
LEMMA ReadersAnswered ==
  ASSUME Inv, NEW I \in SUBSET PipeId,
         free_slots' \in Freed(free_slots, Readers(I)),
         \A i \in I : g_pipes'[i].reader_reply_cap = NoSlot,
         PipesWithin(g_pipes', g_pipes),
         UNCHANGED <<pcbs, driver_ready_wait_reply, fresh_slots>>
  PROVE  /\ NoAliasing'
         /\ free_slots' \in SUBSET Slot
         /\ Cardinality(free_slots') <= FREE_POOL_SIZE
<1>1. RestOK /\ NoAliasing
  BY InvParts
<1>2. Readers(I) \in SUBSET Slot0
  BY <1>1, ReaderSlots
<1>3. /\ free_slots' \subseteq free_slots \cup Readers(I)
      /\ free_slots' \in SUBSET Slot
      /\ Cardinality(free_slots') <= FREE_POOL_SIZE
  BY <1>1, <1>2, FreedOf DEF RestOK
<1>4. \A s \in free_slots' :
        \/ s \in free_slots
        \/ \E o \in Owner :
             s \in OwnOf(pcbs, g_pipes, driver_ready_wait_reply)[o]
                   \ OwnOf(pcbs', g_pipes', driver_ready_wait_reply')[o]
  BY <1>3, ReadersReleased
<1>5. \A p \in Pid : Within(pcbs'[p], pcbs[p])
  BY WithinSelf
<1>6. NoAliasing'
  BY <1>1, <1>4, <1>5, SoundIsNoAliasing, SoundRelease
<1> QED
  BY <1>3, <1>6

(* SYS_PUTS never overruns the buffer. *)
LEMMA AcceptedFits ==
  ASSUME NEW buffer \in Seq(Byte), Len(buffer) <= PipeSize, NEW data \in Chunk
  PROVE  /\ buffer \o Accepted(buffer, data) \in Seq(Byte)
         /\ Len(buffer \o Accepted(buffer, data)) <= PipeSize
<1>1. data \in Seq(Byte)
  BY DEF Chunk
<1>2. PipeSize \in Nat /\ Len(buffer) \in Nat /\ Len(data) \in Nat
  BY <1>1, PipeAssumption
<1> DEFINE room == PipeSize - Len(buffer)
           n == IF Len(data) <= room THEN Len(data) ELSE room
<1>3. n \in 0 .. Len(data) /\ Len(buffer) + n <= PipeSize
  BY <1>2
<1> HIDE DEF n
<1>4. SubSeq(data, 1, n) \in Seq(Byte) /\ Len(SubSeq(data, 1, n)) = n
  BY <1>1, <1>3
<1>5. Accepted(buffer, data) = SubSeq(data, 1, n)
  BY DEF Accepted, n
<1> QED
  BY <1>2, <1>3, <1>4, <1>5

(* SYS_PUTS returns the slot of the reader it wakes. *)
LEMMA PipeWriteInv ==
  ASSUME Inv, NEW p \in Pid, NEW data \in Chunk, PipeWrite(p, data)
  PROVE  Inv'
<1> USE DEF readyVars
<1>1. pcbs \in Table /\ RestOK /\ NoAliasing
  BY InvParts
<1> DEFINE i == PipeOf(p)
           buf == g_pipes[i].buffer \o Accepted(g_pipes[i].buffer, data)
<1>2. i \in PipeId
  BY <1>1, PipeOfType DEF PipeWrite
<1>3. /\ g_pipes[i] \in Pipe /\ g_pipes[i].buffer \in Seq(Byte)
      /\ Len(g_pipes[i].buffer) <= PipeSize
  BY <1>1, <1>2 DEF RestOK, Pipe
<1>4. buf \in Seq(Byte) /\ Len(buf) <= PipeSize
  BY <1>3, AcceptedFits
<1>5. UNCHANGED <<pcbs, readyVars, fresh_slots, occupied, halted>>
  BY DEF PipeWrite
<1>6. CASE g_pipes[i].reader_reply_cap # NoSlot /\ buf # <<>>
  <2>1. /\ g_pipes' = [g_pipes EXCEPT ![i].buffer = Tail(buf),
                                      ![i].reader_reply_cap = NoSlot]
        /\ thread' = Resumed(Readers({i}))
        /\ replies' = RepliesLeft(Readers({i}), {})
        /\ free_slots' \in Freed(free_slots, Readers({i}))
    BY <1>6 DEF PipeWrite
  <2> HIDE DEF i, buf
  <2>2. Tail(buf) \in Seq(Byte) /\ Len(Tail(buf)) <= PipeSize
    BY <1>4, <1>6, PipeAssumption
  <2>3. /\ g_pipes' \in [PipeId -> Pipe]
        /\ \A j \in PipeId : Len(g_pipes'[j].buffer) <= PipeSize
        /\ g_pipes'[i].reader_reply_cap = NoSlot
        /\ PipesWithin(g_pipes', g_pipes)
    BY <1>1, <1>2, <1>3, <2>1, <2>2 DEF RestOK, Pipe, Slot0, PipesWithin
  <2>4. /\ NoAliasing'
        /\ free_slots' \in SUBSET Slot
        /\ Cardinality(free_slots') <= FREE_POOL_SIZE
    <3>1. {i} \in SUBSET PipeId /\ \A j \in {i} : g_pipes'[j].reader_reply_cap = NoSlot
      BY <1>2, <2>3
    <3> QED
      BY <1>5, <2>1, <2>3, <3>1, ReadersAnswered
  <2>5. RestOK'
    BY <1>1, <1>5, <2>1, <2>3, <2>4, KernelTypes DEF RestOK
  <2> QED
    BY <1>1, <1>5, <2>4, <2>5, InvPartsNext
<1>7. CASE ~(g_pipes[i].reader_reply_cap # NoSlot /\ buf # <<>>)
  <2>1. /\ g_pipes' = [g_pipes EXCEPT ![i].buffer = buf]
        /\ UNCHANGED <<thread, replies, free_slots>>
    BY <1>7 DEF PipeWrite
  <2> HIDE DEF i, buf
  <2>2. /\ g_pipes' \in [PipeId -> Pipe]
        /\ \A j \in PipeId : Len(g_pipes'[j].buffer) <= PipeSize
        /\ PipesWithin(g_pipes', g_pipes)
    BY <1>1, <1>2, <1>3, <1>4, <2>1 DEF RestOK, Pipe, PipesWithin
  <2>3. NoAliasing'
    BY <1>1, <1>5, <2>1, <2>2, WithinSelf, SoundIsNoAliasing, SoundRelease
  <2>4. RestOK'
    BY <1>1, <1>5, <2>1, <2>2 DEF RestOK
  <2> QED
    BY <1>1, <1>5, <2>3, <2>4, InvPartsNext
<1> QED
  BY <1>6, <1>7

(* SYS_PIPE_WR_CLOSE returns the slot of the reader it wakes. *)
LEMMA PipeWrCloseInv ==
  ASSUME Inv, NEW p \in Pid, PipeWrClose(p)
  PROVE  Inv'
<1> USE DEF readyVars
<1>1. pcbs \in Table /\ RestOK /\ NoAliasing
  BY InvParts
<1> DEFINE i == PipeOf(p)
<1>2. i \in PipeId
  BY <1>1, PipeOfType DEF PipeWrClose
<1>3. /\ g_pipes' = AtEof({i})
      /\ thread' = Resumed(Readers({i}))
      /\ replies' = RepliesLeft(Readers({i}), {})
      /\ free_slots' \in Freed(free_slots, Readers({i}))
      /\ UNCHANGED <<pcbs, readyVars, fresh_slots, occupied, halted>>
  BY DEF PipeWrClose
<1> HIDE DEF i
<1>4. /\ g_pipes' \in [PipeId -> Pipe]
      /\ \A j \in PipeId : Len(g_pipes'[j].buffer) <= PipeSize
      /\ g_pipes'[i].reader_reply_cap = NoSlot
      /\ PipesWithin(g_pipes', g_pipes)
  BY <1>1, <1>2, <1>3, AtEofPipes DEF RestOK
<1>5. /\ NoAliasing'
      /\ free_slots' \in SUBSET Slot
      /\ Cardinality(free_slots') <= FREE_POOL_SIZE
  <2>1. {i} \in SUBSET PipeId /\ \A j \in {i} : g_pipes'[j].reader_reply_cap = NoSlot
    BY <1>2, <1>4
  <2> QED
    BY <1>3, <1>4, <2>1, ReadersAnswered
<1>6. RestOK'
  BY <1>1, <1>3, <1>4, <1>5, KernelTypes DEF RestOK
<1> QED
  BY <1>1, <1>3, <1>5, <1>6, InvPartsNext

(* SYS_PIPE_CLOSE returns nothing. *)
LEMMA PipeCloseInv ==
  ASSUME Inv, NEW p \in Pid, PipeClose(p)
  PROVE  Inv'
<1> USE DEF readyVars, slotVars
<1>1. pcbs \in Table /\ RestOK /\ NoAliasing
  BY InvParts
<1> DEFINE i == PipeOf(p)
           o == g_pipes[i].owner_pid
<1>2. i \in PipeId
  BY <1>1, PipeOfType DEF PipeClose
<1>3. /\ g_pipes' = [g_pipes EXCEPT ![i].active = FALSE]
      /\ pcbs' = IF o \in Active THEN [pcbs EXCEPT ![o].pipe_fd = NoPipe] ELSE pcbs
      /\ UNCHANGED <<readyVars, slotVars, thread, halted>>
  BY DEF PipeClose
<1> HIDE DEF i
<1>4. /\ pcbs' \in Table
      /\ \A q \in Pid : Within(pcbs'[q], pcbs[q])
  <2>1. CASE o \in Active
    <3>1. o \in Pid
      BY <2>1 DEF Active
    <3> HIDE DEF o
    <3>2. [pcbs[o] EXCEPT !.pipe_fd = NoPipe] \in GoodPcb
      BY <1>1, <3>1 DEF Table, GoodPcb, PCB
    <3> QED
      BY <1>1, <1>3, <2>1, <3>1, <3>2 DEF Table, Within, GoodPcb, PCB
  <2>2. CASE o \notin Active
    BY <1>1, <1>3, <2>2, WithinSelf
  <2> QED
    BY <2>1, <2>2
<1>5. RestOK' /\ PipesWithin(g_pipes', g_pipes)
  BY <1>1, <1>2, <1>3 DEF RestOK, Pipe, PipesWithin
<1>6. NoAliasing'
  <2>1. UNCHANGED <<driver_ready_wait_reply, free_slots, fresh_slots>>
    BY <1>3
  <2> QED
    BY <1>1, <1>4, <1>5, <2>1, SoundIsNoAliasing, SoundRelease
<1> QED
  BY <1>4, <1>5, <1>6, InvPartsNext

-----------------------------------------------------------------------------
(* Handlers that keep the caller waiting. *)

(* SYS_READ gives a slot to the pipe, or takes a byte. *)
LEMMA PipeReadInv ==
  ASSUME Inv, NEW p \in Pid, PipeRead(p)
  PROVE  Inv'
<1> USE DEF readyVars, slotVars
<1>1. pcbs \in Table /\ RestOK /\ NoAliasing
  BY InvParts
<1> DEFINE i == PipeOf(p)
<1>2. i \in PipeId
  BY <1>1, PipeOfType DEF PipeRead
<1>3. UNCHANGED <<pcbs, readyVars, halted>>
  BY DEF PipeRead
<1>4. /\ g_pipes[i] \in Pipe /\ g_pipes[i].buffer \in Seq(Byte)
      /\ Len(g_pipes[i].buffer) <= PipeSize
  BY <1>1, <1>2 DEF RestOK, Pipe
<1>5. CASE /\ g_pipes[i].buffer # <<>>
           /\ g_pipes' = [g_pipes EXCEPT ![i].buffer = Tail(@)]
           /\ UNCHANGED <<slotVars, thread>>
  <2> HIDE DEF i
  <2>1. /\ Tail(g_pipes[i].buffer) \in Seq(Byte)
        /\ Len(Tail(g_pipes[i].buffer)) <= PipeSize
    BY <1>4, <1>5, PipeAssumption
  <2>2. /\ g_pipes' \in [PipeId -> Pipe]
        /\ \A j \in PipeId : Len(g_pipes'[j].buffer) <= PipeSize
        /\ PipesWithin(g_pipes', g_pipes)
    BY <1>1, <1>2, <1>4, <1>5, <2>1 DEF RestOK, Pipe, PipesWithin
  <2>3. NoAliasing'
    BY <1>1, <1>3, <1>5, <2>2, WithinSelf, SoundIsNoAliasing, SoundRelease
  <2>4. RestOK'
    BY <1>1, <1>3, <1>5, <2>2 DEF RestOK
  <2> QED
    BY <1>1, <1>3, <2>3, <2>4, InvPartsNext
<1>6. ASSUME NEW s \in Slot0, alloc_slot(s), SaveCaller(s, p),
             g_pipes' = [g_pipes EXCEPT ![i].reader_reply_cap = s],
             UNCHANGED occupied
      PROVE  Inv'
  <2> HIDE DEF i
  <2> DEFINE N == {s} \ {NoSlot}
  <2>1. /\ N \subseteq free_slots \cup fresh_slots
        /\ free_slots' = free_slots \ N /\ fresh_slots' = fresh_slots \ N
        /\ free_slots' \in SUBSET Slot /\ fresh_slots' \in SUBSET Slot
        /\ Cardinality(free_slots') <= FREE_POOL_SIZE
    BY <1>6, AllocSlot
  <2>2. /\ replies' \in [Slot0 -> Pid0]
        /\ thread' \in [Pid -> {"none", "running", "blocked"}]
    BY <1>6, SaveCallerType DEF Inv
  <2>3. RestOK'
    BY <1>1, <1>2, <1>3, <1>4, <1>6, <2>1, <2>2 DEF RestOK, Pipe
  <2>4. Gains(pcbs, g_pipes, driver_ready_wait_reply,
              pcbs', g_pipes', driver_ready_wait_reply', <<"reader", i>>, N)
    BY <1>1, <1>2, <1>3, <1>6 DEF Gains, RestOK, Pipe
  <2>5. DistinctCopies(pcbs') /\ <<"reader", i>> \in Owner
    BY <1>1, <1>2, <1>3, OwnedSlots DEF NoAliasing, DistinctCopies
  <2> HIDE DEF N
  <2>6. NoAliasing'
    BY <1>1, <2>1, <2>4, <2>5, SoundIsNoAliasing, SoundAcquire
  <2> QED
    BY <1>1, <1>3, <2>3, <2>6, InvPartsNext
<1> QED
  BY <1>5, <1>6 DEF PipeRead

(* SYS_WAIT gives a slot to the caller. *)
LEMMA SysWaitInv ==
  ASSUME Inv, NEW p \in Pid, NEW t \in Pid, SysWait(p, t)
  PROVE  Inv'
<1> USE DEF readyVars
<1>1. pcbs \in Table /\ RestOK /\ NoAliasing
  BY InvParts
<1>2. PICK s \in Slot0 :
        /\ alloc_slot(s)
        /\ SaveCaller(s, p)
        /\ pcbs' = [pcbs EXCEPT ![p].waiting_for = t, ![p].reply_cap = s]
  BY DEF SysWait
<1>3. UNCHANGED <<g_pipes, readyVars, occupied, halted>>
  BY DEF SysWait
<1> DEFINE N == {s} \ {NoSlot}
           c == [pcbs[p] EXCEPT !.waiting_for = t, !.reply_cap = s]
<1>4. /\ N \subseteq free_slots \cup fresh_slots
      /\ free_slots' = free_slots \ N /\ fresh_slots' = fresh_slots \ N
      /\ free_slots' \in SUBSET Slot /\ fresh_slots' \in SUBSET Slot
      /\ Cardinality(free_slots') <= FREE_POOL_SIZE
  BY <1>2, AllocSlot
<1>5. /\ replies' \in [Slot0 -> Pid0]
      /\ thread' \in [Pid -> {"none", "running", "blocked"}]
  BY <1>2, SaveCallerType DEF Inv
<1>6. RestOK'
  BY <1>1, <1>3, <1>4, <1>5 DEF RestOK
<1>7. pcbs' = [pcbs EXCEPT ![p] = c]
  BY <1>1, <1>2 DEF Table, GoodPcb, PCB
<1>8. /\ c \in GoodPcb
      /\ c.caps = pcbs[p].caps /\ c.reply_cap = s
      /\ c.has_shm = pcbs[p].has_shm /\ c.shm_copies = pcbs[p].shm_copies
  <2>1. pcbs[p] \in GoodPcb /\ pcbs[p] \in PCB /\ t \in Pid0
    BY <1>1, PidTypes DEF Table, GoodPcb
  <2>2. c \in PCB
    BY <2>1 DEF PCB
  <2>3. /\ c.caps = pcbs[p].caps /\ c.reply_cap = s
        /\ c.name = pcbs[p].name /\ c.parent = pcbs[p].parent
        /\ c.has_shm = pcbs[p].has_shm /\ c.shm_copies = pcbs[p].shm_copies
    BY <2>1 DEF PCB
  <2> QED
    BY <2>1, <2>2, <2>3 DEF GoodPcb
<1> HIDE DEF c
<1>9. pcbs' \in Table
  BY <1>1, <1>7, <1>8 DEF Table
<1>10. Gains(pcbs, g_pipes, driver_ready_wait_reply,
             pcbs', g_pipes', driver_ready_wait_reply', <<"reply", p>>, N)
  BY <1>1, <1>3, <1>7, <1>8 DEF Gains, Table, ShmOf
<1>11. DistinctCopies(pcbs') /\ <<"reply", p>> \in Owner
  <2>1. DistinctCopies(pcbs')
    BY <1>1, <1>7, <1>8 DEF NoAliasing, DistinctCopies, Table
  <2> QED
    BY <2>1, OwnedSlots
<1> HIDE DEF N
<1>12. NoAliasing'
  BY <1>1, <1>4, <1>10, <1>11, SoundIsNoAliasing, SoundAcquire
<1> QED
  BY <1>6, <1>9, <1>12, InvPartsNext

(* SYS_WAIT_ALL_DRIVERS_READY gives a slot to driver_ready_wait_reply. *)
LEMMA WaitAllReadyInv ==
  ASSUME Inv, NEW p \in Pid, WaitAllReady(p)
  PROVE  Inv'
<1>1. pcbs \in Table /\ RestOK /\ NoAliasing
  BY InvParts
<1>2. PICK s \in Slot0 :
        alloc_slot(s) /\ SaveCaller(s, p) /\ driver_ready_wait_reply' = s
  BY DEF WaitAllReady
<1>3. UNCHANGED <<pcbs, g_pipes, driver_ready, occupied, halted>>
  BY DEF WaitAllReady
<1> DEFINE N == {s} \ {NoSlot}
<1>4. /\ N \subseteq free_slots \cup fresh_slots
      /\ free_slots' = free_slots \ N /\ fresh_slots' = fresh_slots \ N
      /\ free_slots' \in SUBSET Slot /\ fresh_slots' \in SUBSET Slot
      /\ Cardinality(free_slots') <= FREE_POOL_SIZE
  BY <1>2, AllocSlot
<1>5. /\ replies' \in [Slot0 -> Pid0]
      /\ thread' \in [Pid -> {"none", "running", "blocked"}]
  BY <1>2, SaveCallerType DEF Inv
<1>6. RestOK'
  BY <1>1, <1>2, <1>3, <1>4, <1>5 DEF RestOK
<1>7. Gains(pcbs, g_pipes, driver_ready_wait_reply,
            pcbs', g_pipes', driver_ready_wait_reply', <<"ready", 0>>, N)
  BY <1>2, <1>3 DEF Gains
<1>8. DistinctCopies(pcbs') /\ <<"ready", 0>> \in Owner
  BY <1>1, <1>3, OwnedSlots DEF NoAliasing, DistinctCopies
<1> HIDE DEF N
<1>9. NoAliasing'
  BY <1>1, <1>4, <1>7, <1>8, SoundIsNoAliasing, SoundAcquire
<1> QED
  BY <1>1, <1>3, <1>6, <1>9, InvPartsNext

(* The last SYS_DRIVER_READY returns that slot. *)
LEMMA DriverReadyInv ==
  ASSUME Inv, NEW p \in Pid, DriverReady(p)
  PROVE  Inv'
<1>1. pcbs \in Table /\ RestOK /\ NoAliasing
  BY InvParts
<1> DEFINE R == {driver_ready_wait_reply} \ {NoSlot}
<1>2. /\ driver_ready' = [driver_ready EXCEPT ![pcbs[p].name] = TRUE]
      /\ UNCHANGED <<pcbs, g_pipes, fresh_slots, occupied, halted>>
  BY DEF DriverReady
<1>3. driver_ready' \in [Driver -> BOOLEAN]
  BY <1>1, <1>2 DEF RestOK
<1>4. CASE /\ driver_ready_wait_reply' = NoSlot
           /\ thread' = Resumed(R)
           /\ replies' = RepliesLeft(R, {})
           /\ free_slots' \in Freed(free_slots, R)
  <2>1. /\ free_slots' \subseteq free_slots \cup R
        /\ free_slots' \in SUBSET Slot
        /\ Cardinality(free_slots') <= FREE_POOL_SIZE
    BY <1>1, <1>4, FreedOf DEF RestOK
  <2>2. RestOK'
    BY <1>1, <1>2, <1>3, <1>4, <2>1, KernelTypes DEF RestOK, Slot0
  <2>3. /\ <<"ready", 0>> \in Owner
        /\ OwnOf(pcbs, g_pipes, driver_ready_wait_reply)[<<"ready", 0>>] = R
    BY OwnedSlots
  <2>4. OwnOf(pcbs', g_pipes', driver_ready_wait_reply')[<<"ready", 0>>] = {}
    BY <1>4, OwnedSlots
  <2>5. \A s \in free_slots' :
          \/ s \in free_slots
          \/ \E o \in Owner :
               s \in OwnOf(pcbs, g_pipes, driver_ready_wait_reply)[o]
                     \ OwnOf(pcbs', g_pipes', driver_ready_wait_reply')[o]
    BY <2>1, <2>3, <2>4
  <2>6. /\ \A q \in Pid : Within(pcbs'[q], pcbs[q])
        /\ PipesWithin(g_pipes', g_pipes)
    BY <1>2, WithinSelf DEF PipesWithin
  <2>7. NoAliasing'
    BY <1>1, <1>2, <1>4, <2>5, <2>6, SoundIsNoAliasing, SoundRelease
  <2> QED
    BY <1>1, <1>2, <2>2, <2>7, InvPartsNext
<1>5. CASE UNCHANGED <<driver_ready_wait_reply, thread, replies, free_slots>>
  BY <1>1, <1>2, <1>3, <1>5, SoundIsNoAliasing, InvPartsNext DEF RestOK
<1> QED
  BY <1>4, <1>5 DEF DriverReady

-----------------------------------------------------------------------------
(* The end of a process. *)

(* Answering waiters only takes slots from the table. *)
LEMMA AnsweredTable ==
  ASSUME pcbs \in Table, NEW W \in SUBSET Pid
  PROVE  /\ Answered(W) \in Table
         /\ \A q \in Pid : Within(Answered(W)[q], pcbs[q])
         /\ \A w \in W : Answered(W)[w].reply_cap = NoSlot
<1>1. ASSUME NEW q \in Pid
      PROVE  /\ Answered(W)[q] \in GoodPcb
             /\ Within(Answered(W)[q], pcbs[q])
             /\ q \in W => Answered(W)[q].reply_cap = NoSlot
  <2>1. pcbs[q] \in GoodPcb /\ pcbs[q] \in PCB
    BY DEF Table, GoodPcb
  <2> DEFINE c == [pcbs[q] EXCEPT !.waiting_for = 0, !.reply_cap = NoSlot]
  <2>2. c \in PCB
    BY <2>1, PidTypes DEF PCB, Slot0
  <2>3. /\ c.caps = pcbs[q].caps /\ c.reply_cap = NoSlot
        /\ c.name = pcbs[q].name /\ c.parent = pcbs[q].parent
        /\ c.has_shm = pcbs[q].has_shm /\ c.shm_copies = pcbs[q].shm_copies
    BY <2>1 DEF PCB
  <2>4. c \in GoodPcb /\ Within(c, pcbs[q])
    BY <2>1, <2>2, <2>3 DEF GoodPcb, Within
  <2>5. Answered(W)[q] = IF q \in W THEN c ELSE pcbs[q]
    BY DEF Answered
  <2> HIDE DEF c
  <2> QED
    BY <2>1, <2>3, <2>4, <2>5, WithinSelf
<1>2. Answered(W) = [q \in Pid |-> Answered(W)[q]]
  BY DEF Answered
<1> QED
  BY <1>1, <1>2 DEF Table

(* So does marking a process inactive. *)
LEMMA EndedTable ==
  ASSUME NEW T \in Table, NEW v \in Pid
  PROVE  /\ Ended(T, v) \in Table
         /\ Ended(T, v)[v] = UnusedPcb
         /\ \A q \in Pid \ {v} : Ended(T, v)[q] = T[q]
         /\ \A q \in Pid : Within(Ended(T, v)[q], T[q])
<1>1. UnusedPcb \in GoodPcb
  <2>1. Cardinality(UnusedPcb.caps) <= MaxCaps
    BY PcbTypes, FS_EmptySet, SlotAssumption
  <2>2. UnusedPcb.name # "shell_thread"
    BY DEF UnusedPcb
  <2> QED
    BY <2>1, <2>2, PcbTypes DEF GoodPcb
<1>2. Within(UnusedPcb, T[v])
  BY DEF Within, UnusedPcb
<1> QED
  BY <1>1, <1>2, WithinSelf DEF Ended, Table

(* Within is transitive. *)
LEMMA WithinTransitive ==
  ASSUME NEW a, NEW b, NEW c, Within(a, b), Within(b, c)
  PROVE  Within(a, c)
BY DEF Within

(* A slot that a PCB, or a pipe, refers to no longer. *)
LEMMA LostByPcb ==
  ASSUME NEW T, NEW P, NEW r, NEW U, NEW Q, NEW q, NEW p \in Pid
  PROVE  \A s : /\ s # NoSlot
                /\ \/ s \in T[p].caps \ U[p].caps
                   \/ s = T[p].reply_cap /\ U[p].reply_cap = NoSlot
                   \/ s \in ShmOf(T[p]) \ ShmOf(U[p])
         => \E o \in Owner : s \in OwnOf(T, P, r)[o] \ OwnOf(U, Q, q)[o]
<1>1. /\ <<"caps", p>> \in Owner /\ <<"reply", p>> \in Owner
      /\ <<"shm", p>> \in Owner
  BY OwnedSlots
<1>2. /\ OwnOf(T, P, r)[<<"caps", p>>] = T[p].caps
      /\ OwnOf(T, P, r)[<<"reply", p>>] = {T[p].reply_cap} \ {NoSlot}
      /\ OwnOf(T, P, r)[<<"shm", p>>] = ShmOf(T[p])
  BY OwnedSlots
<1>3. /\ OwnOf(U, Q, q)[<<"caps", p>>] = U[p].caps
      /\ OwnOf(U, Q, q)[<<"reply", p>>] = {U[p].reply_cap} \ {NoSlot}
      /\ OwnOf(U, Q, q)[<<"shm", p>>] = ShmOf(U[p])
  BY OwnedSlots
<1> QED
  BY <1>1, <1>2, <1>3

(* A reader slot that a pipe refers to no longer. *)
LEMMA LostByPipe ==
  ASSUME NEW T, NEW P, NEW r, NEW U, NEW Q, NEW q, NEW i \in PipeId,
         P[i].reader_reply_cap # NoSlot, Q[i].reader_reply_cap = NoSlot
  PROVE  \E o \in Owner :
           P[i].reader_reply_cap \in OwnOf(T, P, r)[o] \ OwnOf(U, Q, q)[o]
<1>1. /\ <<"reader", i>> \in Owner
      /\ OwnOf(T, P, r)[<<"reader", i>>] = {P[i].reader_reply_cap} \ {NoSlot}
  BY OwnedSlots
<1>2. OwnOf(U, Q, q)[<<"reader", i>>] = {Q[i].reader_reply_cap} \ {NoSlot}
  BY OwnedSlots
<1> QED
  BY <1>1, <1>2

(* An inactive PCB refers to no slot. *)
LEMMA UnusedOwnsNothing ==
  /\ UnusedPcb.caps = {} /\ UnusedPcb.reply_cap = NoSlot
  /\ ~UnusedPcb.has_shm /\ ShmOf(UnusedPcb) = {}
BY DEF UnusedPcb, ShmOf

(* The slots that become nobody's: those of the dead process v, the reply  *)
(* slots of the waiters W and the reader slots of the pipes I.             *)
GivesUp(v, W, I, U, Q, S, free) ==
  /\ U[v] = UnusedPcb
  /\ \A w \in W : U[w].reply_cap = NoSlot
  /\ \A i \in I : Q[i].reader_reply_cap = NoSlot
  /\ S \subseteq pcbs[v].caps \cup (IF pcbs[v].has_shm THEN Copies(v) ELSE {})
                  \cup ReplyCaps(W) \cup Readers(I)
  /\ free \subseteq free_slots \cup (S \ {NoSlot})

Returned(U, Q, free) ==
  \A s \in free :
    \/ s \in free_slots
    \/ \E o \in Owner : s \in OwnOf(pcbs, g_pipes, driver_ready_wait_reply)[o]
                               \ OwnOf(U, Q, driver_ready_wait_reply)[o]

(* What an end of a process returns had an owner, and has none now. *)
LEMMA GivenUp ==
  ASSUME NEW v \in Pid, NEW W \in SUBSET Pid, NEW I \in SUBSET PipeId,
         NEW U, NEW Q, NEW S, NEW free,
         GivesUp(v, W, I, U, Q, S, free)
  PROVE  Returned(U, Q, free)
<1>0. /\ U[v] = UnusedPcb
      /\ \A w \in W : U[w].reply_cap = NoSlot
      /\ \A i \in I : Q[i].reader_reply_cap = NoSlot
      /\ \A s \in free : \/ s \in free_slots
                         \/ s # NoSlot /\ s \in pcbs[v].caps
                         \/ s # NoSlot /\ pcbs[v].has_shm /\ s \in Copies(v)
                         \/ s # NoSlot /\ s \in ReplyCaps(W)
                         \/ s \in Readers(I)
  BY DEF GivesUp
<1> DEFINE Lost(s) ==
      \E o \in Owner : s \in OwnOf(pcbs, g_pipes, driver_ready_wait_reply)[o]
                              \ OwnOf(U, Q, driver_ready_wait_reply)[o]
<1>1. ASSUME NEW s \in pcbs[v].caps, s # NoSlot
      PROVE  Lost(s)
  <2>1. s \in pcbs[v].caps \ U[v].caps
    BY <1>0, UnusedOwnsNothing
  <2> QED
    BY <1>1, <2>1, LostByPcb
<1>2. ASSUME pcbs[v].has_shm, NEW s \in Copies(v), s # NoSlot
      PROVE  Lost(s)
  <2>1. s \in ShmOf(pcbs[v])
    BY <1>2 DEF ShmOf, Copies
  <2>2. s \in ShmOf(pcbs[v]) \ ShmOf(U[v])
    BY <1>0, <2>1, UnusedOwnsNothing
  <2> QED
    BY <1>2, <2>2, LostByPcb
<1>3. ASSUME NEW s \in ReplyCaps(W), s # NoSlot
      PROVE  Lost(s)
  <2>1. PICK w \in W : s = pcbs[w].reply_cap
    BY DEF ReplyCaps
  <2>2. w \in Pid /\ U[w].reply_cap = NoSlot
    BY <1>0
  <2> QED
    BY <1>3, <2>1, <2>2, LostByPcb
<1>4. ASSUME NEW s \in Readers(I)
      PROVE  Lost(s)
  <2>1. PICK i \in I : s = g_pipes[i].reader_reply_cap /\ s # NoSlot
    BY DEF Readers
  <2>2. i \in PipeId /\ Q[i].reader_reply_cap = NoSlot
    BY <1>0
  <2> QED
    BY <2>1, <2>2, LostByPipe
<1> HIDE DEF Lost
<1>5. \A s \in free : s \in free_slots \/ Lost(s)
  BY <1>0, <1>1, <1>2, <1>3, <1>4
<1> QED
  BY <1>5 DEF Lost, Returned

(* What GivenUp speaks of are slots. *)
LEMMA ReturnedSlots ==
  ASSUME pcbs \in Table, RestOK, NEW v \in Pid, NEW W \in SUBSET Pid,
         NEW I \in SUBSET PipeId
  PROVE  /\ pcbs[v].caps \in SUBSET Slot
         /\ Copies(v) \in SUBSET Slot0
         /\ ReplyCaps(W) \in SUBSET Slot0
         /\ Readers(I) \in SUBSET Slot0
         /\ ReturnedBy(v) \in SUBSET Slot
         /\ ReturnedBy(v) \subseteq
              pcbs[v].caps \cup (IF pcbs[v].has_shm THEN Copies(v) ELSE {})
<1>1. \A q \in Pid : pcbs[q] \in PCB
  BY DEF Table, GoodPcb
<1>2. /\ pcbs[v].caps \in SUBSET Slot
      /\ \A q \in Pid : pcbs[q].reply_cap \in Slot0
      /\ pcbs[v].shm_copies \in [ShmPage -> Slot0]
  BY <1>1 DEF PCB
<1>3. Copies(v) \in SUBSET Slot0
  BY <1>2 DEF Copies
<1>4. ReplyCaps(W) \in SUBSET Slot0
  BY <1>2 DEF ReplyCaps
<1>5. Readers(I) \in SUBSET Slot0
  BY ReaderSlots
<1>6. /\ ReturnedBy(v) \in SUBSET Slot
      /\ ReturnedBy(v) \subseteq
           pcbs[v].caps \cup (IF pcbs[v].has_shm THEN Copies(v) ELSE {})
  BY <1>2, <1>3 DEF ReturnedBy, Slot0
<1> QED
  BY <1>2, <1>3, <1>4, <1>5, <1>6

(* SYS_THREAD_EXIT and SYS_EXIT: p ends, the waiters W and the readers of  *)
(* the pipes I are answered, and S is returned.                            *)
LEMMA EndInv ==
  ASSUME Inv, NEW p \in Pid, NEW W \in SUBSET Pid, NEW I \in SUBSET PipeId, NEW S,
         S \subseteq pcbs[p].caps \cup ReplyCaps(W) \cup Readers(I),
         g_pipes' = AtEof(I),
         pcbs' = Ended(Answered(W), p),
         free_slots' \in Freed(free_slots, S),
         occupied' \subseteq occupied,
         replies' \in [Slot0 -> Pid0],
         thread' \in [Pid -> {"none", "running", "blocked"}],
         UNCHANGED <<readyVars, fresh_slots, halted>>
  PROVE  Inv'
<1> USE DEF readyVars
<1>1. pcbs \in Table /\ RestOK /\ NoAliasing
  BY InvParts
<1>2. /\ Answered(W) \in Table
      /\ \A q \in Pid : Within(Answered(W)[q], pcbs[q])
      /\ \A w \in W : Answered(W)[w].reply_cap = NoSlot
  BY <1>1, AnsweredTable
<1>3. /\ pcbs' \in Table /\ pcbs'[p] = UnusedPcb
      /\ \A q \in Pid \ {p} : pcbs'[q] = Answered(W)[q]
      /\ \A q \in Pid : Within(pcbs'[q], Answered(W)[q])
  BY <1>2, EndedTable
<1>4. \A q \in Pid : Within(pcbs'[q], pcbs[q])
  BY <1>2, <1>3, WithinTransitive
<1>5. \A w \in W : pcbs'[w].reply_cap = NoSlot
  <2>1. UnusedPcb.reply_cap = NoSlot
    BY DEF UnusedPcb
  <2> QED
    BY <1>2, <1>3, <2>1
<1>6. /\ g_pipes' \in [PipeId -> Pipe]
      /\ \A i \in PipeId : g_pipes'[i].buffer = g_pipes[i].buffer
      /\ \A i \in I : g_pipes'[i].reader_reply_cap = NoSlot
      /\ PipesWithin(g_pipes', g_pipes)
  BY <1>1, AtEofPipes
<1>7. S \in SUBSET Slot0
  BY <1>1, ReturnedSlots DEF Slot0
<1>8. /\ free_slots' \subseteq free_slots \cup (S \ {NoSlot})
      /\ free_slots' \in SUBSET Slot
      /\ Cardinality(free_slots') <= FREE_POOL_SIZE
  BY <1>1, <1>7, FreedOf DEF RestOK
<1>9. RestOK'
  BY <1>1, <1>6, <1>8 DEF RestOK
<1>10. Returned(pcbs', g_pipes', free_slots')
  <2>1. GivesUp(p, W, I, pcbs', g_pipes', S, free_slots')
    BY <1>3, <1>5, <1>6, <1>8 DEF GivesUp
  <2> QED
    BY <2>1, GivenUp
<1>11. NoAliasing'
  <2>1. UNCHANGED <<driver_ready_wait_reply, fresh_slots>>
    OBVIOUS
  <2> QED
    BY <1>1, <1>4, <1>6, <1>10, <2>1, SoundIsNoAliasing, SoundRelease DEF Returned
<1> QED
  BY <1>3, <1>9, <1>11, InvPartsNext

(* SYS_THREAD_EXIT returns the slots of the thread and those it answers. *)
LEMMA ThreadExitInv ==
  ASSUME Inv, NEW p \in Pid, ThreadExit(p)
  PROVE  Inv'
<1> DEFINE W == Waiters(p) \cap {pcbs[p].parent}
           I == WrittenBy(p)
           R == Readers(I) \cup ReplyCaps(W)
<1>1. RestOK
  BY InvParts
<1>2. W \in SUBSET Pid /\ I \in SUBSET PipeId
  BY DEF Waiters, Active, WrittenBy
<1>3. /\ g_pipes' = AtEof(I)
      /\ pcbs' = Ended(Answered(W), p)
      /\ thread' = [Resumed(R) EXCEPT ![p] = "none"]
      /\ replies' = RepliesLeft(R, {p})
      /\ free_slots' \in Freed(free_slots, R \cup pcbs[p].caps)
      /\ occupied' = Emptied(pcbs[p].caps)
      /\ UNCHANGED <<readyVars, fresh_slots, halted>>
  BY DEF ThreadExit
<1>4. /\ replies' \in [Slot0 -> Pid0]
      /\ thread' \in [Pid -> {"none", "running", "blocked"}]
  BY <1>1, <1>3, KernelTypes
<1>5. occupied' \subseteq occupied
  BY <1>3 DEF Emptied
<1>6. R \cup pcbs[p].caps \subseteq pcbs[p].caps \cup ReplyCaps(W) \cup Readers(I)
  OBVIOUS
<1> HIDE DEF W, I, R
<1> QED
  BY <1>2, <1>3, <1>4, <1>5, <1>6, EndInv

(* SYS_EXIT returns the slots it answers, and none of its own. *)
LEMMA SysExitInv ==
  ASSUME Inv, NEW p \in Pid, SysExit(p)
  PROVE  Inv'
<1> DEFINE W == Waiters(p)
           I == WrittenBy(p)
           R == Readers(I) \cup ReplyCaps(W)
<1>1. RestOK
  BY InvParts
<1>2. W \in SUBSET Pid /\ I \in SUBSET PipeId
  BY DEF Waiters, Active, WrittenBy
<1>3. /\ g_pipes' = AtEof(I)
      /\ pcbs' = Ended(Answered(W), p)
      /\ thread' = [Resumed(R) EXCEPT ![p] = "none"]
      /\ replies' = RepliesLeft(R, {p})
      /\ free_slots' \in Freed(free_slots, R)
      /\ occupied' = Emptied({pcbs[p].tcb, pcbs[p].vspace})
      /\ UNCHANGED <<readyVars, fresh_slots, halted>>
  BY DEF SysExit
<1>4. /\ replies' \in [Slot0 -> Pid0]
      /\ thread' \in [Pid -> {"none", "running", "blocked"}]
  BY <1>1, <1>3, KernelTypes
<1>5. occupied' \subseteq occupied
  BY <1>3 DEF Emptied
<1>6. R \subseteq pcbs[p].caps \cup ReplyCaps(W) \cup Readers(I)
  OBVIOUS
<1> HIDE DEF W, I, R
<1> QED
  BY <1>2, <1>3, <1>4, <1>5, <1>6, EndInv

-----------------------------------------------------------------------------
(* New processes and threads. *)

(* A table that gets an entry c with the slots N. *)
LEMMA NewEntry ==
  ASSUME NEW T \in Table, NEW pid \in Pid, NEW c \in GoodPcb, NEW N,
         c.caps = N, c.reply_cap = NoSlot, ~c.has_shm,
         NEW P, NEW Q, NEW r, NEW free, NEW fresh, PipesWithin(Q, P),
         Sound(T, P, r, free, fresh), N \subseteq free \cup fresh
  PROVE  /\ [T EXCEPT ![pid] = c] \in Table
         /\ Sound([T EXCEPT ![pid] = c], Q, r, free \ N, fresh \ N)
<1> DEFINE U == [T EXCEPT ![pid] = c]
<1>1. U \in Table /\ U[pid] = c /\ \A q \in Pid \ {pid} : U[q] = T[q]
  BY DEF Table
<1> HIDE DEF U
<1>2. DistinctCopies(U)
  BY <1>1 DEF Sound, DistinctCopies
<1>3. ShmOf(c) = {}
  BY DEF ShmOf
<1>4. Gains(T, P, r, U, Q, r, <<"caps", pid>>, N)
  BY <1>1, <1>3 DEF Gains, PipesWithin
<1>5. <<"caps", pid>> \in Owner
  BY OwnedSlots
<1>6. Sound(U, Q, r, free \ N, fresh \ N)
  BY <1>2, <1>4, <1>5, SoundAcquire
<1> QED
  BY <1>1, <1>6 DEF U

(* No driver is called shell_thread. *)
LEMMA DriverNames == "shell_thread" \notin Driver
BY BootAssumption DEF Driver

(* The PCB of a new process. *)
LEMMA ProcessIsGood ==
  ASSUME NEW name \in Name \ {"shell_thread"}, NEW N \in SUBSET Slot,
         Cardinality(N) = ProcCaps, NEW t \in N, NEW v \in N
  PROVE  /\ ProcessPcb(name, N, t, v) \in GoodPcb
         /\ ProcessPcb(name, N, t, v).caps = N
         /\ ProcessPcb(name, N, t, v).reply_cap = NoSlot
         /\ ~ProcessPcb(name, N, t, v).has_shm
<1> DEFINE c == ProcessPcb(name, N, t, v)
<1>1. c \in PCB /\ c.caps = N
  BY PcbTypes
<1>2. c.name = name /\ c.reply_cap = NoSlot /\ ~c.has_shm
  BY DEF ProcessPcb
<1>3. Cardinality(c.caps) <= MaxCaps
  BY <1>1, SlotAssumption
<1> HIDE DEF c
<1>4. c \in GoodPcb
  BY <1>1, <1>2, <1>3 DEF GoodPcb
<1> QED
  BY <1>1, <1>2, <1>4 DEF c

(* What spawn_process may start from in a turn of the loop. *)
StateOK(st) ==
  /\ st.pcbs \in Table
  /\ st.thread \in [Pid -> {"none", "running", "blocked"}]
  /\ st.free_slots \in SUBSET Slot
  /\ Cardinality(st.free_slots) <= FREE_POOL_SIZE
  /\ st.occupied \in SUBSET Slot
  /\ Sound(st.pcbs, g_pipes, driver_ready_wait_reply, st.free_slots, fresh_slots)

(* spawn_process, from the state st that its caller has reached. *)
LEMMA SpawnInv ==
  ASSUME Inv, NEW st, StateOK(st), NEW name \in Name \ {"shell_thread"},
         spawn_process(name, st),
         replies' \in [Slot0 -> Pid0], UNCHANGED <<g_pipes, readyVars>>
  PROVE  Inv'
<1> USE DEF readyVars
<1>1. RestOK
  BY InvParts
<1>2. /\ st.pcbs \in Table
      /\ st.thread \in [Pid -> {"none", "running", "blocked"}]
      /\ st.free_slots \in SUBSET Slot
      /\ Cardinality(st.free_slots) <= FREE_POOL_SIZE
      /\ st.occupied \in SUBSET Slot
      /\ Sound(st.pcbs, g_pipes, driver_ready_wait_reply, st.free_slots, fresh_slots)
      /\ st.free_slots \cap fresh_slots = {}
  BY DEF StateOK, Sound
<1>3. UNCHANGED <<g_pipes, driver_ready, driver_ready_wait_reply>>
  OBVIOUS
<1>4. CASE /\ pcbs' = st.pcbs /\ thread' = st.thread
           /\ free_slots' = st.free_slots /\ occupied' = st.occupied
           /\ halted' = (Active # Pid)
           /\ UNCHANGED fresh_slots
  <2>1. NoAliasing'
    BY <1>2, <1>3, <1>4, SoundIsNoAliasing
  <2>2. RestOK'
    BY <1>1, <1>2, <1>3, <1>4 DEF RestOK
  <2> QED
    BY <1>2, <1>4, <2>1, <2>2, InvPartsNext
<1>5. ASSUME NEW pid \in Pid, NEW N \in Grants(ProcCaps, st.free_slots),
             NEW tv \in Places(N),
             /\ pcbs' = [st.pcbs EXCEPT ![pid] = ProcessPcb(name, N, tv[1], tv[2])]
             /\ thread' = [st.thread EXCEPT ![pid] = "running"]
             /\ free_slots' = st.free_slots \ N
             /\ fresh_slots' = fresh_slots \ N
             /\ occupied' = st.occupied \cup N
             /\ UNCHANGED halted
      PROVE  Inv'
  <2>1. /\ N \subseteq st.free_slots \cup fresh_slots
        /\ N \subseteq Slot /\ Cardinality(N) = ProcCaps
    <3>1. ProcCaps \in Nat
      BY SlotAssumption
    <3> QED
      BY <1>1, <1>2, <3>1, GrantsOf DEF RestOK
  <2>2. PICK c : c = ProcessPcb(name, N, tv[1], tv[2])
    OBVIOUS
  <2>3. c \in GoodPcb /\ c.caps = N /\ c.reply_cap = NoSlot /\ ~c.has_shm
    <3>1. tv[1] \in N /\ tv[2] \in N
      BY DEF Places
    <3> QED
      BY <2>1, <2>2, <3>1, ProcessIsGood
  <2>4. PipesWithin(g_pipes', g_pipes)
    BY <1>3 DEF PipesWithin
  <2>5. /\ pcbs' \in Table
        /\ Sound(pcbs', g_pipes', driver_ready_wait_reply,
                 st.free_slots \ N, fresh_slots \ N)
    <3>1. pcbs' = [st.pcbs EXCEPT ![pid] = c]
      BY <1>5, <2>2
    <3>2. /\ [st.pcbs EXCEPT ![pid] = c] \in Table
          /\ Sound([st.pcbs EXCEPT ![pid] = c], g_pipes', driver_ready_wait_reply,
                   st.free_slots \ N, fresh_slots \ N)
      BY <1>2, <2>1, <2>3, <2>4, NewEntry
    <3> QED
      BY <3>1, <3>2
  <2>6. NoAliasing'
    BY <1>3, <1>5, <2>5, SoundIsNoAliasing
  <2>7. Cardinality(free_slots') <= FREE_POOL_SIZE
    BY <1>2, <1>5, SmallerPool
  <2>8. thread' \in [Pid -> {"none", "running", "blocked"}]
    BY <1>2, <1>5
  <2>9. RestOK'
    BY <1>1, <1>2, <1>3, <1>5, <2>1, <2>7, <2>8 DEF RestOK
  <2> QED
    BY <2>5, <2>6, <2>9, InvPartsNext
<1> QED
  BY <1>4, <1>5 DEF spawn_process

(* SYS_EXEC spawns from the current state. *)
LEMMA SysExecInv ==
  ASSUME Inv, NEW p \in Pid, SysExec(p)
  PROVE  Inv'
<1>1. pcbs \in Table /\ RestOK /\ NoAliasing
  BY InvParts
<1>2. StateOK(Here)
  BY <1>1, SoundIsNoAliasing DEF StateOK, Here, RestOK
<1>3. "app" \in Name \ {"shell_thread"}
  BY DEF Name
<1>4. replies' \in [Slot0 -> Pid0]
  BY <1>1 DEF SysExec, RestOK
<1> QED
  BY <1>2, <1>3, <1>4, SpawnInv DEF SysExec

(* Recovery: release, then spawn. *)
LEMMA RecoverInv ==
  ASSUME Inv, NEW v \in Pid, generic_recover_process(v)
  PROVE  Inv'
<1> USE DEF readyVars
<1>1. pcbs \in Table /\ RestOK /\ NoAliasing
  BY InvParts
<1> DEFINE W == Waiters(v)
           Without(pool) ==
             [pcbs |-> Ended(Answered(W), v),
              thread |-> [q \in Pid |-> IF q = v \/ q \in Orphans(v)
                                        THEN "none" ELSE Resumed(ReplyCaps(W))[q]],
              free_slots |-> pool,
              occupied |-> Emptied(ReturnedBy(v))]
<1>2. PICK pool \in Freed(free_slots, ReturnedBy(v)) :
        IF pcbs[v].name \in Archive
        THEN spawn_process(pcbs[v].name, Without(pool))
        ELSE /\ pcbs' = Without(pool).pcbs
             /\ thread' = Without(pool).thread
             /\ free_slots' = pool
             /\ occupied' = Without(pool).occupied
             /\ UNCHANGED <<fresh_slots, halted>>
  BY DEF generic_recover_process
<1>3. replies' = RepliesLeft(ReplyCaps(W), {v}) /\ UNCHANGED <<g_pipes, readyVars>>
  BY DEF generic_recover_process
<1>4. replies' \in [Slot0 -> Pid0]
  BY <1>1, <1>3, KernelTypes
<1>5. W \in SUBSET Pid /\ {} \in SUBSET PipeId
  BY DEF Waiters, Active
<1>6. PICK st : st = Without(pool)
  OBVIOUS
<1>7. /\ st.pcbs = Ended(Answered(W), v)
      /\ st.thread = [q \in Pid |-> IF q = v \/ q \in Orphans(v)
                                    THEN "none" ELSE Resumed(ReplyCaps(W))[q]]
      /\ st.free_slots = pool
      /\ st.occupied = Emptied(ReturnedBy(v))
  BY <1>6
<1>8. IF pcbs[v].name \in Archive
      THEN spawn_process(pcbs[v].name, st)
      ELSE /\ pcbs' = st.pcbs
           /\ thread' = st.thread
           /\ free_slots' = st.free_slots
           /\ occupied' = st.occupied
           /\ UNCHANGED <<fresh_slots, halted>>
  BY <1>2, <1>6, <1>7
<1> HIDE DEF W, Without
<1>9. /\ Answered(W) \in Table
      /\ \A q \in Pid : Within(Answered(W)[q], pcbs[q])
      /\ \A w \in W : Answered(W)[w].reply_cap = NoSlot
  BY <1>1, <1>5, AnsweredTable
<1>10. /\ st.pcbs \in Table /\ st.pcbs[v] = UnusedPcb
       /\ \A q \in Pid \ {v} : st.pcbs[q] = Answered(W)[q]
       /\ \A q \in Pid : Within(st.pcbs[q], Answered(W)[q])
  BY <1>7, <1>9, EndedTable
<1>11. \A q \in Pid : Within(st.pcbs[q], pcbs[q])
  BY <1>9, <1>10, WithinTransitive
<1>12. \A w \in W : st.pcbs[w].reply_cap = NoSlot
  BY <1>5, <1>9, <1>10, UnusedOwnsNothing
<1>13. /\ ReturnedBy(v) \in SUBSET Slot0
       /\ ReturnedBy(v) \subseteq
            pcbs[v].caps \cup (IF pcbs[v].has_shm THEN Copies(v) ELSE {})
  BY <1>1, <1>5, ReturnedSlots DEF Slot0
<1>14. /\ st.free_slots \subseteq free_slots \cup (ReturnedBy(v) \ {NoSlot})
       /\ st.free_slots \in SUBSET Slot
       /\ Cardinality(st.free_slots) <= FREE_POOL_SIZE
  BY <1>1, <1>7, <1>13, FreedOf DEF RestOK
<1>15. Returned(st.pcbs, g_pipes, st.free_slots)
  <2>1. GivesUp(v, W, {}, st.pcbs, g_pipes, ReturnedBy(v), st.free_slots)
    BY <1>10, <1>12, <1>13, <1>14 DEF GivesUp
  <2> QED
    BY <1>5, <2>1, GivenUp
<1>16. Sound(st.pcbs, g_pipes, driver_ready_wait_reply, st.free_slots, fresh_slots)
  <2>1. PipesWithin(g_pipes, g_pipes)
    BY DEF PipesWithin
  <2>2. Sound(pcbs, g_pipes, driver_ready_wait_reply, free_slots, fresh_slots)
    BY <1>1, SoundIsNoAliasing
  <2> QED
    BY <1>11, <1>15, <2>1, <2>2, SoundRelease DEF Returned
<1>17. st.occupied \in SUBSET Slot
  BY <1>1, <1>7 DEF Emptied, RestOK
<1>18. st.thread \in [Pid -> {"none", "running", "blocked"}]
  BY <1>1, <1>7, KernelTypes
<1>19. StateOK(st)
  BY <1>10, <1>14, <1>16, <1>17, <1>18 DEF StateOK
<1>20. CASE pcbs[v].name \in Archive
  <2>1. pcbs[v].name \in Name \ {"shell_thread"}
    BY <1>20, DriverNames DEF Archive, Name
  <2> QED
    BY <1>3, <1>4, <1>8, <1>19, <1>20, <2>1, SpawnInv
<1>21. CASE pcbs[v].name \notin Archive
  <2>1. NoAliasing'
    BY <1>3, <1>8, <1>16, <1>21, SoundIsNoAliasing
  <2>2. RestOK'
    BY <1>1, <1>3, <1>4, <1>8, <1>14, <1>17, <1>18, <1>21 DEF RestOK
  <2> QED
    BY <1>8, <1>10, <1>21, <2>1, <2>2, InvPartsNext
<1> QED
  BY <1>20, <1>21

(* The watchdog recovers or panics. *)
LEMMA FaultInv ==
  ASSUME Inv, NEW p \in Pid, Fault(p)
  PROVE  Inv'
BY RecoverInv, PanicInv DEF Fault

(* SYS_RECOVER recovers by name. *)
LEMMA SysRecoverInv ==
  ASSUME Inv, NEW p \in Pid, NEW name, SysRecover(p, name)
  PROVE  Inv'
BY RecoverInv DEF SysRecover

(* SYS_KILL recovers a process and ends a thread. *)
LEMMA SysKillInv ==
  ASSUME Inv, NEW p \in Pid, NEW t \in Pid, SysKill(p, t)
  PROVE  Inv'
<1> USE DEF readyVars, allocVars
<1>1. pcbs \in Table /\ RestOK /\ NoAliasing
  BY InvParts
<1> DEFINE gone == {pcbs[t].tcb, pcbs[t].vspace}
           dead == {q \in Active : q = t \/ pcbs[q].tcb \in gone}
<1>2. CASE generic_recover_process(t)
  BY <1>2, RecoverInv
<1>3. CASE /\ pcbs' = Ended(pcbs, t)
           /\ thread' = [q \in Pid |-> IF q \in dead THEN "none" ELSE thread[q]]
           /\ occupied' = Emptied(gone)
           /\ replies' = RepliesLeft(gone, dead)
           /\ UNCHANGED <<g_pipes, readyVars, allocVars, halted>>
  <2> HIDE DEF gone, dead
  <2>1. pcbs' \in Table /\ \A q \in Pid : Within(pcbs'[q], pcbs[q])
    BY <1>1, <1>3, EndedTable
  <2>2. thread' \in [Pid -> {"none", "running", "blocked"}]
    BY <1>1, <1>3 DEF RestOK
  <2>3. RestOK'
    BY <1>1, <1>3, <2>2, KernelTypes DEF RestOK, Emptied
  <2>4. NoAliasing'
    <3>1. PipesWithin(g_pipes', g_pipes)
      BY <1>3 DEF PipesWithin
    <3>2. UNCHANGED <<driver_ready_wait_reply, free_slots, fresh_slots>>
      BY <1>3
    <3> QED
      BY <1>1, <2>1, <3>1, <3>2, SoundIsNoAliasing, SoundRelease
  <2> QED
    BY <2>1, <2>3, <2>4, InvPartsNext
<1> QED
  BY <1>2, <1>3 DEF SysKill

(* SYS_CLONE gives the new thread its slots. *)
LEMMA SysCloneInv ==
  ASSUME Inv, NEW p \in Pid, NEW i, SysClone(p, i)
  PROVE  Inv'
<1> USE DEF readyVars
<1>1. /\ pcbs \in Table /\ RestOK /\ NoAliasing
      /\ free_slots \cap fresh_slots = {}
  BY InvParts DEF NoAliasing
<1>2. CASE Panic
  BY <1>2, PanicInv
<1>3. ASSUME NEW t \in Pid, NEW N \in Grants(ThreadCaps, free_slots), NEW tcb \in N,
             /\ pcbs' = [pcbs EXCEPT ![t] = ThreadPcb(p, N, tcb)]
             /\ thread' = [thread EXCEPT ![t] = "running"]
             /\ g_pipes' = IF i \in PipeId
                           THEN [g_pipes EXCEPT ![i].writer_pid = t] ELSE g_pipes
             /\ free_slots' = free_slots \ N
             /\ fresh_slots' = fresh_slots \ N
             /\ occupied' = occupied \cup N
             /\ UNCHANGED <<readyVars, replies, halted>>
      PROVE  Inv'
  <2>1. /\ N \subseteq free_slots \cup fresh_slots
        /\ N \subseteq Slot /\ Cardinality(N) = ThreadCaps
    <3>1. ThreadCaps \in Nat
      BY SlotAssumption
    <3> QED
      BY <1>1, <3>1, GrantsOf DEF RestOK
  <2>2. PICK c : c = ThreadPcb(p, N, tcb)
    OBVIOUS
  <2>3. c \in GoodPcb /\ c.caps = N /\ c.reply_cap = NoSlot /\ ~c.has_shm
    <3>1. pcbs[p].vspace \in Slot0
      BY <1>1 DEF Table, GoodPcb, PCB
    <3>2. tcb \in Slot0 /\ NoSlot \in Slot0 /\ NoCopies \in [ShmPage -> Slot0]
      BY <2>1 DEF Slot0, NoCopies
    <3>3. 0 \in Pid0 /\ p \in Pid0 /\ "shell_thread" \in Name
      BY PidTypes DEF Name
    <3>4. c \in PCB
      BY <2>1, <2>2, <3>1, <3>2, <3>3 DEF ThreadPcb, PCB
    <3>5. c.caps = N /\ c.reply_cap = NoSlot /\ ~c.has_shm /\ c.parent = p
      BY <2>2 DEF ThreadPcb
    <3>6. Cardinality(c.caps) <= MaxCaps
      BY <2>1, <3>5, SlotAssumption
    <3> QED
      BY <3>4, <3>5, <3>6 DEF GoodPcb
  <2>4. /\ g_pipes' \in [PipeId -> Pipe]
        /\ \A j \in PipeId : g_pipes'[j].buffer = g_pipes[j].buffer
        /\ PipesWithin(g_pipes', g_pipes)
    <3>1. t \in Pid0
      BY PidTypes
    <3>2. CASE i \in PipeId
      BY <1>1, <1>3, <3>1, <3>2 DEF RestOK, Pipe, PipesWithin
    <3>3. CASE i \notin PipeId
      BY <1>1, <1>3, <3>3 DEF RestOK, PipesWithin
    <3> QED
      BY <3>2, <3>3
  <2>5. /\ pcbs' \in Table
        /\ Sound(pcbs', g_pipes', driver_ready_wait_reply,
                 free_slots \ N, fresh_slots \ N)
    <3>1. Sound(pcbs, g_pipes, driver_ready_wait_reply, free_slots, fresh_slots)
      BY <1>1, SoundIsNoAliasing
    <3>2. /\ [pcbs EXCEPT ![t] = c] \in Table
          /\ Sound([pcbs EXCEPT ![t] = c], g_pipes', driver_ready_wait_reply,
                   free_slots \ N, fresh_slots \ N)
      BY <1>1, <2>1, <2>3, <2>4, <3>1, NewEntry
    <3> QED
      BY <1>3, <2>2, <3>2
  <2>6. NoAliasing'
    <3>1. /\ driver_ready_wait_reply' = driver_ready_wait_reply
          /\ free_slots' = free_slots \ N /\ fresh_slots' = fresh_slots \ N
      BY <1>3
    <3> QED
      BY <2>5, <3>1, SoundIsNoAliasing
  <2>7. Cardinality(free_slots') <= FREE_POOL_SIZE
    BY <1>1, <1>3, SmallerPool DEF RestOK
  <2>8. RestOK'
    BY <1>1, <1>3, <2>1, <2>4, <2>7 DEF RestOK
  <2> QED
    BY <2>5, <2>6, <2>8, InvPartsNext
<1> QED
  BY <1>2, <1>3 DEF SysClone

-----------------------------------------------------------------------------
(* Shared memory. *)

(* k different slots among N leave |N| - k for the page tables. *)
LEMMA OtherSlots ==
  ASSUME NEW k \in Nat, NEW n \in Nat, NEW N, IsFiniteSet(N), Cardinality(N) = k + n,
         NEW f \in [1 .. k -> N], \A i, j \in 1 .. k : i # j => f[i] # f[j]
  PROVE  Cardinality(N \ {f[j] : j \in 1 .. k}) = n
<1> DEFINE F == {f[j] : j \in 1 .. k}
<1>1. f \in Bijection(1 .. k, F)
  BY DEF Bijection, Injection, Surjection, IsInjective
<1>2. Cardinality(F) = k
  BY <1>1, FS_CountingElements DEF ExistsBijection
<1>3. F \subseteq N
  OBVIOUS
<1>4. Cardinality(N \ F) = Cardinality(N) - Cardinality(N \cap F)
  BY FS_Difference
<1>5. N \cap F = F
  BY <1>3
<1> HIDE DEF F
<1>6. Cardinality(N \cap F) = k
  BY <1>2, <1>5, Zenon
<1>7. Cardinality(N \ F) = n
  BY <1>4, <1>6
<1> QED
  BY <1>7 DEF F

(* The allocator may hold its slots in either of its two parts. *)
LEMMA SoundPool ==
  ASSUME NEW T, NEW P, NEW r, NEW free, NEW fresh, NEW free2, NEW fresh2,
         Sound(T, P, r, free, fresh),
         free2 \cup fresh2 \subseteq free \cup fresh, free2 \cap fresh2 = {}
  PROVE  Sound(T, P, r, free2, fresh2)
BY DEF Sound, Exclusive

(* SYS_SHM_GET of a process that has none yet: the slots f of the copies   *)
(* and the page tables come from the allocator.                            *)
LEMMA ShmGetsInv ==
  ASSUME Inv, NEW p \in Pid, NEW k \in 0 .. ShmPages, NEW n \in Nat,
         Cardinality(pcbs[p].caps) + n <= MaxCaps,
         ~pcbs[p].has_shm, pcbs[p].shm_copies = NoCopies,
         ShmGets(p, k, n), UNCHANGED <<g_pipes, readyVars, thread, halted>>
  PROVE  Inv'
<1> USE DEF readyVars
<1>1. /\ pcbs \in Table /\ RestOK /\ NoAliasing
      /\ free_slots \cap fresh_slots = {}
      /\ free_slots \in SUBSET Slot /\ fresh_slots \in SUBSET Slot
      /\ Sound(pcbs, g_pipes, driver_ready_wait_reply, free_slots, fresh_slots)
  BY InvParts, SoundIsNoAliasing DEF NoAliasing, RestOK
<1>2. k \in Nat /\ ShmPages \in Nat
  BY SlotAssumption
<1>3. UNCHANGED <<g_pipes, driver_ready, driver_ready_wait_reply, thread, halted>>
  OBVIOUS
<1> DEFINE Step(N, f, ok, oom) ==
             /\ \A i, j \in 1 .. k : i # j => f[i] # f[j]
             /\ fresh_slots' = fresh_slots \ N
             /\ pcbs' = [pcbs EXCEPT ![p].caps = @ \cup (N \ {f[j] : j \in 1 .. k}),
                                     ![p].has_shm = ok,
                                     ![p].shm_copies = ShmFill(p, k, f, oom)]
           Taken(N) ==
             /\ k = ShmPages
             /\ free_slots' = free_slots \ N
             /\ occupied' = occupied \cup N
             /\ UNCHANGED replies
           RolledBack(N, gone) ==
             /\ free_slots' \in Freed(free_slots \ N, gone)
             /\ occupied' = Emptied(gone) \cup (N \ gone)
             /\ replies' = RepliesLeft(gone, {})
           Slots(f, oom) == {ShmFill(p, k, f, oom)[j] : j \in ShmPage} \ {NoSlot}
<1>4. PICK N \in Grants(k + n, free_slots) : \E f \in [1 .. k -> N] :
        \/ Step(N, f, TRUE, FALSE) /\ Taken(N)
        \/ Step(N, f, FALSE, TRUE) /\ RolledBack(N, Slots(f, TRUE))
        \/ Step(N, f, FALSE, FALSE) /\ RolledBack(N, Slots(f, FALSE))
  BY DEF ShmGets
<1>5. PICK f \in [1 .. k -> N] :
        \/ Step(N, f, TRUE, FALSE) /\ Taken(N)
        \/ Step(N, f, FALSE, TRUE) /\ RolledBack(N, Slots(f, TRUE))
        \/ Step(N, f, FALSE, FALSE) /\ RolledBack(N, Slots(f, FALSE))
  BY <1>4
<1>6. /\ N \subseteq free_slots \cup fresh_slots /\ N \subseteq Slot
      /\ IsFiniteSet(N) /\ Cardinality(N) = k + n
  <2>1. k + n \in Nat
    BY <1>2
  <2> QED
    BY <1>1, <2>1, GrantsOf
<1> DEFINE F == {f[j] : j \in 1 .. k}
           tables == N \ F
<1>7. F \subseteq N /\ tables \subseteq N /\ Cardinality(tables) = n
  <2>1. \A i, j \in 1 .. k : i # j => f[i] # f[j]
    BY <1>5
  <2> QED
    BY <1>2, <1>6, <2>1, OtherSlots
(* First the page tables are tracked. *)
<1> DEFINE T == [pcbs EXCEPT ![p].caps = @ \cup tables]
<1>8. /\ T \in Table
      /\ \A q \in Pid \ {p} : T[q] = pcbs[q]
      /\ T[p].caps = pcbs[p].caps \cup tables
      /\ T[p].name = pcbs[p].name /\ T[p].parent = pcbs[p].parent
      /\ T[p].reply_cap = pcbs[p].reply_cap
      /\ T[p].has_shm = FALSE
  <2> HIDE DEF tables
  <2>1. pcbs[p] \in GoodPcb /\ pcbs[p] \in PCB /\ pcbs[p].caps \in SUBSET Slot
    BY <1>1 DEF Table, GoodPcb, PCB
  <2>2. Cardinality(pcbs[p].caps \cup tables) <= MaxCaps
    <3>1. Cardinality(tables) <= n /\ tables \in SUBSET Slot
      BY <1>6, <1>7
    <3> QED
      BY <2>1, <3>1, TrackerBound
  <2>3. PICK c : c = [pcbs[p] EXCEPT !.caps = @ \cup tables]
    OBVIOUS
  <2>4. T = [pcbs EXCEPT ![p] = c]
    BY <1>1, <2>1, <2>3 DEF Table
  <2>5. /\ c \in PCB /\ c.caps = pcbs[p].caps \cup tables
        /\ c.name = pcbs[p].name /\ c.parent = pcbs[p].parent
        /\ c.reply_cap = pcbs[p].reply_cap /\ c.has_shm = FALSE
    BY <1>6, <1>7, <2>1, <2>3 DEF PCB
  <2>6. c \in GoodPcb
    BY <2>1, <2>2, <2>5 DEF GoodPcb
  <2> HIDE DEF T
  <2> QED
    BY <1>1, <2>4, <2>5, <2>6 DEF Table
<1> HIDE DEF T
<1>9. Sound(T, g_pipes, driver_ready_wait_reply,
            free_slots \ tables, fresh_slots \ tables)
  <2>1. ShmOf(T[p]) = {}
    BY <1>8 DEF ShmOf
  <2>2. Gains(pcbs, g_pipes, driver_ready_wait_reply,
              T, g_pipes, driver_ready_wait_reply, <<"caps", p>>, tables)
    BY <1>8, <2>1 DEF Gains
  <2>3. DistinctCopies(T)
    BY <1>1, <1>8 DEF Sound, DistinctCopies
  <2>4. <<"caps", p>> \in Owner
    BY OwnedSlots
  <2>5. tables \subseteq free_slots \cup fresh_slots
    BY <1>6
  <2> HIDE DEF tables
  <2> QED
    BY <1>1, <2>2, <2>3, <2>4, <2>5, SoundAcquire
(* The new table, whatever the outcome. *)
<1>10. ASSUME NEW ok \in BOOLEAN, NEW oom \in BOOLEAN, Step(N, f, ok, oom)
       PROVE  /\ pcbs' \in Table
              /\ \A q \in Pid \ {p} : pcbs'[q] = T[q]
              /\ pcbs'[p].caps = T[p].caps /\ pcbs'[p].reply_cap = T[p].reply_cap
              /\ pcbs'[p].has_shm = ok
              /\ pcbs'[p].shm_copies = ShmFill(p, k, f, oom)
  <2>1. T[p] \in GoodPcb /\ T[p] \in PCB
    BY <1>8 DEF Table, GoodPcb
  <2>2. ShmFill(p, k, f, oom) \in [ShmPage -> Slot0]
    BY <1>6 DEF ShmFill, NoCopies, Slot0, ShmPage
  <2>3. PICK g : g = ShmFill(p, k, f, oom)
    OBVIOUS
  <2>4. PICK c : c = [T[p] EXCEPT !.has_shm = ok, !.shm_copies = g]
    OBVIOUS
  <2>5. /\ c \in PCB /\ c.caps = T[p].caps
        /\ c.name = T[p].name /\ c.parent = T[p].parent
        /\ c.reply_cap = T[p].reply_cap
        /\ c.has_shm = ok /\ c.shm_copies = g
    BY <2>1, <2>2, <2>3, <2>4 DEF PCB
  <2>6. c \in GoodPcb
    BY <2>1, <2>5 DEF GoodPcb
  <2>7. pcbs' = [T EXCEPT ![p] = c]
    <3>1. pcbs[p] \in PCB
      BY <1>1 DEF Table, GoodPcb
    <3> QED
      BY <1>1, <1>10, <2>3, <2>4, <3>1 DEF T, Table, PCB
  <2> QED
    BY <1>8, <2>3, <2>5, <2>6, <2>7 DEF Table
(* All pages are mapped: the copies go to the process. *)
<1>11. CASE Step(N, f, TRUE, FALSE) /\ Taken(N)
  <2>1. /\ pcbs' \in Table
        /\ \A q \in Pid \ {p} : pcbs'[q] = T[q]
        /\ pcbs'[p].caps = T[p].caps /\ pcbs'[p].reply_cap = T[p].reply_cap
        /\ pcbs'[p].has_shm = TRUE
        /\ pcbs'[p].shm_copies = ShmFill(p, k, f, FALSE)
    BY <1>10, <1>11
  <2>2. \A j \in ShmPage : j \in 1 .. k /\ pcbs'[p].shm_copies[j] = f[j]
    <3>1. k = ShmPages
      BY <1>11
    <3>2. \A j \in ShmPage : j \in 1 .. k /\ j <= k
      BY <1>2, <3>1 DEF ShmPage
    <3>3. \A j \in ShmPage : ShmFill(p, k, f, FALSE)[j] = f[j]
      BY <3>2 DEF ShmFill
    <3> QED
      BY <2>1, <3>2, <3>3
  <2>3. ShmOf(pcbs'[p]) \subseteq F
    BY <2>1, <2>2 DEF ShmOf
  <2>4. DistinctCopies(pcbs')
    <3>1. \A i, j \in ShmPage :
            i # j => pcbs'[p].shm_copies[i] # pcbs'[p].shm_copies[j]
      <4>1. \A i, j \in 1 .. k : i # j => f[i] # f[j]
        BY <1>11
      <4> QED
        BY <2>2, <4>1
    <3>2. DistinctCopies(T)
      BY <1>9 DEF Sound
    <3>3. ASSUME NEW q \in Pid, pcbs'[q].has_shm, NEW i \in ShmPage,
                 NEW j \in ShmPage, i # j
          PROVE  pcbs'[q].shm_copies[i] # pcbs'[q].shm_copies[j]
      <4>1. CASE q = p
        BY <3>1, <3>3, <4>1
      <4>2. CASE q # p
        <5>1. pcbs'[q] = T[q]
          BY <2>1, <4>2
        <5> QED
          BY <3>2, <3>3, <5>1 DEF DistinctCopies
      <4> QED
        BY <4>1, <4>2
    <3> QED
      BY <3>3 DEF DistinctCopies
  <2>5. Gains(T, g_pipes, driver_ready_wait_reply,
              pcbs', g_pipes, driver_ready_wait_reply, <<"shm", p>>, F)
    <3> HIDE DEF F
    <3> QED
      BY <2>1, <2>3 DEF Gains
  <2>6. <<"shm", p>> \in Owner
    BY OwnedSlots
  <2>7. /\ F \subseteq (free_slots \ tables) \cup (fresh_slots \ tables)
        /\ (free_slots \ tables) \ F = free_slots \ N
        /\ (fresh_slots \ tables) \ F = fresh_slots \ N
    BY <1>6, <1>7
  <2>8. /\ free_slots' = free_slots \ N /\ fresh_slots' = fresh_slots \ N
        /\ occupied' = occupied \cup N /\ UNCHANGED replies
    BY <1>11
  <2>9. Cardinality(free_slots') <= FREE_POOL_SIZE
    BY <1>1, <2>8, SmallerPool DEF RestOK
  <2>10. RestOK'
    BY <1>1, <1>3, <1>6, <2>8, <2>9 DEF RestOK
  <2> HIDE DEF F, tables
  <2>11. Sound(pcbs', g_pipes, driver_ready_wait_reply,
               (free_slots \ tables) \ F, (fresh_slots \ tables) \ F)
    BY <1>9, <2>4, <2>5, <2>6, <2>7, SoundAcquire
  <2>12. Sound(pcbs', g_pipes, driver_ready_wait_reply, free_slots', fresh_slots')
    BY <2>7, <2>8, <2>11, Zenon
  <2>13. NoAliasing'
    BY <1>3, <2>12, SoundIsNoAliasing
  <2> QED
    BY <2>1, <2>10, <2>13, InvPartsNext
(* Some page cannot be mapped: the copies go back. *)
<1>12. ASSUME NEW oom \in BOOLEAN,
              Step(N, f, FALSE, oom), RolledBack(N, Slots(f, oom))
       PROVE  Inv'
  <2>1. /\ pcbs' \in Table
        /\ \A q \in Pid \ {p} : pcbs'[q] = T[q]
        /\ pcbs'[p].caps = T[p].caps /\ pcbs'[p].reply_cap = T[p].reply_cap
        /\ pcbs'[p].has_shm = FALSE
    BY <1>10, <1>12
  <2>2. Slots(f, oom) \subseteq F
    <3>1. ASSUME NEW j \in ShmPage, ShmFill(p, k, f, oom)[j] # NoSlot
          PROVE  ShmFill(p, k, f, oom)[j] \in F
      BY <1>2, <3>1 DEF ShmFill, NoCopies, ShmPage
    <3> QED
      BY <3>1
  <2>3. PICK gone : gone = Slots(f, oom) /\ gone \subseteq F /\ gone \subseteq N
    BY <1>7, <2>2
  <2>4. /\ free_slots' \in Freed(free_slots \ N, gone)
        /\ occupied' = Emptied(gone) \cup (N \ gone)
        /\ replies' = RepliesLeft(gone, {})
        /\ fresh_slots' = fresh_slots \ N
    BY <1>12, <2>3
  <2> HIDE DEF F
  <2>5. /\ free_slots' \subseteq (free_slots \ N) \cup gone
        /\ free_slots' \in SUBSET Slot
        /\ Cardinality(free_slots') <= FREE_POOL_SIZE
    <3>1. free_slots \ N \in SUBSET Slot /\ gone \in SUBSET Slot0
      BY <1>1, <1>6, <2>3 DEF Slot0
    <3> QED
      BY <2>4, <3>1, FreedOf
  <2>6. RestOK'
    <3>1. replies' \in [Slot0 -> Pid0]
      BY <1>1, <2>4, KernelTypes
    <3>2. occupied' \in SUBSET Slot /\ fresh_slots' \in SUBSET Slot
      BY <1>1, <1>6, <2>4 DEF Emptied, RestOK
    <3> QED
      BY <1>1, <1>3, <2>5, <3>1, <3>2 DEF RestOK
  <2>7. Sound(pcbs', g_pipes, driver_ready_wait_reply,
              free_slots \ tables, fresh_slots \ tables)
    <3>1. \A q \in Pid : Within(pcbs'[q], T[q])
      BY <2>1 DEF Within
    <3>2. PipesWithin(g_pipes, g_pipes)
      BY DEF PipesWithin
    <3> HIDE DEF tables
    <3> QED
      BY <1>9, <3>1, <3>2, SoundRelease
  <2>8. /\ free_slots' \cup fresh_slots' \subseteq
             (free_slots \ tables) \cup (fresh_slots \ tables)
        /\ free_slots' \cap fresh_slots' = {}
    BY <1>1, <1>6, <1>7, <2>3, <2>4, <2>5
  <2> HIDE DEF tables
  <2>9. Sound(pcbs', g_pipes, driver_ready_wait_reply, free_slots', fresh_slots')
    BY <2>7, <2>8, SoundPool
  <2>10. NoAliasing'
    BY <1>3, <2>9, SoundIsNoAliasing
  <2> QED
    BY <2>1, <2>6, <2>10, InvPartsNext
<1> QED
  BY <1>5, <1>11, <1>12

(* SYS_SHM_GET, with or without new page tables. *)
LEMMA ShmGetInv ==
  ASSUME Inv, ShmOnce, NEW p \in Pid, ShmGet(p)
  PROVE  Inv'
<1>1. ~pcbs[p].has_shm /\ pcbs[p].shm_copies = NoCopies
  BY DEF ShmGet
<1>2. CASE Panic
  BY <1>2, PanicInv
<1>3. ASSUME NEW k \in 0 .. ShmPages, ShmGets(p, k, 0),
             UNCHANGED <<g_pipes, readyVars, thread, halted>>
      PROVE  Inv'
  <2>1. pcbs[p] \in GoodPcb
    BY InvParts DEF Table
  <2>2. Cardinality(pcbs[p].caps) \in Nat
    <3>1. pcbs[p].caps \in SUBSET Slot
      BY <2>1 DEF GoodPcb, PCB
    <3> QED
      BY <3>1, FS_Subset, FS_CardinalityType, SlotAssumption
  <2>3. Cardinality(pcbs[p].caps) + 0 <= MaxCaps
    BY <2>1, <2>2 DEF GoodPcb
  <2> QED
    BY <1>1, <1>3, <2>3, ShmGetsInv
<1>4. ASSUME Cardinality(pcbs[p].caps) + TableCaps <= MaxCaps,
             NEW k \in ShmPage, ShmGets(p, k, TableCaps),
             UNCHANGED <<g_pipes, readyVars, thread, halted>>
      PROVE  Inv'
  <2>1. TableCaps \in Nat /\ k \in 0 .. ShmPages
    BY SlotAssumption DEF ShmPage
  <2> QED
    BY <1>1, <1>4, <2>1, ShmGetsInv
<1> QED
  BY <1>2, <1>3, <1>4 DEF ShmGet

-----------------------------------------------------------------------------
(* Boot, and the theorems. *)

(* The processes main() spawns have PIDs, and none is a thread. *)
LEMMA BootNames ==
  /\ BootPids \subseteq Pid
  /\ \A p \in BootPids : BootName(p) \in Name \ {"shell_thread"}
<1>1. MaxPid \in Nat /\ BootOrder \in Seq(STRING) /\ Len(BootOrder) + 1 <= MaxPid
  BY BootAssumption, Zenon
<1>2. BootPids \subseteq Pid
  BY <1>1 DEF BootPids, Pid
<1>3. \A p \in BootPids : BootName(p) \in Driver \cup {"shell"}
  BY DEF BootName, Driver
<1> QED
  BY <1>2, <1>3, DriverNames DEF Name

(* After boot every process has slots of its own. *)
LEMMA InitInv == Init => Inv
<1> SUFFICES ASSUME Init PROVE Inv
  OBVIOUS
<1>1. PICK boot \in [BootPids -> SUBSET Slot], tv \in [BootPids -> Slot \X Slot] :
        /\ \A p \in BootPids : Cardinality(boot[p]) = ProcCaps
        /\ \A p, q \in BootPids : p # q => boot[p] \cap boot[q] = {}
        /\ \A p \in BootPids : tv[p] \in Places(boot[p])
        /\ pcbs = [p \in Pid |->
                     IF p \in BootPids
                     THEN ProcessPcb(BootName(p), boot[p], tv[p][1], tv[p][2])
                     ELSE UnusedPcb]
        /\ occupied = UNION {boot[p] : p \in BootPids}
  BY DEF Init
<1>2. /\ fresh_slots = Slot \ occupied
      /\ g_pipes = [i \in PipeId |-> UnusedPipe]
      /\ driver_ready = [d \in Driver |-> FALSE]
      /\ driver_ready_wait_reply = NoSlot
      /\ free_slots = {}
      /\ replies = [s \in Slot0 |-> 0]
      /\ thread = [p \in Pid |-> IF p \in BootPids THEN "running" ELSE "none"]
      /\ halted = FALSE
  BY DEF Init
<1>3. ASSUME NEW p \in Pid
      PROVE  /\ pcbs[p] \in GoodPcb
             /\ p \in BootPids => pcbs[p].caps = boot[p]
             /\ p \notin BootPids => pcbs[p].caps = {}
             /\ pcbs[p].reply_cap = NoSlot /\ ~pcbs[p].has_shm
  <2>1. CASE p \in BootPids
    <3>1. pcbs[p] = ProcessPcb(BootName(p), boot[p], tv[p][1], tv[p][2])
      BY <1>1, <2>1
    <3>2. /\ boot[p] \in SUBSET Slot /\ Cardinality(boot[p]) = ProcCaps
          /\ tv[p][1] \in boot[p] /\ tv[p][2] \in boot[p]
          /\ BootName(p) \in Name \ {"shell_thread"}
      BY <1>1, <2>1, BootNames DEF Places
    <3> QED
      BY <2>1, <3>1, <3>2, ProcessIsGood
  <2>2. CASE p \notin BootPids
    <3>1. pcbs[p] = UnusedPcb
      BY <1>1, <2>2
    <3>2. UnusedPcb \in GoodPcb
      <4>1. Cardinality(UnusedPcb.caps) <= MaxCaps
        BY PcbTypes, FS_EmptySet, SlotAssumption
      <4>2. UnusedPcb.name # "shell_thread"
        BY DEF UnusedPcb
      <4> QED
        BY <4>1, <4>2, PcbTypes DEF GoodPcb
    <3> QED
      BY <2>2, <3>1, <3>2, UnusedOwnsNothing
  <2> QED
    BY <2>1, <2>2
<1>4. pcbs \in Table
  BY <1>1, <1>3 DEF Table
<1>5. RestOK
  <2>1. UnusedPipe \in Pipe /\ UnusedPipe.buffer = <<>>
    BY PidTypes DEF UnusedPipe, Pipe, Slot0
  <2>2. Len(UnusedPipe.buffer) <= PipeSize
    BY <2>1, PipeAssumption
  <2>3. occupied \in SUBSET Slot
    BY <1>1
  <2>4. Cardinality(free_slots) <= FREE_POOL_SIZE
    BY <1>2, FS_EmptySet, SlotAssumption
  <2>5. NoSlot \in Slot0
    BY DEF Slot0
  <2> QED
    BY <1>2, <2>1, <2>2, <2>3, <2>4, <2>5, PidTypes DEF RestOK
<1>6. ASSUME NEW o \in Owner
      PROVE  \/ Owns(o) = {}
             \/ \E p \in BootPids : o = <<"caps", p>> /\ Owns(o) = boot[p]
  <2>1. ASSUME NEW p \in Pid, o = <<"caps", p>>
        PROVE  Owns(o) = {} \/ (p \in BootPids /\ Owns(o) = boot[p])
    BY <1>3, <2>1 DEF Owns
  <2>2. ASSUME NEW p \in Pid, o = <<"reply", p>> PROVE Owns(o) = {}
    BY <1>3, <2>2 DEF Owns
  <2>3. ASSUME NEW p \in Pid, o = <<"shm", p>> PROVE Owns(o) = {}
    BY <1>3, <2>3 DEF Owns
  <2>4. ASSUME NEW i \in PipeId, o = <<"reader", i>> PROVE Owns(o) = {}
    BY <1>2, <2>4 DEF Owns, UnusedPipe
  <2>5. CASE o = <<"ready", 0>>
    BY <1>2, <2>5 DEF Owns
  <2> QED
    BY <2>1, <2>2, <2>3, <2>4, <2>5, OwnerCases
<1>7. NoAliasing
  <2>1. \A p \in BootPids : boot[p] \subseteq occupied
    BY <1>1
  <2>2. free_slots \cap fresh_slots = {}
    BY <1>2
  <2>3. \A o \in Owner : Owns(o) \cap Available = {}
    BY <1>2, <1>6, <2>1 DEF Available
  <2>4. \A o, q \in Owner : o # q => Owns(o) \cap Owns(q) = {}
    BY <1>1, <1>6
  <2>5. \A p \in Pid : pcbs[p].has_shm =>
          \A j, k \in ShmPage : j # k => pcbs[p].shm_copies[j] # pcbs[p].shm_copies[k]
    BY <1>3
  <2> QED
    BY <2>2, <2>3, <2>4, <2>5 DEF NoAliasing
<1> QED
  BY <1>4, <1>5, <1>7, InvParts

(* Every handler keeps the invariant. *)
LEMMA NextInv ==
  ASSUME ShmOnce, Inv, [Next]_vars
  PROVE  Inv'
<1>1. CASE UNCHANGED vars
  BY <1>1, StutterInv
<1>2. CASE Next
  <2>1. PICK p \in Pid :
          \/ PageFault(p)
          \/ Fault(p)
          \/ SysPipe(p)
          \/ \E data \in Chunk : PipeWrite(p, data)
          \/ PipeRead(p)
          \/ PipeWrClose(p)
          \/ PipeClose(p)
          \/ \E t \in Pid : SysWait(p, t)
          \/ \E i \in PipeId \cup {NoPipe} : SysClone(p, i)
          \/ ThreadExit(p)
          \/ SysExec(p)
          \/ \E t \in Pid : SysKill(p, t)
          \/ SysExit(p)
          \/ DriverReady(p)
          \/ WaitAllReady(p)
          \/ ShmGet(p)
          \/ \E name \in Driver \cup {"shell"} : SysRecover(p, name)
    BY <1>2 DEF Next
  <2>2. CASE PageFault(p) \/ Fault(p)
    BY <2>2, PageFaultInv, FaultInv
  <2>3. CASE SysPipe(p) \/ PipeRead(p) \/ PipeWrClose(p) \/ PipeClose(p)
    BY <2>3, SysPipeInv, PipeReadInv, PipeWrCloseInv, PipeCloseInv
  <2>4. CASE \E data \in Chunk : PipeWrite(p, data)
    BY <2>4, PipeWriteInv
  <2>5. CASE \E t \in Pid : SysWait(p, t)
    BY <2>5, SysWaitInv
  <2>6. CASE \E i \in PipeId \cup {NoPipe} : SysClone(p, i)
    BY <2>6, SysCloneInv
  <2>7. CASE ThreadExit(p) \/ SysExit(p) \/ SysExec(p)
    BY <2>7, ThreadExitInv, SysExitInv, SysExecInv
  <2>8. CASE \E t \in Pid : SysKill(p, t)
    BY <2>8, SysKillInv
  <2>9. CASE DriverReady(p) \/ WaitAllReady(p) \/ ShmGet(p)
    BY <2>9, DriverReadyInv, WaitAllReadyInv, ShmGetInv
  <2>10. CASE \E name \in Driver \cup {"shell"} : SysRecover(p, name)
    BY <2>10, SysRecoverInv
  <2> QED
    BY <2>1, <2>2, <2>3, <2>4, <2>5, <2>6, <2>7, <2>8, <2>9, <2>10
<1> QED
  BY <1>1, <1>2

(* TypeOK /\ NoAliasing, with the parents of threads, always holds. *)
THEOREM InductiveInvariant ==
  ASSUME ShmOnce
  PROVE  Spec => []Inv
<1>1. Init => Inv
  BY InitInv
<1>2. Inv /\ [Next]_vars => Inv'
  BY NextInv
<1> QED
  BY <1>1, <1>2, PTL DEF Spec

(* The tables of the rootserver stay within their bounds: the stack of     *)
(* returned slots in free_slots[], every CapTracker in caps[], every pipe  *)
(* in its buffer.                                                          *)
THEOREM TypeCorrect ==
  ASSUME ShmOnce
  PROVE  Spec => []TypeOK
<1>1. Inv => TypeOK
  BY DEF Inv
<1> QED
  BY <1>1, InductiveInvariant, PTL

(* No slot of the root CNode ever has two owners, through faults, kills,   *)
(* recoveries, exits and failed mappings, if no process asks for shared    *)
(* memory twice.                                                           *)
THEOREM NoSlotHasTwoOwners ==
  ASSUME ShmOnce
  PROVE  Spec => []NoAliasing
<1>1. Inv => NoAliasing
  BY DEF Inv
<1> QED
  BY <1>1, InductiveInvariant, PTL

-----------------------------------------------------------------------------
(* Readers of pipes. *)

(* The handlers that do not touch g_pipes[]. *)
LEMMA PipesOfActions ==
  ASSUME NEW p \in Pid, NEW t \in Pid, NEW name,
         \/ PageFault(p) \/ Fault(p) \/ SysRecover(p, name) \/ SysKill(p, t)
         \/ SysExec(p) \/ SysWait(p, t) \/ DriverReady(p) \/ WaitAllReady(p)
         \/ ShmGet(p)
  PROVE  UNCHANGED g_pipes
BY DEF PageFault, Fault, SysRecover, SysKill, SysExec, SysWait, DriverReady,
       WaitAllReady, ShmGet, generic_recover_process, Panic

(* End of file wakes the reader. *)
LEMMA AtEofReaders ==
  ASSUME Inv, PipeReaderSound, NEW I \in SUBSET PipeId, g_pipes' = AtEof(I)
  PROVE  PipeReaderSound'
<1>1. /\ \A i \in I : g_pipes'[i].reader_reply_cap = NoSlot
      /\ \A i \in PipeId \ I : g_pipes'[i] = g_pipes[i]
  BY InvParts, AtEofPipes DEF AtEof
<1> QED
  BY <1>1 DEF PipeReaderSound

(* No handler puts a reader to sleep next to data, or data next to one. *)
LEMMA ReadersInv ==
  ASSUME Inv, PipeReaderSound, [Next]_vars
  PROVE  PipeReaderSound'
<1>1. pcbs \in Table /\ RestOK
  BY InvParts
<1>2. CASE UNCHANGED g_pipes
  BY <1>2 DEF PipeReaderSound
<1>3. CASE ~UNCHANGED g_pipes
  <2>1. PICK p \in Pid :
          \/ SysPipe(p)
          \/ \E data \in Chunk : PipeWrite(p, data)
          \/ PipeRead(p)
          \/ PipeWrClose(p)
          \/ PipeClose(p)
          \/ \E i \in PipeId \cup {NoPipe} : SysClone(p, i)
          \/ ThreadExit(p)
          \/ SysExit(p)
    BY <1>3, PipesOfActions DEF Next, vars
  <2> DEFINE k == PipeOf(p)
  <2>2. CASE SysPipe(p)
    BY <1>1, <2>2 DEF SysPipe, PipeReaderSound, RestOK
  <2>3. ASSUME NEW data \in Chunk, PipeWrite(p, data)
        PROVE  PipeReaderSound'
    <3>1. k \in PipeId
      BY <1>1, <2>3, PipeOfType DEF PipeWrite
    <3>2. PICK buf : buf = g_pipes[k].buffer \o Accepted(g_pipes[k].buffer, data)
      OBVIOUS
    <3>3. \/ g_pipes' = [g_pipes EXCEPT ![k].buffer = Tail(buf),
                                        ![k].reader_reply_cap = NoSlot]
          \/ /\ g_pipes' = [g_pipes EXCEPT ![k].buffer = buf]
             /\ g_pipes[k].reader_reply_cap = NoSlot \/ buf = <<>>
      BY <2>3, <3>2 DEF PipeWrite
    <3> HIDE DEF k
    <3> QED
      BY <1>1, <3>1, <3>3 DEF PipeReaderSound, RestOK, Pipe
  <2>4. CASE PipeRead(p)
    <3>1. k \in PipeId
      BY <1>1, <2>4, PipeOfType DEF PipeRead
    <3>2. \/ /\ g_pipes[k].buffer # <<>>
             /\ g_pipes' = [g_pipes EXCEPT ![k].buffer = Tail(@)]
          \/ /\ g_pipes[k].buffer = <<>> /\ ~g_pipes[k].eof
             /\ \E s \in Slot0 : g_pipes' = [g_pipes EXCEPT ![k].reader_reply_cap = s]
      BY <2>4 DEF PipeRead
    <3> HIDE DEF k
    <3> QED
      BY <1>1, <3>1, <3>2 DEF PipeReaderSound, RestOK, Pipe
  <2>5. CASE PipeWrClose(p)
    <3>1. k \in PipeId /\ g_pipes' = AtEof({k})
      BY <1>1, <2>5, PipeOfType DEF PipeWrClose
    <3> QED
      BY <3>1, AtEofReaders
  <2>6. CASE PipeClose(p)
    <3>1. k \in PipeId /\ g_pipes' = [g_pipes EXCEPT ![k].active = FALSE]
      BY <1>1, <2>6, PipeOfType DEF PipeClose
    <3> HIDE DEF k
    <3> QED
      BY <1>1, <3>1 DEF PipeReaderSound, RestOK, Pipe
  <2>7. ASSUME NEW i, SysClone(p, i)
        PROVE  PipeReaderSound'
    <3>1. PICK t : i \in PipeId /\ g_pipes' = [g_pipes EXCEPT ![i].writer_pid = t]
      BY <1>3, <2>7 DEF SysClone, Panic
    <3> QED
      BY <1>1, <3>1 DEF PipeReaderSound, RestOK, Pipe
  <2>8. CASE ThreadExit(p) \/ SysExit(p)
    <3>1. g_pipes' = AtEof(WrittenBy(p)) /\ WrittenBy(p) \in SUBSET PipeId
      BY <2>8 DEF ThreadExit, SysExit, WrittenBy
    <3> QED
      BY <3>1, AtEofReaders
  <2> QED
    BY <2>1, <2>2, <2>3, <2>4, <2>5, <2>6, <2>7, <2>8
<1> QED
  BY <1>2, <1>3

(* No reader sleeps next to data or behind the end of file of its pipe,    *)
(* whatever its writers do and whichever of them dies.                     *)
THEOREM ReadersNeverMissData ==
  ASSUME ShmOnce
  PROVE  Spec => []PipeReaderSound
<1>1. Init => PipeReaderSound
  BY DEF Init, PipeReaderSound, UnusedPipe
<1>2. Inv /\ PipeReaderSound /\ [Next]_vars => PipeReaderSound'
  BY ReadersInv
<1> QED
  BY <1>1, <1>2, InductiveInvariant, PTL DEF Spec
=============================================================================
