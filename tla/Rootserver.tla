----------------------------- MODULE Rootserver -----------------------------
(***************************************************************************)
(* The rootserver of Psych Ward OS (main.cpp): one thread that serves, one *)
(* at a time, the system calls and the faults of all other processes.  An  *)
(* action is one turn of its main loop: receive, handle, reply or keep the *)
(* caller's reply capability.                                              *)
(*                                                                         *)
(* The state is the rootserver's own tables (PCBs, pipes, readiness flags, *)
(* the slot allocator as the set of returned and the set of fresh slots)   *)
(* and, of the seL4 kernel, what the tables have to agree with: which      *)
(* thread runs or is blocked in a call, and what the slots of the root     *)
(* CNode contain.                                                          *)
(*                                                                         *)
(* Calls that only reply (SYS_PRINT, SYS_GET_TIME, SYS_PUTCHAR, SYS_ALLOC, *)
(* SYS_DOCTOR, SYS_PS, SYS_GETPID, unknown numbers), and the replies -1 of *)
(* the calls below, change none of this and are stuttering steps.          *)
(***************************************************************************)
EXTENDS Naturals, Sequences, FiniteSets

CONSTANTS
  MaxPid,           \* pcbs[1 .. MaxPid]; 255 in main.cpp
  BootOrder,        \* the drivers, in the order main() spawns them
  MAX_PIPES,        \* the length of g_pipes[]; 16 in main.cpp
  PipeSize,         \* sizeof(pipe_t::buffer); 4096 in main.cpp
  Byte,             \* what a pipe carries
  MaxChunk,         \* bytes per SYS_PUTS message; 100 in the callers
  Slot,             \* the empty slots of the root CNode at boot
  NoSlot,           \* slot 0 (seL4_CapNull), which alloc_slot() returns in need
  FREE_POOL_SIZE,   \* capacity of the allocator's stack of returned slots
  ProcCaps,         \* slots spawn_process tracks for a process
  ThreadCaps,       \* slots SYS_CLONE tracks for a thread
  TableCaps,        \* page tables map_frame_robust may have to add
  MaxCaps,          \* CapTracker::caps[]; 64 in main.cpp
  ShmPages,         \* pages SYS_SHM_GET maps; 4 in main.cpp
  ShmCallers,       \* names of the processes that call SYS_SHM_GET
  MapMayFail,       \* may seL4_ARM_Page_Map fail in SYS_SHM_GET (no memory)?
  ShmOnce           \* does every process call SYS_SHM_GET at most once?

ASSUME BootAssumption ==
  /\ MaxPid \in Nat
  /\ BootOrder \in Seq(STRING)
  /\ Len(BootOrder) + 1 <= MaxPid
  /\ \A i \in 1 .. Len(BootOrder) :
        BootOrder[i] \notin {"shell", "shell_thread", "app", ""}
  /\ \A i, j \in 1 .. Len(BootOrder) : BootOrder[i] = BootOrder[j] => i = j

ASSUME SlotAssumption ==
  /\ IsFiniteSet(Slot) /\ NoSlot \notin Slot
  /\ ProcCaps \in Nat \ {0, 1} /\ ThreadCaps \in Nat \ {0} /\ TableCaps \in Nat
  /\ (Len(BootOrder) + 1) * ProcCaps <= Cardinality(Slot)
  /\ FREE_POOL_SIZE \in Nat /\ MaxCaps \in Nat /\ ShmPages \in Nat
  /\ ProcCaps <= MaxCaps /\ ThreadCaps <= MaxCaps

ASSUME PipeAssumption ==
  /\ MAX_PIPES \in Nat
  /\ PipeSize \in Nat \ {0} /\ MaxChunk \in Nat \ {0}

ASSUME FlagAssumption == MapMayFail \in BOOLEAN /\ ShmOnce \in BOOLEAN

VARIABLES
  pcbs,                     \* the process table
  g_pipes,                  \* the pipes
  driver_ready,             \* which drivers have sent SYS_DRIVER_READY
  driver_ready_wait_reply,  \* the slot of the shell that waits for all of them
  fresh_slots,              \* allocator: slots from current_slot on
  free_slots,               \* allocator: returned slots
  occupied,                 \* kernel: slots that hold the cap of an object
  replies,                  \* kernel: whose reply cap a slot holds, 0 for none
  thread,                   \* kernel: the state of each process's thread
  halted                    \* the rootserver is in one of its while(1) loops

vars == <<pcbs, g_pipes, driver_ready, driver_ready_wait_reply, fresh_slots,
          free_slots, occupied, replies, thread, halted>>

readyVars == <<driver_ready, driver_ready_wait_reply>>
allocVars == <<fresh_slots, free_slots>>
slotVars  == <<fresh_slots, free_slots, occupied, replies>>

-----------------------------------------------------------------------------
Pid  == 1 .. MaxPid
Pid0 == 0 .. MaxPid             \* 0: nobody
Slot0 == Slot \cup {NoSlot}
PipeId == 0 .. (MAX_PIPES - 1)
NoPipe == MAX_PIPES             \* no pipe capability in PIPE_FD_SLOT
ShmPage == 1 .. ShmPages

Driver == {BootOrder[i] : i \in 1 .. Len(BootOrder)}
Name   == Driver \cup {"shell", "shell_thread", "app", ""}

(* ProcessControlBlock.  caps is cap_tracker; tcb stands for tcb and       *)
(* badged_ep; parent is the upper half of the badge; pipe_fd is the pipe   *)
(* that PIPE_FD_SLOT of the process's CSpace refers to.  is_driver is read *)
(* off the name: 1..4 for the drivers, 254 for an app, 0 for the others.   *)
PCB == [active : BOOLEAN, name : Name, parent : Pid0, waiting_for : Pid0,
        reply_cap : Slot0, caps : SUBSET Slot, tcb : Slot0, vspace : Slot0,
        has_shm : BOOLEAN, shm_copies : [ShmPage -> Slot0],
        pipe_fd : PipeId \cup {NoPipe}]

Pipe == [active : BOOLEAN, buffer : Seq(Byte), reader_reply_cap : Slot0,
         writer_pid : Pid0, owner_pid : Pid0, eof : BOOLEAN]

NoCopies == [k \in ShmPage |-> NoSlot]

(* A PCB after memset() and the assignments of spawn_process, with the     *)
(* tracked slots N, among them tcb and vspace.                             *)
ProcessPcb(name, N, tcb, vspace) ==
  [active |-> TRUE, name |-> name, parent |-> 0, waiting_for |-> 0,
   reply_cap |-> NoSlot, caps |-> N, tcb |-> tcb, vspace |-> vspace,
   has_shm |-> FALSE, shm_copies |-> NoCopies, pipe_fd |-> NoPipe]

(* The PCB of a thread of p: it shares p's VSpace and CSpace. *)
ThreadPcb(p, N, tcb) ==
  [active |-> TRUE, name |-> "shell_thread", parent |-> p, waiting_for |-> 0,
   reply_cap |-> NoSlot, caps |-> N, tcb |-> tcb, vspace |-> pcbs[p].vspace,
   has_shm |-> FALSE, shm_copies |-> NoCopies, pipe_fd |-> NoPipe]

(* A PCB with active = false.  Its other fields are not read again before  *)
(* the memset() of its next use, so the model forgets them at once.        *)
UnusedPcb ==
  [active |-> FALSE, name |-> "", parent |-> 0, waiting_for |-> 0,
   reply_cap |-> NoSlot, caps |-> {}, tcb |-> NoSlot, vspace |-> NoSlot,
   has_shm |-> FALSE, shm_copies |-> NoCopies, pipe_fd |-> NoPipe]

UnusedPipe ==
  [active |-> FALSE, buffer |-> <<>>, reader_reply_cap |-> NoSlot,
   writer_pid |-> 0, owner_pid |-> 0, eof |-> FALSE]

(* cpio_get_file: the boot archive holds the drivers and the shell. *)
Archive == Driver \cup {"shell"}

Active == {p \in Pid : pcbs[p].active}
IsThread(p) == pcbs[p].name = "shell_thread"

(* Search loops take the first match. *)
IsFirst(x, S) == x \in S /\ \A y \in S : x <= y

(***************************************************************************)
(* Boot: main() has spawned the drivers in BootOrder and then the shell.   *)
(* The slots main() takes for itself are not counted.                      *)
(***************************************************************************)
BootPids == 1 .. (Len(BootOrder) + 1)
BootName(p) == IF p \in 1 .. Len(BootOrder) THEN BootOrder[p] ELSE "shell"

(* Where the TCB and the VSpace of a process with the slots N may be. *)
Places(N) == {tv \in N \X N : tv[1] # tv[2]}

Init ==
  \E boot \in [BootPids -> SUBSET Slot] :
    /\ \A p \in BootPids : Cardinality(boot[p]) = ProcCaps
    /\ \A p, q \in BootPids : p # q => boot[p] \cap boot[q] = {}
    /\ \E tv \in [BootPids -> Slot \X Slot] :
         /\ \A p \in BootPids : tv[p] \in Places(boot[p])
         /\ pcbs = [p \in Pid |->
                      IF p \in BootPids
                      THEN ProcessPcb(BootName(p), boot[p], tv[p][1], tv[p][2])
                      ELSE UnusedPcb]
    /\ occupied = UNION {boot[p] : p \in BootPids}
    /\ fresh_slots = Slot \ occupied
    /\ g_pipes = [i \in PipeId |-> UnusedPipe]
    /\ driver_ready = [d \in Driver |-> FALSE]
    /\ driver_ready_wait_reply = NoSlot
    /\ free_slots = {}
    /\ replies = [s \in Slot0 |-> 0]
    /\ thread = [p \in Pid |-> IF p \in BootPids THEN "running" ELSE "none"]
    /\ halted = FALSE

-----------------------------------------------------------------------------
(* The allocator: SlotAllocator without the order of its stack.            *)
(* Grants(k, pool): the sets of slots that k calls of alloc_slot() may     *)
(* return when pool is the set of returned slots; none if one of the calls *)
(* returns 0.  Fresh slots are used only when the pool is empty.           *)
Grants(k, pool) ==
  IF k <= Cardinality(pool)
  THEN {S \in SUBSET pool : Cardinality(S) = k}
  ELSE {pool \cup F : F \in {G \in SUBSET fresh_slots :
                               Cardinality(G) = k - Cardinality(pool)}}

(* Mutant of Freed: no test for a full stack. *)
Freed_NoLimit(pool, S) == {pool \cup (S \ {NoSlot})}

(* The pools that free() may leave when the slots S are returned: slot 0   *)
(* is ignored, and what comes after the stack is full is lost.             *)
Freed(pool, S) ==
  LET all == pool \cup (S \ {NoSlot})
  IN  {P \in SUBSET all : /\ pool \subseteq P
                          /\ Cardinality(P) <= FREE_POOL_SIZE
                          /\ P = all \/ Cardinality(P) = FREE_POOL_SIZE}

(* alloc_slot() outside alloc_and_track_cap: slot 0 when there is none. *)
alloc_slot(s) ==
  \/ /\ {s} \in Grants(1, free_slots)
     /\ free_slots' = free_slots \ {s}
     /\ fresh_slots' = fresh_slots \ {s}
  \/ /\ s = NoSlot /\ Grants(1, free_slots) = {}
     /\ UNCHANGED allocVars

(* alloc_and_track_cap and check_err never return after a failure. *)
Panic ==
  /\ halted' = TRUE
  /\ UNCHANGED <<pcbs, g_pipes, readyVars, slotVars, thread>>

(***************************************************************************)
(* The kernel (seL4), as the rootserver uses it.  SaveCaller fails, and    *)
(* the caller is then never replied to, if the slot is not empty.  Slot 0  *)
(* of the root CNode is a slot like any other: a caller saved there is     *)
(* woken by a send to slot 0.  A send to an empty slot does nothing.       *)
(***************************************************************************)
SaveCaller(s, p) ==
  /\ replies' = [replies EXCEPT
                   ![s] = IF @ = 0 /\ s \notin occupied THEN p ELSE @]
  /\ thread' = [thread EXCEPT ![p] = "blocked"]

(* seL4_Send to, and seL4_CNode_Delete of, the slots R. *)
Woken(R) == {replies[r] : r \in R}
Resumed(R) ==
  [q \in Pid |-> IF q \in Woken(R) /\ thread[q] = "blocked"
                 THEN "running" ELSE thread[q]]

(* Mutant of Emptied: seL4_CNode_Delete forgotten. *)
Emptied_NoDelete(S) == occupied

(* seL4_CNode_Delete of the slots S that hold the caps of objects. *)
Emptied(S) == occupied \ S

(* What the reply caps are after sends to R and the suspension of the      *)
(* threads V, which nullifies the reply caps to them.                      *)
RepliesLeft(R, V) ==
  [s \in Slot0 |-> IF s \in R \/ replies[s] \in V THEN 0 ELSE replies[s]]

(* The main loop receives from p: a badge of an inactive PID is ignored. *)
Calls(p) == ~halted /\ pcbs[p].active /\ thread[p] = "running"

(* The pipe in PIPE_FD_SLOT of p's CSpace; threads use their parent's. *)
PipeOf(p) == pcbs[IF IsThread(p) THEN pcbs[p].parent ELSE p].pipe_fd

(* Mutant of Waiters: everybody who waits. *)
Waiters_Any(v) == {w \in Active : pcbs[w].waiting_for # 0}

(* The active processes that wait for v, and their reply slots. *)
Waiters(v) == {w \in Active : pcbs[w].waiting_for = v}
ReplyCaps(W) == {pcbs[w].reply_cap : w \in W}
Copies(p) == {pcbs[p].shm_copies[k] : k \in ShmPage}

-----------------------------------------------------------------------------
(* spawn_process(name, ...) in a turn of the loop that has brought the     *)
(* table, the threads, the returned slots and the CNode to st.  The search *)
(* for a PID finds the process that is being replaced still active.  No    *)
(* PID: the call fails.  No slots: alloc_and_track_cap panics.             *)
Here == [pcbs |-> pcbs, thread |-> thread, free_slots |-> free_slots,
         occupied |-> occupied]

spawn_process(name, st) ==
  \/ /\ Active = Pid \/ Grants(ProcCaps, st.free_slots) = {}
     /\ pcbs' = st.pcbs /\ thread' = st.thread
     /\ free_slots' = st.free_slots /\ occupied' = st.occupied
     /\ halted' = (Active # Pid)
     /\ UNCHANGED fresh_slots
  \/ /\ \E pid \in Pid, N \in Grants(ProcCaps, st.free_slots) :
          /\ IsFirst(pid, Pid \ Active)
          /\ \E tv \in Places(N) :
               pcbs' = [st.pcbs EXCEPT ![pid] =
                          ProcessPcb(name, N, tv[1], tv[2])]
          /\ thread' = [st.thread EXCEPT ![pid] = "running"]
          /\ free_slots' = st.free_slots \ N
          /\ fresh_slots' = fresh_slots \ N
          /\ occupied' = st.occupied \cup N
     /\ UNCHANGED halted

(***************************************************************************)
(* generic_recover_process(v).  The waiters of v are answered (their reply *)
(* slots are emptied but not returned to the allocator), v is suspended,   *)
(* its slots are emptied and returned, and what the boot archive holds is  *)
(* started again.  An app has is_driver = 254 and is looked up too, in     *)
(* vain.  Threads of v are not touched, but lose their CSpace and VSpace   *)
(* with v: they stay in the table and never run again.                     *)
(***************************************************************************)
ReturnedBy(v) ==
  (IF IsThread(v) THEN pcbs[v].caps \ {pcbs[v].vspace} ELSE pcbs[v].caps)
  \cup (IF pcbs[v].has_shm THEN Copies(v) \ {NoSlot} ELSE {})

Orphans(v) ==
  {q \in Active : ~IsThread(v) /\ IsThread(q) /\ pcbs[q].parent = v}

(* Mutant of Answered: reply_cap keeps the slot. *)
Answered_KeepReplyCap(W) ==
  [q \in Pid |-> IF q \in W THEN [pcbs[q] EXCEPT !.waiting_for = 0] ELSE pcbs[q]]

(* The waiters W are answered and their wait is over. *)
Answered(W) ==
  [q \in Pid |-> IF q \in W
                 THEN [pcbs[q] EXCEPT !.waiting_for = 0, !.reply_cap = NoSlot]
                 ELSE pcbs[q]]

(* Mutant of Ended: the process stays active. *)
Ended_StaysActive(T, v) == [T EXCEPT ![v].caps = {}, ![v].has_shm = FALSE]

(* The table T after v has been marked inactive. *)
Ended(T, v) == [T EXCEPT ![v] = UnusedPcb]

generic_recover_process(v) ==
  LET W == Waiters(v)
      Without(pool) ==
        [pcbs |-> Ended(Answered(W), v),
         thread |-> [q \in Pid |-> IF q = v \/ q \in Orphans(v)
                                   THEN "none" ELSE Resumed(ReplyCaps(W))[q]],
         free_slots |-> pool,
         occupied |-> Emptied(ReturnedBy(v))]
  IN  /\ \E pool \in Freed(free_slots, ReturnedBy(v)) :
           IF pcbs[v].name \in Archive
           THEN spawn_process(pcbs[v].name, Without(pool))
           ELSE /\ pcbs' = Without(pool).pcbs
                /\ thread' = Without(pool).thread
                /\ free_slots' = pool
                /\ occupied' = Without(pool).occupied
                /\ UNCHANGED <<fresh_slots, halted>>
      /\ replies' = RepliesLeft(ReplyCaps(W), {v})
      /\ UNCHANGED <<g_pipes, readyVars>>

-----------------------------------------------------------------------------
(* VMFault in the pager's window: one tracked frame, mapped into the       *)
(* VSpace; every failure is a panic.                                       *)
PageFault(p) ==
  /\ Calls(p)
  /\ \/ /\ pcbs[p].vspace \in occupied
        /\ Cardinality(pcbs[p].caps) < MaxCaps
        /\ \E N \in Grants(1, free_slots) :
             /\ pcbs' = [pcbs EXCEPT ![p].caps = @ \cup N]
             /\ free_slots' = free_slots \ N
             /\ fresh_slots' = fresh_slots \ N
             /\ occupied' = occupied \cup N
        /\ UNCHANGED <<g_pipes, readyVars, replies, thread, halted>>
     \/ /\ \/ pcbs[p].vspace \notin occupied
           \/ Cardinality(pcbs[p].caps) >= MaxCaps
           \/ Grants(1, free_slots) = {}
        /\ Panic

(* Any other VMFault, and a CapFault: the watchdog.  A VMFault at address  *)
(* 0x12 (no TLS) halts it on purpose.                                      *)
Fault(p) ==
  /\ Calls(p)
  /\ generic_recover_process(p) \/ Panic

(* SYS_RECOVER: the active process of that name with the lowest PID. *)
SysRecover(p, name) ==
  /\ Calls(p) /\ pcbs[p].name = "shell"
  /\ \E t \in Pid : /\ IsFirst(t, {u \in Active : pcbs[u].name = name})
                    /\ generic_recover_process(t)

(* SYS_KILL.  Drivers, apps and the shell are recovered.  A thread is      *)
(* suspended and marked inactive and its TCB, endpoint and VSpace slots    *)
(* are emptied, whatever they hold by now: the VSpace slot is its parent's *)
(* and may have been reused since.  Nothing is returned to the allocator   *)
(* and nobody is woken.                                                    *)
SysKill(p, t) ==
  LET gone == {pcbs[t].tcb, pcbs[t].vspace}
      dead == {q \in Active : q = t \/ pcbs[q].tcb \in gone}
  IN  /\ Calls(p) /\ pcbs[p].name = "shell"
      /\ t \in Active
      /\ \/ ~IsThread(t) /\ generic_recover_process(t)
         \/ /\ IsThread(t)
            /\ pcbs' = Ended(pcbs, t)
            /\ thread' = [q \in Pid |-> IF q \in dead THEN "none" ELSE thread[q]]
            /\ occupied' = Emptied(gone)
            /\ replies' = RepliesLeft(gone, dead)
            /\ UNCHANGED <<g_pipes, readyVars, allocVars, halted>>

(* SYS_EXEC.  A file that is not there or not an ELF changes nothing. *)
SysExec(p) ==
  /\ Calls(p) /\ pcbs[p].name = "shell"
  /\ spawn_process("app", Here)
  /\ UNCHANGED <<g_pipes, readyVars, replies>>

-----------------------------------------------------------------------------
(* SYS_PIPE: the first inactive pipe; its cap replaces the one in          *)
(* PIPE_FD_SLOT of the caller.                                             *)
SysPipe(p) ==
  /\ Calls(p) /\ pcbs[p].name = "shell"
  /\ \E i \in PipeId :
       /\ IsFirst(i, {j \in PipeId : ~g_pipes[j].active})
       /\ g_pipes' = [g_pipes EXCEPT ![i] =
                        [active |-> TRUE, buffer |-> <<>>,
                         reader_reply_cap |-> NoSlot, writer_pid |-> p,
                         owner_pid |-> p, eof |-> FALSE]]
       /\ pcbs' = [pcbs EXCEPT ![p].pipe_fd = i]
  /\ UNCHANGED <<readyVars, slotVars, thread, halted>>

(* The readers of the pipes I that are blocked are sent one answer; their  *)
(* reply slots are emptied and returned.                                   *)
Readers(I) == {g_pipes[i].reader_reply_cap : i \in I} \ {NoSlot}

(* Mutant of Accepted: no test for a full buffer. *)
Accepted_All(buffer, data) == data

(* The part of data that still fits. *)
Accepted(buffer, data) ==
  LET room == PipeSize - Len(buffer)
  IN  SubSeq(data, 1, IF Len(data) <= room THEN Len(data) ELSE room)

(* SYS_PUTS on a pipe: what does not fit in the buffer is dropped, then a  *)
(* blocked reader is handed the first byte.                                *)
PipeWrite(p, data) ==
  LET i    == PipeOf(p)
      buf  == g_pipes[i].buffer \o Accepted(g_pipes[i].buffer, data)
      wake == g_pipes[i].reader_reply_cap # NoSlot /\ buf # <<>>
  IN  /\ Calls(p) /\ (pcbs[p].name = "shell" \/ IsThread(p))
      /\ i # NoPipe
      /\ IF wake
         THEN /\ g_pipes' = [g_pipes EXCEPT ![i].buffer = Tail(buf),
                                            ![i].reader_reply_cap = NoSlot]
              /\ thread' = Resumed(Readers({i}))
              /\ replies' = RepliesLeft(Readers({i}), {})
              /\ free_slots' \in Freed(free_slots, Readers({i}))
         ELSE /\ g_pipes' = [g_pipes EXCEPT ![i].buffer = buf]
              /\ UNCHANGED <<thread, replies, free_slots>>
      /\ UNCHANGED <<pcbs, readyVars, fresh_slots, occupied, halted>>

(* SYS_READ on a pipe: a byte, end of file, or wait for the writer. *)
PipeRead(p) ==
  LET i == PipeOf(p)
  IN  /\ Calls(p) /\ IsThread(p)
      /\ i # NoPipe
      /\ \/ /\ g_pipes[i].buffer # <<>>
            /\ g_pipes' = [g_pipes EXCEPT ![i].buffer = Tail(@)]
            /\ UNCHANGED <<slotVars, thread>>
         \/ /\ g_pipes[i].buffer = <<>> /\ ~g_pipes[i].eof
            /\ \E s \in Slot0 :
                 /\ alloc_slot(s)
                 /\ SaveCaller(s, p)
                 /\ g_pipes' = [g_pipes EXCEPT ![i].reader_reply_cap = s]
            /\ UNCHANGED occupied
      /\ UNCHANGED <<pcbs, readyVars, halted>>

(* Mutant of AtEof: reader_reply_cap keeps the slot. *)
AtEof_KeepReader(I) ==
  [i \in PipeId |-> IF i \in I THEN [g_pipes[i] EXCEPT !.eof = TRUE]
                    ELSE g_pipes[i]]

(* The pipes after end of file has been set on those in I. *)
AtEof(I) ==
  [i \in PipeId |-> IF i \in I
                    THEN [g_pipes[i] EXCEPT !.eof = TRUE, !.reader_reply_cap = NoSlot]
                    ELSE g_pipes[i]]

(* Mutant of PipeWrClose: a blocked reader is forgotten. *)
PipeWrClose_NoWake(p) ==
  /\ Calls(p) /\ PipeOf(p) # NoPipe
  /\ g_pipes' = [g_pipes EXCEPT ![PipeOf(p)].eof = TRUE]
  /\ UNCHANGED <<pcbs, readyVars, slotVars, thread, halted>>

(* SYS_PIPE_WR_CLOSE *)
PipeWrClose(p) ==
  LET i == PipeOf(p)
  IN  /\ Calls(p) /\ (pcbs[p].name = "shell" \/ IsThread(p))
      /\ i # NoPipe
      /\ g_pipes' = AtEof({i})
      /\ thread' = Resumed(Readers({i}))
      /\ replies' = RepliesLeft(Readers({i}), {})
      /\ free_slots' \in Freed(free_slots, Readers({i}))
      /\ UNCHANGED <<pcbs, readyVars, fresh_slots, occupied, halted>>

(* SYS_PIPE_CLOSE: a reader that is still blocked is not woken. *)
PipeClose(p) ==
  LET i == PipeOf(p)
      o == g_pipes[i].owner_pid
  IN  /\ Calls(p) /\ pcbs[p].name = "shell"
      /\ i # NoPipe
      /\ g_pipes' = [g_pipes EXCEPT ![i].active = FALSE]
      /\ pcbs' = IF o \in Active THEN [pcbs EXCEPT ![o].pipe_fd = NoPipe]
                 ELSE pcbs
      /\ UNCHANGED <<readyVars, slotVars, thread, halted>>

-----------------------------------------------------------------------------
(* Mutant of SysWait: the target may have ended. *)
SysWait_NoAliveCheck(p, t) ==
  /\ Calls(p) /\ pcbs[p].name = "shell" /\ t # p
  /\ \E s \in Slot0 :
       /\ alloc_slot(s)
       /\ SaveCaller(s, p)
       /\ pcbs' = [pcbs EXCEPT ![p].waiting_for = t, ![p].reply_cap = s]
  /\ UNCHANGED <<g_pipes, readyVars, occupied, halted>>

(* SYS_WAIT for a PID that is active; for another one it returns at once. *)
SysWait(p, t) ==
  /\ Calls(p) /\ pcbs[p].name = "shell"
  /\ t # p /\ t \in Active
  /\ \E s \in Slot0 :
       /\ alloc_slot(s)
       /\ SaveCaller(s, p)
       /\ pcbs' = [pcbs EXCEPT ![p].waiting_for = t, ![p].reply_cap = s]
  /\ UNCHANGED <<g_pipes, readyVars, occupied, halted>>

(* SYS_CLONE with pipe_id = i.  The thread becomes the writer of pipe i    *)
(* only if i is an index of g_pipes[]; the shell passes PIPE_FD_SLOT or    *)
(* -1, which are not.  Mapping the IPC buffer needs the caller's VSpace.   *)
SysClone(p, i) ==
  /\ Calls(p) /\ pcbs[p].name = "shell"
  /\ \/ /\ pcbs[p].vspace \in occupied
        /\ \E t \in Pid, N \in Grants(ThreadCaps, free_slots) :
             /\ IsFirst(t, Pid \ Active)
             /\ \E tcb \in N : pcbs' = [pcbs EXCEPT ![t] = ThreadPcb(p, N, tcb)]
             /\ thread' = [thread EXCEPT ![t] = "running"]
             /\ g_pipes' = IF i \in PipeId
                           THEN [g_pipes EXCEPT ![i].writer_pid = t] ELSE g_pipes
             /\ free_slots' = free_slots \ N
             /\ fresh_slots' = fresh_slots \ N
             /\ occupied' = occupied \cup N
        /\ UNCHANGED <<readyVars, replies, halted>>
     \/ /\ Active # Pid
        /\ pcbs[p].vspace \notin occupied \/ Grants(ThreadCaps, free_slots) = {}
        /\ Panic

WrittenBy(p) == {i \in PipeId : g_pipes[i].active /\ g_pipes[i].writer_pid = p}

(* SYS_THREAD_EXIT: end of file on the pipes the thread writes, its parent *)
(* is woken if it waits for the thread, and all its slots are returned.    *)
ThreadExit(p) ==
  LET W == Waiters(p) \cap {pcbs[p].parent}
      R == Readers(WrittenBy(p)) \cup ReplyCaps(W)
  IN  /\ Calls(p) /\ IsThread(p)
      /\ g_pipes' = AtEof(WrittenBy(p))
      /\ pcbs' = Ended(Answered(W), p)
      /\ thread' = [Resumed(R) EXCEPT ![p] = "none"]
      /\ replies' = RepliesLeft(R, {p})
      /\ free_slots' \in Freed(free_slots, R \cup pcbs[p].caps)
      /\ occupied' = Emptied(pcbs[p].caps)
      /\ UNCHANGED <<readyVars, fresh_slots, halted>>

(* SYS_EXIT: end of file on the pipes the process writes, all its waiters  *)
(* are woken, and the slots of the TCB, the endpoint and the VSpace are    *)
(* emptied.  None of its own slots is returned.  The shell takes the exit  *)
(* command only when no thread of its own is left.                         *)
SysExit(p) ==
  LET W == Waiters(p)
      R == Readers(WrittenBy(p)) \cup ReplyCaps(W)
  IN  /\ Calls(p) /\ pcbs[p].name \in {"shell", "app"}
      /\ \A q \in Orphans(p) : thread[q] = "none"
      /\ g_pipes' = AtEof(WrittenBy(p))
      /\ pcbs' = Ended(Answered(W), p)
      /\ thread' = [Resumed(R) EXCEPT ![p] = "none"]
      /\ replies' = RepliesLeft(R, {p})
      /\ free_slots' \in Freed(free_slots, R)
      /\ occupied' = Emptied({pcbs[p].tcb, pcbs[p].vspace})
      /\ UNCHANGED <<readyVars, fresh_slots, halted>>

-----------------------------------------------------------------------------
AllDriversReady(ready) == \A d \in Driver : ready[d]

(* SYS_DRIVER_READY *)
DriverReady(p) ==
  LET d == pcbs[p].name
      R == {driver_ready_wait_reply} \ {NoSlot}
  IN  /\ Calls(p) /\ d \in Driver
      /\ driver_ready' = [driver_ready EXCEPT ![d] = TRUE]
      /\ IF AllDriversReady(driver_ready')
         THEN /\ driver_ready_wait_reply' = NoSlot
              /\ thread' = Resumed(R)
              /\ replies' = RepliesLeft(R, {})
              /\ free_slots' \in Freed(free_slots, R)
         ELSE UNCHANGED <<driver_ready_wait_reply, thread, replies, free_slots>>
      /\ UNCHANGED <<pcbs, g_pipes, fresh_slots, occupied, halted>>

(* SYS_WAIT_ALL_DRIVERS_READY while some driver has not reported. *)
WaitAllReady(p) ==
  /\ Calls(p) /\ pcbs[p].name = "shell"
  /\ ~AllDriversReady(driver_ready)
  /\ \E s \in Slot0 :
       /\ alloc_slot(s)
       /\ SaveCaller(s, p)
       /\ driver_ready_wait_reply' = s
  /\ UNCHANGED <<pcbs, g_pipes, driver_ready, occupied, halted>>

(***************************************************************************)
(* SYS_SHM_GET.  The first k pages get a slot f[j] for their copy of the   *)
(* frame cap, and map_frame_robust may add n page tables, which are        *)
(* tracked.  When page k + 1 gets no slot, or page k cannot be mapped, all *)
(* the slots in shm_copies are emptied and returned - including those that *)
(* an earlier call left there - and shm_copies keeps them.                 *)
(***************************************************************************)
ShmFill(p, k, f, oom) ==
  [j \in ShmPage |-> IF j <= k THEN f[j]
                     ELSE IF oom /\ j = k + 1 THEN NoSlot
                          ELSE pcbs[p].shm_copies[j]]

ShmGets(p, k, n) ==
  \E N \in Grants(k + n, free_slots) : \E f \in [1 .. k -> N] :
    LET copies(oom) == ShmFill(p, k, f, oom)
        tables == N \ {f[j] : j \in 1 .. k}
        Taken == /\ free_slots' = free_slots \ N
                 /\ occupied' = occupied \cup N
                 /\ UNCHANGED replies
        RolledBack(gone) == /\ free_slots' \in Freed(free_slots \ N, gone)
                            /\ occupied' = Emptied(gone) \cup (N \ gone)
                            /\ replies' = RepliesLeft(gone, {})
        Update(ok, oom) == pcbs' = [pcbs EXCEPT ![p].caps = @ \cup tables,
                                                ![p].has_shm = ok,
                                                ![p].shm_copies = copies(oom)]
        Slots(oom) == {copies(oom)[j] : j \in ShmPage} \ {NoSlot}
    IN  /\ \A i, j \in 1 .. k : i # j => f[i] # f[j]
        /\ \/ k = ShmPages /\ Update(TRUE, FALSE) /\ Taken
           \/ /\ k < ShmPages /\ Grants(k + n + 1, free_slots) = {}
              /\ Update(FALSE, TRUE) /\ RolledBack(Slots(TRUE))
           \/ /\ k > 0 /\ MapMayFail
              /\ Update(FALSE, FALSE) /\ RolledBack(Slots(FALSE))
        /\ fresh_slots' = fresh_slots \ N

ShmGet(p) ==
  /\ Calls(p) /\ pcbs[p].name \in ShmCallers
  /\ ShmOnce => ~pcbs[p].has_shm /\ pcbs[p].shm_copies = NoCopies
  /\ \/ /\ \E k \in 0 .. ShmPages : ShmGets(p, k, 0)
        /\ UNCHANGED <<g_pipes, readyVars, thread, halted>>
     \/ /\ Cardinality(pcbs[p].caps) + TableCaps <= MaxCaps
        /\ \E k \in ShmPage : ShmGets(p, k, TableCaps)
        /\ UNCHANGED <<g_pipes, readyVars, thread, halted>>
     \/ /\ Grants(1, free_slots) # {}
        /\ \/ Grants(1 + TableCaps, free_slots) = {}
           \/ Cardinality(pcbs[p].caps) + TableCaps > MaxCaps
        /\ Panic

Chunk == UNION {[1 .. n -> Byte] : n \in 1 .. MaxChunk}

Next ==
  \E p \in Pid :
    \/ PageFault(p)
    \/ Fault(p)
    \/ SysPipe(p)
    \/ \E data \in Chunk : PipeWrite(p, data)
    \/ PipeRead(p)
    \/ PipeWrClose(p)
    \/ PipeClose(p)
    \/ \E t \in Pid : SysWait(p, t)
    \/ \E i \in PipeId \cup {NoPipe} : SysClone(p, i)
    \/ ThreadExit(p)
    \/ SysExec(p)
    \/ \E t \in Pid : SysKill(p, t)
    \/ SysExit(p)
    \/ DriverReady(p)
    \/ WaitAllReady(p)
    \/ ShmGet(p)
    \/ \E name \in Driver \cup {"shell"} : SysRecover(p, name)

Spec == Init /\ [][Next]_vars

-----------------------------------------------------------------------------
(* Every table entry is in range; in particular the allocator's stack      *)
(* stays within free_slots[], the bump pointer within the root CNode, a    *)
(* pipe within its buffer and a process within its CapTracker.             *)
TypeOK ==
  /\ pcbs \in [Pid -> PCB]
  /\ \A p \in Pid : Cardinality(pcbs[p].caps) <= MaxCaps
  /\ g_pipes \in [PipeId -> Pipe]
  /\ \A i \in PipeId : Len(g_pipes[i].buffer) <= PipeSize
  /\ driver_ready \in [Driver -> BOOLEAN]
  /\ driver_ready_wait_reply \in Slot0
  /\ fresh_slots \in SUBSET Slot
  /\ free_slots \in SUBSET Slot
  /\ Cardinality(free_slots) <= FREE_POOL_SIZE
  /\ occupied \in SUBSET Slot
  /\ replies \in [Slot0 -> Pid0]
  /\ thread \in [Pid -> {"none", "running", "blocked"}]
  /\ halted \in BOOLEAN

(* The table entries that refer to slots, and the slots of each. *)
Owner == ({"caps", "reply", "shm"} \X Pid) \cup ({"reader"} \X PipeId)
         \cup {<<"ready", 0>>}

Owns(o) ==
  CASE o[1] = "caps"   -> pcbs[o[2]].caps
    [] o[1] = "reply"  -> {pcbs[o[2]].reply_cap} \ {NoSlot}
    [] o[1] = "shm"    -> IF pcbs[o[2]].has_shm THEN Copies(o[2]) \ {NoSlot}
                          ELSE {}
    [] o[1] = "reader" -> {g_pipes[o[2]].reader_reply_cap} \ {NoSlot}
    [] o[1] = "ready"  -> {driver_ready_wait_reply} \ {NoSlot}

Available == free_slots \cup fresh_slots

(* No slot has two owners: neither two tables, two processes, two pipes or *)
(* two uses by one process, nor a table and the allocator.  A slot that is *)
(* returned twice, or returned and still referred to, breaks this: a later *)
(* delete then destroys the capability of somebody else.                   *)
NoAliasing ==
  /\ free_slots \cap fresh_slots = {}
  /\ \A o \in Owner : Owns(o) \cap Available = {}
  /\ \A o, q \in Owner : o # q => Owns(o) \cap Owns(q) = {}
  /\ \A p \in Pid : pcbs[p].has_shm =>
       \A j, k \in ShmPage :
          j # k => pcbs[p].shm_copies[j] # pcbs[p].shm_copies[k]

(* A slot the allocator can hand out is empty in the kernel: retype, mint  *)
(* and SaveCaller into it cannot fail with "destination not empty".        *)
FreeSlotsEmpty ==
  \A s \in Available :
     s \notin occupied /\ replies[s] = 0

(* A process that waits in SYS_WAIT can be woken: the slot in its PCB      *)
(* holds the reply cap to it (unless the CNode was full), and the process  *)
(* it waits for is still there to end.                                     *)
NoMissedWake ==
  \A p \in Active : pcbs[p].waiting_for # 0 =>
     /\ thread[p] = "blocked"
     /\ pcbs[p].waiting_for \in Active
     /\ pcbs[p].reply_cap # NoSlot => replies[pcbs[p].reply_cap] = p

(* A reader is blocked on a pipe only while there is nothing to read: the  *)
(* wake-up in SYS_PUTS and the ends of file leave no reader asleep next to *)
(* data or behind the end of file.                                         *)
PipeReaderSound ==
  \A i \in PipeId : g_pipes[i].reader_reply_cap # NoSlot =>
     g_pipes[i].buffer = <<>> /\ ~g_pipes[i].eof

(* Recovery never leaves two instances of a driver behind, nor two shells. *)
OneInstance ==
  \A p, q \in Active : p # q /\ pcbs[p].name \in Archive =>
     pcbs[p].name # pcbs[q].name

(* SYS_WAIT returns only when the process waited for has ended: recovery   *)
(* does not start the new instance under the PID of the old one.           *)
NoPrematureWake ==
  [][\A p \in Active :
       /\ pcbs[p].waiting_for # 0
       /\ pcbs'[p].active /\ thread'[p] = "running"
       => ~pcbs'[pcbs[p].waiting_for].active]_vars

(* What the README promises of SYS_EXIT and of recovery: no slot is lost,  *)
(* each is available or referred to by a table.  It does not hold:         *)
(* SYS_EXIT returns none of the slots of the process that ends, and        *)
(* recovery does not return the reply slots of the waiters.                *)
NoSlotLeak == halted \/ Slot = Available \cup UNION {Owns(o) : o \in Owner}
=============================================================================
