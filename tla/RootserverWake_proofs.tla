------------------------ MODULE RootserverWake_proofs -------------------------
(***************************************************************************)
(* Capabilities and wake-ups of the rootserver, for any number of PIDs,    *)
(* pipes and slots (and ShmOnce, as in Rootserver_proofs): a slot that can *)
(* be handed out is empty in the kernel, a process in SYS_WAIT can be      *)
(* woken and is woken only by the end it waits for, and no driver and no   *)
(* shell runs twice.                                                       *)
(*                                                                         *)
(* The argument.  Each of the properties needs the others.  Only the shell *)
(* calls SYS_WAIT, and there is one shell (OneInstance), so there is at    *)
(* most one waiter; a thread that ends has that shell as its parent        *)
(* (ParentsSound), so SYS_THREAD_EXIT, which only looks at the parent,     *)
(* misses nobody.  A process has at most one reply cap in the CNode, and   *)
(* none while it runs (RepliesSound): a send to another slot does not wake *)
(* the waiter.  That the saved reply cap really arrives in its slot needs  *)
(* FreeSlotsEmpty, which is inductive once it is known which kind of       *)
(* capability the slots of the tables hold (SlotsSound).                   *)
(***************************************************************************)
EXTENDS Rootserver_proofs

-----------------------------------------------------------------------------
(* The slots that the tables use for the caps of objects, and those that   *)
(* they use for reply caps.                                                *)
ObjectSlots ==
  {s \in Slot : \E p \in Pid : s \in pcbs[p].caps \/ s \in ShmOf(pcbs[p])}

ReplySlots ==
  {s \in Slot : \/ \E p \in Pid : s = pcbs[p].reply_cap
                \/ \E i \in PipeId : s = g_pipes[i].reader_reply_cap
                \/ s = driver_ready_wait_reply}

(* Reply caps are neither in available slots nor in those of objects, caps *)
(* of objects neither in available slots nor in those for reply caps.      *)
SlotsSound ==
  \A s \in Slot :
    /\ replies[s] # 0 => s \notin Available /\ s \notin ObjectSlots
    /\ s \in occupied => s \notin Available /\ s \notin ReplySlots

(* A reply cap leads to a process that exists and does not run, and no     *)
(* process has two.                                                        *)
RepliesSound ==
  /\ \A s \in Slot0 : replies[s] # 0 =>
       replies[s] \in Active /\ thread[replies[s]] # "running"
  /\ \A s, t \in Slot0 : replies[s] # 0 /\ replies[s] = replies[t] => s = t

(* Who waits is a shell, blocked, with its reply cap in the slot its PCB   *)
(* names and nowhere else, and whom it waits for is still there.           *)
WaitersSound ==
  \A p \in Active : pcbs[p].waiting_for # 0 =>
    /\ pcbs[p].name = "shell"
    /\ thread[p] = "blocked"
    /\ pcbs[p].waiting_for \in Active
    /\ pcbs[p].reply_cap # NoSlot => replies[pcbs[p].reply_cap] = p
    /\ \A s \in Slot0 : replies[s] = p => s = pcbs[p].reply_cap

(* A thread that is not suspended belongs to a shell that is there. *)
ParentsSound ==
  \A q \in Active : IsThread(q) /\ thread[q] # "none" =>
    pcbs[q].parent \in Active /\ pcbs[pcbs[q].parent].name = "shell"

WakeInv == RepliesSound /\ WaitersSound /\ ParentsSound /\ OneInstance

KInv == Inv /\ SlotsSound /\ WakeInv

-----------------------------------------------------------------------------
(* The kinds of slots. *)

ObjectsOf(T) ==
  {s \in Slot : \E p \in Pid : s \in T[p].caps \/ s \in ShmOf(T[p])}

RepliesOf(T, P, r) ==
  {s \in Slot : \/ \E p \in Pid : s = T[p].reply_cap
                \/ \E i \in PipeId : s = P[i].reader_reply_cap
                \/ s = r}

(* No slot is of two kinds: that is what NoAliasing says of them. *)
LEMMA Kinds ==
  ASSUME NEW T, NEW P, NEW r, NEW free, NEW fresh, Sound(T, P, r, free, fresh),
         NEW s \in Slot
  PROVE  /\ ~(s \in ObjectsOf(T) /\ s \in RepliesOf(T, P, r))
         /\ ~(s \in ObjectsOf(T) /\ s \in free \cup fresh)
         /\ ~(s \in RepliesOf(T, P, r) /\ s \in free \cup fresh)
<1>0. ASSUME NEW p \in Pid
      PROVE  /\ <<"caps", p>> \in Owner /\ <<"shm", p>> \in Owner
             /\ <<"reply", p>> \in Owner
             /\ OwnOf(T, P, r)[<<"caps", p>>] = T[p].caps
             /\ OwnOf(T, P, r)[<<"shm", p>>] = ShmOf(T[p])
             /\ OwnOf(T, P, r)[<<"reply", p>>] = {T[p].reply_cap} \ {NoSlot}
  BY OwnedSlots
<1> DEFINE own == OwnOf(T, P, r)
           Objects == {"caps", "shm"} \X Pid
           Answers == Owner \ Objects
<1>1. /\ \A o \in Owner : own[o] \cap (free \cup fresh) = {}
      /\ \A o, q \in Owner : o # q => own[o] \cap own[q] = {}
  BY DEF Sound, Exclusive
<1>2. s # NoSlot
  BY SlotAssumption
<1>3. ASSUME s \in ObjectsOf(T)
      PROVE  \E o \in Objects : o \in Owner /\ s \in own[o]
  <2>1. PICK p \in Pid : s \in T[p].caps \/ s \in ShmOf(T[p])
    BY <1>3 DEF ObjectsOf
  <2>2. /\ <<"caps", p>> \in Owner /\ own[<<"caps", p>>] = T[p].caps
        /\ <<"shm", p>> \in Owner /\ own[<<"shm", p>>] = ShmOf(T[p])
    BY <1>0
  <2>3. <<"caps", p>> \in Objects /\ <<"shm", p>> \in Objects
    OBVIOUS
  <2> HIDE DEF own, Objects
  <2> QED
    BY <2>1, <2>2, <2>3
<1>4. ASSUME s \in RepliesOf(T, P, r)
      PROVE  \E o \in Answers : o \in Owner /\ s \in own[o]
  <2>1. CASE \E p \in Pid : s = T[p].reply_cap
    <3>1. PICK p \in Pid : s = T[p].reply_cap
      BY <2>1
    <3>2. <<"reply", p>> \in Owner /\ own[<<"reply", p>>] = {T[p].reply_cap} \ {NoSlot}
      BY <1>0
    <3>3. <<"reply", p>> \in Answers
      BY <3>2
    <3> QED
      BY <1>2, <3>1, <3>2, <3>3
  <2>2. CASE \E i \in PipeId : s = P[i].reader_reply_cap
    <3>1. PICK i \in PipeId : s = P[i].reader_reply_cap
      BY <2>2
    <3>2. /\ <<"reader", i>> \in Owner
          /\ own[<<"reader", i>>] = {P[i].reader_reply_cap} \ {NoSlot}
      BY OwnedSlots
    <3>3. <<"reader", i>> \in Answers
      BY <3>2
    <3> QED
      BY <1>2, <3>1, <3>2, <3>3
  <2>3. CASE s = r
    <3>1. <<"ready", 0>> \in Owner /\ own[<<"ready", 0>>] = {r} \ {NoSlot}
      BY OwnedSlots
    <3>2. <<"ready", 0>> \in Answers
      BY <3>1
    <3> QED
      BY <1>2, <2>3, <3>1, <3>2
  <2> QED
    BY <1>4, <2>1, <2>2, <2>3 DEF RepliesOf
<1>5. \A o \in Objects, q \in Answers : o # q
  OBVIOUS
<1> HIDE DEF own, Objects, Answers
<1> QED
  BY <1>1, <1>3, <1>4, <1>5

(* A slot is available, or for an object, or for a reply cap: never two of *)
(* them.                                                                   *)
LEMMA SlotKinds ==
  ASSUME Inv, NEW s \in Slot
  PROVE  /\ ~(s \in ObjectSlots /\ s \in ReplySlots)
         /\ ~(s \in ObjectSlots /\ s \in Available)
         /\ ~(s \in ReplySlots /\ s \in Available)
<1>1. Sound(pcbs, g_pipes, driver_ready_wait_reply, free_slots, fresh_slots)
  BY SoundIsNoAliasing, InvParts
<1>2. /\ ObjectSlots = ObjectsOf(pcbs)
      /\ ReplySlots = RepliesOf(pcbs, g_pipes, driver_ready_wait_reply)
  BY DEF ObjectSlots, ReplySlots, ObjectsOf, RepliesOf
<1> QED
  BY <1>1, <1>2, Kinds DEF Available

(* The same after a step. *)
LEMMA SlotKindsNext ==
  ASSUME Inv', NEW s \in Slot
  PROVE  /\ ~(s \in ObjectSlots' /\ s \in ReplySlots')
         /\ ~(s \in ObjectSlots' /\ s \in Available')
         /\ ~(s \in ReplySlots' /\ s \in Available')
<1>1. Sound(pcbs', g_pipes', driver_ready_wait_reply', free_slots', fresh_slots')
  BY SoundIsNoAliasing, InvPartsNext
<1>2. /\ ObjectSlots' = ObjectsOf(pcbs')
      /\ ReplySlots' = RepliesOf(pcbs', g_pipes', driver_ready_wait_reply')
  BY DEF ObjectSlots, ReplySlots, ObjectsOf, RepliesOf
<1> QED
  BY <1>1, <1>2, Kinds DEF Available

(* What a handler may do with slots and keep SlotsSound: tables get slots  *)
(* from the allocator, slots are emptied before they are returned, and     *)
(* what is put into the CNode is recorded in a table.                      *)
SlotsStep ==
  /\ ObjectSlots' \subseteq ObjectSlots \cup Available
  /\ ReplySlots' \subseteq ReplySlots \cup Available
  /\ \A s \in Available' :
       \/ s \in Available
       \/ s \in ObjectSlots /\ s \notin occupied'
       \/ s \in ReplySlots /\ replies'[s] = 0
  /\ \A s \in Slot : replies'[s] # 0 => replies[s] # 0 \/ s \in ReplySlots'
  /\ occupied' \subseteq occupied \cup ObjectSlots'

(* Steps of this kind keep SlotsSound. *)
LEMMA SlotsStepSound ==
  ASSUME Inv, Inv', SlotsSound, SlotsStep
  PROVE  SlotsSound'
<1> SUFFICES ASSUME NEW s \in Slot
             PROVE  /\ replies'[s] # 0 => s \notin Available' /\ s \notin ObjectSlots'
                    /\ s \in occupied' => s \notin Available' /\ s \notin ReplySlots'
  BY DEF SlotsSound
<1>1. CASE replies'[s] # 0
  BY <1>1, SlotKinds, SlotKindsNext DEF SlotsStep, SlotsSound
<1>2. CASE s \in occupied'
  BY <1>2, SlotKinds, SlotKindsNext DEF SlotsStep, SlotsSound
<1> QED
  BY <1>1, <1>2

(* The tables get slots of N only. *)
LEMMA GainsSlots ==
  ASSUME NEW x, NEW N,
         Gains(pcbs, g_pipes, driver_ready_wait_reply,
               pcbs', g_pipes', driver_ready_wait_reply', x, N)
  PROVE  /\ ObjectSlots' \subseteq ObjectSlots \cup N
         /\ ReplySlots' \subseteq ReplySlots \cup N
<1>0. NoSlot \notin Slot
  BY SlotAssumption
<1>1. ASSUME NEW p \in Pid, NEW s \in Slot
      PROVE  /\ s \in pcbs'[p].caps => s \in pcbs[p].caps \/ s \in N
             /\ s \in ShmOf(pcbs'[p]) => s \in ShmOf(pcbs[p]) \/ s \in N
             /\ s = pcbs'[p].reply_cap => s = pcbs[p].reply_cap \/ s \in N
  BY <1>0 DEF Gains
<1>2. ASSUME NEW i \in PipeId, NEW s \in Slot, s = g_pipes'[i].reader_reply_cap
      PROVE  s = g_pipes[i].reader_reply_cap \/ s \in N
  BY <1>0, <1>2 DEF Gains
<1>3. ASSUME NEW s \in Slot, s = driver_ready_wait_reply'
      PROVE  s = driver_ready_wait_reply \/ s \in N
  BY <1>0, <1>3 DEF Gains
<1>4. ObjectSlots' \subseteq ObjectSlots \cup N
  BY <1>1 DEF ObjectSlots
<1>5. ReplySlots' \subseteq ReplySlots \cup N
  BY <1>1, <1>2, <1>3 DEF ReplySlots
<1> QED
  BY <1>4, <1>5

(* The tables get no slots. *)
LEMMA ShrinkSlots ==
  ASSUME \A p \in Pid : Within(pcbs'[p], pcbs[p]),
         PipesWithin(g_pipes', g_pipes),
         driver_ready_wait_reply' \in {driver_ready_wait_reply, NoSlot}
  PROVE  /\ ObjectSlots' \subseteq ObjectSlots
         /\ ReplySlots' \subseteq ReplySlots
<1>1. \A p \in Pid : /\ pcbs'[p].caps \subseteq pcbs[p].caps
                     /\ pcbs'[p].reply_cap \in {pcbs[p].reply_cap, NoSlot}
                     /\ ShmOf(pcbs'[p]) \subseteq ShmOf(pcbs[p])
  <2> TAKE p \in Pid
  <2>1. Within(pcbs'[p], pcbs[p])
    OBVIOUS
  <2> QED
    BY <2>1 DEF Within, ShmOf
<1>2. Gains(pcbs, g_pipes, driver_ready_wait_reply,
            pcbs', g_pipes', driver_ready_wait_reply', <<"ready", 0>>, {})
  BY <1>1 DEF Gains, PipesWithin
<1>3. /\ ObjectSlots' \subseteq ObjectSlots \cup {}
      /\ ReplySlots' \subseteq ReplySlots \cup {}
  BY <1>2, GainsSlots
<1> QED
  BY <1>3

-----------------------------------------------------------------------------
(* Who waits and who is woken. *)

(* What NoPrematureWake says of a step. *)
WakeStep ==
  \A p \in Active :
    /\ pcbs[p].waiting_for # 0
    /\ pcbs'[p].active /\ thread'[p] = "running"
    => ~pcbs'[pcbs[p].waiting_for].active

(* The fields of a PCB that decide who waits and who is woken. *)
SameControl(d, c) ==
  /\ d.active = c.active /\ d.name = c.name /\ d.parent = c.parent
  /\ d.waiting_for = c.waiting_for /\ d.reply_cap = c.reply_cap

(* The types these arguments need. *)
LEMMA ControlTypes ==
  ASSUME Inv
  PROVE  /\ thread \in [Pid -> {"none", "running", "blocked"}]
         /\ replies \in [Slot0 -> Pid0]
         /\ \A p \in Pid : /\ pcbs[p].active \in BOOLEAN
                           /\ pcbs[p].waiting_for \in Pid0
                           /\ pcbs[p].reply_cap \in Slot0
         /\ 0 \notin Pid
<1>1. MaxPid \in Nat
  BY BootAssumption, Zenon
<1>2. 0 \notin Pid
  BY <1>1 DEF Pid
<1>3. pcbs \in [Pid -> PCB]
  BY DEF Inv, TypeOK
<1>4. \A p \in Pid : /\ pcbs[p].active \in BOOLEAN
                     /\ pcbs[p].waiting_for \in Pid0
                     /\ pcbs[p].reply_cap \in Slot0
  BY <1>3 DEF PCB
<1> QED
  BY <1>2, <1>4 DEF Inv, TypeOK

(* There is at most one waiter, the shell. *)
LEMMA OneWaiter ==
  ASSUME WakeInv, NEW x \in Active, NEW y \in Active,
         pcbs[x].waiting_for # 0, pcbs[y].name = "shell"
  PROVE  x = y
<1>1. pcbs[x].name = "shell" /\ "shell" \in Archive
  BY DEF WakeInv, WaitersSound, Archive
<1> QED
  BY <1>1 DEF WakeInv, OneInstance

(* The reply slots of PCBs are not those of readers, nor the one of the    *)
(* shell that waits for the drivers.                                       *)
OtherReplies(R) == R \subseteq Slot /\ \A p \in Pid : pcbs[p].reply_cap \notin R

(* The answers a handler sends to R leave a waiter asleep whose reply slot *)
(* is not among them.                                                      *)
LEMMA Asleep ==
  ASSUME Inv, WakeInv, NEW x \in Active, pcbs[x].waiting_for # 0,
         NEW R, pcbs[x].reply_cap \notin R, R \subseteq Slot0
  PROVE  x \notin Woken(R) /\ Resumed(R)[x] = "blocked"
<1>1. x \in Pid /\ thread[x] = "blocked"
  BY DEF Active, WakeInv, WaitersSound
<1>2. x \notin Woken(R)
  BY DEF Woken, WakeInv, WaitersSound
<1> QED
  BY <1>1, <1>2 DEF Resumed

(* Answers, and the suspension of the threads V, keep reply caps sound. *)
LEMMA AnswersReplies ==
  ASSUME Inv, RepliesSound, NEW R \in SUBSET Slot0, NEW V,
         replies' = RepliesLeft(R, V),
         \A q \in Active : thread'[q] = "running" => Resumed(R)[q] = "running",
         \A q \in Active : q \in V \/ pcbs'[q].active
  PROVE  RepliesSound'
<1>1. /\ thread \in [Pid -> {"none", "running", "blocked"}]
      /\ replies \in [Slot0 -> Pid0]
  BY ControlTypes
<1>2. ASSUME NEW s \in Slot0, replies'[s] # 0
      PROVE  replies'[s] = replies[s] /\ s \notin R /\ replies[s] \notin V
  BY <1>2 DEF RepliesLeft
<1>3. ASSUME NEW s \in Slot0, replies'[s] # 0
      PROVE  replies'[s] \in Active' /\ thread'[replies'[s]] # "running"
  <2>1. /\ replies[s] # 0 /\ replies[s] \in Active /\ replies[s] \in Pid
        /\ thread[replies[s]] # "running"
    BY <1>2, <1>3 DEF RepliesSound, Active
  <2>2. replies[s] \in Active'
    BY <1>2, <1>3, <2>1 DEF Active
  <2>3. ASSUME Resumed(R)[replies[s]] = "running"
        PROVE  FALSE
    <3>1. replies[s] \in Woken(R)
      BY <2>1, <2>3 DEF Resumed
    <3>2. PICK t \in R : replies[t] = replies[s]
      BY <3>1 DEF Woken
    <3>3. t \in Slot0 /\ t \in R
      BY <3>2
    <3> QED
      BY <1>2, <1>3, <2>1, <3>2, <3>3 DEF RepliesSound
  <2> QED
    BY <1>2, <1>3, <2>1, <2>2, <2>3
<1> QED
  BY <1>2, <1>3 DEF RepliesSound

(* A handler that answers the reader of a pipe, or the shell that waits    *)
(* for the drivers, or nobody.                                             *)
LEMMA AnswerStep ==
  ASSUME Inv, WakeInv, NEW R, OtherReplies(R),
         \A q \in Pid : SameControl(pcbs'[q], pcbs[q]),
         thread' = Resumed(R), replies' = RepliesLeft(R, {})
  PROVE  WakeInv' /\ WakeStep
<1>1. R \in SUBSET Slot0
  BY DEF OtherReplies, Slot0
<1>2. Active' = Active
  BY DEF Active, SameControl
<1>3. \A q \in Active : pcbs'[q].active
  BY <1>2 DEF Active
<1>4. RepliesSound'
  BY <1>1, <1>3, AnswersReplies DEF WakeInv
<1>5. ASSUME NEW x \in Active, pcbs[x].waiting_for # 0
      PROVE  /\ thread'[x] = "blocked"
             /\ pcbs[x].reply_cap # NoSlot => replies'[pcbs[x].reply_cap] = x
             /\ \A s \in Slot0 : replies'[s] = x => s = pcbs[x].reply_cap
  <2>1. x \in Pid /\ pcbs[x].reply_cap \in Slot0 /\ pcbs[x].reply_cap \notin R
    BY ControlTypes DEF Active, OtherReplies
  <2>2. thread'[x] = "blocked"
    BY <1>1, <1>5, <2>1, Asleep
  <2>3. x # 0
    BY <2>1, ControlTypes
  <2> QED
    BY <1>5, <2>1, <2>2, <2>3 DEF WakeInv, WaitersSound, RepliesLeft
<1>6. WaitersSound'
  BY <1>2, <1>5 DEF WakeInv, WaitersSound, SameControl, Active
<1>7. ASSUME NEW q \in Active, thread'[q] # "none" PROVE thread[q] # "none"
  BY <1>7 DEF Resumed, Active
<1>8. ParentsSound'
  BY <1>2, <1>7 DEF WakeInv, ParentsSound, SameControl, IsThread, Active
<1>9. OneInstance'
  BY <1>2 DEF WakeInv, OneInstance, SameControl, Active
<1>10. WakeStep
  BY <1>5 DEF WakeStep
<1> QED
  BY <1>4, <1>6, <1>8, <1>9, <1>10 DEF WakeInv

(* The same when nobody is answered. *)
LEMMA QuietStep ==
  ASSUME Inv, WakeInv, \A q \in Pid : SameControl(pcbs'[q], pcbs[q]),
         UNCHANGED <<thread, replies>>
  PROVE  WakeInv' /\ WakeStep
<1>1. thread = Resumed({}) /\ replies = RepliesLeft({}, {})
  BY ControlTypes DEF Resumed, RepliesLeft, Woken
<1>2. OtherReplies({})
  BY DEF OtherReplies
<1> QED
  BY <1>1, <1>2, AnswerStep

(* A table that does not change. *)
LEMMA SameTable ==
  ASSUME UNCHANGED pcbs
  PROVE  \A q \in Pid : SameControl(pcbs'[q], pcbs[q])
BY DEF SameControl

(* A handler that keeps its caller p waiting, for the end of a process t   *)
(* or for something else.                                                  *)
LEMMA SaveStep ==
  ASSUME Inv, WakeInv, NEW p \in Active, thread[p] = "running",
         NEW s \in Slot0, SaveCaller(s, p),
         \A q \in Pid \ {p} : SameControl(pcbs'[q], pcbs[q]),
         \/ SameControl(pcbs'[p], pcbs[p])
         \/ /\ pcbs'[p].active /\ pcbs'[p].name = pcbs[p].name
            /\ pcbs[p].name = "shell" /\ pcbs'[p].reply_cap = s
            /\ pcbs'[p].waiting_for \in Active
            /\ s # NoSlot => replies[s] = 0 /\ s \notin occupied
  PROVE  WakeInv' /\ WakeStep
<1>1. /\ thread \in [Pid -> {"none", "running", "blocked"}]
      /\ replies \in [Slot0 -> Pid0] /\ p \in Pid /\ p # 0
  BY ControlTypes DEF Active
<1>2. /\ thread'[p] = "blocked" /\ \A q \in Pid \ {p} : thread'[q] = thread[q]
      /\ replies'[s] \in {replies[s], p}
      /\ replies[s] # 0 => replies'[s] = replies[s]
      /\ replies[s] = 0 /\ s \notin occupied => replies'[s] = p
      /\ \A t \in Slot0 \ {s} : replies'[t] = replies[t]
  BY <1>1 DEF SaveCaller
<1>3. \A t \in Slot0 : replies[t] # p
  BY <1>1 DEF WakeInv, RepliesSound
<1>4. Active' = Active /\ \A q \in Pid : pcbs'[q].name = pcbs[q].name
  BY DEF SameControl, Active
<1>5. RepliesSound'
  BY <1>1, <1>2, <1>3, <1>4 DEF WakeInv, RepliesSound, Active
<1>6. ASSUME NEW x \in Active, pcbs[x].waiting_for # 0
      PROVE  /\ x # p /\ thread'[x] = "blocked"
             /\ pcbs[x].reply_cap # NoSlot => replies'[pcbs[x].reply_cap] = x
             /\ \A t \in Slot0 : replies'[t] = x => t = pcbs[x].reply_cap
  <2>1. x \in Pid /\ pcbs[x].reply_cap \in Slot0 /\ x # 0
    BY ControlTypes DEF Active
  <2> QED
    BY <1>2, <1>6, <2>1 DEF WakeInv, WaitersSound
<1>7. WaitersSound'
  <2> SUFFICES ASSUME NEW x \in Active', pcbs'[x].waiting_for # 0
               PROVE  /\ pcbs'[x].name = "shell"
                      /\ thread'[x] = "blocked"
                      /\ pcbs'[x].waiting_for \in Active'
                      /\ pcbs'[x].reply_cap # NoSlot => replies'[pcbs'[x].reply_cap] = x
                      /\ \A t \in Slot0 : replies'[t] = x => t = pcbs'[x].reply_cap
    BY DEF WaitersSound
  <2>1. CASE pcbs[x].waiting_for # 0
    <3>1. x # p /\ SameControl(pcbs'[x], pcbs[x])
      BY <1>4, <1>6, <2>1 DEF Active
    <3> QED
      BY <1>4, <1>6, <2>1, <3>1 DEF WakeInv, WaitersSound, SameControl
  <2>2. CASE pcbs[x].waiting_for = 0
    <3>1. x = p
      BY <2>2 DEF SameControl, Active
    <3> QED
      BY <1>2, <1>3, <1>4, <2>2, <3>1 DEF SameControl
  <2> QED
    BY <2>1, <2>2
<1>8. ParentsSound'
  <2>1. ASSUME NEW q \in Active, pcbs[q].name = "shell_thread"
        PROVE  pcbs'[q].parent = pcbs[q].parent
    BY <2>1 DEF SameControl, Active
  <2>2. \A q \in Active : thread'[q] # "none" => thread[q] # "none"
    BY <1>2 DEF Active
  <2>3. \A q \in Active : pcbs'[q].name = pcbs[q].name
    BY <1>4 DEF Active
  <2> QED
    BY <1>4, <2>1, <2>2, <2>3 DEF WakeInv, ParentsSound, IsThread
<1>9. OneInstance'
  BY <1>4 DEF WakeInv, OneInstance, Active
<1>10. WakeStep
  BY <1>6 DEF WakeStep
<1> QED
  BY <1>5, <1>7, <1>8, <1>9, <1>10 DEF WakeInv

(* The end of v: its waiters are answered, and so are the readers with the *)
(* reply slots E.  Recovery may start a process of the same name; Started  *)
(* is the set of its PID.  Threads that lose their CSpace are suspended.   *)
EndsFor(v, E, Started) ==
  /\ pcbs'[v].active = FALSE
  /\ \A q \in Pid \ (Started \cup {v}) :
       IF q \in Waiters(v)
       THEN /\ pcbs'[q].active /\ pcbs'[q].name = pcbs[q].name
            /\ pcbs'[q].parent = pcbs[q].parent /\ pcbs'[q].waiting_for = 0
       ELSE SameControl(pcbs'[q], pcbs[q])
  /\ Started \subseteq Pid \ Active
  /\ \A q \in Started : /\ pcbs'[q].name = pcbs[v].name /\ pcbs[v].name \in Archive
                        /\ pcbs'[q].waiting_for = 0
                        /\ \A r \in Started : r = q
  /\ replies' = RepliesLeft(E \cup ReplyCaps(Waiters(v)), {v})
  /\ \A q \in Active \ {v} :
       \/ thread'[q] = Resumed(E \cup ReplyCaps(Waiters(v)))[q]
       \/ thread'[q] = "none" /\ IsThread(q)
  /\ thread'[v] = "none"
  /\ \A q \in Active :
       IsThread(q) /\ pcbs[q].parent = v /\ ~IsThread(v) => thread'[q] = "none"

(* The end of a process keeps WakeInv, and wakes whom it must. *)
LEMMA EndStep ==
  ASSUME Inv, WakeInv, NEW v \in Active, NEW E, OtherReplies(E), NEW Started,
         EndsFor(v, E, Started)
  PROVE  WakeInv' /\ WakeStep
<1> DEFINE W == Waiters(v)
           R == E \cup ReplyCaps(W)
<1>1. R \in SUBSET Slot0 /\ v \in Pid /\ W \subseteq Active /\ Active \subseteq Pid
  BY ControlTypes DEF OtherReplies, Slot0, ReplyCaps, Waiters, Active
<1>2. /\ \A q \in Active \ {v} : pcbs'[q].active /\ pcbs'[q].name = pcbs[q].name
                                 /\ pcbs'[q].parent = pcbs[q].parent
      /\ \A q \in Active' : q \in Active \ {v} \/ q \in Started
  BY <1>1 DEF EndsFor, Active, Waiters, SameControl
<1>3. /\ replies' = RepliesLeft(R, {v}) /\ thread'[v] = "none"
      /\ \A q \in Active \ {v} : \/ thread'[q] = Resumed(R)[q]
                                 \/ thread'[q] = "none" /\ IsThread(q)
  BY Zenon DEF EndsFor
<1>4. RepliesSound'
  BY <1>1, <1>2, <1>3, AnswersReplies DEF WakeInv
<1>5. ASSUME NEW x \in Active, pcbs[x].waiting_for # 0, x \notin W, x # v
      PROVE  /\ thread'[x] = "blocked"
             /\ pcbs[x].reply_cap # NoSlot => replies'[pcbs[x].reply_cap] = x
             /\ \A s \in Slot0 : replies'[s] = x => s = pcbs[x].reply_cap
  <2>1. x \in Pid /\ pcbs[x].reply_cap \in Slot0 /\ x # 0
    BY ControlTypes DEF Active
  <2>2. W = {}
    <3>1. \A w \in W : w \in Active /\ pcbs[w].waiting_for # 0
      BY <1>1, ControlTypes DEF Waiters
    <3>2. pcbs[x].name = "shell"
      BY <1>5 DEF WakeInv, WaitersSound
    <3> QED
      BY <1>5, <3>1, <3>2, OneWaiter
  <2>3. R = E
    BY <2>2 DEF ReplyCaps
  <2>4. pcbs[x].reply_cap \notin R
    BY <2>1, <2>3 DEF OtherReplies
  <2>5. Resumed(R)[x] = "blocked" /\ ~IsThread(x)
    BY <1>1, <1>5, <2>4, Asleep DEF IsThread, WakeInv, WaitersSound
  <2>6. thread'[x] = "blocked"
    BY <1>3, <1>5, <2>5
  <2> HIDE DEF R
  <2> QED
    BY <1>3, <1>5, <2>1, <2>4, <2>6 DEF WakeInv, WaitersSound, RepliesLeft
<1>6. ASSUME NEW x \in Active', pcbs'[x].waiting_for # 0
      PROVE  /\ x \in Active \ W /\ x # v /\ x \notin Started
             /\ SameControl(pcbs'[x], pcbs[x])
  <2>1. x \in Active /\ x # v /\ x \notin Started
    BY <1>2, <1>6 DEF EndsFor
  <2> QED
    BY <1>1, <1>6, <2>1 DEF EndsFor
<1>7. WaitersSound'
  <2> SUFFICES ASSUME NEW x \in Active', pcbs'[x].waiting_for # 0
               PROVE  /\ pcbs'[x].name = "shell"
                      /\ thread'[x] = "blocked"
                      /\ pcbs'[x].waiting_for \in Active'
                      /\ pcbs'[x].reply_cap # NoSlot => replies'[pcbs'[x].reply_cap] = x
                      /\ \A t \in Slot0 : replies'[t] = x => t = pcbs'[x].reply_cap
    BY DEF WaitersSound
  <2>1. /\ x \in Active \ W /\ x # v /\ pcbs[x].waiting_for # 0
        /\ SameControl(pcbs'[x], pcbs[x])
    BY <1>6 DEF SameControl
  <2>2. pcbs[x].waiting_for \in Active /\ pcbs[x].waiting_for # v
        /\ pcbs[x].name = "shell"
    BY <2>1 DEF WakeInv, WaitersSound, Waiters
  <2>3. pcbs[x].waiting_for \in Active'
    BY <1>1, <1>2, <2>2 DEF Active
  <2> QED
    BY <1>5, <2>1, <2>2, <2>3 DEF SameControl
<1>8. ParentsSound'
  <2> SUFFICES ASSUME NEW q \in Active', pcbs'[q].name = "shell_thread",
                      thread'[q] # "none"
               PROVE  pcbs'[q].parent \in Active'
                      /\ pcbs'[pcbs'[q].parent].name = "shell"
    BY DEF ParentsSound, IsThread
  <2>1. q \in Active \ {v} /\ pcbs[q].name = "shell_thread"
        /\ pcbs'[q].parent = pcbs[q].parent
    <3>1. "shell_thread" \notin Archive
      BY DriverNames DEF Archive
    <3> QED
      BY <1>2, <3>1 DEF EndsFor
  <2>2. thread[q] # "none"
    BY <1>1, <1>3, <2>1 DEF Resumed
  <2>3. pcbs[q].parent \in Active /\ pcbs[pcbs[q].parent].name = "shell"
    BY <2>1, <2>2 DEF WakeInv, ParentsSound, IsThread
  <2>4. pcbs[q].parent # v
    BY <2>1, <2>3 DEF EndsFor, IsThread
  <2> QED
    BY <1>1, <1>2, <2>1, <2>3, <2>4 DEF Active
<1>9. OneInstance'
  <2> SUFFICES ASSUME NEW p \in Active', NEW q \in Active', p # q,
                      pcbs'[p].name \in Archive, pcbs'[p].name = pcbs'[q].name
               PROVE  FALSE
    BY DEF OneInstance
  <2>1. CASE p \in Started \/ q \in Started
    <3>1. \A r \in Started : /\ pcbs'[r].name = pcbs[v].name
                             /\ pcbs[v].name \in Archive
                             /\ \A u \in Started : u = r
      BY DEF EndsFor
    <3>2. \A r \in Active \ {v} : pcbs[v].name \in Archive => pcbs[r].name # pcbs[v].name
      BY DEF WakeInv, OneInstance
    <3> QED
      BY <1>2, <2>1, <3>1, <3>2
  <2>2. CASE p \notin Started /\ q \notin Started
    BY <1>2, <2>2 DEF WakeInv, OneInstance
  <2> QED
    BY <2>1, <2>2
<1>10. WakeStep
  <2> SUFFICES ASSUME NEW x \in Active, pcbs[x].waiting_for # 0,
                      pcbs'[x].active, thread'[x] = "running"
               PROVE  ~pcbs'[pcbs[x].waiting_for].active
    BY DEF WakeStep
  <2>1. x # v /\ x \in W
    BY <1>3, <1>5
  <2> QED
    BY <2>1 DEF EndsFor, Waiters
<1> QED
  BY <1>4, <1>7, <1>8, <1>9, <1>10 DEF WakeInv

(* A new app, or a new thread of a shell that is there. *)
LEMMA StartStep ==
  ASSUME Inv, WakeInv, NEW n \in Pid \ Active,
         pcbs'[n].active, pcbs'[n].waiting_for = 0,
         \/ pcbs'[n].name = "app"
         \/ /\ pcbs'[n].name = "shell_thread"
            /\ pcbs'[n].parent \in Active
            /\ pcbs[pcbs'[n].parent].name = "shell",
         \A q \in Pid \ {n} : SameControl(pcbs'[q], pcbs[q]),
         \A q \in Pid \ {n} : thread'[q] = thread[q],
         UNCHANGED replies
  PROVE  WakeInv' /\ WakeStep
<1>1. /\ Active' = Active \cup {n} /\ Active \subseteq Pid \ {n}
      /\ \A q \in Active : SameControl(pcbs'[q], pcbs[q]) /\ thread'[q] = thread[q]
  BY DEF Active, SameControl
<1>2. "app" \notin Archive /\ "shell_thread" \notin Archive
  BY BootAssumption DEF Archive, Driver
<1>3. RepliesSound'
  BY <1>1 DEF WakeInv, RepliesSound
<1>4. WaitersSound'
  BY <1>1 DEF WakeInv, WaitersSound, SameControl
<1>5. ParentsSound'
  BY <1>1 DEF WakeInv, ParentsSound, IsThread, SameControl
<1>6. OneInstance'
  BY <1>1, <1>2 DEF WakeInv, OneInstance, SameControl
<1>7. WakeStep
  BY <1>1 DEF WakeStep, WakeInv, WaitersSound
<1> QED
  BY <1>3, <1>4, <1>5, <1>6, <1>7 DEF WakeInv

(* SYS_KILL of a thread t by the running shell p: nobody waits, and only   *)
(* suspensions happen.                                                     *)
LEMMA KillStep ==
  ASSUME Inv, WakeInv, NEW p \in Active, thread[p] = "running",
         pcbs[p].name = "shell", NEW t \in Active, IsThread(t),
         NEW gone \in SUBSET Slot0, NEW dead, t \in dead, 
         ~pcbs'[t].active, \A q \in Pid \ {t} : SameControl(pcbs'[q], pcbs[q]),
         thread' = [q \in Pid |-> IF q \in dead THEN "none" ELSE thread[q]],
         replies' = RepliesLeft(gone, dead)
  PROVE  WakeInv' /\ WakeStep
<1>1. /\ Active' = Active \ {t} /\ Active \subseteq Pid
      /\ \A q \in Active \ {t} : SameControl(pcbs'[q], pcbs[q])
      /\ \A q \in Active : thread'[q] \in {"none", thread[q]}
  BY DEF Active, SameControl
<1>2. \A x \in Active : pcbs[x].waiting_for = 0
  <2> SUFFICES ASSUME NEW x \in Active, pcbs[x].waiting_for # 0 PROVE FALSE
    OBVIOUS
  <2>1. x = p
    BY OneWaiter
  <2> QED
    BY <2>1 DEF WakeInv, WaitersSound
<1>3. RepliesSound'
  <2>1. \A q \in Active : thread'[q] = "running" => Resumed(gone)[q] = "running"
    BY <1>1 DEF Resumed
  <2>2. \A q \in Active : q \in dead \/ pcbs'[q].active
    BY <1>1 DEF Active
  <2> QED
    BY <2>1, <2>2, AnswersReplies DEF WakeInv
<1>4. WaitersSound' /\ WakeStep
  BY <1>1, <1>2 DEF WaitersSound, WakeStep, SameControl
<1>5. ParentsSound'
  <2> SUFFICES ASSUME NEW q \in Active', pcbs'[q].name = "shell_thread",
                      thread'[q] # "none"
               PROVE  pcbs'[q].parent \in Active'
                      /\ pcbs'[pcbs'[q].parent].name = "shell"
    BY DEF ParentsSound, IsThread
  <2>1. q \in Active /\ thread[q] # "none" /\ SameControl(pcbs'[q], pcbs[q])
    BY <1>1
  <2>2. pcbs[q].parent \in Active /\ pcbs[pcbs[q].parent].name = "shell"
    BY <2>1 DEF WakeInv, ParentsSound, IsThread, SameControl
  <2>3. pcbs[q].parent # t
    BY <2>2 DEF IsThread
  <2> QED
    BY <1>1, <2>1, <2>2, <2>3 DEF SameControl
<1>6. OneInstance'
  BY <1>1 DEF WakeInv, OneInstance, SameControl
<1> QED
  BY <1>3, <1>4, <1>5, <1>6 DEF WakeInv

-----------------------------------------------------------------------------
(* The handlers, one by one. *)

(* Slots are given up, X is emptied and returned. *)
LEMMA ReleaseSlots ==
  ASSUME \A p \in Pid : Within(pcbs'[p], pcbs[p]),
         PipesWithin(g_pipes', g_pipes),
         driver_ready_wait_reply' \in {driver_ready_wait_reply, NoSlot},
         NEW X, free_slots' \subseteq free_slots \cup X, UNCHANGED fresh_slots,
         \A s \in X : \/ s \in ObjectSlots /\ s \notin occupied'
                      \/ s \in ReplySlots /\ replies'[s] = 0,
         occupied' \subseteq occupied,
         \A s \in Slot : replies'[s] # 0 => replies[s] # 0
  PROVE  SlotsStep
<1>1. ObjectSlots' \subseteq ObjectSlots /\ ReplySlots' \subseteq ReplySlots
  BY ShrinkSlots
<1> QED
  BY <1>1 DEF SlotsStep, Available

(* Answers put no reply cap anywhere. *)
LEMMA LeftReplies ==
  ASSUME Inv, NEW R, NEW V, replies' = RepliesLeft(R, V)
  PROVE  /\ \A s \in Slot : replies'[s] # 0 => replies[s] # 0
         /\ \A s \in R : s \in Slot => replies'[s] = 0
BY DEF RepliesLeft, Slot0

(* Nothing happens to slots. *)
LEMMA SameSlots ==
  ASSUME UNCHANGED <<pcbs, g_pipes, driver_ready_wait_reply, slotVars>>
  PROVE  SlotsStep
BY DEF SlotsStep, slotVars, ObjectSlots, ReplySlots, Available

(* A call that only replies, and a panic. *)
LEMMA StutterWake ==
  ASSUME Inv, WakeInv, UNCHANGED vars \/ Panic
  PROVE  SlotsStep /\ WakeInv' /\ WakeStep
<1>1. /\ UNCHANGED <<pcbs, g_pipes, driver_ready_wait_reply, slotVars>>
      /\ UNCHANGED pcbs /\ UNCHANGED <<thread, replies>>
  BY DEF vars, Panic, readyVars, slotVars
<1> QED
  BY <1>1, SameSlots, QuietStep, SameTable

(* The slots SYS_WAIT and SYS_READ use. *)
LEMMA OwnedReplies ==
  ASSUME NEW T, NEW P, NEW r
  PROVE  /\ \A p \in Pid :
              /\ <<"reply", p>> \in Owner
              /\ OwnOf(T, P, r)[<<"reply", p>>] = {T[p].reply_cap} \ {NoSlot}
         /\ \A i \in PipeId :
              /\ <<"reader", i>> \in Owner
              /\ OwnOf(T, P, r)[<<"reader", i>>] = {P[i].reader_reply_cap} \ {NoSlot}
BY DEF OwnOf, Owner

(* The reply slots of readers. *)
LEMMA ReaderReplies ==
  ASSUME Inv, NEW I \in SUBSET PipeId
  PROVE  OtherReplies(Readers(I)) /\ Readers(I) \subseteq ReplySlots
<1>1. RestOK /\ Sound(pcbs, g_pipes, driver_ready_wait_reply, free_slots, fresh_slots)
  BY InvParts, SoundIsNoAliasing
<1>2. Readers(I) \subseteq Slot
  BY <1>1, ReaderSlots
<1>3. ASSUME NEW p \in Pid, NEW i \in PipeId, g_pipes[i].reader_reply_cap # NoSlot
      PROVE  pcbs[p].reply_cap # g_pipes[i].reader_reply_cap
  <2>0. PICK own : own = OwnOf(pcbs, g_pipes, driver_ready_wait_reply)
    OBVIOUS
  <2>1. /\ <<"reply", p>> \in Owner
        /\ own[<<"reply", p>>] = {pcbs[p].reply_cap} \ {NoSlot}
    BY <2>0, OwnedReplies
  <2>2. /\ <<"reader", i>> \in Owner
        /\ own[<<"reader", i>>] = {g_pipes[i].reader_reply_cap} \ {NoSlot}
    BY <2>0, OwnedReplies
  <2>3. \A o, q \in Owner : o # q => own[o] \cap own[q] = {}
    BY <1>1, <2>0 DEF Sound, Exclusive
  <2>4. own[<<"reply", p>>] \cap own[<<"reader", i>>] = {}
    BY <2>1, <2>2, <2>3
  <2> QED
    BY <1>3, <2>1, <2>2, <2>4
<1>4. OtherReplies(Readers(I))
  BY <1>2, <1>3 DEF OtherReplies, Readers
<1>5. Readers(I) \subseteq ReplySlots
  BY <1>2 DEF Readers, ReplySlots
<1> QED
  BY <1>4, <1>5

(* The reader of pipe i gets an answer. *)
LEMMA ReaderWoken ==
  ASSUME Inv, WakeInv, NEW i \in PipeId, PipesWithin(g_pipes', g_pipes),
         thread' = Resumed(Readers({i})),
         replies' = RepliesLeft(Readers({i}), {}),
         free_slots' \in Freed(free_slots, Readers({i})),
         UNCHANGED <<pcbs, readyVars, fresh_slots, occupied>>
  PROVE  SlotsStep /\ WakeInv' /\ WakeStep
<1>1. /\ OtherReplies(Readers({i})) /\ Readers({i}) \subseteq ReplySlots
      /\ Readers({i}) \in SUBSET Slot
  BY ReaderReplies DEF OtherReplies
<1>2. free_slots' \subseteq free_slots \cup Readers({i})
  <2>1. Readers({i}) \in SUBSET Slot0 /\ free_slots \in SUBSET Slot
    BY <1>1 DEF Slot0, Inv, TypeOK
  <2>2. PICK S \in SUBSET Slot0 : S = Readers({i})
    BY <2>1
  <2>3. free_slots' \in Freed(free_slots, S)
    BY <2>2
  <2>4. free_slots' \subseteq free_slots \cup (S \ {NoSlot})
    BY <2>1, <2>3, FreedOf
  <2> QED
    BY <2>2, <2>4
<1>3. /\ \A s \in Slot : replies'[s] # 0 => replies[s] # 0
      /\ \A s \in Readers({i}) : s \in Slot => replies'[s] = 0
  BY LeftReplies
<1>4. /\ \A p \in Pid : Within(pcbs'[p], pcbs[p])
      /\ driver_ready_wait_reply' = driver_ready_wait_reply
  BY WithinSelf DEF readyVars
<1>5. SlotsStep
  BY <1>1, <1>2, <1>3, <1>4, ReleaseSlots
<1> QED
  BY <1>1, <1>5, AnswerStep, SameTable

(* SYS_PIPE *)
LEMMA SysPipeWake ==
  ASSUME Inv, WakeInv, NEW p \in Pid, SysPipe(p)
  PROVE  SlotsStep /\ WakeInv' /\ WakeStep
<1> USE DEF readyVars, slotVars
<1>1. pcbs \in Table /\ RestOK
  BY InvParts
<1>2. PICK i \in PipeId :
        /\ g_pipes' = [g_pipes EXCEPT ![i] =
                         [active |-> TRUE, buffer |-> <<>>,
                          reader_reply_cap |-> NoSlot, writer_pid |-> p,
                          owner_pid |-> p, eof |-> FALSE]]
        /\ pcbs' = [pcbs EXCEPT ![p].pipe_fd = i]
  BY DEF SysPipe
<1>3. UNCHANGED <<readyVars, slotVars, thread>>
  BY DEF SysPipe
<1>4. \A q \in Pid : Within(pcbs'[q], pcbs[q]) /\ SameControl(pcbs'[q], pcbs[q])
  BY <1>1, <1>2 DEF Within, SameControl, Table, GoodPcb, PCB
<1>5. PipesWithin(g_pipes', g_pipes)
  BY <1>1, <1>2 DEF PipesWithin, RestOK, Pipe
<1>6. SlotsStep
  <2> DEFINE X == {}
  <2>1. /\ free_slots' \subseteq free_slots \cup X /\ UNCHANGED fresh_slots
        /\ \A s \in X : \/ s \in ObjectSlots /\ s \notin occupied'
                        \/ s \in ReplySlots /\ replies'[s] = 0
        /\ occupied' \subseteq occupied
        /\ \A s \in Slot : replies'[s] # 0 => replies[s] # 0
        /\ driver_ready_wait_reply' \in {driver_ready_wait_reply, NoSlot}
    BY <1>3
  <2> HIDE DEF X
  <2> QED
    BY <1>4, <1>5, <2>1, ReleaseSlots
<1> QED
  BY <1>3, <1>4, <1>6, QuietStep

(* SYS_PUTS *)
LEMMA PipeWriteWake ==
  ASSUME Inv, WakeInv, NEW p \in Pid, NEW data \in Chunk, PipeWrite(p, data)
  PROVE  SlotsStep /\ WakeInv' /\ WakeStep
<1>1. pcbs \in Table /\ RestOK
  BY InvParts
<1> DEFINE i == PipeOf(p)
           buf == g_pipes[i].buffer \o Accepted(g_pipes[i].buffer, data)
<1>2. i \in PipeId
  BY <1>1, PipeOfType DEF PipeWrite
<1>3. UNCHANGED <<pcbs, readyVars, fresh_slots, occupied>>
  BY DEF PipeWrite
<1>4. CASE g_pipes[i].reader_reply_cap # NoSlot /\ buf # <<>>
  <2>1. /\ g_pipes' = [g_pipes EXCEPT ![i].buffer = Tail(buf),
                                      ![i].reader_reply_cap = NoSlot]
        /\ thread' = Resumed(Readers({i}))
        /\ replies' = RepliesLeft(Readers({i}), {})
        /\ free_slots' \in Freed(free_slots, Readers({i}))
    BY <1>4 DEF PipeWrite
  <2> HIDE DEF i, buf
  <2>2. PipesWithin(g_pipes', g_pipes)
    BY <1>1, <1>2, <2>1 DEF RestOK, Pipe, PipesWithin
  <2> QED
    BY <1>2, <1>3, <2>1, <2>2, ReaderWoken
<1>5. CASE ~(g_pipes[i].reader_reply_cap # NoSlot /\ buf # <<>>)
  <2>1. /\ g_pipes' = [g_pipes EXCEPT ![i].buffer = buf]
        /\ UNCHANGED <<thread, replies, free_slots>>
    BY <1>5 DEF PipeWrite
  <2> HIDE DEF i, buf
  <2>2. \A j \in PipeId : g_pipes'[j].reader_reply_cap = g_pipes[j].reader_reply_cap
    BY <1>1, <1>2, <2>1 DEF RestOK, Pipe
  <2>3. SlotsStep
    BY <1>3, <2>1, <2>2 DEF SlotsStep, ObjectSlots, ReplySlots, Available, readyVars
  <2> QED
    BY <1>3, <2>1, <2>3, QuietStep, SameTable
<1> QED
  BY <1>4, <1>5

(* SYS_PIPE_WR_CLOSE *)
LEMMA PipeWrCloseWake ==
  ASSUME Inv, WakeInv, NEW p \in Pid, PipeWrClose(p)
  PROVE  SlotsStep /\ WakeInv' /\ WakeStep
<1>1. pcbs \in Table /\ RestOK
  BY InvParts
<1> DEFINE i == PipeOf(p)
<1>2. i \in PipeId
  BY <1>1, PipeOfType DEF PipeWrClose
<1>3. /\ g_pipes' = AtEof({i})
      /\ thread' = Resumed(Readers({i}))
      /\ replies' = RepliesLeft(Readers({i}), {})
      /\ free_slots' \in Freed(free_slots, Readers({i}))
      /\ UNCHANGED <<pcbs, readyVars, fresh_slots, occupied>>
  BY DEF PipeWrClose
<1> HIDE DEF i
<1>4. PipesWithin(g_pipes', g_pipes)
  BY <1>1, <1>2, <1>3, AtEofPipes
<1> QED
  BY <1>2, <1>3, <1>4, ReaderWoken

(* SYS_PIPE_CLOSE *)
LEMMA PipeCloseWake ==
  ASSUME Inv, WakeInv, NEW p \in Pid, PipeClose(p)
  PROVE  SlotsStep /\ WakeInv' /\ WakeStep
<1> USE DEF readyVars, slotVars
<1>1. pcbs \in Table /\ RestOK
  BY InvParts
<1> DEFINE i == PipeOf(p)
           o == g_pipes[i].owner_pid
<1>2. i \in PipeId
  BY <1>1, PipeOfType DEF PipeClose
<1>3. /\ g_pipes' = [g_pipes EXCEPT ![i].active = FALSE]
      /\ pcbs' = IF o \in Active THEN [pcbs EXCEPT ![o].pipe_fd = NoPipe] ELSE pcbs
      /\ UNCHANGED <<readyVars, slotVars, thread>>
  BY DEF PipeClose
<1> HIDE DEF i, o
<1>4. \A q \in Pid : /\ SameControl(pcbs'[q], pcbs[q])
                     /\ pcbs'[q].caps = pcbs[q].caps
                     /\ pcbs'[q].has_shm = pcbs[q].has_shm
                     /\ pcbs'[q].shm_copies = pcbs[q].shm_copies
  BY <1>1, <1>3 DEF SameControl, Table, GoodPcb, PCB
<1>5. \A j \in PipeId : g_pipes'[j].reader_reply_cap = g_pipes[j].reader_reply_cap
  BY <1>1, <1>2, <1>3 DEF RestOK, Pipe
<1>6. \A q \in Pid : /\ pcbs'[q].reply_cap = pcbs[q].reply_cap
                     /\ ShmOf(pcbs'[q]) = ShmOf(pcbs[q])
  <2> TAKE q \in Pid
  <2>1. /\ pcbs'[q].has_shm = pcbs[q].has_shm
        /\ pcbs'[q].shm_copies = pcbs[q].shm_copies
    BY <1>4
  <2>2. ShmOf(pcbs'[q]) = ShmOf(pcbs[q])
    BY <2>1 DEF ShmOf
  <2> QED
    BY <1>4, <2>2 DEF SameControl
<1>7. SlotsStep
  BY <1>3, <1>4, <1>5, <1>6 DEF SlotsStep, ObjectSlots, ReplySlots, Available
<1> QED
  BY <1>3, <1>4, <1>7, QuietStep

(* The caller's reply cap goes to a slot s that a table gets. *)
LEMMA SaveSlots ==
  ASSUME Inv, NEW p \in Pid, NEW s \in Slot0, alloc_slot(s), SaveCaller(s, p),
         UNCHANGED occupied, NEW x,
         Gains(pcbs, g_pipes, driver_ready_wait_reply,
               pcbs', g_pipes', driver_ready_wait_reply', x, {s} \ {NoSlot}),
         s \in Slot => s \in ReplySlots'
  PROVE  SlotsStep
<1>1. PICK N : N = {s} \ {NoSlot}
  OBVIOUS
<1>2. /\ N \subseteq Available
      /\ Available' \subseteq Available
  BY <1>1, AllocSlot DEF Available
<1>3. /\ ObjectSlots' \subseteq ObjectSlots \cup N
      /\ ReplySlots' \subseteq ReplySlots \cup N
  BY <1>1, GainsSlots
<1>4. \A t \in Slot \ {s} : replies'[t] = replies[t]
  BY ControlTypes DEF SaveCaller, Slot0
<1> QED
  BY <1>2, <1>3, <1>4 DEF SlotsStep

(* The slot that alloc_slot() returns is empty. *)
LEMMA NewSlotEmpty ==
  ASSUME Inv, SlotsSound, NEW s \in Slot0, alloc_slot(s), s # NoSlot
  PROVE  replies[s] = 0 /\ s \notin occupied
<1>1. s \in Slot /\ s \in Available
  BY AllocSlot DEF Slot0, Available
<1> QED
  BY <1>1 DEF SlotsSound

(* SYS_READ *)
LEMMA PipeReadWake ==
  ASSUME Inv, WakeInv, NEW p \in Pid, PipeRead(p)
  PROVE  SlotsStep /\ WakeInv' /\ WakeStep
<1> USE DEF readyVars, slotVars
<1>1. pcbs \in Table /\ RestOK
  BY InvParts
<1> DEFINE i == PipeOf(p)
<1>2. i \in PipeId
  BY <1>1, PipeOfType DEF PipeRead
<1>3. /\ UNCHANGED <<pcbs, readyVars, halted>>
      /\ p \in Active /\ thread[p] = "running"
  BY DEF PipeRead, Calls, Active
<1>4. CASE /\ g_pipes' = [g_pipes EXCEPT ![i].buffer = Tail(@)]
           /\ UNCHANGED <<slotVars, thread>>
  <2> HIDE DEF i
  <2>1. \A j \in PipeId : g_pipes'[j].reader_reply_cap = g_pipes[j].reader_reply_cap
    BY <1>1, <1>2, <1>4 DEF RestOK, Pipe
  <2>2. SlotsStep
    BY <1>3, <1>4, <2>1 DEF SlotsStep, ObjectSlots, ReplySlots, Available
  <2> QED
    BY <1>3, <1>4, <2>2, QuietStep, SameTable
<1>5. ASSUME NEW s \in Slot0, alloc_slot(s), SaveCaller(s, p),
             g_pipes' = [g_pipes EXCEPT ![i].reader_reply_cap = s],
             UNCHANGED occupied
      PROVE  SlotsStep /\ WakeInv' /\ WakeStep
  <2> HIDE DEF i
  <2>1. Gains(pcbs, g_pipes, driver_ready_wait_reply,
              pcbs', g_pipes', driver_ready_wait_reply', <<"reader", i>>, {s} \ {NoSlot})
    BY <1>1, <1>2, <1>3, <1>5 DEF Gains, RestOK, Pipe
  <2>2. g_pipes'[i].reader_reply_cap = s
    BY <1>1, <1>2, <1>5 DEF RestOK, Pipe
  <2>3. s \in Slot => s \in ReplySlots'
    BY <1>2, <2>2 DEF ReplySlots
  <2>4. SlotsStep
    BY <1>5, <2>1, <2>3, SaveSlots
  <2> QED
    BY <1>3, <1>5, <2>4, SaveStep, SameTable
<1> QED
  BY <1>4, <1>5 DEF PipeRead

(* SYS_WAIT_ALL_DRIVERS_READY *)
LEMMA WaitAllReadyWake ==
  ASSUME Inv, WakeInv, NEW p \in Pid, WaitAllReady(p)
  PROVE  SlotsStep /\ WakeInv' /\ WakeStep
<1>1. PICK s \in Slot0 :
        alloc_slot(s) /\ SaveCaller(s, p) /\ driver_ready_wait_reply' = s
  BY DEF WaitAllReady
<1>2. /\ UNCHANGED <<pcbs, g_pipes, occupied>>
      /\ p \in Active /\ thread[p] = "running"
  BY DEF WaitAllReady, Calls, Active
<1>3. Gains(pcbs, g_pipes, driver_ready_wait_reply,
            pcbs', g_pipes', driver_ready_wait_reply', <<"ready", 0>>, {s} \ {NoSlot})
  BY <1>1, <1>2 DEF Gains
<1>4. s \in Slot => s \in ReplySlots'
  BY <1>1 DEF ReplySlots
<1>5. SlotsStep
  BY <1>1, <1>2, <1>3, <1>4, SaveSlots
<1> QED
  BY <1>1, <1>2, <1>5, SaveStep, SameTable

(* SYS_WAIT *)
LEMMA SysWaitWake ==
  ASSUME Inv, SlotsSound, WakeInv, NEW p \in Pid, NEW t \in Pid, SysWait(p, t)
  PROVE  SlotsStep /\ WakeInv' /\ WakeStep
<1>1. pcbs \in Table
  BY InvParts
<1>2. PICK s \in Slot0 :
        /\ alloc_slot(s)
        /\ SaveCaller(s, p)
        /\ pcbs' = [pcbs EXCEPT ![p].waiting_for = t, ![p].reply_cap = s]
  BY DEF SysWait
<1>3. /\ UNCHANGED <<g_pipes, readyVars, occupied>>
      /\ p \in Active /\ thread[p] = "running" /\ t \in Active
      /\ pcbs[p].name = "shell"
  BY DEF SysWait, Calls, Active
<1>4. pcbs[p] \in PCB
  BY <1>1 DEF Table, GoodPcb
<1>5. /\ pcbs'[p] = [pcbs[p] EXCEPT !.waiting_for = t, !.reply_cap = s]
      /\ \A q \in Pid \ {p} : pcbs'[q] = pcbs[q]
  BY <1>1, <1>2, <1>4 DEF Table, PCB
<1>6. /\ pcbs'[p].active = pcbs[p].active /\ pcbs'[p].name = pcbs[p].name
      /\ pcbs'[p].waiting_for = t /\ pcbs'[p].reply_cap = s
      /\ pcbs'[p].caps = pcbs[p].caps
      /\ pcbs'[p].has_shm = pcbs[p].has_shm
      /\ pcbs'[p].shm_copies = pcbs[p].shm_copies
  BY <1>4, <1>5 DEF PCB
<1>7. Gains(pcbs, g_pipes, driver_ready_wait_reply,
            pcbs', g_pipes', driver_ready_wait_reply', <<"reply", p>>, {s} \ {NoSlot})
  <2>1. \A q \in Pid \ {p} : pcbs'[q] = pcbs[q]
    BY <1>5
  <2>2. ShmOf(pcbs'[p]) = ShmOf(pcbs[p])
    BY <1>6 DEF ShmOf
  <2> QED
    BY <1>3, <1>6, <2>1, <2>2 DEF Gains, readyVars
<1>8. s \in Slot => s \in ReplySlots'
  BY <1>6 DEF ReplySlots
<1>9. SlotsStep
  BY <1>2, <1>3, <1>7, <1>8, SaveSlots
<1>10. s # NoSlot => replies[s] = 0 /\ s \notin occupied
  BY <1>2, NewSlotEmpty
<1>11. \A q \in Pid \ {p} : SameControl(pcbs'[q], pcbs[q])
  BY <1>5 DEF SameControl
<1>12. pcbs'[p].active
  BY <1>3, <1>6 DEF Active
<1>13. WakeInv' /\ WakeStep
  BY <1>2, <1>3, <1>6, <1>10, <1>11, <1>12, SaveStep
<1> QED
  BY <1>9, <1>13

(* SYS_DRIVER_READY *)
LEMMA DriverReadyWake ==
  ASSUME Inv, WakeInv, NEW p \in Pid, DriverReady(p)
  PROVE  SlotsStep /\ WakeInv' /\ WakeStep
<1>1. PICK R : R = {driver_ready_wait_reply} \ {NoSlot}
  OBVIOUS
<1>2. UNCHANGED <<pcbs, g_pipes, fresh_slots, occupied>>
  BY DEF DriverReady
<1>3. CASE /\ driver_ready_wait_reply' = NoSlot
           /\ thread' = Resumed(R)
           /\ replies' = RepliesLeft(R, {})
           /\ free_slots' \in Freed(free_slots, R)
  <2>1. RestOK /\ R \in SUBSET Slot /\ R \subseteq ReplySlots
    BY <1>1, InvParts DEF RestOK, Slot0, ReplySlots
  <2>2. OtherReplies(R)
    <3>1. PICK own : own = OwnOf(pcbs, g_pipes, driver_ready_wait_reply)
      OBVIOUS
    <3>2. \A o, q \in Owner : o # q => own[o] \cap own[q] = {}
      BY <3>1, InvParts, SoundIsNoAliasing DEF Sound, Exclusive
    <3>3. <<"ready", 0>> \in Owner /\ own[<<"ready", 0>>] = R
      BY <1>1, <3>1, OwnedSlots
    <3>4. ASSUME NEW q \in Pid, pcbs[q].reply_cap \in R
          PROVE  FALSE
      <4>1. /\ <<"reply", q>> \in Owner
            /\ own[<<"reply", q>>] = {pcbs[q].reply_cap} \ {NoSlot}
        BY <3>1, OwnedReplies
      <4>2. own[<<"reply", q>>] \cap own[<<"ready", 0>>] = {}
        BY <3>2, <3>3, <4>1
      <4>3. pcbs[q].reply_cap # NoSlot
        BY <1>1, <3>4
      <4> QED
        BY <3>3, <3>4, <4>1, <4>2, <4>3
    <3> QED
      BY <2>1, <3>4 DEF OtherReplies
  <2>3. free_slots' \subseteq free_slots \cup R
    <3>1. free_slots \in SUBSET Slot /\ R \in SUBSET Slot0
      BY <2>1 DEF RestOK, Slot0
    <3>2. free_slots' \subseteq free_slots \cup (R \ {NoSlot})
      BY <1>3, <3>1, FreedOf
    <3> QED
      BY <3>2
  <2>4. /\ \A s \in Slot : replies'[s] # 0 => replies[s] # 0
        /\ \A s \in R : s \in Slot => replies'[s] = 0
    BY <1>3, LeftReplies
  <2>5. /\ \A q \in Pid : Within(pcbs'[q], pcbs[q])
        /\ PipesWithin(g_pipes', g_pipes)
    BY <1>2, WithinSelf DEF PipesWithin
  <2>6. SlotsStep
    BY <1>2, <1>3, <2>1, <2>3, <2>4, <2>5, ReleaseSlots
  <2> QED
    BY <1>2, <1>3, <2>2, <2>6, AnswerStep, SameTable
<1>4. CASE UNCHANGED <<driver_ready_wait_reply, thread, replies, free_slots>>
  <2>1. SlotsStep
    BY <1>2, <1>4, SameSlots DEF slotVars
  <2> QED
    BY <1>2, <1>4, <2>1, QuietStep, SameTable
<1> QED
  BY <1>1, <1>3, <1>4 DEF DriverReady

(* What handlers that track more slots do. *)
LEMMA TrackSlots ==
  ASSUME NEW x, NEW N, N \subseteq Available,
         Gains(pcbs, g_pipes, driver_ready_wait_reply,
               pcbs', g_pipes', driver_ready_wait_reply', x, N),
         Available' \subseteq Available,
         occupied' \subseteq occupied \cup ObjectSlots',
         \A s \in Slot : replies'[s] # 0 => replies[s] # 0
  PROVE  SlotsStep
<1>1. /\ ObjectSlots' \subseteq ObjectSlots \cup N
      /\ ReplySlots' \subseteq ReplySlots \cup N
  BY GainsSlots
<1> QED
  BY <1>1 DEF SlotsStep

(* The pager. *)
LEMMA PageFaultWake ==
  ASSUME Inv, WakeInv, NEW p \in Pid, PageFault(p)
  PROVE  SlotsStep /\ WakeInv' /\ WakeStep
<1> USE DEF readyVars
<1>1. /\ pcbs \in Table /\ pcbs[p] \in PCB
      /\ free_slots \in SUBSET Slot /\ fresh_slots \in SUBSET Slot
      /\ free_slots \cap fresh_slots = {}
  BY DEF Inv, TypeOK, NoAliasing, Table
<1>2. CASE ~Panic
  <2>1. PICK N \in Grants(1, free_slots) :
          /\ pcbs' = [pcbs EXCEPT ![p].caps = @ \cup N]
          /\ free_slots' = free_slots \ N
          /\ fresh_slots' = fresh_slots \ N
          /\ occupied' = occupied \cup N
          /\ UNCHANGED <<g_pipes, readyVars, replies, thread, halted>>
    BY <1>2 DEF PageFault
  <2>2. N \subseteq Available /\ N \subseteq Slot /\ Available' \subseteq Available
    BY <1>1, <2>1, GrantsOf DEF Available
  <2>3. /\ pcbs'[p] = [pcbs[p] EXCEPT !.caps = @ \cup N]
        /\ \A q \in Pid \ {p} : pcbs'[q] = pcbs[q]
    BY <1>1, <2>1 DEF Table, PCB
  <2>4. /\ SameControl(pcbs'[p], pcbs[p])
        /\ pcbs'[p].caps = pcbs[p].caps \cup N
        /\ pcbs'[p].has_shm = pcbs[p].has_shm
        /\ pcbs'[p].shm_copies = pcbs[p].shm_copies
    BY <1>1, <2>3 DEF PCB, SameControl
  <2>5. Gains(pcbs, g_pipes, driver_ready_wait_reply,
              pcbs', g_pipes', driver_ready_wait_reply', <<"caps", p>>, N)
    BY <2>1, <2>3, <2>4 DEF Gains, ShmOf, SameControl
  <2>6. N \subseteq ObjectSlots'
    BY <2>2, <2>4 DEF ObjectSlots
  <2>7. SlotsStep
    BY <2>1, <2>2, <2>5, <2>6, TrackSlots
  <2>8. \A q \in Pid : SameControl(pcbs'[q], pcbs[q])
    BY <2>3, <2>4 DEF SameControl
  <2> QED
    BY <2>1, <2>7, <2>8, QuietStep
<1> QED
  BY <1>2, StutterWake

(* SYS_SHM_GET: the slots that a rollback empties were the allocator's a   *)
(* moment ago, so nobody's reply cap is in them.                           *)
LEMMA ShmGetsWake ==
  ASSUME Inv, SlotsSound, WakeInv, NEW p \in Pid, NEW k \in 0 .. ShmPages,
         NEW n \in Nat,
         ~pcbs[p].has_shm, pcbs[p].shm_copies = NoCopies,
         ShmGets(p, k, n), UNCHANGED <<g_pipes, readyVars, thread, halted>>
  PROVE  SlotsStep /\ WakeInv' /\ WakeStep
<1> USE DEF readyVars
<1>1. /\ pcbs \in Table /\ pcbs[p] \in PCB
      /\ free_slots \cap fresh_slots = {}
      /\ free_slots \in SUBSET Slot /\ fresh_slots \in SUBSET Slot
  BY DEF Inv, TypeOK, NoAliasing
<1>2. k \in Nat /\ ShmPages \in Nat
  BY SlotAssumption
<1> DEFINE Fill(f, oom) == ShmFill(p, k, f, oom)
           Step(N, f, ok, oom) ==
             /\ fresh_slots' = fresh_slots \ N
             /\ pcbs' = [pcbs EXCEPT ![p].caps = @ \cup (N \ {f[j] : j \in 1 .. k}),
                                     ![p].has_shm = ok,
                                     ![p].shm_copies = Fill(f, oom)]
           Taken(N) ==
             /\ k = ShmPages
             /\ free_slots' = free_slots \ N
             /\ occupied' = occupied \cup N
             /\ UNCHANGED replies
           RolledBack(N, gone) ==
             /\ free_slots' \in Freed(free_slots \ N, gone)
             /\ occupied' = Emptied(gone) \cup (N \ gone)
             /\ replies' = RepliesLeft(gone, {})
           Slots(f, oom) == {Fill(f, oom)[j] : j \in ShmPage} \ {NoSlot}
<1>3. PICK N \in Grants(k + n, free_slots) : \E f \in [1 .. k -> N] :
        \/ Step(N, f, TRUE, FALSE) /\ Taken(N)
        \/ Step(N, f, FALSE, TRUE) /\ RolledBack(N, Slots(f, TRUE))
        \/ Step(N, f, FALSE, FALSE) /\ RolledBack(N, Slots(f, FALSE))
  BY DEF ShmGets
<1>4. PICK f \in [1 .. k -> N] :
        \/ Step(N, f, TRUE, FALSE) /\ Taken(N)
        \/ Step(N, f, FALSE, TRUE) /\ RolledBack(N, Slots(f, TRUE))
        \/ Step(N, f, FALSE, FALSE) /\ RolledBack(N, Slots(f, FALSE))
  BY <1>3
<1>5. N \subseteq Available /\ N \subseteq Slot
  <2>1. k + n \in Nat
    BY <1>2
  <2> QED
    BY <1>1, <2>1, GrantsOf DEF Available
<1> DEFINE F == {f[j] : j \in 1 .. k}
<1>6. F \subseteq N
  OBVIOUS
<1>7. ASSUME NEW oom \in BOOLEAN
      PROVE  /\ Slots(f, oom) = F
             /\ Fill(f, oom) \in [ShmPage -> Slot0]
  <2>1. \A j \in ShmPage : Fill(f, oom)[j] = IF j <= k THEN f[j] ELSE NoSlot
    BY <1>2 DEF ShmFill, NoCopies, ShmPage
  <2>2. \A j \in 1 .. k : j \in ShmPage /\ j <= k /\ f[j] \in N /\ f[j] # NoSlot
    BY <1>2, <1>5, SlotAssumption DEF ShmPage
  <2>3. \A j \in ShmPage : j <= k => j \in 1 .. k
    BY <1>2 DEF ShmPage
  <2>4. Fill(f, oom) \in [ShmPage -> Slot0]
    BY <1>5 DEF ShmFill, NoCopies, Slot0, ShmPage
  <2> HIDE DEF Fill
  <2>5. Slots(f, oom) = F
    BY <2>1, <2>2, <2>3
  <2> QED
    BY <2>4, <2>5
<1>8. ASSUME NEW ok \in BOOLEAN, NEW oom \in BOOLEAN, Step(N, f, ok, oom)
      PROVE  /\ \A q \in Pid \ {p} : pcbs'[q] = pcbs[q]
             /\ SameControl(pcbs'[p], pcbs[p])
             /\ pcbs'[p].caps = pcbs[p].caps \cup (N \ F)
             /\ ShmOf(pcbs'[p]) = IF ok THEN F ELSE {}
  <2>1. PICK g : g = Fill(f, oom)
    OBVIOUS
  <2>2. pcbs' = [pcbs EXCEPT ![p].caps = @ \cup (N \ F),
                             ![p].has_shm = ok, ![p].shm_copies = g]
    BY <1>8, <2>1
  <2> HIDE DEF F, Fill
  <2>3. /\ \A q \in Pid \ {p} : pcbs'[q] = pcbs[q]
        /\ SameControl(pcbs'[p], pcbs[p])
        /\ pcbs'[p].caps = pcbs[p].caps \cup (N \ F)
        /\ pcbs'[p].has_shm = ok /\ pcbs'[p].shm_copies = g
    BY <1>1, <2>2 DEF Table, PCB, SameControl
  <2>4. {g[j] : j \in ShmPage} \ {NoSlot} = F
    BY <1>7, <2>1
  <2>5. ShmOf(pcbs'[p]) = IF ok THEN F ELSE {}
    BY <2>3, <2>4 DEF ShmOf
  <2> QED
    BY <2>3, <2>5
<1>9. PICK ok \in BOOLEAN, oom \in BOOLEAN :
        /\ Step(N, f, ok, oom)
        /\ IF ok THEN Taken(N) ELSE RolledBack(N, F)
  <2>1. Slots(f, TRUE) = F /\ Slots(f, FALSE) = F
    BY <1>7
  <2> HIDE DEF Step, Taken, RolledBack, Slots, F
  <2>2. CASE Step(N, f, TRUE, FALSE) /\ Taken(N)
    BY <2>2
  <2>3. CASE Step(N, f, FALSE, TRUE) /\ RolledBack(N, Slots(f, TRUE))
    BY <2>1, <2>3
  <2>4. CASE Step(N, f, FALSE, FALSE) /\ RolledBack(N, Slots(f, FALSE))
    BY <2>1, <2>4
  <2> QED
    BY <1>4, <2>2, <2>3, <2>4
<1>10. /\ \A q \in Pid \ {p} : pcbs'[q] = pcbs[q]
       /\ SameControl(pcbs'[p], pcbs[p])
       /\ pcbs'[p].caps = pcbs[p].caps \cup (N \ F)
       /\ ShmOf(pcbs'[p]) = IF ok THEN F ELSE {}
       /\ fresh_slots' = fresh_slots \ N
  BY <1>8, <1>9
<1>11. UNCHANGED replies /\ Available' \subseteq Available
  <2>1. CASE ok
    BY <1>9, <1>10, <2>1 DEF Available
  <2>2. CASE ~ok
    <3>1. /\ free_slots' \in Freed(free_slots \ N, F)
          /\ replies' = RepliesLeft(F, {})
      BY <1>9, <2>2
    <3> HIDE DEF F
    <3>2. free_slots' \subseteq (free_slots \ N) \cup (F \ {NoSlot})
      <4>1. free_slots \ N \in SUBSET Slot /\ F \in SUBSET Slot0
        BY <1>1, <1>5, <1>6 DEF Slot0
      <4> QED
        BY <3>1, <4>1, FreedOf
    <3>3. Available' \subseteq Available
      BY <1>5, <1>6, <1>10, <3>2 DEF Available
    <3>4. \A s \in F : replies[s] = 0
      BY <1>5, <1>6 DEF SlotsSound
    <3>5. replies' = replies
      BY <3>1, <3>4, ControlTypes DEF RepliesLeft
    <3> QED
      BY <3>3, <3>5
  <2> QED
    BY <2>1, <2>2
<1> HIDE DEF F
<1>12. occupied' \subseteq occupied \cup ObjectSlots'
  <2>1. N \ F \subseteq ObjectSlots'
    BY <1>5, <1>10 DEF ObjectSlots
  <2>2. CASE ok
    <3>1. F \subseteq ObjectSlots' /\ occupied' = occupied \cup N
      BY <1>5, <1>6, <1>9, <1>10, <2>2 DEF ObjectSlots
    <3> QED
      BY <2>1, <3>1
  <2>3. CASE ~ok
    <3>1. occupied' = (occupied \ F) \cup (N \ F)
      BY <1>9, <2>3 DEF Emptied
    <3> QED
      BY <2>1, <3>1
  <2> QED
    BY <2>2, <2>3
<1>13. ObjectSlots' \subseteq ObjectSlots \cup N
  BY <1>6, <1>10 DEF ObjectSlots
<1>14. ReplySlots' \subseteq ReplySlots
  BY <1>10 DEF ReplySlots, SameControl
<1>15. SlotsStep
  BY <1>5, <1>11, <1>12, <1>13, <1>14 DEF SlotsStep
<1>16. \A q \in Pid : SameControl(pcbs'[q], pcbs[q])
  BY <1>10 DEF SameControl
<1> QED
  BY <1>11, <1>15, <1>16, QuietStep

(* SYS_SHM_GET keeps the invariant. *)
LEMMA ShmGetWake ==
  ASSUME Inv, SlotsSound, WakeInv, ShmOnce, NEW p \in Pid, ShmGet(p)
  PROVE  SlotsStep /\ WakeInv' /\ WakeStep
<1>1. ~pcbs[p].has_shm /\ pcbs[p].shm_copies = NoCopies
  BY DEF ShmGet
<1>2. CASE Panic
  BY <1>2, StutterWake
<1>3. ASSUME NEW k \in 0 .. ShmPages, NEW n \in {0, TableCaps}, ShmGets(p, k, n),
             UNCHANGED <<g_pipes, readyVars, thread, halted>>
      PROVE  SlotsStep /\ WakeInv' /\ WakeStep
  <2>1. n \in Nat
    BY SlotAssumption
  <2> QED
    BY <1>1, <1>3, <2>1, ShmGetsWake
<1>4. \A k \in ShmPage : k \in 0 .. ShmPages
  BY SlotAssumption DEF ShmPage
<1> QED
  BY <1>2, <1>3, <1>4 DEF ShmGet

(* The table after the end of v. *)
LEMMA EndControl ==
  ASSUME Inv, NEW v \in Pid
  PROVE  LET T == Ended(Answered(Waiters(v)), v)
         IN  /\ T \in Table
             /\ T[v].active = FALSE
             /\ \A q \in Pid : Within(T[q], pcbs[q])
             /\ \A q \in Pid \ {v} :
                  IF q \in Waiters(v)
                  THEN /\ T[q].active /\ T[q].name = pcbs[q].name
                       /\ T[q].parent = pcbs[q].parent /\ T[q].waiting_for = 0
                  ELSE SameControl(T[q], pcbs[q])
<1> DEFINE W == Waiters(v)
           T == Ended(Answered(W), v)
<1>1. pcbs \in Table /\ W \in SUBSET Pid
  BY InvParts DEF Waiters, Active
<1>2. /\ Answered(W) \in Table
      /\ \A q \in Pid : Within(Answered(W)[q], pcbs[q])
  BY <1>1, AnsweredTable
<1>3. /\ T \in Table /\ T[v] = UnusedPcb
      /\ \A q \in Pid \ {v} : T[q] = Answered(W)[q]
      /\ \A q \in Pid : Within(T[q], Answered(W)[q])
  BY <1>2, EndedTable
<1>4. T[v].active = FALSE
  <2>1. UnusedPcb.active = FALSE
    BY DEF UnusedPcb
  <2> HIDE DEF T
  <2> QED
    BY <1>3, <2>1
<1>5. \A q \in Pid : Within(T[q], pcbs[q])
  BY <1>2, <1>3, WithinTransitive
<1>6. ASSUME NEW q \in Pid \ {v}
      PROVE  IF q \in W
             THEN /\ T[q].active /\ T[q].name = pcbs[q].name
                  /\ T[q].parent = pcbs[q].parent /\ T[q].waiting_for = 0
             ELSE SameControl(T[q], pcbs[q])
  <2>1. /\ pcbs[q] \in PCB
        /\ T[q] = IF q \in W THEN [pcbs[q] EXCEPT !.waiting_for = 0, !.reply_cap = NoSlot]
                  ELSE pcbs[q]
    BY <1>1, <1>3 DEF Table, GoodPcb, Answered
  <2>2. q \in W => pcbs[q].active
    BY DEF Waiters, Active
  <2> HIDE DEF T, W
  <2> QED
    BY <2>1, <2>2 DEF PCB, SameControl
<1> QED
  BY <1>3, <1>4, <1>5, <1>6

(* The slots recovery returns hold the caps of objects. *)
LEMMA ReturnedObjects ==
  ASSUME Inv, NEW v \in Pid
  PROVE  ReturnedBy(v) \subseteq ObjectSlots /\ pcbs[v].caps \subseteq ObjectSlots
<1>1. pcbs \in Table /\ RestOK
  BY InvParts
<1>2. /\ pcbs[v].caps \in SUBSET Slot /\ ReturnedBy(v) \in SUBSET Slot
      /\ ReturnedBy(v) \subseteq
           pcbs[v].caps \cup (IF pcbs[v].has_shm THEN Copies(v) ELSE {})
  BY <1>1, ReturnedSlots
<1>3. NoSlot \notin Slot
  BY SlotAssumption
<1>4. \A s \in ReturnedBy(v) : s \in pcbs[v].caps \/ s \in ShmOf(pcbs[v])
  BY <1>2, <1>3 DEF ShmOf, Copies
<1> QED
  BY <1>2, <1>4 DEF ObjectSlots

(* SYS_THREAD_EXIT and SYS_EXIT *)
LEMMA ExitWake ==
  ASSUME Inv, WakeInv, NEW v \in Active, thread[v] = "running",
         NEW C \in SUBSET pcbs[v].caps, NEW D,
         \A q \in Active :
           IsThread(q) /\ pcbs[q].parent = v /\ ~IsThread(v) => thread[q] = "none",
         g_pipes' = AtEof(WrittenBy(v)),
         pcbs' = Ended(Answered(Waiters(v)), v),
         thread' = [Resumed(Readers(WrittenBy(v)) \cup ReplyCaps(Waiters(v)))
                      EXCEPT ![v] = "none"],
         replies' = RepliesLeft(Readers(WrittenBy(v)) \cup ReplyCaps(Waiters(v)), {v}),
         free_slots' \in Freed(free_slots,
           Readers(WrittenBy(v)) \cup ReplyCaps(Waiters(v)) \cup C),
         occupied' = Emptied(C \cup D),
         UNCHANGED <<readyVars, fresh_slots, halted>>
  PROVE  SlotsStep /\ WakeInv' /\ WakeStep
<1>1. pcbs \in Table /\ RestOK /\ v \in Pid
  BY InvParts DEF Active
<1>2. PICK I \in SUBSET PipeId : I = WrittenBy(v)
  BY DEF WrittenBy
<1>3. PICK E : E = Readers(I)
  OBVIOUS
<1>4. PICK W \in SUBSET Pid : W = Waiters(v)
  BY DEF Waiters, Active
<1>5. PICK R : R = E \cup ReplyCaps(W)
  OBVIOUS
<1>6. /\ OtherReplies(E) /\ E \subseteq ReplySlots /\ E \in SUBSET Slot
  BY <1>3, ReaderReplies DEF OtherReplies
<1>7. /\ ReplyCaps(W) \in SUBSET Slot0 /\ C \in SUBSET Slot
      /\ \A s \in ReplyCaps(W) : s \in Slot => s \in ReplySlots
  <2>1. ReplyCaps(W) \in SUBSET Slot0 /\ pcbs[v].caps \in SUBSET Slot
    BY <1>1, <1>2, <1>4, ReturnedSlots
  <2> QED
    BY <1>4, <2>1 DEF ReplyCaps, ReplySlots
<1>8. /\ g_pipes' = AtEof(I)
      /\ thread' = [Resumed(R) EXCEPT ![v] = "none"]
      /\ replies' = RepliesLeft(R, {v})
      /\ free_slots' \in Freed(free_slots, R \cup C)
  BY <1>2, <1>3, <1>4, <1>5
<1>9. free_slots' \subseteq free_slots \cup ((R \cup C) \ {NoSlot})
  <2>1. free_slots \in SUBSET Slot /\ R \cup C \in SUBSET Slot0
    BY <1>1, <1>5, <1>6, <1>7 DEF RestOK, Slot0
  <2> QED
    BY <1>8, <2>1, FreedOf
<1>10. SlotsStep
  <2>1. \A q \in Pid : Within(pcbs'[q], pcbs[q])
    BY <1>1, EndControl
  <2>2. PipesWithin(g_pipes', g_pipes)
    BY <1>1, <1>8, AtEofPipes
  <2>3. /\ \A s \in Slot : replies'[s] # 0 => replies[s] # 0
        /\ \A s \in R : s \in Slot => replies'[s] = 0
    BY <1>8, LeftReplies
  <2>4. C \subseteq ObjectSlots
    BY <1>1, ReturnedObjects
  <2>5. PICK X : X = (R \cup C) \ {NoSlot}
    OBVIOUS
  <2>6. X \subseteq Slot
    BY <1>5, <1>6, <1>7, <2>5 DEF Slot0
  <2>7. \A s \in X : \/ s \in ObjectSlots /\ s \notin occupied'
                     \/ s \in ReplySlots /\ replies'[s] = 0
    BY <1>5, <1>6, <1>7, <2>3, <2>4, <2>5, <2>6 DEF Emptied
  <2>8. occupied' \subseteq occupied
    BY DEF Emptied
  <2>9. /\ driver_ready_wait_reply' \in {driver_ready_wait_reply, NoSlot}
        /\ UNCHANGED fresh_slots
    BY DEF readyVars
  <2> QED
    BY <1>9, <2>1, <2>2, <2>3, <2>5, <2>7, <2>8, <2>9, ReleaseSlots
<1>11. EndsFor(v, E, {})
  <2>1. \A q \in Active \ {v} : thread'[q] = Resumed(R)[q] /\ thread'[v] = "none"
    BY <1>1, <1>8, ControlTypes DEF Resumed, Active
  <2>2. thread'[v] = "none"
    BY <1>1, <1>8 DEF Resumed
  <2>3. ASSUME NEW q \in Active, IsThread(q), pcbs[q].parent = v, ~IsThread(v)
        PROVE  thread'[q] = "none"
    <3>1. q # v /\ thread[q] = "none"
      BY <2>3
    <3> QED
      BY <2>1, <3>1 DEF Resumed, Active
  <2>4. R = E \cup ReplyCaps(Waiters(v))
    BY <1>4, <1>5
  <2>5. /\ pcbs'[v].active = FALSE
        /\ \A q \in Pid \ {v} :
             IF q \in Waiters(v)
             THEN /\ pcbs'[q].active /\ pcbs'[q].name = pcbs[q].name
                  /\ pcbs'[q].parent = pcbs[q].parent /\ pcbs'[q].waiting_for = 0
             ELSE SameControl(pcbs'[q], pcbs[q])
    BY <1>1, EndControl
  <2>6. Pid \ ({} \cup {v}) = Pid \ {v}
    OBVIOUS
  <2> QED
    BY <1>8, <2>1, <2>2, <2>3, <2>4, <2>5, <2>6 DEF EndsFor
<1> QED
  BY <1>6, <1>10, <1>11, EndStep

(* SYS_THREAD_EXIT only looks at the parent, who is the only waiter there  *)
(* can be.                                                                 *)
LEMMA ThreadExitWake ==
  ASSUME Inv, WakeInv, NEW p \in Pid, ThreadExit(p)
  PROVE  SlotsStep /\ WakeInv' /\ WakeStep
<1>1. p \in Active /\ thread[p] = "running" /\ IsThread(p)
  BY DEF ThreadExit, Calls, Active
<1>2. pcbs[p].parent \in Active /\ pcbs[pcbs[p].parent].name = "shell"
  BY <1>1 DEF WakeInv, ParentsSound
<1>3. Waiters(p) \cap {pcbs[p].parent} = Waiters(p)
  <2>1. \A w \in Waiters(p) : w \in Active /\ pcbs[w].waiting_for # 0
    BY ControlTypes DEF Waiters
  <2>2. \A w \in Waiters(p) : w = pcbs[p].parent
    BY <1>2, <2>1, OneWaiter
  <2> QED
    BY <2>2
<1>4. /\ g_pipes' = AtEof(WrittenBy(p))
      /\ pcbs' = Ended(Answered(Waiters(p)), p)
      /\ thread' = [Resumed(Readers(WrittenBy(p)) \cup ReplyCaps(Waiters(p)))
                      EXCEPT ![p] = "none"]
      /\ replies' = RepliesLeft(Readers(WrittenBy(p)) \cup ReplyCaps(Waiters(p)), {p})
      /\ free_slots' \in Freed(free_slots,
           Readers(WrittenBy(p)) \cup ReplyCaps(Waiters(p)) \cup pcbs[p].caps)
      /\ occupied' = Emptied(pcbs[p].caps)
      /\ UNCHANGED <<readyVars, fresh_slots, halted>>
  BY <1>3 DEF ThreadExit
<1>5. pcbs[p].caps \cup {} = pcbs[p].caps /\ pcbs[p].caps \in SUBSET pcbs[p].caps
  OBVIOUS
<1> QED
  BY <1>1, <1>4, <1>5, ExitWake

(* SYS_EXIT keeps the invariant. *)
LEMMA SysExitWake ==
  ASSUME Inv, WakeInv, NEW p \in Pid, SysExit(p)
  PROVE  SlotsStep /\ WakeInv' /\ WakeStep
<1>1. /\ p \in Active /\ thread[p] = "running"
      /\ \A q \in Orphans(p) : thread[q] = "none"
  BY DEF SysExit, Calls, Active
<1>2. \A q \in Active :
        IsThread(q) /\ pcbs[q].parent = p /\ ~IsThread(p) => thread[q] = "none"
  BY <1>1 DEF Orphans
<1>3. PICK D : D = {pcbs[p].tcb, pcbs[p].vspace}
  OBVIOUS
<1>4. PICK S : S = Readers(WrittenBy(p)) \cup ReplyCaps(Waiters(p))
  OBVIOUS
<1>5. /\ g_pipes' = AtEof(WrittenBy(p))
      /\ pcbs' = Ended(Answered(Waiters(p)), p)
      /\ thread' = [Resumed(S) EXCEPT ![p] = "none"]
      /\ replies' = RepliesLeft(S, {p})
      /\ free_slots' \in Freed(free_slots, S)
      /\ occupied' = Emptied(D)
      /\ UNCHANGED <<readyVars, fresh_slots, halted>>
  BY <1>3, <1>4 DEF SysExit
<1>6. PICK C \in SUBSET pcbs[p].caps : C = {}
  OBVIOUS
<1>7. C \cup D = D /\ S \cup C = S
  BY <1>6
<1> QED
  BY <1>1, <1>2, <1>4, <1>5, <1>7, ExitWake

(* What spawn_process does. *)
LEMMA SpawnCases ==
  ASSUME NEW name, NEW st, spawn_process(name, st)
  PROVE  \/ /\ pcbs' = st.pcbs /\ thread' = st.thread
            /\ free_slots' = st.free_slots /\ occupied' = st.occupied
            /\ UNCHANGED fresh_slots
         \/ \E n \in Pid \ Active, N \in Grants(ProcCaps, st.free_slots) :
              \E tv \in Places(N) :
                /\ pcbs' = [st.pcbs EXCEPT ![n] = ProcessPcb(name, N, tv[1], tv[2])]
                /\ thread' = [st.thread EXCEPT ![n] = "running"]
                /\ free_slots' = st.free_slots \ N
                /\ fresh_slots' = fresh_slots \ N
                /\ occupied' = st.occupied \cup N
BY DEF spawn_process, IsFirst

(* A new entry n with the slots N, the other entries within T. *)
LEMMA EntrySlots ==
  ASSUME NEW n \in Pid, NEW N \in SUBSET Slot,
         \A q \in Pid \ {n} : Within(pcbs'[q], pcbs[q]),
         pcbs'[n].caps = N, pcbs'[n].reply_cap = NoSlot, pcbs'[n].has_shm = FALSE,
         PipesWithin(g_pipes', g_pipes), UNCHANGED driver_ready_wait_reply
  PROVE  /\ ObjectSlots' \subseteq ObjectSlots \cup N
         /\ ReplySlots' \subseteq ReplySlots
         /\ N \subseteq ObjectSlots'
<1>0. NoSlot \notin Slot
  BY SlotAssumption
<1>1. \A q \in Pid \ {n} : /\ pcbs'[q].caps \subseteq pcbs[q].caps
                           /\ pcbs'[q].reply_cap \in {pcbs[q].reply_cap, NoSlot}
                           /\ ShmOf(pcbs'[q]) \subseteq ShmOf(pcbs[q])
  <2> TAKE q \in Pid \ {n}
  <2>1. Within(pcbs'[q], pcbs[q])
    OBVIOUS
  <2> QED
    BY <2>1 DEF Within, ShmOf
<1>2. ShmOf(pcbs'[n]) = {}
  BY DEF ShmOf
<1>3. ObjectSlots' \subseteq ObjectSlots \cup N /\ N \subseteq ObjectSlots'
  BY <1>1, <1>2 DEF ObjectSlots
<1>4. ReplySlots' \subseteq ReplySlots
  BY <1>0, <1>1 DEF ReplySlots, PipesWithin
<1> QED
  BY <1>3, <1>4

(* SYS_EXEC *)
LEMMA SysExecWake ==
  ASSUME Inv, WakeInv, NEW p \in Pid, SysExec(p)
  PROVE  SlotsStep /\ WakeInv' /\ WakeStep
<1>1. /\ pcbs \in Table
      /\ free_slots \in SUBSET Slot /\ fresh_slots \in SUBSET Slot
      /\ free_slots \cap fresh_slots = {}
      /\ thread \in [Pid -> {"none", "running", "blocked"}]
  BY DEF Inv, TypeOK, NoAliasing
<1>2. spawn_process("app", Here) /\ UNCHANGED <<g_pipes, readyVars, replies>>
  BY DEF SysExec
<1>3. /\ Here.pcbs = pcbs /\ Here.thread = thread
      /\ Here.free_slots = free_slots /\ Here.occupied = occupied
  BY DEF Here
<1>4. CASE /\ pcbs' = pcbs /\ thread' = thread
           /\ free_slots' = free_slots /\ occupied' = occupied
           /\ UNCHANGED fresh_slots
  <2>1. UNCHANGED <<pcbs, g_pipes, driver_ready_wait_reply, slotVars>>
        /\ UNCHANGED <<thread, replies>>
    BY <1>2, <1>4 DEF slotVars, readyVars
  <2> QED
    BY <1>4, <2>1, SameSlots, QuietStep, SameTable
<1>5. ASSUME NEW n \in Pid \ Active, NEW N \in Grants(ProcCaps, free_slots),
             NEW tv \in Places(N),
             /\ pcbs' = [pcbs EXCEPT ![n] = ProcessPcb("app", N, tv[1], tv[2])]
             /\ thread' = [thread EXCEPT ![n] = "running"]
             /\ free_slots' = free_slots \ N
             /\ fresh_slots' = fresh_slots \ N
             /\ occupied' = occupied \cup N
      PROVE  SlotsStep /\ WakeInv' /\ WakeStep
  <2>1. N \subseteq Available /\ N \in SUBSET Slot /\ Available' \subseteq Available
    <3>1. ProcCaps \in Nat
      BY SlotAssumption
    <3> QED
      BY <1>1, <1>5, <3>1, GrantsOf DEF Available
  <2>2. PICK c : c = ProcessPcb("app", N, tv[1], tv[2])
    OBVIOUS
  <2>3. /\ c.active /\ c.name = "app" /\ c.waiting_for = 0
        /\ c.caps = N /\ c.reply_cap = NoSlot /\ c.has_shm = FALSE
    BY <2>2 DEF ProcessPcb
  <2>4. pcbs'[n] = c /\ \A q \in Pid \ {n} : pcbs'[q] = pcbs[q]
    BY <1>1, <1>5, <2>2 DEF Table
  <2>5. /\ \A q \in Pid \ {n} : Within(pcbs'[q], pcbs[q])
        /\ \A q \in Pid \ {n} : SameControl(pcbs'[q], pcbs[q])
        /\ PipesWithin(g_pipes', g_pipes) /\ UNCHANGED driver_ready_wait_reply
    BY <1>2, <2>4 DEF Within, SameControl, PipesWithin, readyVars
  <2>6. /\ ObjectSlots' \subseteq ObjectSlots \cup N
        /\ ReplySlots' \subseteq ReplySlots /\ N \subseteq ObjectSlots'
    <3>1. /\ n \in Pid /\ pcbs'[n].caps = N /\ pcbs'[n].reply_cap = NoSlot
          /\ pcbs'[n].has_shm = FALSE
      BY <2>3, <2>4
    <3> QED
      BY <2>1, <2>5, <3>1, EntrySlots
  <2>7. SlotsStep
    BY <1>2, <1>5, <2>1, <2>6 DEF SlotsStep
  <2>8. \A q \in Pid \ {n} : thread'[q] = thread[q]
    BY <1>1, <1>5
  <2>9. WakeInv' /\ WakeStep
    BY <1>2, <2>3, <2>4, <2>5, <2>8, StartStep
  <2> QED
    BY <2>7, <2>9
<1> QED
  BY <1>2, <1>3, <1>4, <1>5, SpawnCases

(* SYS_CLONE *)
LEMMA SysCloneWake ==
  ASSUME Inv, WakeInv, NEW p \in Pid, NEW i, SysClone(p, i)
  PROVE  SlotsStep /\ WakeInv' /\ WakeStep
<1>1. /\ pcbs \in Table /\ RestOK
      /\ free_slots \in SUBSET Slot /\ fresh_slots \in SUBSET Slot
      /\ free_slots \cap fresh_slots = {}
      /\ thread \in [Pid -> {"none", "running", "blocked"}]
  BY InvParts DEF Inv, TypeOK, NoAliasing
<1>2. p \in Active /\ pcbs[p].name = "shell"
  BY DEF SysClone, Calls, Active
<1>3. CASE Panic
  BY <1>3, StutterWake
<1>4. CASE ~Panic
  <2>1. PICK n \in Pid \ Active, N \in Grants(ThreadCaps, free_slots) :
          /\ \E tcb \in N : pcbs' = [pcbs EXCEPT ![n] = ThreadPcb(p, N, tcb)]
          /\ thread' = [thread EXCEPT ![n] = "running"]
          /\ g_pipes' = IF i \in PipeId
                        THEN [g_pipes EXCEPT ![i].writer_pid = n] ELSE g_pipes
          /\ free_slots' = free_slots \ N
          /\ fresh_slots' = fresh_slots \ N
          /\ occupied' = occupied \cup N
          /\ UNCHANGED <<readyVars, replies, halted>>
    BY <1>4 DEF SysClone, IsFirst
  <2>2. N \subseteq Available /\ N \in SUBSET Slot /\ Available' \subseteq Available
    <3>1. ThreadCaps \in Nat
      BY SlotAssumption
    <3> QED
      BY <1>1, <2>1, <3>1, GrantsOf DEF Available
  <2>3. PICK c : /\ pcbs' = [pcbs EXCEPT ![n] = c]
                 /\ \E tcb \in N : c = ThreadPcb(p, N, tcb)
    BY <2>1
  <2>4. /\ c.active /\ c.name = "shell_thread" /\ c.parent = p /\ c.waiting_for = 0
        /\ c.caps = N /\ c.reply_cap = NoSlot /\ c.has_shm = FALSE
    <3>1. PICK tcb \in N : c = ThreadPcb(p, N, tcb)
      BY <2>3
    <3> QED
      BY <3>1 DEF ThreadPcb
  <2>5. pcbs'[n] = c /\ \A q \in Pid \ {n} : pcbs'[q] = pcbs[q]
    BY <1>1, <2>3 DEF Table
  <2>6. PipesWithin(g_pipes', g_pipes)
    BY <1>1, <2>1 DEF PipesWithin, RestOK, Pipe
  <2>7. /\ \A q \in Pid \ {n} : Within(pcbs'[q], pcbs[q])
        /\ \A q \in Pid \ {n} : SameControl(pcbs'[q], pcbs[q])
        /\ UNCHANGED driver_ready_wait_reply
    BY <2>1, <2>5 DEF Within, SameControl, readyVars
  <2>8. /\ ObjectSlots' \subseteq ObjectSlots \cup N
        /\ ReplySlots' \subseteq ReplySlots /\ N \subseteq ObjectSlots'
    <3>1. /\ n \in Pid /\ pcbs'[n].caps = N /\ pcbs'[n].reply_cap = NoSlot
          /\ pcbs'[n].has_shm = FALSE
      BY <2>4, <2>5
    <3> QED
      BY <2>2, <2>6, <2>7, <3>1, EntrySlots
  <2>9. SlotsStep
    BY <2>1, <2>2, <2>8 DEF SlotsStep
  <2>10. \A q \in Pid \ {n} : thread'[q] = thread[q]
    BY <1>1, <2>1
  <2>11. WakeInv' /\ WakeStep
    BY <1>2, <2>1, <2>4, <2>5, <2>7, <2>10, StartStep
  <2> QED
    BY <2>9, <2>11
<1> QED
  BY <1>3, <1>4

(* generic_recover_process *)
LEMMA RecoverWake ==
  ASSUME Inv, WakeInv, NEW v \in Active, generic_recover_process(v)
  PROVE  SlotsStep /\ WakeInv' /\ WakeStep
<1>1. /\ pcbs \in Table /\ RestOK /\ v \in Pid
      /\ free_slots \in SUBSET Slot /\ fresh_slots \in SUBSET Slot
      /\ free_slots \cap fresh_slots = {}
  BY InvParts DEF Inv, TypeOK, NoAliasing, Active
<1> DEFINE W == Waiters(v)
           Without(pool) ==
             [pcbs |-> Ended(Answered(W), v),
              thread |-> [q \in Pid |-> IF q = v \/ q \in Orphans(v)
                                        THEN "none" ELSE Resumed(ReplyCaps(W))[q]],
              free_slots |-> pool,
              occupied |-> Emptied(ReturnedBy(v))]
<1>2. PICK pool \in Freed(free_slots, ReturnedBy(v)) :
        IF pcbs[v].name \in Archive
        THEN spawn_process(pcbs[v].name, Without(pool))
        ELSE /\ pcbs' = Without(pool).pcbs
             /\ thread' = Without(pool).thread
             /\ free_slots' = pool
             /\ occupied' = Without(pool).occupied
             /\ UNCHANGED <<fresh_slots, halted>>
  BY DEF generic_recover_process
<1>3. /\ replies' = RepliesLeft(ReplyCaps(W), {v})
      /\ UNCHANGED <<g_pipes, driver_ready, driver_ready_wait_reply>>
  BY DEF generic_recover_process, readyVars
<1>4. PICK st : st = Without(pool)
  OBVIOUS
<1>5. PICK T : T = Ended(Answered(W), v)
  OBVIOUS
<1>6. PICK H : H = [q \in Pid |-> IF q = v \/ q \in Orphans(v)
                                  THEN "none" ELSE Resumed(ReplyCaps(W))[q]]
  OBVIOUS
<1>7. /\ st.pcbs = T /\ st.thread = H
      /\ st.free_slots = pool /\ st.occupied = Emptied(ReturnedBy(v))
  BY <1>4, <1>5, <1>6
<1>8. IF pcbs[v].name \in Archive
      THEN spawn_process(pcbs[v].name, st)
      ELSE /\ pcbs' = st.pcbs
           /\ thread' = st.thread
           /\ free_slots' = st.free_slots
           /\ occupied' = st.occupied
           /\ UNCHANGED <<fresh_slots, halted>>
  BY <1>2, <1>4, <1>7
<1> HIDE DEF W, Without
<1>9. /\ T \in Table /\ T[v].active = FALSE
      /\ \A q \in Pid : Within(T[q], pcbs[q])
      /\ \A q \in Pid \ {v} :
           IF q \in Waiters(v)
           THEN /\ T[q].active /\ T[q].name = pcbs[q].name
                /\ T[q].parent = pcbs[q].parent /\ T[q].waiting_for = 0
           ELSE SameControl(T[q], pcbs[q])
  BY <1>1, <1>5, EndControl DEF W
<1>10. /\ H[v] = "none" /\ DOMAIN H = Pid
       /\ \A q \in Active \ {v} : \/ H[q] = Resumed({} \cup ReplyCaps(Waiters(v)))[q]
                                  \/ H[q] = "none" /\ IsThread(q)
       /\ \A q \in Active :
            IsThread(q) /\ pcbs[q].parent = v /\ ~IsThread(v) => H[q] = "none"
  <2>1. {} \cup ReplyCaps(Waiters(v)) = ReplyCaps(W)
    BY DEF W
  <2>2. \A q \in Pid : H[q] = IF q = v \/ q \in Orphans(v)
                              THEN "none" ELSE Resumed(ReplyCaps(W))[q]
    BY <1>6
  <2>3. H[v] = "none" /\ DOMAIN H = Pid
    BY <1>1, <1>6
  <2>4. \A q \in Active : q \in Pid
    BY DEF Active
  <2> HIDE DEF W
  <2> QED
    BY <2>1, <2>2, <2>3, <2>4 DEF Orphans
<1>11. /\ pool \subseteq free_slots \cup ReturnedBy(v)
       /\ ReturnedBy(v) \subseteq ObjectSlots /\ pool \in SUBSET Slot
       /\ pool \cap fresh_slots = {}
  <2>1. ReturnedBy(v) \in SUBSET Slot
    BY <1>1, ReturnedSlots DEF Waiters, Active
  <2>2. ReturnedBy(v) \subseteq ObjectSlots
    BY <1>1, ReturnedObjects
  <2>3. ReturnedBy(v) \in SUBSET Slot0
    BY <2>1 DEF Slot0
  <2>4. pool \subseteq free_slots \cup (ReturnedBy(v) \ {NoSlot}) /\ pool \in SUBSET Slot
    BY <1>1, <2>3, FreedOf
  <2>5. \A s \in ReturnedBy(v) : s \notin Available
    BY <2>1, <2>2, SlotKinds
  <2> QED
    BY <1>1, <2>2, <2>4, <2>5 DEF Available
<1>12. \A s \in Slot : replies'[s] # 0 => replies[s] # 0
  BY <1>3, LeftReplies
<1>13. PipesWithin(g_pipes', g_pipes) /\ OtherReplies({})
  BY <1>3 DEF PipesWithin, OtherReplies
<1>14. replies' = RepliesLeft({} \cup ReplyCaps(Waiters(v)), {v})
  <2>1. {} \cup ReplyCaps(Waiters(v)) = ReplyCaps(W)
    BY DEF W
  <2> QED
    BY <1>3, <2>1
(* Nothing is started. *)
<1>15. CASE /\ pcbs' = T /\ thread' = H /\ free_slots' = pool
            /\ occupied' = Emptied(ReturnedBy(v)) /\ UNCHANGED fresh_slots
  <2>1. SlotsStep
    <3>1. PICK X : X = ReturnedBy(v)
      OBVIOUS
    <3>2. \A s \in X : s \in ObjectSlots /\ s \notin occupied'
      BY <1>11, <1>15, <3>1 DEF Emptied
    <3>3. occupied' \subseteq occupied
      BY <1>15 DEF Emptied
    <3> QED
      BY <1>3, <1>9, <1>11, <1>12, <1>13, <1>15, <3>1, <3>2, <3>3, ReleaseSlots
  <2>2. EndsFor(v, {}, {})
    <3>1. Pid \ ({} \cup {v}) = Pid \ {v}
      OBVIOUS
    <3> QED
      BY <1>9, <1>10, <1>14, <1>15, <3>1 DEF EndsFor
  <2> QED
    BY <1>13, <2>1, <2>2, EndStep
(* A new instance is started. *)
<1>16. ASSUME pcbs[v].name \in Archive, NEW n \in Pid \ Active,
              NEW N \in Grants(ProcCaps, pool), NEW tv \in Places(N),
              /\ pcbs' = [T EXCEPT ![n] = ProcessPcb(pcbs[v].name, N, tv[1], tv[2])]
              /\ thread' = [H EXCEPT ![n] = "running"]
              /\ free_slots' = pool \ N
              /\ fresh_slots' = fresh_slots \ N
              /\ occupied' = Emptied(ReturnedBy(v)) \cup N
       PROVE  SlotsStep /\ WakeInv' /\ WakeStep
  <2>1. N \subseteq pool \cup fresh_slots /\ N \in SUBSET Slot
    <3>1. ProcCaps \in Nat
      BY SlotAssumption
    <3> QED
      BY <1>1, <1>11, <1>16, <3>1, GrantsOf
  <2>2. PICK c : c = ProcessPcb(pcbs[v].name, N, tv[1], tv[2])
    OBVIOUS
  <2>3. /\ c.name = pcbs[v].name /\ c.waiting_for = 0
        /\ c.caps = N /\ c.reply_cap = NoSlot /\ c.has_shm = FALSE
    BY <2>2 DEF ProcessPcb
  <2>4. pcbs'[n] = c /\ \A q \in Pid \ {n} : pcbs'[q] = T[q]
    BY <1>9, <1>16, <2>2 DEF Table
  <2>5. \A q \in Pid \ {n} : thread'[q] = H[q]
    BY <1>10, <1>16
  <2>6. /\ ObjectSlots' \subseteq ObjectSlots \cup N
        /\ ReplySlots' \subseteq ReplySlots /\ N \subseteq ObjectSlots'
    <3>1. /\ n \in Pid /\ pcbs'[n].caps = N /\ pcbs'[n].reply_cap = NoSlot
          /\ pcbs'[n].has_shm = FALSE
      BY <2>3, <2>4
    <3>2. \A q \in Pid \ {n} : Within(pcbs'[q], pcbs[q])
      BY <1>9, <2>4
    <3>3. UNCHANGED driver_ready_wait_reply
      BY <1>3
    <3> QED
      BY <1>13, <2>1, <3>1, <3>2, <3>3, EntrySlots
  <2>7. SlotsStep
    <3>1. /\ free_slots' = pool \ N /\ fresh_slots' = fresh_slots \ N
          /\ occupied' = (occupied \ ReturnedBy(v)) \cup N
      BY <1>16 DEF Emptied
    <3>2. N \subseteq ObjectSlots \cup Available
      BY <1>11, <2>1 DEF Available
    <3>3. \A s \in Available' :
            s \in Available \/ (s \in ObjectSlots /\ s \notin occupied')
      BY <1>11, <3>1 DEF Available
    <3>4. occupied' \subseteq occupied \cup ObjectSlots'
      BY <2>6, <3>1
    <3> QED
      BY <1>12, <2>6, <3>2, <3>3, <3>4 DEF SlotsStep
  <2>8. EndsFor(v, {}, {n})
    <3>1. n # v /\ {n} \subseteq Pid \ Active /\ \A q \in Active : q \in Pid \ {n}
      BY <1>1 DEF Active
    <3>2. pcbs'[v].active = FALSE
      BY <1>1, <1>9, <2>4, <3>1
    <3>3. ASSUME NEW q \in Pid \ ({n} \cup {v})
          PROVE  IF q \in Waiters(v)
                 THEN /\ pcbs'[q].active /\ pcbs'[q].name = pcbs[q].name
                      /\ pcbs'[q].parent = pcbs[q].parent /\ pcbs'[q].waiting_for = 0
                 ELSE SameControl(pcbs'[q], pcbs[q])
      <4>1. q \in Pid \ {v} /\ pcbs'[q] = T[q]
        BY <2>4
      <4> QED
        BY <1>9, <4>1
    <3>4. \A q \in {n} : /\ pcbs'[q].name = pcbs[v].name /\ pcbs[v].name \in Archive
                         /\ pcbs'[q].waiting_for = 0
                         /\ \A r \in {n} : r = q
      BY <1>16, <2>3, <2>4
    <3>5. \A q \in Active : thread'[q] = H[q]
      BY <2>5, <3>1
    <3> QED
      BY <1>10, <1>14, <3>1, <3>2, <3>3, <3>4, <3>5 DEF EndsFor
  <2> QED
    BY <1>13, <2>7, <2>8, EndStep
<1>17. CASE pcbs[v].name \in Archive
  <2>1. \/ /\ pcbs' = T /\ thread' = H
           /\ free_slots' = pool /\ occupied' = Emptied(ReturnedBy(v))
           /\ UNCHANGED fresh_slots
        \/ \E n \in Pid \ Active, N \in Grants(ProcCaps, pool) :
             \E tv \in Places(N) :
               /\ pcbs' = [T EXCEPT ![n] = ProcessPcb(pcbs[v].name, N, tv[1], tv[2])]
               /\ thread' = [H EXCEPT ![n] = "running"]
               /\ free_slots' = pool \ N
               /\ fresh_slots' = fresh_slots \ N
               /\ occupied' = Emptied(ReturnedBy(v)) \cup N
    BY <1>7, <1>8, <1>17, SpawnCases
  <2> QED
    BY <1>15, <1>16, <1>17, <2>1
<1>18. CASE pcbs[v].name \notin Archive
  BY <1>7, <1>8, <1>15, <1>18
<1> QED
  BY <1>17, <1>18

(* SYS_KILL of a thread *)
LEMMA SysKillWake ==
  ASSUME Inv, WakeInv, NEW p \in Pid, NEW t \in Pid, SysKill(p, t)
  PROVE  SlotsStep /\ WakeInv' /\ WakeStep
<1>1. /\ pcbs \in Table /\ t \in Active
      /\ p \in Active /\ thread[p] = "running" /\ pcbs[p].name = "shell"
  BY InvParts DEF SysKill, Calls, Active
<1>2. CASE ~IsThread(t)
  <2>1. generic_recover_process(t)
    BY <1>2 DEF SysKill
  <2> QED
    BY <1>1, <2>1, RecoverWake
<1>3. CASE IsThread(t)
  <2>1. PICK gone : gone = {pcbs[t].tcb, pcbs[t].vspace}
    OBVIOUS
  <2>2. PICK dead : dead = {q \in Active : q = t \/ pcbs[q].tcb \in gone}
    OBVIOUS
  <2>3. /\ pcbs' = Ended(pcbs, t)
        /\ thread' = [q \in Pid |-> IF q \in dead THEN "none" ELSE thread[q]]
        /\ occupied' = Emptied(gone)
        /\ replies' = RepliesLeft(gone, dead)
        /\ UNCHANGED <<g_pipes, readyVars, allocVars>>
    BY <1>3, <2>1, <2>2 DEF SysKill
  <2>4. gone \in SUBSET Slot0 /\ t \in dead
    <3>1. pcbs[t] \in PCB
      BY <1>1 DEF Table, GoodPcb
    <3> QED
      BY <1>1, <2>1, <2>2, <3>1 DEF PCB
  <2>5. /\ pcbs'[t] = UnusedPcb /\ \A q \in Pid \ {t} : pcbs'[q] = pcbs[q]
        /\ \A q \in Pid : Within(pcbs'[q], pcbs[q])
    BY <1>1, <2>3, EndedTable
  <2>6. ~pcbs'[t].active
    <3>1. UnusedPcb.active = FALSE
      BY DEF UnusedPcb
    <3> QED
      BY <2>5, <3>1
  <2>7. \A q \in Pid \ {t} : SameControl(pcbs'[q], pcbs[q])
    BY <2>5 DEF SameControl
  <2>8. /\ PipesWithin(g_pipes', g_pipes)
        /\ driver_ready_wait_reply' \in {driver_ready_wait_reply, NoSlot}
        /\ UNCHANGED <<free_slots, fresh_slots>>
    BY <2>3 DEF PipesWithin, readyVars, allocVars
  <2>9. /\ \A s \in Slot : replies'[s] # 0 => replies[s] # 0
        /\ occupied' \subseteq occupied
    BY <2>3, LeftReplies DEF Emptied
  <2>10. ObjectSlots' \subseteq ObjectSlots /\ ReplySlots' \subseteq ReplySlots
    BY <2>5, <2>8, ShrinkSlots
  <2>11. SlotsStep
    BY <2>8, <2>9, <2>10 DEF SlotsStep, Available
  <2>12. WakeInv' /\ WakeStep
    BY <1>1, <1>3, <2>3, <2>4, <2>6, <2>7, KillStep
  <2> QED
    BY <2>11, <2>12
<1> QED
  BY <1>2, <1>3

-----------------------------------------------------------------------------
(* Boot, and the theorems. *)

(* The drivers and the shell have different names. *)
LEMMA BootNamesDiffer ==
  ASSUME NEW p \in BootPids, NEW q \in BootPids, p # q
  PROVE  BootName(p) # BootName(q)
<1>0. BootOrder \in Seq(STRING)
  BY BootAssumption, Zenon
<1>1. Len(BootOrder) \in Nat
  BY <1>0
<1>2. /\ \A i \in 1 .. Len(BootOrder) : BootOrder[i] # "shell"
      /\ \A i, j \in 1 .. Len(BootOrder) : BootOrder[i] = BootOrder[j] => i = j
  BY BootAssumption
<1>3. \A i \in BootPids : i \in 1 .. Len(BootOrder) \/ i = Len(BootOrder) + 1
  BY <1>1 DEF BootPids
<1> QED
  BY <1>2, <1>3 DEF BootName

(* The invariant holds when the boot is done. *)
LEMMA InitWake == Init => KInv
<1> SUFFICES ASSUME Init PROVE KInv
  OBVIOUS
<1>0. Inv
  BY InitInv
<1>1. PICK boot \in [BootPids -> SUBSET Slot], tv \in [BootPids -> Slot \X Slot] :
        /\ pcbs = [p \in Pid |->
                     IF p \in BootPids
                     THEN ProcessPcb(BootName(p), boot[p], tv[p][1], tv[p][2])
                     ELSE UnusedPcb]
        /\ occupied = UNION {boot[p] : p \in BootPids}
  BY DEF Init
<1>2. /\ fresh_slots = Slot \ occupied
      /\ g_pipes = [i \in PipeId |-> UnusedPipe]
      /\ driver_ready_wait_reply = NoSlot
      /\ free_slots = {}
      /\ replies = [s \in Slot0 |-> 0]
  BY DEF Init
<1>3. NoSlot \notin Slot /\ \A s \in Slot : s \in Slot0
  BY SlotAssumption DEF Slot0
<1>4. ASSUME NEW p \in Pid
      PROVE  /\ pcbs[p].reply_cap = NoSlot /\ pcbs[p].waiting_for = 0
             /\ p \in BootPids => pcbs[p].name = BootName(p)
             /\ p \notin BootPids => pcbs[p].active = FALSE
  <2>1. CASE p \in BootPids
    BY <1>1, <2>1 DEF ProcessPcb
  <2>2. CASE p \notin BootPids
    BY <1>1, <2>2 DEF UnusedPcb
  <2> QED
    BY <2>1, <2>2
<1>5. Active \subseteq BootPids /\ Active \subseteq Pid
  BY <1>4 DEF Active
<1>6. ReplySlots = {}
  <2>1. \A i \in PipeId : g_pipes[i].reader_reply_cap = NoSlot
    BY <1>2 DEF UnusedPipe
  <2> QED
    BY <1>2, <1>3, <1>4, <2>1 DEF ReplySlots
<1>7. SlotsSound
  BY <1>2, <1>3, <1>6 DEF SlotsSound, Available
<1>8. RepliesSound
  BY <1>2 DEF RepliesSound
<1>9. WaitersSound
  BY <1>4, <1>5 DEF WaitersSound
<1>10. ParentsSound
  BY <1>4, <1>5, BootNames DEF ParentsSound, IsThread
<1>11. OneInstance
  <2>1. ASSUME NEW p \in Active, NEW q \in Active, p # q
        PROVE  pcbs[p].name # pcbs[q].name
    <3>1. p \in BootPids /\ q \in BootPids /\ p \in Pid /\ q \in Pid
      BY <1>5
    <3>2. BootName(p) # BootName(q)
      BY <2>1, <3>1, BootNamesDiffer
    <3>3. pcbs[p].name = BootName(p) /\ pcbs[q].name = BootName(q)
      BY <1>4, <3>1
    <3> QED
      BY <3>2, <3>3
  <2> QED
    BY <2>1 DEF OneInstance
<1> QED
  BY <1>0, <1>7, <1>8, <1>9, <1>10, <1>11 DEF KInv, WakeInv

(* Every handler keeps the invariant and wakes nobody too early. *)
LEMMA NextWake ==
  ASSUME KInv, ShmOnce, [Next]_vars
  PROVE  KInv' /\ WakeStep
<1>1. Inv /\ SlotsSound /\ WakeInv
  BY DEF KInv
<1>2. Inv'
  BY <1>1, NextInv
<1>3. SlotsStep /\ WakeInv' /\ WakeStep
  <2>1. CASE UNCHANGED vars
    BY <1>1, <2>1, StutterWake
  <2>2. CASE Next
    <3>1. PICK p \in Pid :
            \/ PageFault(p)
            \/ Fault(p)
            \/ SysPipe(p)
            \/ \E data \in Chunk : PipeWrite(p, data)
            \/ PipeRead(p)
            \/ PipeWrClose(p)
            \/ PipeClose(p)
            \/ \E t \in Pid : SysWait(p, t)
            \/ \E i \in PipeId \cup {NoPipe} : SysClone(p, i)
            \/ ThreadExit(p)
            \/ SysExec(p)
            \/ \E t \in Pid : SysKill(p, t)
            \/ SysExit(p)
            \/ DriverReady(p)
            \/ WaitAllReady(p)
            \/ ShmGet(p)
            \/ \E name \in Driver \cup {"shell"} : SysRecover(p, name)
      BY <2>2 DEF Next
    <3>2. CASE Fault(p)
      <4>1. p \in Active /\ (generic_recover_process(p) \/ Panic)
        BY <3>2 DEF Fault, Calls, Active
      <4> QED
        BY <1>1, <4>1, RecoverWake, StutterWake
    <3>3. CASE \E name \in Driver \cup {"shell"} : SysRecover(p, name)
      <4>1. PICK t \in Active : generic_recover_process(t)
        BY <3>3 DEF SysRecover, IsFirst
      <4> QED
        BY <1>1, <4>1, RecoverWake
    <3>4. CASE PageFault(p) \/ SysPipe(p) \/ PipeRead(p) \/ PipeWrClose(p)
      BY <1>1, <3>4, PageFaultWake, SysPipeWake, PipeReadWake, PipeWrCloseWake
    <3>5. CASE \E data \in Chunk : PipeWrite(p, data)
      BY <1>1, <3>5, PipeWriteWake
    <3>6. CASE \E t \in Pid : SysWait(p, t)
      BY <1>1, <3>6, SysWaitWake
    <3>7. CASE \E i \in PipeId \cup {NoPipe} : SysClone(p, i)
      BY <1>1, <3>7, SysCloneWake
    <3>8. CASE PipeClose(p) \/ ThreadExit(p) \/ SysExec(p) \/ SysExit(p)
      BY <1>1, <3>8, PipeCloseWake, ThreadExitWake, SysExecWake, SysExitWake
    <3>9. CASE \E t \in Pid : SysKill(p, t)
      BY <1>1, <3>9, SysKillWake
    <3>10. CASE DriverReady(p) \/ WaitAllReady(p) \/ ShmGet(p)
      BY <1>1, <3>10, DriverReadyWake, WaitAllReadyWake, ShmGetWake
    <3> QED
      BY <3>1, <3>2, <3>3, <3>4, <3>5, <3>6, <3>7, <3>8, <3>9, <3>10
  <2> QED
    BY <2>1, <2>2
<1>4. SlotsSound'
  BY <1>1, <1>2, <1>3, SlotsStepSound
<1> QED
  BY <1>2, <1>3, <1>4 DEF KInv

(* The inductive invariant of this module. *)
THEOREM WakeInvariant ==
  ASSUME ShmOnce
  PROVE  Spec => []KInv
<1>1. Init => KInv
  BY InitWake
<1>2. KInv /\ [Next]_vars => KInv'
  BY NextWake
<1> QED
  BY <1>1, <1>2, PTL DEF Spec

(* What alloc_slot() hands out is empty in the kernel: no retype, mint or  *)
(* seL4_CNode_SaveCaller ever fails because its destination is in use.     *)
THEOREM AllocatedSlotsAreEmpty ==
  ASSUME ShmOnce
  PROVE  Spec => []FreeSlotsEmpty
<1>1. KInv => FreeSlotsEmpty
  <2>1. Inv => Available \subseteq Slot
    BY DEF Inv, TypeOK, Available
  <2> QED
    BY <2>1 DEF KInv, SlotsSound, FreeSlotsEmpty
<1> QED
  BY <1>1, WakeInvariant, PTL

(* A process in SYS_WAIT is blocked, its reply cap is where its PCB says,  *)
(* and the process it waits for is still to end - whoever exits, faults,   *)
(* is killed or recovered meanwhile.                                       *)
THEOREM WaitersCanBeWoken ==
  ASSUME ShmOnce
  PROVE  Spec => []NoMissedWake
<1>1. KInv => NoMissedWake
  BY DEF KInv, WakeInv, WaitersSound, NoMissedWake
<1> QED
  BY <1>1, WakeInvariant, PTL

(* Recovery and SYS_KILL never leave two instances of a driver or two      *)
(* shells: the old one is gone when the new one is in the table.           *)
THEOREM NoSecondInstance ==
  ASSUME ShmOnce
  PROVE  Spec => []OneInstance
<1>1. KInv => OneInstance
  BY DEF KInv, WakeInv
<1> QED
  BY <1>1, WakeInvariant, PTL

(* SYS_WAIT returns only when the process waited for has ended: no answer  *)
(* meant for another process, and no restart under the same PID, ends it.  *)
THEOREM WaitsUntilTheEnd ==
  ASSUME ShmOnce
  PROVE  Spec => NoPrematureWake
<1>1. KInv /\ [Next]_vars =>
        [\A p \in Active :
           /\ pcbs[p].waiting_for # 0
           /\ pcbs'[p].active /\ thread'[p] = "running"
           => ~pcbs'[pcbs[p].waiting_for].active]_vars
  BY NextWake DEF WakeStep
<1> QED
  BY <1>1, WakeInvariant, PTL DEF Spec, NoPrematureWake
=============================================================================
