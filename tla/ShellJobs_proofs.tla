-------------------------- MODULE ShellJobs_proofs ---------------------------
(***************************************************************************)
(* The shell's jobs on top of the rootserver, for any number of PIDs,      *)
(* pipes and slots, any set of commands and any length of output (and      *)
(* ShmOnce, as in Rootserver_proofs): what grep reads is what the left     *)
(* side wrote, in order and to the end; the prompt comes after the         *)
(* drivers; every pipe is closed; the shell waits for its own job.         *)
(*                                                                         *)
(* The argument.  Every step of a program is a step of Rootserver, so that *)
(* KInv of RootserverWake_proofs holds here too (JobsAreCalls).  The bytes *)
(* in order (FlowSound) need to know who writes to the pipe and who reads  *)
(* from it: a live ls or grep thread is the one of the job at hand         *)
(* (ThreadsSound), because the shell sleeps in SYS_WAIT until it has       *)
(* ended, and nobody but that end wakes the shell (KInv).  A grep that     *)
(* sleeps does so in the reader slot of this pipe (ReaderSound), so a      *)
(* write answers it with the next byte and the end of file with 0; and the *)
(* end of file is set after the last byte only (EndSound).                 *)
(***************************************************************************)
EXTENDS ShellJobs, RootserverWake_proofs, SequenceTheorems

-----------------------------------------------------------------------------
(* The labels of main(), its locals, and what the others may be doing. *)
ShellPc == {"start", "shm", "prompt", "pipe", "left", "write", "wait_child",
            "right", "wait_left", "wait_right", "close", "crash", "gone"}

ShellState ==
  [pc : ShellPc,
   cmd : {"ls", "text", "silent", "noarg", "exec", "exec_bg", "crash_shell", "exit"},
   right : {"none", "grep", "other"}, is_piping : BOOLEAN,
   left_pid : Pid0, right_pid : Pid0, child : Pid0,
   len : 0 .. MaxOut, sent : 0 .. MaxOut]

Program == {"none", "init", "app", "ls", "grep", "grep_wait", "exit"}

(* JobTypeOK with the whole record, and no program without a process. *)
JobTypes ==
  /\ shell \in ShellState /\ shell.sent <= shell.len
  /\ prog \in [Pid -> Program]
  /\ grepIn \in Seq(Byte)
  /\ \A q \in Pid : prog[q] # "none" => pcbs[q].active

Shells == {p \in Active : pcbs[p].name = "shell"}

(* A shell that has left by exit is not there. *)
ShellGone == shell.pc = "gone" => Shells = {}

(* The shell sleeps until SYS_DRIVER_READY answers it, and nobody else can *)
(* wake it.                                                                *)
AwaitsDrivers(p) ==
  /\ thread[p] # "running" /\ pcbs[p].waiting_for = 0
  /\ \A s \in Slot0 : replies[s] = p => s \in {driver_ready_wait_reply, NoSlot}

BootSound ==
  shell.pc # "start" =>
    \/ AllDriversReady(driver_ready)
    \/ shell.pc = "shm" /\ \A p \in Shells : AwaitsDrivers(p)

(* A thread that may still run: not one whose shell has been replaced. *)
Live(q) == pcbs[q].active /\ IsThread(q) /\ thread[q] # "none"

Programs ==
  \A q \in Pid : prog[q] \in {"ls", "grep", "grep_wait", "exit"} => IsThread(q)

Apps == \A q \in Pid : prog[q] = "app" => pcbs[q].name = "app"

(* The threads that use the pipe are those of the job at hand, and the     *)
(* shell does not get past its SYS_WAIT for one before it has ended.       *)
LsOfJob(p, q) ==
  /\ shell.is_piping /\ q = shell.left_pid /\ q # shell.right_pid
  /\ shell.pc \in {"right", "wait_left", "wait_right"}
  /\ shell.pc = "wait_right" => pcbs[p].waiting_for = q

GrepOfJob(p, q) ==
  /\ shell.is_piping /\ q = shell.right_pid
  /\ shell.pc \in {"wait_left", "wait_right", "close"}
  /\ shell.pc = "close" => pcbs[p].waiting_for = q

ThreadsSound ==
  \A p \in Shells, q \in Pid : Live(q) =>
    /\ prog[q] = "ls" => LsOfJob(p, q)
    /\ prog[q] \in {"grep", "grep_wait"} => GrepOfJob(p, q)

(* As long as the shell knows it, the grep of the job is no thread of a    *)
(* shell that has been replaced.                                           *)
GrepLive ==
  shell.right_pid # 0 /\ prog[shell.right_pid] \in {"grep", "grep_wait", "exit"} =>
    Live(shell.right_pid)

(* What main() has set where. *)
ShellSound ==
  /\ shell.pc \in {"pipe", "left"} =>
       shell.sent = 0 /\ grepIn = <<>> /\ shell.left_pid = 0 /\ shell.right_pid = 0
  /\ shell.pc = "pipe" => ~shell.is_piping
  /\ shell.pc \in {"write", "wait_child", "right"} => shell.right_pid = 0
  /\ shell.pc = "write" => shell.is_piping

(* No command uses the pipe: before its left side runs, and when it has    *)
(* none.                                                                   *)
Idle == \/ shell.pc \in {"start", "shm", "prompt", "pipe", "left", "crash"}
        \/ ~shell.is_piping

(* Pipe i is the shell's own. *)
OwnPipe(p, i) ==
  g_pipes[i].active /\ g_pipes[i].owner_pid = p /\ g_pipes[i].writer_pid = p

IdlePipe(i) ==
  Idle => /\ grepIn = <<>> /\ g_pipes[i].buffer = <<>> /\ ~g_pipes[i].eof
          /\ shell.sent = 0 /\ shell.left_pid = 0 /\ shell.right_pid = 0

(* A sequence of bytes in ascending order, none above n. *)
Ascending(s, n) ==
  /\ \A k \in 1 .. Len(s) : s[k] <= n
  /\ \A j, k \in 1 .. Len(s) : j < k => s[j] < s[k]

(* The bytes 1 .. n. *)
Complete(s, n) == Len(s) = n /\ \A k \in 1 .. n : s[k] = k

Flow(i) == grepIn \o g_pipes[i].buffer

FlowSound(i) ==
  /\ Ascending(Flow(i), shell.sent)
  /\ shell.len <= PipeSize => Complete(Flow(i), shell.sent)

(* The end of file comes after the last byte, and so does grep's end. *)
EndSound(i) ==
  /\ g_pipes[i].eof => shell.sent = shell.len
  /\ shell.right_pid # 0 /\ prog[shell.right_pid] = "exit" =>
       g_pipes[i].buffer = <<>> /\ shell.sent = shell.len

(* The reader that the pipe keeps waiting is the grep of the job, and a    *)
(* grep that waits does so there, unless the CNode was full.               *)
ReaderSound(i) ==
  /\ g_pipes[i].reader_reply_cap # NoSlot =>
       LET q == replies[g_pipes[i].reader_reply_cap]
       IN  q \in Pid /\ Live(q) /\ prog[q] = "grep_wait"
  /\ \A s \in Slot0, q \in Pid :
       replies[s] = q /\ Live(q) /\ prog[q] = "grep_wait" =>
         s \in {g_pipes[i].reader_reply_cap, NoSlot}

JobPipe(p, i) ==
  OwnPipe(p, i) /\ IdlePipe(i) /\ FlowSound(i) /\ EndSound(i) /\ ReaderSound(i)

PipeSound ==
  \A p \in Shells : pcbs[p].pipe_fd # NoPipe => JobPipe(p, pcbs[p].pipe_fd)

JobInv ==
  /\ KInv /\ PipeReaderSound
  /\ JobTypes /\ Programs /\ Apps /\ ShellGone /\ ShellSound
  /\ BootSound /\ ThreadsSound /\ GrepLive /\ PipeSound

-----------------------------------------------------------------------------
(* What the calls do to the process table. *)

(* v, if a PID, ends and n, if a PID, starts; nobody else does. *)
Procs(v, n, name) ==
  /\ \A q \in Pid \ {v, n} :
       /\ pcbs'[q].active = pcbs[q].active /\ pcbs'[q].name = pcbs[q].name
       /\ pcbs'[q].parent = pcbs[q].parent
  /\ v \in Pid => pcbs[v].active /\ ~pcbs'[v].active
  /\ n \in Pid => /\ ~pcbs[n].active /\ pcbs'[n].active /\ pcbs'[n].name = name
                  /\ pcbs'[n].waiting_for = 0 /\ pcbs'[n].pipe_fd = NoPipe
  /\ \A q \in Pid : thread'[q] # "none" => thread[q] # "none" \/ q = n

(* No wait is over but that for v. *)
Waits(v, n) ==
  \A q \in Pid \ {v, n} :
    \/ pcbs'[q].waiting_for = pcbs[q].waiting_for
    \/ pcbs[q].waiting_for = v /\ pcbs'[q].waiting_for = 0

Fds(v, n) == \A q \in Pid \ {v, n} : pcbs'[q].pipe_fd = pcbs[q].pipe_fd

Step(v, n, name) == Procs(v, n, name) /\ Waits(v, n) /\ Fds(v, n)

(* A call after which the table is as it was. *)
LEMMA QuietProcs ==
  ASSUME Inv, UNCHANGED pcbs,
         \A q \in Pid : thread'[q] # "none" => thread[q] # "none"
  PROVE  Step(0, 0, "")
BY ControlTypes DEF Step, Procs, Waits, Fds

(* An answer makes no thread run that does not exist. *)
LEMMA ResumedLive ==
  ASSUME NEW R, thread' = Resumed(R), NEW q \in Pid, thread'[q] # "none"
  PROVE  thread[q] # "none"
BY DEF Resumed

(* Saving the caller makes no thread run that does not exist. *)
LEMMA SavedLive ==
  ASSUME Inv, NEW s, NEW p \in Pid, thread[p] = "running", SaveCaller(s, p),
         NEW q \in Pid, thread'[q] # "none"
  PROVE  thread[q] # "none"
BY ControlTypes DEF SaveCaller

(* A panic leaves the process table as it is. *)
LEMMA PanicProcs == Inv /\ Panic => Step(0, 0, "")
BY QuietProcs DEF Panic

(* The calls that only move bytes or flags leave the process table as it   *)
(* is.                                                                     *)
LEMMA PipeCallsProcs ==
  ASSUME Inv, NEW p \in Pid, NEW data,
         \/ PipeWrite(p, data) \/ PipeWrClose(p) \/ PipeRead(p)
         \/ DriverReady(p) \/ WaitAllReady(p) \/ UNCHANGED vars
  PROVE  Step(0, 0, "") /\ UNCHANGED pcbs
<1> SUFFICES /\ UNCHANGED pcbs
             /\ \A q \in Pid : thread'[q] # "none" => thread[q] # "none"
  BY QuietProcs
<1>1. CASE UNCHANGED thread /\ UNCHANGED pcbs
  BY <1>1
<1>2. CASE UNCHANGED pcbs /\ \E R : thread' = Resumed(R)
  BY <1>2, ResumedLive
<1>3. CASE UNCHANGED pcbs /\ thread[p] = "running" /\ \E s \in Slot0 : SaveCaller(s, p)
  BY <1>3, SavedLive
<1>4. CASE UNCHANGED vars
  BY <1>1, <1>4 DEF vars
<1>5. CASE PipeWrite(p, data)
  BY <1>1, <1>2, <1>5 DEF PipeWrite
<1>6. CASE PipeWrClose(p)
  BY <1>2, <1>6 DEF PipeWrClose
<1>7. CASE PipeRead(p)
  BY <1>1, <1>3, <1>7 DEF PipeRead, Calls
<1>8. CASE DriverReady(p)
  BY <1>1, <1>2, <1>8 DEF DriverReady
<1>9. CASE WaitAllReady(p)
  BY <1>3, <1>9 DEF WaitAllReady, Calls
<1> QED
  BY <1>4, <1>5, <1>6, <1>7, <1>8, <1>9

(* SYS_SHM_GET starts and ends nobody. *)
LEMMA ShmGetProcs ==
  ASSUME Inv, NEW p \in Pid, ShmGet(p)
  PROVE  Step(0, 0, "")
<1>1. pcbs \in [Pid -> PCB] /\ 0 \notin Pid
  BY ControlTypes DEF Inv, TypeOK
<1>2. ASSUME NEW k, NEW n, ShmGets(p, k, n), UNCHANGED thread
      PROVE  Step(0, 0, "")
  <2>1. PICK C, ok, f : pcbs' = [pcbs EXCEPT ![p].caps = @ \cup C, ![p].has_shm = ok,
                                             ![p].shm_copies = f]
    BY <1>2 DEF ShmGets
  <2>2. \A q \in Pid : /\ SameControl(pcbs'[q], pcbs[q])
                       /\ pcbs'[q].pipe_fd = pcbs[q].pipe_fd
    BY <1>1, <2>1 DEF PCB, SameControl
  <2> QED
    BY <1>1, <1>2, <2>2 DEF Step, Procs, Waits, Fds, SameControl
<1> QED
  BY <1>2, PanicProcs DEF ShmGet

(* SYS_PIPE and the close start and end nobody. *)
LEMMA FdProcs ==
  ASSUME Inv, NEW p \in Pid, SysPipe(p) \/ PipeClose(p)
  PROVE  Procs(0, 0, "") /\ Waits(0, 0) /\ UNCHANGED <<thread, replies>>
<1>1. pcbs \in [Pid -> PCB] /\ 0 \notin Pid
  BY ControlTypes DEF Inv, TypeOK
<1>2. UNCHANGED <<thread, replies>>
  BY DEF SysPipe, PipeClose, slotVars
<1>3. UNCHANGED pcbs \/ \E o \in Pid : \E i : pcbs' = [pcbs EXCEPT ![o].pipe_fd = i]
  BY DEF SysPipe, PipeClose, Active
<1>4. \A q \in Pid : SameControl(pcbs'[q], pcbs[q])
  BY <1>1, <1>3 DEF PCB, SameControl
<1> QED
  BY <1>1, <1>2, <1>4 DEF Procs, Waits, SameControl

(* SYS_WAIT starts and ends nobody; the caller waits for the PID it gave. *)
LEMMA SysWaitProcs ==
  ASSUME Inv, NEW p \in Pid, NEW t, SysWait(p, t)
  PROVE  /\ Procs(0, 0, "") /\ Fds(0, 0)
         /\ pcbs'[p].waiting_for = t /\ t \in Active
         /\ \A q \in Pid \ {p} : pcbs'[q].waiting_for = pcbs[q].waiting_for
         /\ UNCHANGED g_pipes
<1>1. pcbs \in [Pid -> PCB] /\ 0 \notin Pid
  BY ControlTypes DEF Inv, TypeOK
<1>2. PICK s \in Slot0 :
        SaveCaller(s, p) /\ pcbs' = [pcbs EXCEPT ![p].waiting_for = t, ![p].reply_cap = s]
  BY DEF SysWait
<1>3. /\ pcbs'[p].waiting_for = t /\ t \in Active
      /\ \A q \in Pid : /\ pcbs'[q].active = pcbs[q].active
                        /\ pcbs'[q].name = pcbs[q].name
                        /\ pcbs'[q].parent = pcbs[q].parent
                        /\ pcbs'[q].pipe_fd = pcbs[q].pipe_fd
                        /\ q # p => pcbs'[q].waiting_for = pcbs[q].waiting_for
  BY <1>1, <1>2 DEF PCB, SysWait
<1>4. thread[p] = "running"
  BY DEF SysWait, Calls
<1>5. \A q \in Pid : thread'[q] # "none" => thread[q] # "none"
  BY <1>2, <1>4, SavedLive
<1> QED
  BY <1>1, <1>3, <1>5 DEF Procs, Fds, SysWait

(* The entry of a new process or thread. *)
LEMMA NewProcs ==
  ASSUME NEW T \in [Pid -> PCB], NEW H, DOMAIN H = Pid, NEW n \in Pid, NEW c,
         c.active, c.waiting_for = 0, c.pipe_fd = NoPipe,
         pcbs' = [T EXCEPT ![n] = c], thread' = [H EXCEPT ![n] = "running"]
  PROVE  /\ \A q \in Pid \ {n} : pcbs'[q] = T[q] /\ thread'[q] = H[q]
         /\ pcbs'[n].active /\ pcbs'[n].name = c.name
         /\ pcbs'[n].waiting_for = 0 /\ pcbs'[n].pipe_fd = NoPipe
OBVIOUS

(* SYS_CLONE starts at most one process, a thread. *)
LEMMA SysCloneProcs ==
  ASSUME Inv, NEW p \in Pid, SysClone(p, NoPipe)
  PROVE  /\ \/ Step(0, 0, "")
            \/ \E n \in Pid : Step(0, n, "shell_thread")
         /\ UNCHANGED <<g_pipes, replies>>
<1>1. pcbs \in [Pid -> PCB] /\ 0 \notin Pid /\ DOMAIN thread = Pid
  BY ControlTypes DEF Inv, TypeOK
<1>2. CASE Panic
  BY <1>2, PanicProcs DEF Panic, slotVars
<1>3. CASE ~Panic
  <2>1. PICK t, N, tcb :
          /\ t \in Pid /\ IsFirst(t, Pid \ Active)
          /\ pcbs' = [pcbs EXCEPT ![t] = ThreadPcb(p, N, tcb)]
          /\ thread' = [thread EXCEPT ![t] = "running"]
          /\ g_pipes' = IF NoPipe \in PipeId
                        THEN [g_pipes EXCEPT ![NoPipe].writer_pid = t] ELSE g_pipes
          /\ UNCHANGED replies
    BY <1>3 DEF SysClone
  <2>2. NoPipe \notin PipeId
    BY PipeAssumption DEF NoPipe, PipeId
  <2>3. PICK c : c = ThreadPcb(p, N, tcb)
    OBVIOUS
  <2>4. c.active /\ c.waiting_for = 0 /\ c.pipe_fd = NoPipe /\ c.name = "shell_thread"
    BY <2>3 DEF ThreadPcb
  <2>5. /\ \A q \in Pid \ {t} : pcbs'[q] = pcbs[q] /\ thread'[q] = thread[q]
        /\ pcbs'[t].active /\ pcbs'[t].name = "shell_thread"
        /\ pcbs'[t].waiting_for = 0 /\ pcbs'[t].pipe_fd = NoPipe
    BY <1>1, <2>1, <2>3, <2>4, NewProcs
  <2>6. ~pcbs[t].active
    BY <2>1 DEF IsFirst, Active
  <2>7. Step(0, t, "shell_thread")
    BY <1>1, <2>5, <2>6 DEF Step, Procs, Waits, Fds
  <2> QED
    BY <2>1, <2>2, <2>7
<1> QED
  BY <1>2, <1>3

(* SYS_EXEC starts at most one process, an application. *)
LEMMA SysExecProcs ==
  ASSUME Inv, NEW p \in Pid, SysExec(p)
  PROVE  /\ \/ Step(0, 0, "")
            \/ \E n \in Pid : Step(0, n, "app")
         /\ UNCHANGED <<g_pipes, replies>>
<1>1. pcbs \in [Pid -> PCB] /\ 0 \notin Pid /\ DOMAIN thread = Pid
  BY ControlTypes DEF Inv, TypeOK
<1>2. spawn_process("app", Here) /\ UNCHANGED <<g_pipes, replies>>
  BY DEF SysExec
<1>3. Here.pcbs = pcbs /\ Here.thread = thread
  BY DEF Here
<1>4. CASE pcbs' = pcbs /\ thread' = thread
  BY <1>2, <1>4, QuietProcs
<1>5. ASSUME NEW t \in Pid \ Active, NEW N, NEW a, NEW b,
             pcbs' = [pcbs EXCEPT ![t] = ProcessPcb("app", N, a, b)],
             thread' = [thread EXCEPT ![t] = "running"]
      PROVE  \E n \in Pid : Step(0, n, "app")
  <2>1. PICK c : c = ProcessPcb("app", N, a, b)
    OBVIOUS
  <2>2. c.active /\ c.waiting_for = 0 /\ c.pipe_fd = NoPipe /\ c.name = "app"
    BY <2>1 DEF ProcessPcb
  <2>3. /\ \A q \in Pid \ {t} : pcbs'[q] = pcbs[q] /\ thread'[q] = thread[q]
        /\ pcbs'[t].active /\ pcbs'[t].name = "app"
        /\ pcbs'[t].waiting_for = 0 /\ pcbs'[t].pipe_fd = NoPipe
    BY <1>1, <1>5, <2>1, <2>2, NewProcs
  <2>4. ~pcbs[t].active
    BY <1>5 DEF Active
  <2>5. Step(0, t, "app")
    BY <1>1, <2>3, <2>4 DEF Step, Procs, Waits, Fds
  <2> QED
    BY <2>5
<1>6. \/ pcbs' = Here.pcbs /\ thread' = Here.thread
      \/ \E n \in Pid \ Active, N \in Grants(ProcCaps, Here.free_slots) :
           \E tv \in Places(N) :
             /\ pcbs' = [Here.pcbs EXCEPT ![n] = ProcessPcb("app", N, tv[1], tv[2])]
             /\ thread' = [Here.thread EXCEPT ![n] = "running"]
  BY <1>2, SpawnCases
<1>7. ASSUME NEW n \in Pid \ Active, NEW N \in Grants(ProcCaps, Here.free_slots),
             NEW tv \in Places(N),
             pcbs' = [Here.pcbs EXCEPT ![n] = ProcessPcb("app", N, tv[1], tv[2])],
             thread' = [Here.thread EXCEPT ![n] = "running"]
      PROVE  \E t \in Pid : Step(0, t, "app")
  BY <1>3, <1>5, <1>7, Zenon
<1> QED
  BY <1>2, <1>3, <1>4, <1>6, <1>7

(* The end of v: its waiters and the readers of the pipes I are answered. *)
Ends(v, n, name, I) ==
  /\ Step(v, n, name)
  /\ g_pipes' = AtEof(I)
  /\ replies' = RepliesLeft(Readers(I) \cup ReplyCaps(Waiters(v)), {v})
  /\ \A q \in Pid \ {v, n} :
       \/ thread'[q] = Resumed(Readers(I) \cup ReplyCaps(Waiters(v)))[q]
       \/ thread'[q] = "none" /\ q \in Orphans(v)
  /\ UNCHANGED readyVars

(* The table in which v has ended. *)
LEMMA EndTable ==
  ASSUME Inv, NEW v \in Pid
  PROVE  LET T == Ended(Answered(Waiters(v)), v)
         IN  /\ T \in [Pid -> PCB] /\ ~T[v].active
             /\ \A q \in Pid \ {v} :
                  /\ T[q].active = pcbs[q].active /\ T[q].name = pcbs[q].name
                  /\ T[q].parent = pcbs[q].parent /\ T[q].pipe_fd = pcbs[q].pipe_fd
                  /\ \/ T[q].waiting_for = pcbs[q].waiting_for
                     \/ pcbs[q].waiting_for = v /\ T[q].waiting_for = 0
<1>1. PICK T : T = Ended(Answered(Waiters(v)), v)
  OBVIOUS
<1>2. T \in Table /\ T[v].active = FALSE
  BY <1>1, EndControl
<1>3. T \in [Pid -> PCB]
  BY <1>2 DEF Table, GoodPcb
<1>4. ASSUME NEW q \in Pid \ {v}
      PROVE  /\ T[q].active = pcbs[q].active /\ T[q].name = pcbs[q].name
             /\ T[q].parent = pcbs[q].parent /\ T[q].pipe_fd = pcbs[q].pipe_fd
             /\ \/ T[q].waiting_for = pcbs[q].waiting_for
                \/ pcbs[q].waiting_for = v /\ T[q].waiting_for = 0
  <2>1. /\ pcbs[q] \in PCB
        /\ T[q] = IF q \in Waiters(v)
                  THEN [pcbs[q] EXCEPT !.waiting_for = 0, !.reply_cap = NoSlot]
                  ELSE pcbs[q]
    <3>1. T = [Answered(Waiters(v)) EXCEPT ![v] = UnusedPcb]
      BY <1>1 DEF Ended
    <3>2. \A x \in Pid : Answered(Waiters(v))[x] =
            IF x \in Waiters(v)
            THEN [pcbs[x] EXCEPT !.waiting_for = 0, !.reply_cap = NoSlot]
            ELSE pcbs[x]
      BY DEF Answered
    <3>3. DOMAIN Answered(Waiters(v)) = Pid /\ pcbs \in [Pid -> PCB]
      BY DEF Answered, Inv, TypeOK
    <3> QED
      BY <3>1, <3>2, <3>3
  <2>2. q \in Waiters(v) => pcbs[q].waiting_for = v
    BY DEF Waiters
  <2> QED
    BY <2>1, <2>2 DEF PCB
<1> QED
  BY <1>1, <1>2, <1>3, <1>4

(* SYS_THREAD_EXIT and SYS_EXIT *)
LEMMA ExitEnds ==
  ASSUME Inv, WakeInv, NEW p \in Pid, ThreadExit(p) \/ SysExit(p)
  PROVE  Ends(p, 0, "", WrittenBy(p))
<1>1. p \in Active /\ thread[p] = "running" /\ 0 \notin Pid /\ DOMAIN thread = Pid
  BY ControlTypes DEF ThreadExit, SysExit, Calls, Active
<1>3. /\ g_pipes' = AtEof(WrittenBy(p))
      /\ pcbs' = Ended(Answered(Waiters(p)), p)
      /\ thread' = [Resumed(Readers(WrittenBy(p)) \cup ReplyCaps(Waiters(p)))
                      EXCEPT ![p] = "none"]
      /\ replies' = RepliesLeft(Readers(WrittenBy(p)) \cup ReplyCaps(Waiters(p)), {p})
      /\ UNCHANGED readyVars
  <2>1. CASE ThreadExit(p)
    <3>1. pcbs[p].parent \in Active /\ pcbs[pcbs[p].parent].name = "shell"
      BY <1>1, <2>1 DEF WakeInv, ParentsSound, ThreadExit
    <3>2. \A w \in Waiters(p) : w \in Active /\ pcbs[w].waiting_for # 0
      BY ControlTypes DEF Waiters
    <3>3. \A w \in Waiters(p) : w = pcbs[p].parent
      BY <3>1, <3>2, OneWaiter
    <3>4. Waiters(p) \cap {pcbs[p].parent} = Waiters(p)
      BY <3>3
    <3> QED
      BY <2>1, <3>4 DEF ThreadExit
  <2>2. CASE SysExit(p)
    BY <2>2 DEF SysExit
  <2> QED
    BY <2>1, <2>2
<1>4. PICK R : R = Readers(WrittenBy(p)) \cup ReplyCaps(Waiters(p))
  OBVIOUS
<1>5. \A q \in Pid \ {p} : thread'[q] = Resumed(R)[q]
  BY <1>3, <1>4 DEF Resumed
<1>6. thread'[p] = "none"
  BY <1>3 DEF Resumed
<1>7. \A q \in Pid : thread'[q] # "none" => thread[q] # "none"
  BY <1>5, <1>6 DEF Resumed
<1>8. /\ ~pcbs'[p].active
      /\ \A q \in Pid \ {p} :
           /\ pcbs'[q].active = pcbs[q].active /\ pcbs'[q].name = pcbs[q].name
           /\ pcbs'[q].parent = pcbs[q].parent /\ pcbs'[q].pipe_fd = pcbs[q].pipe_fd
           /\ \/ pcbs'[q].waiting_for = pcbs[q].waiting_for
              \/ pcbs[q].waiting_for = p /\ pcbs'[q].waiting_for = 0
  BY <1>3, EndTable
<1>9. Step(p, 0, "")
  BY <1>1, <1>7, <1>8 DEF Step, Procs, Waits, Fds, Active
<1> QED
  BY <1>3, <1>4, <1>5, <1>9 DEF Ends

(* Recovery *)
LEMMA RecoverEnds ==
  ASSUME Inv, NEW v \in Active, generic_recover_process(v)
  PROVE  \/ Ends(v, 0, "", {})
         \/ /\ pcbs[v].name \in Archive
            /\ \E n \in Pid : Ends(v, n, pcbs[v].name, {})
<1>1. v \in Pid /\ 0 \notin Pid /\ pcbs \in [Pid -> PCB] /\ DOMAIN thread = Pid
  BY ControlTypes DEF Active, Inv, TypeOK
<1> DEFINE W == Waiters(v)
           Without(pool) ==
             [pcbs |-> Ended(Answered(W), v),
              thread |-> [q \in Pid |-> IF q = v \/ q \in Orphans(v)
                                        THEN "none" ELSE Resumed(ReplyCaps(W))[q]],
              free_slots |-> pool,
              occupied |-> Emptied(ReturnedBy(v))]
<1>2. PICK pool \in Freed(free_slots, ReturnedBy(v)) :
        IF pcbs[v].name \in Archive
        THEN spawn_process(pcbs[v].name, Without(pool))
        ELSE pcbs' = Without(pool).pcbs /\ thread' = Without(pool).thread
  BY DEF generic_recover_process
<1>3. /\ replies' = RepliesLeft(ReplyCaps(W), {v})
      /\ UNCHANGED <<g_pipes, readyVars>>
  BY DEF generic_recover_process
<1>4. PICK st : st = Without(pool)
  OBVIOUS
<1>5. PICK T : T = Ended(Answered(W), v)
  OBVIOUS
<1>6. PICK H : H = [q \in Pid |-> IF q = v \/ q \in Orphans(v)
                                  THEN "none" ELSE Resumed(ReplyCaps(W))[q]]
  OBVIOUS
<1>7. st.pcbs = T /\ st.thread = H
  BY <1>4, <1>5, <1>6
<1>8. IF pcbs[v].name \in Archive
      THEN spawn_process(pcbs[v].name, st)
      ELSE pcbs' = T /\ thread' = H
  BY <1>2, <1>4, <1>7
<1>9. PICK R : R = Readers({}) \cup ReplyCaps(Waiters(v))
  OBVIOUS
<1>10. R = ReplyCaps(W)
  BY <1>9 DEF Readers
<1>11. g_pipes' = AtEof({}) /\ replies' = RepliesLeft(R, {v}) /\ UNCHANGED readyVars
  <2>1. g_pipes = [i \in PipeId |-> g_pipes[i]]
    BY DEF Inv, TypeOK
  <2> QED
    BY <1>3, <1>10, <2>1 DEF AtEof
<1>12. /\ H[v] = "none" /\ DOMAIN H = Pid
       /\ \A q \in Pid \ {v} : H[q] = Resumed(R)[q] \/ (H[q] = "none" /\ q \in Orphans(v))
       /\ \A q \in Pid : H[q] # "none" => thread[q] # "none"
  <2>1. \A q \in Pid : H[q] = IF q = v \/ q \in Orphans(v)
                              THEN "none" ELSE Resumed(R)[q]
    BY <1>6, <1>10
  <2>2. \A q \in Pid : Resumed(R)[q] # "none" => thread[q] # "none"
    BY DEF Resumed
  <2>3. DOMAIN H = Pid
    BY <1>6
  <2>4. H[v] = "none"
    BY <1>1, <2>1
  <2>5. \A q \in Pid : H[q] # "none" => thread[q] # "none"
    BY <2>1, <2>2
  <2>6. \A q \in Pid \ {v} : H[q] = Resumed(R)[q] \/ (H[q] = "none" /\ q \in Orphans(v))
    BY <2>1
  <2> QED
    BY <2>3, <2>4, <2>5, <2>6
<1>13. /\ T \in [Pid -> PCB] /\ ~T[v].active
       /\ \A q \in Pid \ {v} :
            /\ T[q].active = pcbs[q].active /\ T[q].name = pcbs[q].name
            /\ T[q].parent = pcbs[q].parent /\ T[q].pipe_fd = pcbs[q].pipe_fd
            /\ \/ T[q].waiting_for = pcbs[q].waiting_for
               \/ pcbs[q].waiting_for = v /\ T[q].waiting_for = 0
  BY <1>1, <1>5, EndTable
<1>14. pcbs[v].active
  BY DEF Active
<1> HIDE DEF W, Without
<1>15. CASE pcbs' = T /\ thread' = H
  <2>1. Step(v, 0, "")
    BY <1>1, <1>12, <1>13, <1>14, <1>15 DEF Step, Procs, Waits, Fds
  <2>2. Ends(v, 0, "", {})
    BY <1>9, <1>11, <1>12, <1>15, <2>1 DEF Ends
  <2> QED
    BY <2>2
<1>16. ASSUME NEW n \in Pid \ Active, NEW N, NEW a, NEW b, pcbs[v].name \in Archive,
              pcbs' = [T EXCEPT ![n] = ProcessPcb(pcbs[v].name, N, a, b)],
              thread' = [H EXCEPT ![n] = "running"]
       PROVE  Ends(v, n, pcbs[v].name, {})
  <2>1. PICK c : c = ProcessPcb(pcbs[v].name, N, a, b)
    OBVIOUS
  <2>2. c.active /\ c.waiting_for = 0 /\ c.pipe_fd = NoPipe /\ c.name = pcbs[v].name
    BY <2>1 DEF ProcessPcb
  <2>3. /\ \A q \in Pid \ {n} : pcbs'[q] = T[q] /\ thread'[q] = H[q]
        /\ pcbs'[n].active /\ pcbs'[n].name = pcbs[v].name
        /\ pcbs'[n].waiting_for = 0 /\ pcbs'[n].pipe_fd = NoPipe
    BY <1>12, <1>13, <1>16, <2>1, <2>2, NewProcs
  <2>4. ~pcbs[n].active /\ n # v
    BY <1>14, <1>16 DEF Active
  <2>5. Step(v, n, pcbs[v].name)
    BY <1>1, <1>12, <1>13, <1>14, <2>3, <2>4 DEF Step, Procs, Waits, Fds
  <2> QED
    BY <1>9, <1>11, <1>12, <2>3, <2>5 DEF Ends
<1>17. ASSUME pcbs[v].name \in Archive, spawn_process(pcbs[v].name, st)
       PROVE  \/ Ends(v, 0, "", {})
              \/ \E n \in Pid : Ends(v, n, pcbs[v].name, {})
  <2>1. \/ pcbs' = T /\ thread' = H
        \/ \E n \in Pid \ Active, N \in Grants(ProcCaps, st.free_slots) :
             \E tv \in Places(N) :
               /\ pcbs' = [T EXCEPT ![n] = ProcessPcb(pcbs[v].name, N, tv[1], tv[2])]
               /\ thread' = [H EXCEPT ![n] = "running"]
    BY <1>7, <1>17, SpawnCases
  <2> QED
    BY <1>15, <1>16, <1>17, <2>1
<1> QED
  BY <1>8, <1>15, <1>17

(* The PID that the shell gets from SYS_CLONE, SYS_EXEC. *)
LEMMA NewPidIs ==
  ASSUME NEW v, NEW n, NEW name, Procs(v, n, name)
  PROVE  /\ n \in Pid => NewPid = n
         /\ n \notin Pid => NewPid = 0
<1> DEFINE new == {q \in Pid : pcbs'[q].active /\ ~pcbs[q].active}
<1>1. n \in Pid => new = {n}
  BY DEF Procs
<1>2. n \notin Pid => new = {}
  BY DEF Procs
<1>3. NewPid = IF new = {} THEN 0 ELSE CHOOSE q \in new : TRUE
  BY DEF NewPid
<1> HIDE DEF new
<1> QED
  BY <1>1, <1>2, <1>3

-----------------------------------------------------------------------------
(* Every step of a program is a step of Rootserver. *)

(* A chunk is not empty, not longer than m and ends within the output. *)
LEMMA ChunkLength ==
  ASSUME NEW a \in Nat, NEW b \in Nat, a < b, NEW m \in Nat \ {0}, NEW last,
         last = IF a + m < b THEN a + m ELSE b
  PROVE  last \in Nat /\ a < last /\ last <= b /\ last - a \in 1 .. m
OBVIOUS

(* What the shell and ls write: the next bytes of the output. *)
LEMMA ChunkOf ==
  ASSUME JobTypes, shell.sent < shell.len, NEW last, NEW data,
         last = IF shell.sent + MaxChunk < shell.len
                THEN shell.sent + MaxChunk ELSE shell.len,
         data = [k \in 1 .. (last - shell.sent) |-> shell.sent + k]
  PROVE  /\ data \in Chunk /\ data \in Seq(Byte)
         /\ last \in 0 .. MaxOut /\ shell.sent < last /\ last <= shell.len
         /\ Len(data) = last - shell.sent /\ Len(data) > 0
<1>1. /\ shell.sent \in 0 .. MaxOut /\ shell.len \in 0 .. MaxOut
      /\ MaxOut \in Nat /\ Byte = 1 .. MaxOut /\ MaxChunk \in Nat \ {0}
  BY CommandAssumption, PipeAssumption DEF JobTypes, ShellState
<1>2. /\ last \in 0 .. MaxOut /\ shell.sent < last /\ last <= shell.len
      /\ last - shell.sent \in 1 .. MaxChunk
  <2>1. PICK a, b : a = shell.sent /\ b = shell.len
    OBVIOUS
  <2>2. /\ a \in Nat /\ b \in Nat /\ b <= MaxOut /\ a < b
        /\ last = IF a + MaxChunk < b THEN a + MaxChunk ELSE b
    BY <1>1, <2>1
  <2>3. last \in Nat /\ a < last /\ last <= b /\ last - a \in 1 .. MaxChunk
    BY <1>1, <2>2, ChunkLength
  <2>4. last \in 0 .. MaxOut
    BY <1>1, <2>2, <2>3
  <2> QED
    BY <2>1, <2>3, <2>4
<1>3. data \in [1 .. (last - shell.sent) -> Byte]
  BY <1>1, <1>2
<1>4. data \in Chunk
  BY <1>2, <1>3 DEF Chunk
<1>5. data \in Seq(Byte) /\ Len(data) = last - shell.sent
  BY <1>1, <1>2, <1>3
<1> QED
  BY <1>1, <1>2, <1>4, <1>5

(* sys_write is a call that Rootserver knows. *)
LEMMA WriteIsCall ==
  ASSUME JobTypes, NEW p \in Pid, WriteChunk(p)
  PROVE  Next
<1>1. PICK last : last = IF shell.sent + MaxChunk < shell.len
                         THEN shell.sent + MaxChunk ELSE shell.len
  OBVIOUS
<1>2. PICK data : data = [k \in 1 .. (last - shell.sent) |-> shell.sent + k]
  OBVIOUS
<1>3. shell.sent < shell.len /\ PipeWrite(p, data)
  BY <1>1, <1>2 DEF WriteChunk
<1>4. data \in Chunk
  BY <1>1, <1>2, <1>3, ChunkOf
<1> QED
  BY <1>3, <1>4 DEF Next

(* Every step of a program is a step of Rootserver or leaves it alone. *)
LEMMA JobsAreCalls ==
  ASSUME JobTypes, JobsNext
  PROVE  [Next]_vars
<1>1. PICK p \in Pid : ShellStep(p) \/ OtherStep(p) \/ Prompt(p) \/ FaultOf(p)
  BY DEF JobsNext
<1>2. CASE WaitForDrivers(p) \/ GetShm(p) \/ MakePipe(p) \/ ClosePipe(p) \/ Prompt(p)
  BY <1>2 DEF WaitForDrivers, GetShm, MakePipe, ClosePipe, Prompt, Next
<1>3. CASE LeftLs(p) \/ Right(p)
  <2>1. SysClone(p, NoPipe) \/ UNCHANGED vars
    BY <1>3 DEF LeftLs, Right, SpawnThread
  <2> QED
    BY <2>1 DEF Next
<1>4. CASE LeftPlain(p) \/ LeftExec(p) \/ LeftExit(p)
  BY <1>4 DEF LeftPlain, LeftExec, LeftExit, Next
<1>5. CASE WaitChild(p) \/ WaitLeft(p) \/ WaitRight(p)
  <2>1. UNCHANGED vars \/ \E t \in Active : SysWait(p, t)
    BY <1>5 DEF WaitChild, WaitLeft, WaitRight, Wait, SysWait
  <2>2. Active \subseteq Pid
    BY DEF Active
  <2> QED
    BY <2>1, <2>2 DEF Next
<1>6. CASE LeftWrite(p) \/ Ls(p)
  <2>1. WriteChunk(p) \/ PipeWrClose(p)
    BY <1>6 DEF LeftWrite, Ls, CloseWrite
  <2> QED
    BY <2>1, WriteIsCall DEF Next
<1>7. CASE Crash(p) \/ FaultOf(p)
  BY <1>7 DEF Crash, FaultOf, Recovered, At, IsShell, Fault, Next
<1>8. CASE Grep(p) \/ ExitThread(p) \/ App(p) \/ Ready(p)
  BY <1>8 DEF Grep, ExitThread, App, Ready, Next
<1> QED
  BY <1>1, <1>2, <1>3, <1>4, <1>5, <1>6, <1>7, <1>8 DEF ShellStep, OtherStep

-----------------------------------------------------------------------------
(* What an answer does to the programs. *)
LEMMA ReceiveProgs ==
  ASSUME NEW R, NEW v, NEW now, Receive(R, v, now), NEW q \in Pid
  PROVE  \/ prog'[q] = now[q]
         \/ prog[q] = "grep_wait" /\ prog'[q] = (IF v = 0 THEN "exit" ELSE "grep")
BY DEF Receive

(* After an answer every PID still has a program. *)
LEMMA ReceiveDomain ==
  ASSUME NEW R, NEW v, NEW now, Receive(R, v, now)
  PROVE  DOMAIN prog' = Pid /\ prog' = [q \in Pid |-> prog'[q]]
BY DEF Receive

(* grep reads at most the byte that woke it. *)
LEMMA ReceiveIn ==
  ASSUME Inv, NEW R \in SUBSET Slot0, NEW v, NEW now, Receive(R, v, now)
  PROVE  \/ UNCHANGED grepIn
         \/ /\ v # 0 /\ grepIn' = Append(grepIn, v)
            /\ \E q \in Pid : q \in Woken(R) /\ prog[q] = "grep_wait"
<1>1. Woken(R) \ {0} \subseteq Pid
  <2>1. replies \in [Slot0 -> Pid0] /\ MaxPid \in Nat
    BY ControlTypes, BootAssumption, Zenon
  <2>2. \A x \in Pid0 : x # 0 => x \in Pid
    BY <2>1 DEF Pid, Pid0
  <2> QED
    BY <2>1, <2>2 DEF Woken
<1>2. PICK G : G = {q \in Woken(R) \ {0} : prog[q] = "grep_wait"}
  OBVIOUS
<1>3. grepIn' = IF G # {} /\ v # 0 THEN Append(grepIn, v) ELSE grepIn
  BY <1>2 DEF Receive
<1>4. G # {} => \E q \in Pid : q \in Woken(R) /\ prog[q] = "grep_wait"
  BY <1>1, <1>2
<1> QED
  BY <1>3, <1>4

-----------------------------------------------------------------------------
(* The variables of the shell. *)

SameCommand ==
  /\ shell'.cmd = shell.cmd /\ shell'.right = shell.right
  /\ shell'.is_piping = shell.is_piping /\ shell'.len = shell.len

SamePids ==
  /\ shell'.left_pid = shell.left_pid /\ shell'.right_pid = shell.right_pid
  /\ shell'.child = shell.child

(* Going on to another label changes no other local variable. *)
LEMMA GotoFields ==
  ASSUME JobTypes, NEW pc \in ShellPc, Goto(pc)
  PROVE  /\ shell' \in ShellState /\ shell'.pc = pc
         /\ SameCommand /\ SamePids /\ shell'.sent = shell.sent
BY DEF JobTypes, Goto, ShellState, SameCommand, SamePids

(* The local variables of a shell that starts. *)
LEMMA NewShellFields ==
  /\ NewShell \in ShellState /\ NewShell.pc = "start" /\ NewShell.sent = 0
  /\ NewShell.len = 0 /\ ~NewShell.is_piping
  /\ NewShell.left_pid = 0 /\ NewShell.right_pid = 0 /\ NewShell.child = 0
<1>1. 0 \in Pid0 /\ 0 \in 0 .. MaxOut
  BY PidTypes, CommandAssumption
<1> QED
  BY <1>1 DEF NewShell, ShellState, ShellPc

(* NewPid is a PID, or 0. *)
LEMMA NewPidType == NewPid \in Pid0
<1> DEFINE new == {q \in Pid : pcbs'[q].active /\ ~pcbs[q].active}
<1>1. NewPid = IF new = {} THEN 0 ELSE CHOOSE q \in new : TRUE
  BY DEF NewPid
<1>2. new \subseteq Pid0 /\ 0 \in Pid0
  BY PidTypes
<1> HIDE DEF new
<1> QED
  BY <1>1, <1>2

(* The local variables after a command has been typed. *)
LEMMA PromptFields ==
  ASSUME NEW p, Prompt(p)
  PROVE  /\ shell' \in ShellState /\ shell'.pc \in {"left", "pipe"}
         /\ shell'.pc = "left" <=> shell'.right = "none"
         /\ <<shell'.cmd, shell'.right>> \in Command
         /\ ~shell'.is_piping /\ shell'.sent = 0 /\ shell'.left_pid = 0
         /\ shell'.right_pid = 0 /\ shell'.child = 0
<1>1. PICK c \in Command, len \in 0 .. MaxOut :
        shell' = [NewShell EXCEPT !.pc = IF c[2] = "none" THEN "left" ELSE "pipe",
                                  !.cmd = c[1], !.right = c[2], !.len = len]
  BY DEF Prompt
<1>2. c \in Commands /\ c = <<c[1], c[2]>>
  BY CommandAssumption DEF Commands
<1>3. /\ c[1] \in {"ls", "text", "silent", "noarg", "exec", "exec_bg",
                   "crash_shell", "exit"}
      /\ c[2] \in {"none", "grep", "other"}
  BY <1>2 DEF Commands
<1>4. PICK pc \in {"left", "pipe"} : pc = IF c[2] = "none" THEN "left" ELSE "pipe"
  OBVIOUS
<1>5. shell' = [NewShell EXCEPT !.pc = pc, !.cmd = c[1], !.right = c[2], !.len = len]
  BY <1>1, <1>4
<1>6. /\ shell' \in ShellState
      /\ shell'.pc = pc /\ shell'.cmd = c[1] /\ shell'.right = c[2]
      /\ ~shell'.is_piping /\ shell'.sent = 0 /\ shell'.left_pid = 0
      /\ shell'.right_pid = 0 /\ shell'.child = 0
  BY <1>3, <1>4, <1>5, NewShellFields DEF ShellState, ShellPc
<1> QED
  BY <1>2, <1>4, <1>6

(* The steps of the shell that start or write something. *)
LEMMA MakePipeFields ==
  ASSUME JobTypes, NEW p, MakePipe(p)
  PROVE  /\ shell' \in ShellState /\ shell'.pc = "left"
         /\ \/ SysPipe(p) /\ shell'.is_piping
            \/ UNCHANGED vars /\ shell'.is_piping = shell.is_piping
         /\ shell'.cmd = shell.cmd /\ shell'.right = shell.right
         /\ shell'.len = shell.len /\ shell'.sent = shell.sent /\ SamePids
<1>1. CASE SysPipe(p) /\ shell' = [shell EXCEPT !.pc = "left", !.is_piping = TRUE]
  BY <1>1 DEF JobTypes, ShellState, ShellPc, SamePids
<1>2. CASE UNCHANGED vars /\ Goto("left")
  BY <1>2, GotoFields DEF ShellPc, SameCommand
<1> QED
  BY <1>1, <1>2 DEF MakePipe

(* The local variables after the thread of ls has been spawned. *)
LEMMA LeftLsFields ==
  ASSUME JobTypes, NEW p, LeftLs(p)
  PROVE  /\ shell' \in ShellState /\ shell'.pc = "right" /\ shell'.left_pid = NewPid
         /\ SameCommand /\ shell'.sent = shell.sent
         /\ shell'.right_pid = shell.right_pid /\ shell'.child = shell.child
BY NewPidType DEF LeftLs, JobTypes, ShellState, ShellPc, SameCommand

(* The local variables after SYS_EXEC. *)
LEMMA LeftExecFields ==
  ASSUME JobTypes, NEW p, LeftExec(p)
  PROVE  /\ shell' \in ShellState
         /\ shell'.pc = IF shell.cmd = "exec" /\ NewPid # 0 THEN "wait_child" ELSE "right"
         /\ SameCommand /\ shell'.sent = shell.sent
         /\ shell'.left_pid = shell.left_pid /\ shell'.right_pid = shell.right_pid
         /\ shell'.child = NewPid
<1>1. PICK pc \in {"wait_child", "right"} :
        pc = IF shell.cmd = "exec" /\ NewPid # 0 THEN "wait_child" ELSE "right"
  OBVIOUS
<1>2. shell' = [shell EXCEPT !.child = NewPid, !.pc = pc]
  BY <1>1 DEF LeftExec
<1> QED
  BY <1>1, <1>2, NewPidType DEF JobTypes, ShellState, ShellPc, SameCommand

(* The local variables after the right side has been started, or left out. *)
LEMMA RightFields ==
  ASSUME JobTypes, NEW p, Right(p)
  PROVE  /\ shell' \in ShellState
         /\ SameCommand /\ shell'.sent = shell.sent
         /\ shell'.left_pid = shell.left_pid /\ shell'.child = shell.child
         /\ \/ /\ shell'.pc = (IF shell.is_piping THEN "wait_left" ELSE "prompt")
               /\ shell'.right_pid = shell.right_pid
               /\ UNCHANGED <<vars, prog, grepIn>>
            \/ /\ shell'.pc = "wait_left" /\ shell.is_piping
               /\ shell'.right_pid = NewPid /\ SpawnThread(p, "grep")
<1>1. shell \in ShellState
  BY DEF JobTypes
<1>2. CASE ~shell.is_piping /\ Goto("prompt") /\ UNCHANGED <<vars, prog, grepIn>>
  BY <1>2, GotoFields DEF ShellPc, SameCommand, SamePids
<1>3. CASE shell.is_piping /\ Goto("wait_left") /\ UNCHANGED <<vars, prog, grepIn>>
  BY <1>3, GotoFields DEF ShellPc, SameCommand, SamePids
<1>4. CASE /\ shell.is_piping /\ SpawnThread(p, "grep")
           /\ shell' = [shell EXCEPT !.pc = "wait_left", !.right_pid = NewPid]
  BY <1>1, <1>4, NewPidType DEF ShellState, ShellPc, SameCommand
<1> QED
  BY <1>2, <1>3, <1>4 DEF Right

(* sys_write moves only the position in the output. *)
LEMMA WriteFields ==
  ASSUME JobTypes, NEW p, WriteChunk(p)
  PROVE  /\ shell' \in ShellState /\ shell'.sent <= shell'.len
         /\ shell.sent < shell.len /\ shell.sent < shell'.sent
         /\ SameCommand /\ SamePids /\ shell'.pc = shell.pc
<1>1. PICK last : last = IF shell.sent + MaxChunk < shell.len
                         THEN shell.sent + MaxChunk ELSE shell.len
  OBVIOUS
<1>2. PICK data : data = [k \in 1 .. (last - shell.sent) |-> shell.sent + k]
  OBVIOUS
<1>3. shell.sent < shell.len /\ shell' = [shell EXCEPT !.sent = last]
  BY <1>1 DEF WriteChunk
<1>4. last \in 0 .. MaxOut /\ shell.sent < last /\ last <= shell.len
  BY <1>1, <1>2, <1>3, ChunkOf
<1>5. shell \in ShellState
  BY DEF JobTypes
<1> QED
  BY <1>3, <1>4, <1>5 DEF ShellState, SameCommand, SamePids

-----------------------------------------------------------------------------
(* Who runs. *)

(* There is one shell. *)
LEMMA OneShell ==
  ASSUME KInv, NEW p \in Shells, NEW q \in Shells
  PROVE  p = q
<1>1. p \in Active /\ q \in Active /\ pcbs[p].name = "shell" /\ pcbs[q].name = "shell"
  BY DEF Shells
<1> QED
  BY <1>1 DEF KInv, WakeInv, OneInstance, Archive

(* The shell at a label of main() runs, and so it waits for nobody. *)
LEMMA ShellRuns ==
  ASSUME KInv, NEW p \in Pid, NEW pc, At(p, pc)
  PROVE  /\ p \in Shells /\ p \in Active /\ thread[p] = "running" /\ shell.pc = pc
         /\ pcbs[p].waiting_for = 0 /\ Shells = {p} /\ ~halted
         /\ pcbs[p].name = "shell" /\ ~IsThread(p) /\ PipeOf(p) = pcbs[p].pipe_fd
<1>1. p \in Active /\ pcbs[p].name = "shell" /\ thread[p] = "running" /\ shell.pc = pc
      /\ ~halted
  BY DEF At, IsShell, Calls, Active
<1>2. p \in Shells
  BY <1>1 DEF Shells
<1>3. Shells = {p}
  BY <1>2, OneShell
<1>4. pcbs[p].waiting_for = 0
  BY <1>1 DEF KInv, WakeInv, WaitersSound
<1>5. ~IsThread(p)
  BY <1>1 DEF IsThread
<1> QED
  BY <1>1, <1>2, <1>3, <1>4, <1>5 DEF PipeOf

(* A thread that may run belongs to the shell. *)
LEMMA LiveThread ==
  ASSUME KInv, NEW q \in Pid, Live(q)
  PROVE  /\ q \in Active /\ pcbs[q].parent \in Shells /\ pcbs[q].parent \in Pid
         /\ Shells = {pcbs[q].parent} /\ q \notin Shells
         /\ PipeOf(q) = pcbs[pcbs[q].parent].pipe_fd
<1>1. q \in Active /\ IsThread(q) /\ thread[q] # "none"
  BY DEF Live, Active
<1>2. pcbs[q].parent \in Shells
  BY <1>1 DEF KInv, WakeInv, ParentsSound, Shells
<1>3. Shells = {pcbs[q].parent}
  BY <1>2, OneShell
<1>4. q \notin Shells
  BY <1>1 DEF Shells, IsThread
<1> QED
  BY <1>1, <1>2, <1>3, <1>4 DEF PipeOf, Shells, Active

(* A thread that makes a call is alive. *)
LEMMA CallerIsLive ==
  ASSUME Programs, NEW q \in Pid, Calls(q),
         prog[q] \in {"ls", "grep", "grep_wait", "exit"}
  PROVE  Live(q)
BY DEF Programs, Calls, Live

(* Threads use the pipe only when the job has got there. *)
LEMMA PipeThreads ==
  ASSUME JobInv, NEW q \in Pid, Live(q), prog[q] \in {"ls", "grep", "grep_wait"}
  PROVE  /\ shell.is_piping
         /\ shell.pc \in {"right", "wait_left", "wait_right", "close"}
         /\ ~Idle
<1>1. pcbs[q].parent \in Shells
  BY LiveThread DEF JobInv
<1> QED
  BY <1>1 DEF JobInv, ThreadsSound, LsOfJob, GrepOfJob, Idle

-----------------------------------------------------------------------------
(* The shell's own variables. *)
LEMMA ShellTypes ==
  ASSUME JobInv, JobsNext
  PROVE  shell' \in ShellState /\ shell'.sent <= shell'.len /\ ShellSound'
<1>0. /\ JobTypes /\ KInv /\ Programs /\ ShellSound
      /\ shell \in ShellState /\ shell.sent <= shell.len
  BY DEF JobInv, JobTypes
<1>1. PICK p \in Pid : ShellStep(p) \/ OtherStep(p) \/ Prompt(p) \/ FaultOf(p)
  BY DEF JobsNext
<1>2. CASE UNCHANGED <<shell, grepIn>>
  BY <1>0, <1>2 DEF ShellSound
<1>3. ASSUME NEW pc \in ShellPc \ {"pipe", "left"}, Goto(pc),
             pc \in {"write", "wait_child", "right"} => shell.right_pid = 0,
             pc = "write" => shell.is_piping
      PROVE  shell' \in ShellState /\ shell'.sent <= shell'.len /\ ShellSound'
  BY <1>0, <1>3, GotoFields DEF ShellSound, SameCommand, SamePids
<1>4. CASE WaitForDrivers(p) \/ LeftExit(p) \/ WaitLeft(p) \/ WaitRight(p) \/ ClosePipe(p)
  BY <1>3, <1>4 DEF WaitForDrivers, LeftExit, WaitLeft, WaitRight, ClosePipe, ShellPc
<1>5. CASE GetShm(p)
  BY <1>3, <1>5 DEF GetShm, ShellPc
<1>6. CASE Prompt(p)
  <2>1. /\ shell' \in ShellState /\ shell'.pc \in {"left", "pipe"}
        /\ ~shell'.is_piping /\ shell'.sent = 0 /\ shell'.left_pid = 0
        /\ shell'.right_pid = 0 /\ grepIn' = <<>>
    BY <1>6, PromptFields DEF Prompt
  <2>2. shell'.len \in 0 .. MaxOut /\ MaxOut \in Nat
    BY <2>1, CommandAssumption DEF ShellState
  <2> QED
    BY <2>1, <2>2 DEF ShellSound
<1>7. CASE MakePipe(p)
  BY <1>0, <1>7, MakePipeFields DEF ShellSound, MakePipe, At, SamePids
<1>8. CASE LeftLs(p)
  BY <1>0, <1>8, LeftLsFields DEF ShellSound, LeftLs, At, SameCommand
<1>9. CASE LeftPlain(p)
  BY <1>0, <1>3, <1>9 DEF ShellSound, LeftPlain, At, ShellPc
<1>10. CASE WriteChunk(p) /\ shell.pc \notin {"pipe", "left"}
  BY <1>0, <1>10, WriteFields DEF ShellSound, SameCommand, SamePids
<1>11. CASE LeftWrite(p)
  <2>1. CASE WriteChunk(p)
    BY <1>10, <1>11, <2>1 DEF LeftWrite, At
  <2>2. CASE Goto("right")
    BY <1>0, <1>3, <1>11, <2>2 DEF LeftWrite, At, ShellSound, ShellPc
  <2> QED
    BY <1>11, <2>1, <2>2 DEF LeftWrite
<1>12. CASE LeftExec(p)
  BY <1>0, <1>12, LeftExecFields DEF ShellSound, LeftExec, At, SameCommand
<1>13. CASE WaitChild(p)
  <2>1. shell.right_pid = 0
    BY <1>0, <1>13 DEF WaitChild, At, ShellSound
  <2> QED
    BY <1>3, <1>13, <2>1 DEF WaitChild, ShellPc
<1>14. CASE Right(p)
  BY <1>0, <1>14, RightFields DEF ShellSound, SameCommand
<1>15. CASE Crash(p) \/ FaultOf(p)
  BY <1>0, <1>2, <1>15, NewShellFields DEF Crash, FaultOf, Recovered, ShellSound
<1>16. CASE Ls(p)
  <2>1. Live(p) /\ prog[p] = "ls"
    BY <1>0, <1>16, CallerIsLive DEF Ls
  <2>2. shell.pc \notin {"pipe", "left"}
    BY <2>1, PipeThreads
  <2>3. CASE WriteChunk(p)
    BY <1>10, <2>2, <2>3
  <2>4. CASE UNCHANGED shell
    BY <1>0, <2>2, <2>4 DEF ShellSound
  <2> QED
    BY <1>16, <2>3, <2>4 DEF Ls
<1>17. CASE Grep(p)
  <2>1. Live(p) /\ prog[p] = "grep"
    BY <1>0, <1>17, CallerIsLive DEF Grep
  <2>2. shell.pc \notin {"pipe", "left"}
    BY <2>1, PipeThreads
  <2> QED
    BY <1>0, <1>17, <2>2 DEF Grep, ShellSound
<1>18. CASE ExitThread(p) \/ App(p) \/ Ready(p)
  <2>1. UNCHANGED shell /\ UNCHANGED grepIn
    BY <1>18 DEF ExitThread, App, Ready, Receive
  <2> QED
    BY <1>2, <2>1
<1> QED
  BY <1>1, <1>4, <1>5, <1>6, <1>7, <1>8, <1>9, <1>11, <1>12, <1>13, <1>14, <1>15,
     <1>16, <1>17, <1>18 DEF ShellStep, OtherStep

-----------------------------------------------------------------------------
(* Writing to the pipe. *)

(* What fits is a prefix of the data: all of it if there is room, and at   *)
(* least one byte if the pipe is empty.                                    *)
LEMMA AcceptedIs ==
  ASSUME NEW b \in Seq(Byte), Len(b) <= PipeSize, NEW data \in Seq(Byte),
         Len(data) > 0, NEW acc, acc = Accepted(b, data)
  PROVE  /\ acc \in Seq(Byte) /\ Len(acc) <= Len(data)
         /\ \A k \in 1 .. Len(acc) : acc[k] = data[k]
         /\ Len(b) + Len(data) <= PipeSize => Len(acc) = Len(data)
         /\ b = <<>> => Len(acc) > 0
<1>1. PipeSize \in Nat \ {0} /\ Len(b) \in Nat /\ Len(data) \in Nat
  BY PipeAssumption
<1>2. PICK room : room = PipeSize - Len(b)
  OBVIOUS
<1>3. room \in Nat /\ (b = <<>> => room > 0)
  BY <1>1, <1>2
<1>4. PICK n : n = IF Len(data) <= room THEN Len(data) ELSE room
  OBVIOUS
<1>5. /\ n \in 0 .. Len(data)
      /\ Len(b) + Len(data) <= PipeSize => n = Len(data)
      /\ b = <<>> => n > 0
  BY <1>1, <1>2, <1>3, <1>4
<1>6. acc = SubSeq(data, 1, n)
  BY <1>2, <1>4 DEF Accepted
<1>7. acc \in Seq(Byte) /\ Len(acc) = n /\ \A k \in 1 .. n : acc[k] = data[k]
  BY <1>1, <1>5, <1>6
<1> QED
  BY <1>1, <1>5, <1>7

(* SYS_PUTS from the shell or from ls, in one piece. *)
Written(p, i, acc) ==
  LET b == g_pipes[i].buffer
      n == shell'.sent - shell.sent
  IN  /\ i = PipeOf(p) /\ acc \in Seq(Byte)
      /\ \A k \in 1 .. Len(acc) : acc[k] = shell.sent + k
      /\ Len(acc) <= n /\ (Len(b) + n <= PipeSize => Len(acc) = n)
      /\ \/ /\ g_pipes[i].reader_reply_cap # NoSlot /\ b = <<>> /\ Len(acc) > 0
            /\ g_pipes' = [g_pipes EXCEPT ![i].buffer = Tail(acc),
                                          ![i].reader_reply_cap = NoSlot]
            /\ replies' = RepliesLeft(Readers({i}), {})
            /\ thread' = Resumed(Readers({i}))
            /\ Receive(Readers({i}), Head(acc), prog)
         \/ /\ g_pipes[i].reader_reply_cap = NoSlot
            /\ g_pipes' = [g_pipes EXCEPT ![i].buffer = b \o acc]
            /\ UNCHANGED <<replies, thread, prog, grepIn>>
      /\ UNCHANGED <<pcbs, readyVars>>

(* What sys_write does to the pipe of a job. *)
LEMMA WriteIs ==
  ASSUME JobInv, NEW p \in Pid, WriteChunk(p)
  PROVE  \E i \in PipeId : \E acc : Written(p, i, acc)
<1>0. JobTypes /\ Inv /\ PipeReaderSound /\ pcbs \in Table /\ RestOK
  BY InvParts DEF JobInv, KInv
<1>1. PICK last : last = IF shell.sent + MaxChunk < shell.len
                         THEN shell.sent + MaxChunk ELSE shell.len
  OBVIOUS
<1>2. PICK data : data = [k \in 1 .. (last - shell.sent) |-> shell.sent + k]
  OBVIOUS
<1>3. PICK i : i = PipeOf(p)
  OBVIOUS
<1>4. /\ shell.sent < shell.len /\ PipeWrite(p, data)
      /\ Receive(Readers({i}),
                 Head(g_pipes[i].buffer \o Accepted(g_pipes[i].buffer, data)), prog)
      /\ shell' = [shell EXCEPT !.sent = last]
  BY <1>1, <1>2, <1>3 DEF WriteChunk
<1>5. /\ data \in Seq(Byte) /\ last \in Nat /\ shell.sent \in Nat /\ shell.sent < last
      /\ Len(data) = last - shell.sent /\ Len(data) > 0
  BY <1>0, <1>1, <1>2, <1>4, ChunkOf DEF JobTypes, ShellState
<1>6. i \in PipeId
  BY <1>0, <1>3, <1>4, PipeOfType DEF PipeWrite
<1>7. PICK b : b = g_pipes[i].buffer
  OBVIOUS
<1>8. b \in Seq(Byte) /\ Len(b) <= PipeSize
  BY <1>0, <1>6, <1>7 DEF RestOK, Pipe
<1>9. PICK acc : acc = Accepted(b, data)
  OBVIOUS
<1>10. /\ acc \in Seq(Byte) /\ Len(acc) <= Len(data)
       /\ \A k \in 1 .. Len(acc) : acc[k] = data[k]
       /\ Len(b) + Len(data) <= PipeSize => Len(acc) = Len(data)
       /\ b = <<>> => Len(acc) > 0
  BY <1>5, <1>8, <1>9, AcceptedIs
<1>11. \A k \in 1 .. Len(acc) : acc[k] = shell.sent + k
  <2>1. ASSUME NEW k \in 1 .. Len(acc) PROVE k \in 1 .. (last - shell.sent)
    BY <1>5, <1>10
  <2> QED
    BY <1>2, <1>10, <2>1
<1>12. shell'.sent = last
  BY <1>0, <1>4 DEF JobTypes, ShellState
<1>13. PICK n : n = shell'.sent - shell.sent
  OBVIOUS
<1>14. n = Len(data) /\ Len(acc) <= n /\ (Len(b) + n <= PipeSize => Len(acc) = n)
  BY <1>5, <1>10, <1>12, <1>13
<1>15. PICK buf : buf = b \o acc
  OBVIOUS
<1>16. /\ IF g_pipes[i].reader_reply_cap # NoSlot /\ buf # <<>>
          THEN /\ g_pipes' = [g_pipes EXCEPT ![i].buffer = Tail(buf),
                                             ![i].reader_reply_cap = NoSlot]
               /\ thread' = Resumed(Readers({i}))
               /\ replies' = RepliesLeft(Readers({i}), {})
          ELSE /\ g_pipes' = [g_pipes EXCEPT ![i].buffer = buf]
               /\ UNCHANGED <<thread, replies>>
       /\ UNCHANGED <<pcbs, readyVars>>
       /\ Receive(Readers({i}), Head(buf), prog)
  BY <1>3, <1>4, <1>7, <1>9, <1>15 DEF PipeWrite
<1>17. CASE g_pipes[i].reader_reply_cap # NoSlot
  <2>1. b = <<>>
    BY <1>0, <1>6, <1>7, <1>17 DEF PipeReaderSound
  <2>2. buf = acc /\ Len(acc) > 0 /\ buf # <<>>
    BY <1>10, <1>15, <2>1
  <2>3. /\ g_pipes' = [g_pipes EXCEPT ![i].buffer = Tail(acc),
                                      ![i].reader_reply_cap = NoSlot]
        /\ replies' = RepliesLeft(Readers({i}), {})
        /\ thread' = Resumed(Readers({i}))
        /\ Receive(Readers({i}), Head(acc), prog)
    BY <1>16, <1>17, <2>2
  <2> QED
    BY <1>3, <1>6, <1>7, <1>10, <1>11, <1>13, <1>14, <1>16, <1>17, <2>1, <2>2, <2>3
       DEF Written
<1>18. CASE g_pipes[i].reader_reply_cap = NoSlot
  <2>1. Readers({i}) = {}
    BY <1>18 DEF Readers
  <2>2. UNCHANGED <<prog, grepIn>>
    <3>1. Woken(Readers({i})) = {}
      BY <2>1 DEF Woken
    <3>2. prog = [q \in Pid |-> prog[q]]
      BY <1>0 DEF JobTypes
    <3> QED
      BY <1>16, <3>1, <3>2 DEF Receive
  <2>3. /\ g_pipes' = [g_pipes EXCEPT ![i].buffer = b \o acc]
        /\ UNCHANGED <<replies, thread>>
    BY <1>15, <1>16, <1>18
  <2> QED
    BY <1>3, <1>6, <1>7, <1>10, <1>11, <1>13, <1>14, <1>16, <1>18, <2>2, <2>3
       DEF Written
<1> QED
  BY <1>17, <1>18

-----------------------------------------------------------------------------
(* The programs. *)

OfThread == {"ls", "grep", "grep_wait", "exit"}

(* Programs end with their processes and belong to threads or not. *)
LEMMA ProgsSound ==
  ASSUME JobInv, NEW v, NEW n, NEW name, Procs(v, n, name),
         prog' = [q \in Pid |-> prog'[q]],
         \A q \in Pid :
           \/ prog'[q] = "none"
           \/ /\ q # v /\ q # n /\ prog[q] # "none" /\ prog'[q] \in Program
              /\ prog'[q] \in OfThread => prog[q] \in OfThread
           \/ /\ q = n /\ prog'[q] \in Program
              /\ prog'[q] \in OfThread => name = "shell_thread"
  PROVE  /\ prog' \in [Pid -> Program] /\ Programs'
         /\ \A q \in Pid : prog'[q] # "none" => pcbs'[q].active
<1>1. \A q \in Pid : prog[q] # "none" => pcbs[q].active
  BY DEF JobInv, JobTypes
<1>2. \A q \in Pid : prog[q] \in OfThread => IsThread(q)
  BY DEF JobInv, Programs, OfThread
<1>3. "none" \in Program /\ "none" \notin OfThread
  BY DEF Program, OfThread
<1>4. \A q \in Pid : prog'[q] \in Program
  BY <1>3
<1>5. ASSUME NEW q \in Pid, prog'[q] # "none"
      PROVE  pcbs'[q].active /\ (prog'[q] \in OfThread => pcbs'[q].name = "shell_thread")
  <2>1. CASE q = n
    BY <1>5, <2>1 DEF Procs
  <2>2. CASE q # n
    <3>1. /\ q # v /\ prog[q] # "none"
          /\ prog'[q] \in OfThread => prog[q] \in OfThread
      BY <1>5, <2>2
    <3>2. pcbs'[q].active = pcbs[q].active /\ pcbs'[q].name = pcbs[q].name
      BY <2>2, <3>1 DEF Procs
    <3> QED
      BY <1>1, <1>2, <3>1, <3>2 DEF IsThread
  <2> QED
    BY <2>1, <2>2
<1>6. Programs'
  BY <1>3, <1>5 DEF Programs, IsThread, OfThread
<1> QED
  BY <1>4, <1>5, <1>6

(* The same when nothing is started. *)
LEMMA ProgsLeft ==
  ASSUME JobInv, NEW v, Procs(v, 0, ""), prog' = [q \in Pid |-> prog'[q]],
         \A q \in Pid :
           \/ prog'[q] = "none"
           \/ /\ q # v /\ prog[q] # "none" /\ prog'[q] \in Program
              /\ prog'[q] \in OfThread => prog[q] \in OfThread
  PROVE  /\ prog' \in [Pid -> Program] /\ Programs'
         /\ \A q \in Pid : prog'[q] # "none" => pcbs'[q].active
<1>1. 0 \notin Pid
  BY ControlTypes DEF JobInv, KInv
<1>2. PICK n, name : n = 0 /\ name = ""
  OBVIOUS
<1>3. Procs(v, n, name)
  BY <1>2
<1>4. \A q \in Pid :
           \/ prog'[q] = "none"
           \/ /\ q # v /\ q # n /\ prog[q] # "none" /\ prog'[q] \in Program
              /\ prog'[q] \in OfThread => prog[q] \in OfThread
           \/ /\ q = n /\ prog'[q] \in Program
              /\ prog'[q] \in OfThread => name = "shell_thread"
  BY <1>1, <1>2
<1> HIDE <1>2
<1> QED
  BY <1>3, <1>4, ProgsSound

(* A step that starts and ends nobody and leaves the programs alone. *)
LEMMA SameProgs ==
  ASSUME JobInv, UNCHANGED prog, Procs(0, 0, "")
  PROVE  /\ prog' \in [Pid -> Program] /\ Programs'
         /\ \A q \in Pid : prog'[q] # "none" => pcbs'[q].active
<1>1. prog \in [Pid -> Program] /\ 0 \notin Pid
  BY ControlTypes DEF JobInv, JobTypes, KInv
<1>2. /\ prog' = [q \in Pid |-> prog'[q]]
      /\ \A q \in Pid : prog'[q] = prog[q] /\ prog[q] \in Program /\ q # 0
  BY <1>1
<1> QED
  BY <1>2, ProgsLeft

(* A new process gets its program, the others keep theirs. *)
LEMMA SpawnProgs ==
  ASSUME JobInv, NEW f \in Program, NEW name, NEW n, Procs(0, n, name), n \in Pid \/ n = 0,
         f \in OfThread => name = "shell_thread",
         prog' = [q \in Pid |-> IF q = NewPid THEN f ELSE prog[q]]
  PROVE  /\ prog' \in [Pid -> Program] /\ Programs'
         /\ \A q \in Pid : prog'[q] # "none" => pcbs'[q].active
         /\ NewPid = n
         /\ \A q \in Pid : prog'[q] = IF q = n THEN f ELSE prog[q]
<1>1. prog \in [Pid -> Program] /\ 0 \notin Pid
  BY ControlTypes DEF JobInv, JobTypes, KInv
<1>2. NewPid = n
  BY <1>1, NewPidIs
<1>3. \A q \in Pid : prog'[q] = IF q = n THEN f ELSE prog[q]
  BY <1>2
<1>4. \A q \in Pid :
        \/ prog'[q] = "none"
        \/ /\ q # 0 /\ q # n /\ prog[q] # "none" /\ prog'[q] \in Program
           /\ prog'[q] \in OfThread => prog[q] \in OfThread
        \/ /\ q = n /\ prog'[q] \in Program
           /\ prog'[q] \in OfThread => name = "shell_thread"
  BY <1>1, <1>3
<1>5. prog' = [q \in Pid |-> prog'[q]]
  OBVIOUS
<1> QED
  BY <1>2, <1>3, <1>4, <1>5, ProgsSound

(* Answers to grep, after which the caller x goes on with f. *)
LEMMA ReceivedProgs ==
  ASSUME JobInv, NEW R, NEW a, NEW x \in Pid, NEW f \in {"exit", "none"}, NEW v,
         Receive(R, a, [prog EXCEPT ![x] = f]), Procs(v, 0, ""),
         v \in {0, x}, v = x => f = "none",
         f = "exit" => prog[x] \in OfThread, prog[x] # "grep_wait"
  PROVE  /\ prog' \in [Pid -> Program] /\ Programs'
         /\ \A q \in Pid : prog'[q] # "none" => pcbs'[q].active
<1>1. prog \in [Pid -> Program] /\ 0 \notin Pid
  BY ControlTypes DEF JobInv, JobTypes, KInv
<1>2. prog' = [q \in Pid |-> prog'[q]]
  BY ReceiveDomain
<1>3. PICK now : now = [prog EXCEPT ![x] = f]
  OBVIOUS
<1>4. \A q \in Pid : now[q] = IF q = x THEN f ELSE prog[q]
  BY <1>1, <1>3
<1>5. \A q \in Pid : \/ prog'[q] = now[q]
                     \/ prog[q] = "grep_wait" /\ prog'[q] \in {"exit", "grep"}
  <2>1. Receive(R, a, now)
    BY <1>3
  <2>2. ASSUME NEW q \in Pid
        PROVE  \/ prog'[q] = now[q]
               \/ prog[q] = "grep_wait" /\ prog'[q] = (IF a = 0 THEN "exit" ELSE "grep")
    BY <2>1, ReceiveProgs, Zenon
  <2>3. (IF a = 0 THEN "exit" ELSE "grep") \in {"exit", "grep"}
    OBVIOUS
  <2> QED
    BY <2>2, <2>3, Zenon
<1>6. \A q \in Pid :
        \/ prog'[q] = "none"
        \/ /\ q # v /\ prog[q] # "none" /\ prog'[q] \in Program
           /\ prog'[q] \in OfThread => prog[q] \in OfThread
  <2> TAKE q \in Pid
  <2>1. q # 0 /\ prog[q] \in Program
    BY <1>1
  <2>2. CASE q = x
    BY <1>4, <1>5, <2>1, <2>2 DEF Program, OfThread
  <2>3. CASE q # x
    BY <1>4, <1>5, <2>1, <2>3 DEF Program, OfThread
  <2> QED
    BY <2>2, <2>3
<1> QED
  BY <1>2, <1>6, ProgsLeft

(* A write changes the program of a waiting grep at most. *)
LEMMA WrittenProgs ==
  ASSUME JobInv, NEW R, NEW a, Receive(R, a, prog), Procs(0, 0, "")
  PROVE  /\ prog' \in [Pid -> Program] /\ Programs'
         /\ \A q \in Pid : prog'[q] # "none" => pcbs'[q].active
<1>1. prog \in [Pid -> Program] /\ 0 \notin Pid
  BY ControlTypes DEF JobInv, JobTypes, KInv
<1>2. prog' = [q \in Pid |-> prog'[q]]
  BY ReceiveDomain
<1>3. \A q \in Pid : \/ prog'[q] = prog[q]
                     \/ prog[q] = "grep_wait" /\ prog'[q] \in {"exit", "grep"}
  BY ReceiveProgs
<1>4. \A q \in Pid :
        \/ prog'[q] = "none"
        \/ /\ q # 0 /\ prog[q] # "none" /\ prog'[q] \in Program
           /\ prog'[q] \in OfThread => prog[q] \in OfThread
  BY <1>1, <1>3 DEF Program, OfThread
<1> QED
  BY <1>2, <1>4, ProgsLeft

(* What recovery leaves of the programs. *)
LEMMA RecoveredProgs ==
  ASSUME JobInv, NEW v \in Active, NEW n, NEW name, Procs(v, n, name),
         n \in Pid \/ n = 0, n \in Pid => name \in Archive, Recovered(v)
  PROVE  /\ prog' \in [Pid -> Program] /\ Programs'
         /\ \A q \in Pid : prog'[q] # "none" => pcbs'[q].active
         /\ \A q \in Pid : prog'[q] \in OfThread => q # v /\ q # n /\ prog'[q] = prog[q]
         /\ \A q \in Pid : q # v /\ q # n => prog'[q] \in {prog[q], "none"}
         /\ \A q \in Pid : q # v /\ q # n /\ pcbs[q].active => prog'[q] = prog[q]
<1>1. prog \in [Pid -> Program] /\ 0 \notin Pid /\ v \in Pid
  BY ControlTypes DEF JobInv, JobTypes, KInv, Active
<1>2. NewPid = n
  BY <1>1, NewPidIs
<1>3. prog' = [q \in Pid |-> IF q = n /\ pcbs'[q].name \in Driver THEN "init"
                             ELSE IF ~pcbs'[q].active THEN "none" ELSE prog[q]]
  BY <1>2 DEF Recovered
<1>4. \A q \in Pid : prog'[q] = IF q = n /\ pcbs'[q].name \in Driver THEN "init"
                                ELSE IF ~pcbs'[q].active THEN "none" ELSE prog[q]
  BY <1>3
<1>5. prog' = [q \in Pid |-> prog'[q]]
  BY <1>3
<1>6. \A q \in Pid : ~pcbs[q].active => prog[q] = "none"
  BY DEF JobInv, JobTypes
<1>7. /\ n \in Pid => ~pcbs[n].active /\ n # v
      /\ ~pcbs'[v].active
      /\ \A q \in Pid \ {v, n} : pcbs'[q].active = pcbs[q].active
  BY <1>1 DEF Procs
<1>8. ASSUME NEW q \in Pid
      PROVE  /\ \/ prog'[q] = "none"
                \/ q # v /\ q # n /\ prog[q] # "none" /\ prog'[q] = prog[q]
                \/ q = n /\ prog'[q] = "init"
             /\ q # v /\ q # n /\ pcbs[q].active => prog'[q] = prog[q]
  BY <1>1, <1>4, <1>6, <1>7
<1>9. /\ "init" \in Program /\ "init" \notin OfThread /\ "none" \notin OfThread
      /\ \A q \in Pid : prog[q] \in Program
  BY <1>1 DEF Program, OfThread
<1>10. /\ prog' \in [Pid -> Program] /\ Programs'
       /\ \A q \in Pid : prog'[q] # "none" => pcbs'[q].active
  <2>1. \A q \in Pid :
           \/ prog'[q] = "none"
           \/ /\ q # v /\ q # n /\ prog[q] # "none" /\ prog'[q] \in Program
              /\ prog'[q] \in OfThread => prog[q] \in OfThread
           \/ /\ q = n /\ prog'[q] \in Program
              /\ prog'[q] \in OfThread => name = "shell_thread"
    BY <1>8, <1>9
  <2> QED
    BY <1>5, <2>1, ProgsSound
<1> QED
  BY <1>8, <1>9, <1>10

-----------------------------------------------------------------------------
(* The actions by what they do to the process table. *)

(* Steps after which the same processes are there. *)
LEMMA PlainSteps ==
  ASSUME JobInv, NEW p \in Pid,
         \/ WaitForDrivers(p) \/ GetShm(p) \/ Prompt(p) \/ MakePipe(p) \/ LeftPlain(p)
         \/ LeftWrite(p) \/ WaitChild(p) \/ WaitLeft(p) \/ WaitRight(p)
         \/ ClosePipe(p) \/ Ls(p) \/ Grep(p) \/ Ready(p) \/ WriteChunk(p)
         \/ UNCHANGED vars
  PROVE  Procs(0, 0, "")
<1>1. Inv
  BY DEF JobInv, KInv
<1>2. CASE UNCHANGED vars \/ (\E data : PipeWrite(p, data)) \/ PipeWrClose(p)
           \/ PipeRead(p) \/ DriverReady(p) \/ WaitAllReady(p)
  BY <1>1, <1>2, PipeCallsProcs DEF Step
<1>3. CASE ShmGet(p) \/ SysPipe(p) \/ PipeClose(p) \/ \E t : SysWait(p, t)
  BY <1>1, <1>3, ShmGetProcs, FdProcs, SysWaitProcs DEF Step
<1>4. CASE WaitForDrivers(p) \/ GetShm(p) \/ Prompt(p) \/ MakePipe(p) \/ LeftPlain(p)
  BY <1>2, <1>3, <1>4 DEF WaitForDrivers, GetShm, Prompt, MakePipe, LeftPlain
<1>5. CASE LeftWrite(p) \/ Ls(p) \/ WriteChunk(p)
  <2>1. (\E data : PipeWrite(p, data)) \/ PipeWrClose(p)
    BY <1>5 DEF LeftWrite, Ls, WriteChunk, CloseWrite
  <2> QED
    BY <1>2, <2>1
<1>6. CASE WaitChild(p) \/ WaitLeft(p) \/ WaitRight(p) \/ ClosePipe(p)
  BY <1>2, <1>3, <1>6 DEF WaitChild, WaitLeft, WaitRight, Wait, ClosePipe
<1>7. CASE Grep(p) \/ Ready(p)
  BY <1>2, <1>7 DEF Grep, Ready
<1> QED
  BY <1>2, <1>4, <1>5, <1>6, <1>7

(* A thread or a program is started, or cannot be. *)
LEMMA SpawnSteps ==
  ASSUME JobInv, NEW p \in Pid, NEW f, SpawnThread(p, f)
  PROVE  /\ \E n : (n \in Pid \/ n = 0) /\ Step(0, n, "shell_thread")
         /\ UNCHANGED <<g_pipes, replies, grepIn>>
         /\ prog' = [q \in Pid |-> IF q = NewPid THEN f ELSE prog[q]]
<1>1. Inv /\ 0 \notin Pid
  BY ControlTypes DEF JobInv, KInv
<1>2. Step(0, 0, "") => Step(0, 0, "shell_thread")
  BY <1>1 DEF Step, Procs
<1>3. CASE SysClone(p, NoPipe)
  BY <1>1, <1>2, <1>3, SysCloneProcs DEF SpawnThread
<1>4. CASE UNCHANGED vars
  <2>1. Step(0, 0, "")
    BY <1>1, <1>4, PipeCallsProcs
  <2> QED
    BY <1>2, <1>4, <2>1 DEF SpawnThread, vars
<1> QED
  BY <1>3, <1>4 DEF SpawnThread

(* LeftExec starts at most one process, an application. *)
LEMMA ExecSteps ==
  ASSUME JobInv, NEW p \in Pid, LeftExec(p)
  PROVE  /\ \E n : (n \in Pid \/ n = 0) /\ Step(0, n, "app")
         /\ UNCHANGED <<g_pipes, replies, grepIn>>
         /\ prog' = [q \in Pid |-> IF q = NewPid THEN "app" ELSE prog[q]]
<1>1. Inv /\ 0 \notin Pid
  BY ControlTypes DEF JobInv, KInv
<1>2. Step(0, 0, "") => Step(0, 0, "app")
  BY <1>1 DEF Step, Procs
<1>3. CASE SysExec(p)
  BY <1>1, <1>2, <1>3, SysExecProcs DEF LeftExec
<1>4. CASE UNCHANGED vars
  <2>1. Step(0, 0, "")
    BY <1>1, <1>4, PipeCallsProcs
  <2> QED
    BY <1>2, <1>4, <2>1 DEF LeftExec, vars
<1> QED
  BY <1>3, <1>4 DEF LeftExec

(* SYS_EXIT and SYS_THREAD_EXIT *)
LEMMA ExitSteps ==
  ASSUME JobInv, NEW p \in Pid, LeftExit(p) \/ ExitThread(p) \/ App(p)
  PROVE  /\ Ends(p, 0, "", WrittenBy(p))
         /\ Receive(Readers(WrittenBy(p)), 0, [prog EXCEPT ![p] = "none"])
         /\ UNCHANGED grepIn /\ prog[p] # "grep_wait"
         /\ p \in Active /\ thread[p] = "running"
<1>1. Inv /\ WakeInv /\ Programs
  BY DEF JobInv, KInv
<1>2. ThreadExit(p) \/ SysExit(p)
  BY DEF LeftExit, ExitThread, App
<1>3. Ends(p, 0, "", WrittenBy(p))
  BY <1>1, <1>2, ExitEnds
<1>4. Receive(Readers(WrittenBy(p)), 0, [prog EXCEPT ![p] = "none"])
  BY DEF LeftExit, ExitThread, App
<1>5. UNCHANGED grepIn
  BY <1>4 DEF Receive
<1>6. p \in Active /\ thread[p] = "running"
  BY <1>2 DEF ThreadExit, SysExit, Calls, Active
<1>7. prog[p] # "grep_wait"
  <2>1. CASE LeftExit(p)
    <3>1. ~IsThread(p)
      BY <2>1 DEF LeftExit, At, IsShell, IsThread
    <3> QED
      BY <1>1, <3>1 DEF Programs
  <2>2. CASE ExitThread(p) \/ App(p)
    BY <2>2 DEF ExitThread, App
  <2> QED
    BY <2>1, <2>2
<1> QED
  BY <1>3, <1>4, <1>5, <1>6, <1>7

(* Faults *)
LEMMA FaultSteps ==
  ASSUME JobInv, NEW p \in Pid, Crash(p) \/ FaultOf(p)
  PROVE  /\ p \in Active /\ thread[p] = "running" /\ Recovered(p)
         /\ \E n : /\ n \in Pid \/ n = 0
                   /\ n \in Pid => pcbs[p].name \in Archive
                   /\ Ends(p, n, pcbs[p].name, {})
<1>1. Inv /\ 0 \notin Pid
  BY ControlTypes DEF JobInv, KInv
<1>2. Calls(p) /\ Recovered(p)
  BY DEF Crash, FaultOf, At, IsShell
<1>3. p \in Active /\ thread[p] = "running" /\ generic_recover_process(p)
  BY <1>2 DEF Calls, Active, Recovered
<1>4. CASE Ends(p, 0, "", {})
  <2>1. Ends(p, 0, pcbs[p].name, {})
    BY <1>1, <1>4 DEF Ends, Step, Procs
  <2> QED
    BY <1>1, <1>2, <1>3, <2>1
<1> QED
  BY <1>1, <1>2, <1>3, <1>4, RecoverEnds

(* The bytes grep is handed. *)
LEMMA WrittenInput ==
  ASSUME JobInv, NEW p \in Pid, WriteChunk(p)
  PROVE  /\ grepIn' \in Seq(Byte)
         /\ prog' \in [Pid -> Program] /\ Programs'
         /\ \A q \in Pid : prog'[q] # "none" => pcbs'[q].active
<1>1. PICK i \in PipeId : \E acc : Written(p, i, acc)
  BY WriteIs
<1>2. PICK acc : Written(p, i, acc)
  BY <1>1
<1>3. Procs(0, 0, "")
  BY PlainSteps
<1>4. grepIn \in Seq(Byte) /\ acc \in Seq(Byte)
  BY <1>2 DEF JobInv, JobTypes, Written
<1>5. CASE Len(acc) > 0 /\ Receive(Readers({i}), Head(acc), prog)
  <2>1. Head(acc) \in Byte
    BY <1>4, <1>5
  <2>2. grepIn' \in {grepIn, Append(grepIn, Head(acc))}
    BY <1>5 DEF Receive
  <2>3. grepIn' \in Seq(Byte)
    BY <1>4, <2>1, <2>2
  <2> QED
    BY <1>3, <1>5, <2>3, WrittenProgs
<1>6. CASE UNCHANGED <<prog, grepIn>>
  BY <1>3, <1>4, <1>6, SameProgs
<1> QED
  BY <1>2, <1>5, <1>6 DEF Written

-----------------------------------------------------------------------------
(* The types of the next state. *)

(* What each step does to the programs and to what grep has read. *)
LEMMA ProgTypes ==
  ASSUME JobInv, JobsNext
  PROVE  /\ grepIn' \in Seq(Byte)
         /\ prog' \in [Pid -> Program] /\ Programs'
         /\ \A q \in Pid : prog'[q] # "none" => pcbs'[q].active
<1>0. /\ prog \in [Pid -> Program] /\ grepIn \in Seq(Byte) /\ 0 \notin Pid /\ Inv
      /\ Programs
  BY ControlTypes DEF JobInv, JobTypes, KInv
<1>1. PICK p \in Pid : ShellStep(p) \/ OtherStep(p) \/ Prompt(p) \/ FaultOf(p)
  BY DEF JobsNext
<1>2. CASE UNCHANGED <<prog, grepIn>> /\ Procs(0, 0, "")
  BY <1>0, <1>2, SameProgs
<1>3. CASE WaitForDrivers(p) \/ GetShm(p) \/ MakePipe(p) \/ LeftPlain(p)
           \/ WaitChild(p) \/ WaitLeft(p) \/ WaitRight(p) \/ ClosePipe(p)
  <2>1. UNCHANGED <<prog, grepIn>>
    BY <1>3 DEF WaitForDrivers, GetShm, MakePipe, LeftPlain, WaitChild, WaitLeft,
                WaitRight, Wait, ClosePipe
  <2> QED
    BY <1>2, <1>3, <2>1, PlainSteps
<1>4. CASE Prompt(p)
  <2>1. UNCHANGED prog /\ grepIn' = <<>>
    BY <1>4 DEF Prompt
  <2>2. Procs(0, 0, "")
    BY <1>4, PlainSteps
  <2>3. <<>> \in Seq(Byte)
    OBVIOUS
  <2> QED
    BY <2>1, <2>2, <2>3, SameProgs
<1>5. ASSUME NEW f \in {"ls", "grep"}, SpawnThread(p, f)
      PROVE  /\ grepIn' \in Seq(Byte)
             /\ prog' \in [Pid -> Program] /\ Programs'
             /\ \A q \in Pid : prog'[q] # "none" => pcbs'[q].active
  <2>1. /\ \E n : (n \in Pid \/ n = 0) /\ Step(0, n, "shell_thread")
        /\ UNCHANGED grepIn
        /\ prog' = [q \in Pid |-> IF q = NewPid THEN f ELSE prog[q]]
    BY <1>5, SpawnSteps
  <2>2. PICK n : (n \in Pid \/ n = 0) /\ Procs(0, n, "shell_thread")
    BY <2>1 DEF Step
  <2>3. f \in Program
    BY <1>5 DEF Program
  <2> QED
    BY <1>0, <2>1, <2>2, <2>3, SpawnProgs
<1>6. CASE LeftLs(p) \/ Right(p)
  <2>1. CASE LeftLs(p)
    BY <1>5, <2>1 DEF LeftLs
  <2>2. CASE Right(p) /\ SpawnThread(p, "grep")
    BY <1>5, <2>2
  <2>3. CASE Right(p) /\ UNCHANGED <<vars, prog, grepIn>>
    BY <1>2, <2>3, PlainSteps
  <2> QED
    BY <1>6, <2>1, <2>2, <2>3 DEF Right
<1>7. CASE LeftExec(p)
  <2>1. /\ \E n : (n \in Pid \/ n = 0) /\ Step(0, n, "app")
        /\ UNCHANGED grepIn
        /\ prog' = [q \in Pid |-> IF q = NewPid THEN "app" ELSE prog[q]]
    BY <1>7, ExecSteps
  <2>2. PICK n : (n \in Pid \/ n = 0) /\ Procs(0, n, "app")
    BY <2>1 DEF Step
  <2>3. "app" \in Program /\ "app" \notin OfThread
    BY DEF Program, OfThread
  <2> QED
    BY <1>0, <2>1, <2>2, <2>3, SpawnProgs
<1>8. CASE WriteChunk(p)
  BY <1>8, WrittenInput
<1>9. CASE LeftWrite(p) /\ CloseWrite(p, prog)
  <2>1. Procs(0, 0, "")
    BY <1>9, PlainSteps
  <2>2. Receive(Readers({PipeOf(p)}), 0, prog)
    BY <1>9 DEF CloseWrite
  <2>3. UNCHANGED grepIn
    BY <2>2 DEF Receive
  <2> QED
    BY <1>0, <2>1, <2>2, <2>3, WrittenProgs
<1>10. CASE Ls(p) /\ CloseWrite(p, [prog EXCEPT ![p] = "exit"])
  <2>1. Procs(0, 0, "")
    BY <1>10, PlainSteps
  <2>2. Receive(Readers({PipeOf(p)}), 0, [prog EXCEPT ![p] = "exit"]) /\ prog[p] = "ls"
    BY <1>10 DEF CloseWrite, Ls
  <2>3. UNCHANGED grepIn
    BY <2>2 DEF Receive
  <2>4. prog[p] \in OfThread /\ p # 0
    BY <1>0, <2>2 DEF OfThread
  <2>5. PICK v, f : v = 0 /\ f = "exit"
    OBVIOUS
  <2>6. /\ f \in {"exit", "none"} /\ Receive(Readers({PipeOf(p)}), 0, [prog EXCEPT ![p] = f])
        /\ Procs(v, 0, "") /\ v \in {0, p} /\ (v = p => f = "none")
        /\ (f = "exit" => prog[p] \in OfThread) /\ prog[p] # "grep_wait"
    BY <2>1, <2>2, <2>4, <2>5
  <2> HIDE <2>5
  <2> QED
    BY <1>0, <2>3, <2>6, ReceivedProgs
<1>11. CASE LeftExit(p) \/ ExitThread(p) \/ App(p)
  <2>1. /\ Ends(p, 0, "", WrittenBy(p))
        /\ Receive(Readers(WrittenBy(p)), 0, [prog EXCEPT ![p] = "none"])
        /\ UNCHANGED grepIn /\ prog[p] # "grep_wait"
    BY <1>11, ExitSteps
  <2>2. Procs(p, 0, "")
    BY <2>1 DEF Ends, Step
  <2>3. PICK v, f : v = p /\ f = "none"
    OBVIOUS
  <2>4. /\ f \in {"exit", "none"}
        /\ Receive(Readers(WrittenBy(p)), 0, [prog EXCEPT ![p] = f])
        /\ Procs(v, 0, "") /\ v \in {0, p} /\ (v = p => f = "none")
        /\ (f = "exit" => prog[p] \in OfThread) /\ prog[p] # "grep_wait"
    BY <2>1, <2>2, <2>3
  <2> HIDE <2>3
  <2> QED
    BY <1>0, <2>1, <2>4, ReceivedProgs
<1>12. CASE Crash(p) \/ FaultOf(p)
  <2>1. /\ p \in Active /\ Recovered(p)
        /\ \E n : /\ n \in Pid \/ n = 0
                  /\ n \in Pid => pcbs[p].name \in Archive
                  /\ Procs(p, n, pcbs[p].name)
    BY <1>12, FaultSteps DEF Ends, Step
  <2>2. PICK n : /\ n \in Pid \/ n = 0
                 /\ n \in Pid => pcbs[p].name \in Archive
                 /\ Procs(p, n, pcbs[p].name)
    BY <2>1
  <2>3. UNCHANGED grepIn
    BY <2>1 DEF Recovered
  <2> QED
    BY <1>0, <2>1, <2>2, <2>3, RecoveredProgs
<1>13. ASSUME NEW f \in Program, prog' = [prog EXCEPT ![p] = f], Procs(0, 0, ""),
              prog[p] # "none", f \in OfThread => prog[p] \in OfThread
       PROVE  /\ prog' \in [Pid -> Program] /\ Programs'
              /\ \A q \in Pid : prog'[q] # "none" => pcbs'[q].active
  <2>1. \A q \in Pid : prog'[q] = (IF q = p THEN f ELSE prog[q]) /\ q # 0
    BY <1>0, <1>13
  <2>2. prog' = [q \in Pid |-> prog'[q]]
    BY <1>0, <1>13
  <2>3. \A q \in Pid :
          \/ prog'[q] = "none"
          \/ /\ q # 0 /\ prog[q] # "none" /\ prog'[q] \in Program
             /\ prog'[q] \in OfThread => prog[q] \in OfThread
    BY <1>0, <1>13, <2>1
  <2> QED
    BY <1>13, <2>2, <2>3, ProgsLeft
<1>14. CASE Grep(p)
  <2>1. Procs(0, 0, "") /\ prog[p] = "grep"
    BY <1>14, PlainSteps DEF Grep
  <2>2. CASE UNCHANGED prog
    <3>1. CASE UNCHANGED grepIn
      BY <1>2, <2>1, <2>2, <3>1
    <3>2. CASE /\ PipeRead(p) /\ g_pipes[PipeOf(p)].buffer # <<>>
               /\ grepIn' = Append(grepIn, Head(g_pipes[PipeOf(p)].buffer))
      <4>1. PICK b : b = g_pipes[PipeOf(p)].buffer
        OBVIOUS
      <4>2. PipeOf(p) \in PipeId
        BY <1>0, <3>2, PipeOfType, InvParts DEF PipeRead
      <4>3. b \in Seq(Byte) /\ b # <<>>
        BY <1>0, <3>2, <4>1, <4>2, InvParts DEF RestOK, Pipe
      <4>4. Head(b) \in Byte
        BY <4>3
      <4>5. grepIn' \in Seq(Byte)
        BY <1>0, <3>2, <4>1, <4>4
      <4> QED
        BY <2>1, <2>2, <4>5, SameProgs
    <3> QED
      BY <1>14, <2>2, <3>1, <3>2 DEF Grep
  <2>3. CASE /\ UNCHANGED grepIn
             /\ \E f \in {"grep_wait", "exit"} : prog' = [prog EXCEPT ![p] = f]
    <3>1. PICK f \in {"grep_wait", "exit"} : prog' = [prog EXCEPT ![p] = f]
      BY <2>3
    <3>2. f \in Program /\ prog[p] \in OfThread /\ prog[p] # "none"
      BY <2>1 DEF Program, OfThread
    <3> QED
      BY <1>0, <1>13, <2>1, <2>3, <3>1, <3>2
  <2> QED
    BY <1>14, <2>2, <2>3 DEF Grep
<1>15. CASE Ready(p)
  <2>1. Procs(0, 0, "") /\ prog[p] = "init" /\ prog' = [prog EXCEPT ![p] = "none"]
        /\ UNCHANGED grepIn
    BY <1>15, PlainSteps DEF Ready
  <2>2. "none" \in Program /\ "none" \notin OfThread
    BY DEF Program, OfThread
  <2> QED
    BY <1>0, <1>13, <2>1, <2>2
<1> QED
  BY <1>1, <1>3, <1>4, <1>6, <1>7, <1>8, <1>9, <1>10, <1>11, <1>12, <1>14, <1>15
     DEF ShellStep, OtherStep, LeftWrite, Ls

(* Every step keeps the types. *)
LEMMA TypesNext ==
  ASSUME JobInv, JobsNext
  PROVE  JobTypes' /\ Programs'
BY ProgTypes, ShellTypes DEF JobTypes

-----------------------------------------------------------------------------
(* Shells come and go, and their program counter. *)

(* The shells after a step: those before, without the ended, with the new  *)
(* process.                                                                *)
LEMMA ShellsAfter ==
  ASSUME NEW v, NEW n, NEW name, Procs(v, n, name)
  PROVE  Shells' \subseteq (Shells \ {v}) \cup {q \in {n} : q \in Pid /\ name = "shell"}
BY DEF Procs, Shells, Active

(* A shell is only started again in place of one. *)
LEMMA ShellsNext ==
  ASSUME JobInv, NEW p \in Pid, ShellStep(p) \/ OtherStep(p) \/ Prompt(p) \/ FaultOf(p)
  PROVE  \/ Shells' \subseteq Shells
         \/ shell' = NewShell /\ p \in Shells /\ Recovered(p)
<1>1. CASE \E v, n, name : Procs(v, n, name) /\ (n \in Pid => name # "shell")
  BY <1>1, ShellsAfter
<1>2. 0 \notin Pid
  BY ControlTypes DEF JobInv, KInv
<1>3. CASE WaitForDrivers(p) \/ GetShm(p) \/ Prompt(p) \/ MakePipe(p) \/ LeftPlain(p)
           \/ LeftWrite(p) \/ WaitChild(p) \/ WaitLeft(p) \/ WaitRight(p)
           \/ ClosePipe(p) \/ Ls(p) \/ Grep(p) \/ Ready(p) \/ UNCHANGED vars
  <2>1. Procs(0, 0, "")
    BY <1>3, PlainSteps
  <2> QED
    BY <1>1, <1>2, <2>1
<1>4. CASE (\E f : SpawnThread(p, f)) \/ LeftExec(p)
  <2>1. \E n : Step(0, n, "shell_thread") \/ Step(0, n, "app")
    BY <1>4, SpawnSteps, ExecSteps
  <2> QED
    BY <1>1, <2>1 DEF Step
<1>5. CASE LeftLs(p) \/ Right(p)
  BY <1>3, <1>4, <1>5 DEF LeftLs, Right
<1>6. CASE LeftExit(p) \/ ExitThread(p) \/ App(p)
  <2>1. Procs(p, 0, "")
    BY <1>6, ExitSteps DEF Ends, Step
  <2> QED
    BY <1>1, <1>2, <2>1
<1>7. CASE Crash(p) \/ FaultOf(p)
  <2>1. PICK n : Procs(p, n, pcbs[p].name)
    BY <1>7, FaultSteps DEF Ends, Step
  <2>2. p \in Active /\ Recovered(p)
    BY <1>7, FaultSteps
  <2>3. CASE pcbs[p].name = "shell"
    BY <2>2, <2>3 DEF Recovered, Shells
  <2>4. CASE pcbs[p].name # "shell"
    BY <1>1, <2>1, <2>4
  <2> QED
    BY <2>3, <2>4
<1> QED
  BY <1>3, <1>4, <1>5, <1>6, <1>7 DEF ShellStep, OtherStep

(* How the program counter of main() changes. *)
LEMMA PcNext ==
  ASSUME JobInv, NEW p \in Pid, ShellStep(p) \/ OtherStep(p) \/ Prompt(p) \/ FaultOf(p)
  PROVE  \/ shell'.pc = shell.pc \/ WaitForDrivers(p) \/ LeftExit(p)
         \/ shell' = NewShell /\ p \in Shells /\ Recovered(p)
         \/ At(p, shell.pc) /\ shell.pc # "start" /\ shell'.pc \notin {"gone", "shm"}
<1>0. JobTypes
  BY DEF JobInv
<1>1. ASSUME NEW pc \in ShellPc, Goto(pc) PROVE shell'.pc = pc
  BY <1>0, <1>1, GotoFields
<1>2. CASE GetShm(p) \/ LeftPlain(p) \/ WaitChild(p) \/ WaitLeft(p) \/ WaitRight(p)
           \/ ClosePipe(p)
  <2>1. At(p, shell.pc) /\ shell.pc # "start"
    BY <1>2 DEF GetShm, LeftPlain, WaitChild, WaitLeft, WaitRight, ClosePipe, At
  <2>2. \E pc \in {"prompt", "crash", "right", "write", "wait_right", "close"} : Goto(pc)
    BY <1>2 DEF GetShm, LeftPlain, WaitChild, WaitLeft, WaitRight, ClosePipe
  <2>3. shell'.pc \in {"prompt", "crash", "right", "write", "wait_right", "close"}
    BY <1>1, <2>2 DEF ShellPc
  <2> QED
    BY <2>1, <2>3
<1>3. CASE Prompt(p)
  BY <1>3, PromptFields DEF Prompt, At
<1>4. CASE MakePipe(p) \/ LeftLs(p)
  BY <1>0, <1>4, MakePipeFields, LeftLsFields DEF MakePipe, LeftLs, At
<1>5. CASE LeftExec(p)
  <2>1. At(p, "left") /\ shell.pc = "left"
    BY <1>5 DEF LeftExec, At
  <2>2. shell'.pc \in {"wait_child", "right"}
    BY <1>0, <1>5, LeftExecFields
  <2> QED
    BY <2>1, <2>2
<1>6. CASE Right(p)
  <2>1. At(p, "right") /\ shell.pc = "right"
    BY <1>6 DEF Right, At
  <2>2. shell'.pc \in {"wait_left", "prompt"}
    BY <1>0, <1>6, RightFields
  <2> QED
    BY <2>1, <2>2
<1>7. CASE WriteChunk(p)
  BY <1>0, <1>7, WriteFields
<1>8. CASE LeftWrite(p) /\ Goto("right")
  BY <1>1, <1>8 DEF LeftWrite, At, ShellPc
<1>9. CASE UNCHANGED shell
  BY <1>9
<1>10. CASE Crash(p) \/ FaultOf(p)
  <2>1. p \in Active /\ Recovered(p)
    BY <1>10, FaultSteps
  <2> QED
    BY <1>9, <2>1 DEF Recovered, Shells
<1> QED
  BY <1>2, <1>3, <1>4, <1>5, <1>6, <1>7, <1>8, <1>9, <1>10
     DEF ShellStep, OtherStep, LeftWrite, Ls, Grep, ExitThread, App, Ready

(* Every step keeps ShellGone. *)
LEMMA GoneNext ==
  ASSUME JobInv, JobsNext
  PROVE  ShellGone'
<1>1. PICK p \in Pid : ShellStep(p) \/ OtherStep(p) \/ Prompt(p) \/ FaultOf(p)
  BY DEF JobsNext
<1>2. NewShell.pc # "gone"
  BY NewShellFields
<1>3. SUFFICES ASSUME shell'.pc = "gone" PROVE Shells' = {}
  BY DEF ShellGone
<1>4. CASE shell.pc = "gone"
  <2>1. Shells = {}
    BY <1>4 DEF JobInv, ShellGone
  <2> QED
    BY <1>1, <2>1, ShellsNext
<1>5. CASE LeftExit(p)
  <2>1. Shells = {p}
    BY <1>5, ShellRuns DEF LeftExit, JobInv
  <2>2. Procs(p, 0, "") /\ 0 \notin Pid
    BY <1>5, ExitSteps, ControlTypes DEF Ends, Step, JobInv, KInv
  <2>3. Shells' \subseteq (Shells \ {p}) \cup {q \in {0} : q \in Pid /\ "" = "shell"}
    BY <2>2, ShellsAfter
  <2> QED
    BY <2>1, <2>2, <2>3
<1>6. CASE WaitForDrivers(p)
  <2>1. shell'.pc = "shm"
    BY <1>6, GotoFields DEF WaitForDrivers, JobInv, ShellPc
  <2> QED
    BY <1>3, <2>1
<1> QED
  BY <1>1, <1>2, <1>3, <1>4, <1>5, <1>6, PcNext

-----------------------------------------------------------------------------
(* The boot. *)

(* No driver takes its SYS_DRIVER_READY back. *)
LEMMA ReadyStays ==
  ASSUME Inv, [Next]_vars, NEW d \in Driver, driver_ready[d]
  PROVE  driver_ready'[d]
<1>1. CASE UNCHANGED driver_ready
  BY <1>1
<1>2. CASE UNCHANGED vars
  BY <1>1, <1>2 DEF vars
<1>3. CASE Next
  <2>1. PICK p \in Pid :
          \/ PageFault(p) \/ Fault(p) \/ SysPipe(p) \/ (\E data \in Chunk : PipeWrite(p, data))
          \/ PipeRead(p) \/ PipeWrClose(p) \/ PipeClose(p) \/ (\E t \in Pid : SysWait(p, t))
          \/ (\E i \in PipeId \cup {NoPipe} : SysClone(p, i)) \/ ThreadExit(p)
          \/ SysExec(p) \/ (\E t \in Pid : SysKill(p, t)) \/ SysExit(p)
          \/ DriverReady(p) \/ WaitAllReady(p) \/ ShmGet(p)
          \/ \E name \in Driver \cup {"shell"} : SysRecover(p, name)
    BY <1>3 DEF Next
  <2>2. CASE Panic
    BY <1>1, <2>2 DEF Panic, readyVars
  <2>3. CASE \E t : generic_recover_process(t)
    BY <1>1, <2>3 DEF generic_recover_process, readyVars
  <2>4. CASE PageFault(p) \/ Fault(p) \/ (\E t \in Pid : SysKill(p, t))
             \/ \E name \in Driver \cup {"shell"} : SysRecover(p, name)
    BY <1>1, <2>2, <2>3, <2>4 DEF PageFault, Fault, SysKill, SysRecover, readyVars
  <2>5. CASE SysPipe(p) \/ (\E data \in Chunk : PipeWrite(p, data)) \/ PipeRead(p)
             \/ PipeWrClose(p) \/ PipeClose(p) \/ (\E t \in Pid : SysWait(p, t))
    BY <1>1, <2>5 DEF SysPipe, PipeWrite, PipeRead, PipeWrClose, PipeClose, SysWait,
                      readyVars
  <2>6. CASE \/ \E i \in PipeId \cup {NoPipe} : SysClone(p, i)
             \/ ThreadExit(p) \/ SysExec(p) \/ SysExit(p)
    BY <1>1, <2>2, <2>6 DEF SysClone, ThreadExit, SysExec, SysExit, readyVars
  <2>7. CASE WaitAllReady(p) \/ ShmGet(p)
    BY <1>1, <2>2, <2>7 DEF WaitAllReady, ShmGet, readyVars
  <2>8. CASE DriverReady(p)
    <3>1. driver_ready' = [driver_ready EXCEPT ![pcbs[p].name] = TRUE]
      BY <2>8 DEF DriverReady
    <3>2. driver_ready \in [Driver -> BOOLEAN]
      BY DEF Inv, TypeOK
    <3> QED
      BY <3>1, <3>2
  <2> QED
    BY <2>1, <2>4, <2>5, <2>6, <2>7, <2>8
<1> QED
  BY <1>2, <1>3

(* The slot of a blocked reader is nobody else's. *)
LEMMA ReaderOwner ==
  ASSUME NEW T, NEW P, NEW r, NEW free, NEW fresh, Sound(T, P, r, free, fresh),
         NEW i \in PipeId, NEW s, s = P[i].reader_reply_cap, s # NoSlot
  PROVE  /\ s \notin free \cup fresh
         /\ \A j \in PipeId : j # i => P[j].reader_reply_cap # s
         /\ \A w \in Pid : T[w].reply_cap # s
         /\ s # r
<1> DEFINE own == OwnOf(T, P, r)
<1>1. /\ \A o \in Owner : own[o] \cap (free \cup fresh) = {}
      /\ \A o, q \in Owner : o # q => own[o] \cap own[q] = {}
  BY DEF Sound, Exclusive
<1>2. ASSUME NEW j \in PipeId
      PROVE  /\ <<"reader", j>> \in Owner
             /\ own[<<"reader", j>>] = {P[j].reader_reply_cap} \ {NoSlot}
  BY OwnedSlots
<1>3. ASSUME NEW w \in Pid
      PROVE  /\ <<"caps", w>> \in Owner /\ <<"shm", w>> \in Owner
             /\ <<"reply", w>> \in Owner
             /\ own[<<"caps", w>>] = T[w].caps
             /\ own[<<"shm", w>>] = ShmOf(T[w])
             /\ own[<<"reply", w>>] = {T[w].reply_cap} \ {NoSlot}
  BY OwnedSlots
<1>4. <<"ready", 0>> \in Owner /\ own[<<"ready", 0>>] = {r} \ {NoSlot}
  BY OwnedSlots
<1> HIDE DEF own
<1>6. s \in own[<<"reader", i>>] /\ <<"reader", i>> \in Owner
  BY <1>2
<1>7. s \notin free \cup fresh
  BY <1>1, <1>6
<1>8. ASSUME NEW j \in PipeId, j # i PROVE P[j].reader_reply_cap # s
  <2>1. <<"reader", i>> # <<"reader", j>>
    BY <1>8
  <2>2. <<"reader", j>> \in Owner
    BY <1>2
  <2>3. s \notin own[<<"reader", j>>]
    BY <1>1, <1>6, <2>1, <2>2
  <2> QED
    BY <1>2, <2>3
<1>9. ASSUME NEW w \in Pid PROVE T[w].reply_cap # s
  <2>1. <<"reader", i>> # <<"reply", w>>
    OBVIOUS
  <2>2. <<"reply", w>> \in Owner
    BY <1>3
  <2>3. s \notin own[<<"reply", w>>]
    BY <1>1, <1>6, <2>1, <2>2
  <2> QED
    BY <1>3, <2>3
<1>10. s # r
  <2>1. <<"reader", i>> # <<"ready", 0>>
    OBVIOUS
  <2>2. s \notin own[<<"ready", 0>>]
    BY <1>1, <1>4, <1>6, <2>1
  <2> QED
    BY <1>4, <2>2
<1> QED
  BY <1>7, <1>8, <1>9, <1>10

(* The slot in which the reader of a pipe waits is used for nothing else. *)
LEMMA ReaderSlot ==
  ASSUME Inv, NEW i \in PipeId, NEW s, s = g_pipes[i].reader_reply_cap, s # NoSlot
  PROVE  /\ s \in Slot /\ s \notin Available
         /\ \A j \in PipeId : j # i => g_pipes[j].reader_reply_cap # s
         /\ \A w \in Pid : pcbs[w].reply_cap # s
         /\ s # driver_ready_wait_reply
<1>1. Sound(pcbs, g_pipes, driver_ready_wait_reply, free_slots, fresh_slots)
  BY SoundIsNoAliasing DEF Inv
<1>2. s \in Slot
  BY InvParts DEF RestOK, Pipe, Slot0
<1> QED
  BY <1>1, <1>2, ReaderOwner DEF Available

(* The end of another process does not wake a shell that waits for the     *)
(* drivers.                                                                *)
LEMMA StillAwaits ==
  ASSUME Inv, WakeInv, NEW v \in Pid, NEW n, NEW name, NEW I \in SUBSET PipeId,
         Ends(v, n, name, I), NEW q \in Pid, q \in Shells, q # v, q # n, AwaitsDrivers(q)
  PROVE  AwaitsDrivers(q)'
<1>1. thread[q] # "running" /\ pcbs[q].waiting_for = 0 /\ v # 0 /\ q # 0
      /\ \A s \in Slot0 : replies[s] = q => s \in {driver_ready_wait_reply, NoSlot}
  BY ControlTypes DEF AwaitsDrivers
<1>2. Waiters(v) = {}
  <2>1. SUFFICES ASSUME NEW w \in Active, pcbs[w].waiting_for = v PROVE FALSE
    BY DEF Waiters
  <2>2. pcbs[w].name = "shell"
    BY <1>1, <2>1 DEF WakeInv, WaitersSound
  <2>3. w = q
    BY <2>2 DEF WakeInv, OneInstance, Archive, Shells
  <2> QED
    BY <1>1, <2>1, <2>3
<1>3. PICK R : R = Readers(I) \cup ReplyCaps(Waiters(v))
  OBVIOUS
<1>4. R = Readers(I)
  BY <1>2, <1>3 DEF ReplyCaps
<1>5. \A r \in R : r \in Slot0 /\ r # NoSlot /\ r # driver_ready_wait_reply
  <2>1. ASSUME NEW r \in R PROVE r \in Slot0 /\ r # NoSlot /\ r # driver_ready_wait_reply
    <3>1. PICK i \in I : r = g_pipes[i].reader_reply_cap /\ r # NoSlot
      BY <1>4, <2>1 DEF Readers
    <3> QED
      BY <3>1, ReaderSlot DEF Slot0
  <2> QED
    BY <2>1
<1>6. q \notin Woken(R)
  BY <1>1, <1>5 DEF Woken
<1>7. thread'[q] # "running"
  <2>1. thread'[q] = Resumed(R)[q] \/ thread'[q] = "none"
    BY <1>3 DEF Ends
  <2>2. Resumed(R)[q] = thread[q]
    BY <1>6 DEF Resumed
  <2> QED
    BY <1>1, <2>1, <2>2
<1>8. pcbs'[q].waiting_for = 0
  BY <1>1 DEF Ends, Step, Waits
<1>9. \A s \in Slot0 : replies'[s] = q => replies[s] = q
  <2>1. replies' = RepliesLeft(R, {v})
    BY <1>3 DEF Ends
  <2> QED
    BY <1>1, <2>1 DEF RepliesLeft
<1>10. UNCHANGED driver_ready_wait_reply
  BY DEF Ends, readyVars
<1> QED
  BY <1>1, <1>7, <1>8, <1>9, <1>10 DEF AwaitsDrivers

(* Every step keeps BootSound. *)
LEMMA BootNext ==
  ASSUME JobInv, JobsNext, KInv'
  PROVE  BootSound'
<1>0. JobTypes /\ KInv /\ Inv /\ WakeInv /\ 0 \notin Pid /\ Programs
  BY ControlTypes DEF JobInv, KInv
<1>1. PICK p \in Pid : ShellStep(p) \/ OtherStep(p) \/ Prompt(p) \/ FaultOf(p)
  BY DEF JobsNext
<1>2. AllDriversReady(driver_ready) => AllDriversReady(driver_ready')
  BY <1>0, JobsAreCalls, ReadyStays DEF AllDriversReady
<1>3. CASE AllDriversReady(driver_ready')
  BY <1>3 DEF BootSound
<1>4. CASE WaitForDrivers(p) /\ ~AllDriversReady(driver_ready')
  <2>1. /\ Shells = {p} /\ thread[p] = "running" /\ pcbs[p].waiting_for = 0
        /\ p \in Active
    BY <1>0, <1>4, ShellRuns DEF WaitForDrivers
  <2>2. WaitAllReady(p)
    BY <1>2, <1>4 DEF WaitForDrivers, vars
  <2>3. PICK s \in Slot0 : SaveCaller(s, p) /\ driver_ready_wait_reply' = s /\ UNCHANGED pcbs
    BY <2>2 DEF WaitAllReady
  <2>4. shell'.pc = "shm"
    BY <1>0, <1>4, GotoFields DEF WaitForDrivers, ShellPc
  <2>5. Shells' = {p}
    BY <2>1, <2>3 DEF Shells, Active
  <2>6. \A t \in Slot0 : replies[t] # p
    BY <1>0, <2>1 DEF WakeInv, RepliesSound
  <2>7. thread'[p] = "blocked"
    BY <1>0, <2>3, ControlTypes DEF SaveCaller
  <2>8. \A t \in Slot0 : replies'[t] = p => t = s
    BY <1>0, <2>3, <2>6, ControlTypes DEF SaveCaller
  <2>9. AwaitsDrivers(p)'
    BY <2>1, <2>3, <2>7, <2>8 DEF AwaitsDrivers
  <2> QED
    BY <2>4, <2>5, <2>9 DEF BootSound
<1>5. CASE /\ shell'.pc # "start" /\ ~AllDriversReady(driver_ready') /\ ~WaitForDrivers(p)
  <2>1. NewShell.pc = "start"
    BY NewShellFields
  <2>2. shell.pc # "start"
    <3>1. LeftExit(p) => shell.pc = "left"
      BY DEF LeftExit, At
    <3> QED
      BY <1>1, <1>5, <2>1, <3>1, PcNext
  <2>3. shell.pc = "shm" /\ \A q \in Shells : AwaitsDrivers(q)
    BY <1>2, <1>5, <2>2 DEF JobInv, BootSound
  <2>4. p \notin Shells \/ ~Calls(p)
    BY <2>3 DEF AwaitsDrivers, Calls
  <2>5. \A pc : ~At(p, pc)
    BY <2>4 DEF At, IsShell, Calls, Shells, Active
  <2>6. ~Ls(p) /\ ~Grep(p)
    <3>1. ASSUME Ls(p) \/ Grep(p) PROVE FALSE
      <4>1. Calls(p) /\ prog[p] \in {"ls", "grep"}
        BY <3>1 DEF Ls, Grep
      <4>2. Live(p)
        BY <1>0, <4>1, CallerIsLive
      <4> QED
        BY <2>3, <4>1, <4>2, PipeThreads
    <3> QED
      BY <3>1
  <2>7. Ready(p) \/ ExitThread(p) \/ App(p) \/ FaultOf(p)
    <3>1. ~ShellStep(p) /\ ~Prompt(p)
      BY <2>5 DEF ShellStep, WaitForDrivers, GetShm, MakePipe, LeftLs, LeftPlain, LeftWrite,
                  LeftExec, LeftExit, WaitChild, Right, WaitLeft, WaitRight, ClosePipe,
                  Crash, Prompt
    <3> QED
      BY <1>1, <2>6, <3>1 DEF OtherStep
  <2>8. Calls(p) /\ p \notin Shells /\ pcbs[p].name # "shell"
    <3>1. Calls(p)
      BY <2>7 DEF Ready, DriverReady, ExitThread, ThreadExit, App, SysExit, FaultOf
    <3> QED
      BY <2>4, <3>1 DEF Shells, Calls, Active
  <2>9. UNCHANGED shell
    BY <2>7, <2>8 DEF Ready, ExitThread, App, FaultOf, Recovered
  <2>10. CASE Ready(p)
    <3>1. UNCHANGED <<driver_ready_wait_reply, thread, replies, pcbs>>
      BY <1>5, <2>10 DEF Ready, DriverReady
    <3>2. Shells' = Shells
      BY <3>1 DEF Shells, Active
    <3>3. \A q \in Shells : AwaitsDrivers(q)'
      BY <2>3, <3>1 DEF AwaitsDrivers
    <3> QED
      BY <2>3, <2>9, <3>2, <3>3 DEF BootSound
  <2>11. ASSUME NEW n, n \in Pid \/ n = 0, NEW name, NEW I \in SUBSET PipeId,
                Ends(p, n, name, I), n \in Pid => name # "shell"
         PROVE  \A q \in Shells' : AwaitsDrivers(q)'
    <3>1. Procs(p, n, name)
      BY <2>11 DEF Ends, Step
    <3>2. Shells' \subseteq Shells \ {p}
      BY <2>11, <3>1, ShellsAfter
    <3>3. n \notin Shells
      BY <1>0, <3>1 DEF Procs, Shells, Active
    <3>4. Shells \subseteq Pid
      BY DEF Shells, Active
    <3>5. ASSUME NEW q \in Shells' PROVE AwaitsDrivers(q)'
      <4>1. q \in Pid /\ q \in Shells /\ q # p /\ q # n /\ AwaitsDrivers(q)
        BY <2>3, <3>2, <3>3, <3>4
      <4> QED
        BY <1>0, <2>11, <4>1, StillAwaits
    <3> QED
      BY <3>5
  <2>12. CASE ExitThread(p) \/ App(p)
    <3>1. Ends(p, 0, "", WrittenBy(p)) /\ WrittenBy(p) \in SUBSET PipeId
      BY <2>12, ExitSteps DEF WrittenBy
    <3> QED
      BY <1>0, <2>3, <2>9, <2>11, <3>1 DEF BootSound
  <2>13. CASE FaultOf(p)
    <3>1. PICK n : (n \in Pid \/ n = 0) /\ Ends(p, n, pcbs[p].name, {})
      BY <2>13, FaultSteps
    <3> QED
      BY <2>3, <2>8, <2>9, <2>11, <3>1 DEF BootSound
  <2> QED
    BY <2>7, <2>10, <2>12, <2>13
<1>6. CASE shell'.pc = "start"
  BY <1>6 DEF BootSound
<1> QED
  BY <1>3, <1>4, <1>5, <1>6

-----------------------------------------------------------------------------
(* The threads of the pipeline. *)

(* Only an end suspends a thread. *)
LEMMA ThreadsKept ==
  ASSUME Inv, NEW p \in Pid,
         \/ (\E data : PipeWrite(p, data)) \/ PipeWrClose(p) \/ PipeRead(p)
         \/ DriverReady(p) \/ WaitAllReady(p) \/ ShmGet(p) \/ SysPipe(p) \/ PipeClose(p)
         \/ (\E t : SysWait(p, t)) \/ SysClone(p, NoPipe) \/ SysExec(p) \/ UNCHANGED vars,
         NEW q \in Pid, thread[q] # "none"
  PROVE  thread'[q] # "none"
<1>1. thread \in [Pid -> {"none", "running", "blocked"}]
  BY ControlTypes
<1>2. CASE UNCHANGED thread
  BY <1>2
<1>3. CASE \E R : thread' = Resumed(R)
  BY <1>3 DEF Resumed
<1>4. CASE \E s : SaveCaller(s, p)
  BY <1>1, <1>4 DEF SaveCaller
<1>5. CASE \E t \in Pid : thread' = [thread EXCEPT ![t] = "running"]
  BY <1>1, <1>5
<1>6. CASE UNCHANGED vars \/ Panic
  BY <1>2, <1>6 DEF vars, Panic
<1>7. CASE (\E data : PipeWrite(p, data)) \/ PipeWrClose(p) \/ PipeRead(p)
  BY <1>2, <1>3, <1>4, <1>7 DEF PipeWrite, PipeWrClose, PipeRead
<1>8. CASE DriverReady(p) \/ WaitAllReady(p)
  BY <1>2, <1>3, <1>4, <1>8 DEF DriverReady, WaitAllReady
<1>9. CASE ShmGet(p) \/ SysPipe(p) \/ PipeClose(p)
  BY <1>2, <1>6, <1>9 DEF ShmGet, SysPipe, PipeClose
<1>10. CASE \E t : SysWait(p, t)
  BY <1>4, <1>10 DEF SysWait
<1>11. CASE SysClone(p, NoPipe)
  BY <1>5, <1>6, <1>11 DEF SysClone
<1>12. CASE SysExec(p)
  <2>1. Here.thread = thread
    BY DEF Here
  <2>2. thread' = Here.thread \/ \E t \in Pid : thread' = [Here.thread EXCEPT ![t] = "running"]
    BY <1>12 DEF SysExec, spawn_process
  <2> QED
    BY <1>2, <1>5, <2>1, <2>2
<1> QED
  BY <1>6, <1>7, <1>8, <1>9, <1>10, <1>11, <1>12

(* Who is handed an answer. *)
LEMMA ReceiveWoken ==
  ASSUME NEW R, NEW v, NEW now, Receive(R, v, now), NEW q \in Pid
  PROVE  \/ prog'[q] = now[q] /\ ~(q \in Woken(R) /\ q # 0 /\ prog[q] = "grep_wait")
         \/ /\ q \in Woken(R) /\ prog[q] = "grep_wait"
            /\ prog'[q] = (IF v = 0 THEN "exit" ELSE "grep")
BY DEF Receive

(* The programs after SYS_EXIT or SYS_THREAD_EXIT of p. *)
LEMMA EndProgs ==
  ASSUME JobInv, NEW p \in Pid, LeftExit(p) \/ ExitThread(p) \/ App(p)
  PROVE  /\ prog'[p] = "none"
         /\ \A q \in Pid : q # p =>
              \/ prog'[q] = prog[q]
              \/ /\ q \in Woken(Readers(WrittenBy(p)))
                 /\ prog[q] = "grep_wait" /\ prog'[q] = "exit"
<1>1. prog \in [Pid -> Program]
  BY DEF JobInv, JobTypes
<1>2. PICK now : now = [prog EXCEPT ![p] = "none"]
  OBVIOUS
<1>3. PICK R : R = Readers(WrittenBy(p))
  OBVIOUS
<1>4. Receive(R, 0, now) /\ prog[p] # "grep_wait"
  BY <1>2, <1>3, ExitSteps
<1>5. \A q \in Pid : now[q] = IF q = p THEN "none" ELSE prog[q]
  BY <1>1, <1>2
<1>6. \A q \in Pid : \/ prog'[q] = now[q]
                     \/ q \in Woken(R) /\ prog[q] = "grep_wait" /\ prog'[q] = "exit"
  BY <1>4, ReceiveWoken
<1> QED
  BY <1>3, <1>4, <1>5, <1>6

(* A thread stays alive unless it ends, or its shell does. *)
LEMMA LiveKept ==
  ASSUME JobInv, NEW p \in Pid, ShellStep(p) \/ OtherStep(p) \/ Prompt(p) \/ FaultOf(p),
         NEW q \in Pid, Live(q)
  PROVE  \/ Live(q)'
         \/ q = p /\ prog'[q] = "none"
         \/ p \in Shells /\ p \notin Shells'
<1>0. Inv /\ KInv /\ 0 \notin Pid /\ prog \in [Pid -> Program]
  BY ControlTypes DEF JobInv, KInv, JobTypes
<1>1. pcbs[q].active /\ pcbs[q].name = "shell_thread" /\ thread[q] # "none"
  BY DEF Live, IsThread
<1>2. ASSUME NEW n, NEW name, Procs(0, n, name), thread'[q] # "none" PROVE Live(q)'
  <2>1. q # n /\ q # 0
    BY <1>0, <1>1, <1>2 DEF Procs
  <2> QED
    BY <1>1, <1>2, <2>1 DEF Procs, Live, IsThread
<1>3. CASE WaitForDrivers(p) \/ GetShm(p) \/ Prompt(p) \/ MakePipe(p) \/ LeftPlain(p)
           \/ LeftWrite(p) \/ WaitChild(p) \/ WaitLeft(p) \/ WaitRight(p)
           \/ ClosePipe(p) \/ Ls(p) \/ Grep(p) \/ Ready(p) \/ UNCHANGED vars
  <2>1. Procs(0, 0, "")
    BY <1>3, PlainSteps
  <2>2. \/ (\E data : PipeWrite(p, data)) \/ PipeWrClose(p) \/ PipeRead(p)
        \/ DriverReady(p) \/ WaitAllReady(p) \/ ShmGet(p) \/ SysPipe(p) \/ PipeClose(p)
        \/ (\E t : SysWait(p, t)) \/ UNCHANGED vars
    BY <1>3 DEF WaitForDrivers, GetShm, Prompt, MakePipe, LeftPlain, LeftWrite, WaitChild,
         WaitLeft, WaitRight, Wait, ClosePipe, Ls, Grep, Ready, WriteChunk, CloseWrite
  <2>3. thread'[q] # "none"
    BY <1>0, <1>1, <2>2, ThreadsKept
  <2> QED
    BY <1>2, <2>1, <2>3
<1>4. CASE (\E f : SpawnThread(p, f)) \/ LeftExec(p)
  <2>1. \E n : Procs(0, n, "shell_thread") \/ Procs(0, n, "app")
    BY <1>4, SpawnSteps, ExecSteps DEF Step
  <2>2. SysClone(p, NoPipe) \/ SysExec(p) \/ UNCHANGED vars
    BY <1>4 DEF SpawnThread, LeftExec
  <2>3. thread'[q] # "none"
    BY <1>0, <1>1, <2>2, ThreadsKept
  <2> QED
    BY <1>2, <2>1, <2>3
<1>5. CASE LeftLs(p) \/ Right(p)
  BY <1>3, <1>4, <1>5 DEF LeftLs, Right
<1>6. ASSUME NEW n, NEW name, NEW I, Ends(p, n, name, I), q # p, p \notin Shells
      PROVE  Live(q)'
  <2>1. Procs(p, n, name)
    BY <1>6 DEF Ends, Step
  <2>2. q # n
    BY <1>1, <2>1 DEF Procs
  <2>3. q \notin Orphans(p)
    <3>1. pcbs[q].parent \in Shells
      BY <1>0, LiveThread
    <3> QED
      BY <1>6, <3>1 DEF Orphans
  <2>4. PICK R : thread'[q] = Resumed(R)[q]
    BY <1>6, <2>2, <2>3 DEF Ends
  <2>5. thread'[q] # "none"
    BY <1>1, <2>4 DEF Resumed
  <2> QED
    BY <1>1, <1>6, <2>1, <2>2, <2>5 DEF Procs, Live, IsThread
<1>7. ASSUME NEW n, NEW name, NEW I, Ends(p, n, name, I), p \in Shells
      PROVE  p \notin Shells'
  BY <1>7 DEF Ends, Step, Procs, Shells, Active
<1>8. CASE LeftExit(p) \/ ExitThread(p) \/ App(p)
  <2>1. Ends(p, 0, "", WrittenBy(p))
    BY <1>8, ExitSteps
  <2>2. prog'[p] = "none"
    BY <1>8, EndProgs
  <2> QED
    BY <1>6, <1>7, <2>1, <2>2
<1>9. CASE Crash(p) \/ FaultOf(p)
  <2>1. PICK n : Ends(p, n, pcbs[p].name, {}) /\ Recovered(p)
    BY <1>9, FaultSteps
  <2>2. n # p
    BY <2>1 DEF Ends, Step, Procs
  <2>3. NewPid = n \/ NewPid = 0
    BY <2>1, NewPidIs DEF Ends, Step
  <2>4. ~pcbs'[p].active
    BY <2>1 DEF Ends, Step, Procs
  <2>5. prog'[p] = "none"
    BY <1>0, <2>1, <2>2, <2>3, <2>4 DEF Recovered
  <2> QED
    BY <1>6, <1>7, <2>1, <2>5
<1> QED
  BY <1>3, <1>4, <1>5, <1>8, <1>9 DEF ShellStep, OtherStep

(* q is a thread of the pipeline that has not become one in this step. *)
Continues(q) ==
  /\ Live(q)
  /\ prog'[q] = "ls" => prog[q] = "ls"
  /\ prog'[q] \in {"grep", "grep_wait"} => prog[q] \in {"grep", "grep_wait"}

(* A thread of the pipeline was one before, or has just been spawned. *)
LEMMA LiveBefore ==
  ASSUME JobInv, NEW p \in Pid, ShellStep(p) \/ OtherStep(p) \/ Prompt(p) \/ FaultOf(p),
         NEW q \in Pid, Live(q)', prog'[q] \in {"ls", "grep", "grep_wait"}
  PROVE  \/ Continues(q)
         \/ LeftLs(p) /\ q = NewPid /\ prog'[q] = "ls" /\ ~pcbs[q].active
         \/ /\ Right(p) /\ SpawnThread(p, "grep")
            /\ q = NewPid /\ prog'[q] = "grep" /\ ~pcbs[q].active
<1>0. Inv /\ 0 \notin Pid /\ prog \in [Pid -> Program]
  BY ControlTypes DEF JobInv, KInv, JobTypes
<1>1. ASSUME NEW v, NEW n, NEW name, Procs(v, n, name), q # n
      PROVE  Live(q) /\ q # v
  <2>1. pcbs'[q].active /\ pcbs'[q].name = "shell_thread" /\ thread'[q] # "none"
    BY DEF Live, IsThread
  <2>2. q # v
    BY <1>1, <2>1 DEF Procs
  <2> QED
    BY <1>1, <2>1, <2>2 DEF Procs, Live, IsThread
<1>2. CASE WaitForDrivers(p) \/ GetShm(p) \/ Prompt(p) \/ MakePipe(p) \/ LeftPlain(p)
           \/ WaitChild(p) \/ WaitLeft(p) \/ WaitRight(p) \/ ClosePipe(p)
           \/ (UNCHANGED vars /\ UNCHANGED prog)
  <2>1. Procs(0, 0, "")
    BY <1>2, PlainSteps
  <2>2. UNCHANGED prog
    BY <1>2 DEF WaitForDrivers, GetShm, Prompt, MakePipe, LeftPlain, WaitChild, WaitLeft,
                WaitRight, Wait, ClosePipe
  <2> QED
    BY <1>0, <1>1, <2>1, <2>2 DEF Continues
<1>3. CASE LeftWrite(p) \/ Ls(p) \/ Grep(p) \/ Ready(p)
  <2>1. Procs(0, 0, "")
    BY <1>3, PlainSteps
  <2>2. Live(q)
    BY <1>0, <1>1, <2>1
  <2>3. ASSUME NEW R, NEW a, NEW now, Receive(R, a, now), now[q] \in {prog[q], "exit", "none"}
        PROVE  Continues(q)
    <3>1. \/ prog'[q] = now[q]
          \/ prog[q] = "grep_wait" /\ prog'[q] \in {"exit", "grep"}
      BY <2>3, ReceiveWoken
    <3> QED
      BY <2>2, <2>3, <3>1 DEF Continues
  <2>4. CASE LeftWrite(p) \/ Ls(p)
    <3>1. (\E R, a : Receive(R, a, prog)) \/ \E R, a : Receive(R, a, [prog EXCEPT ![p] = "exit"])
      BY <2>4 DEF LeftWrite, Ls, WriteChunk, CloseWrite
    <3>2. PICK now : now = [prog EXCEPT ![p] = "exit"]
      OBVIOUS
    <3>3. now[q] \in {prog[q], "exit"}
      BY <1>0, <3>2
    <3> QED
      BY <2>3, <3>1, <3>2, <3>3
  <2>5. CASE Grep(p)
    <3>1. \/ UNCHANGED prog
          \/ /\ prog[p] = "grep"
             /\ \E f \in {"grep_wait", "exit"} : prog' = [prog EXCEPT ![p] = f]
      BY <2>5 DEF Grep
    <3> QED
      BY <1>0, <2>2, <3>1 DEF Continues
  <2>6. CASE Ready(p)
    <3>1. prog' = [prog EXCEPT ![p] = "none"]
      BY <2>6 DEF Ready
    <3> QED
      BY <1>0, <2>2, <3>1 DEF Continues
  <2> QED
    BY <1>3, <2>4, <2>5, <2>6
<1>4. ASSUME NEW f \in {"ls", "grep"}, SpawnThread(p, f)
      PROVE  Continues(q) \/ (q = NewPid /\ prog'[q] = f /\ ~pcbs[q].active)
  <2>1. PICK n : (n \in Pid \/ n = 0) /\ Procs(0, n, "shell_thread")
    BY <1>4, SpawnSteps DEF Step
  <2>2. prog' = [x \in Pid |-> IF x = NewPid THEN f ELSE prog[x]]
    BY <1>4 DEF SpawnThread
  <2>3. NewPid = n
    BY <1>0, <2>1, NewPidIs
  <2>4. CASE q = n
    BY <2>1, <2>2, <2>3, <2>4 DEF Procs
  <2>5. CASE q # n
    BY <1>1, <2>1, <2>2, <2>3, <2>5 DEF Continues
  <2> QED
    BY <2>4, <2>5
<1>5. CASE LeftLs(p)
  BY <1>4, <1>5 DEF LeftLs
<1>6. CASE Right(p)
  BY <1>2, <1>4, <1>6 DEF Right
<1>7. CASE LeftExec(p)
  <2>1. PICK n : (n \in Pid \/ n = 0) /\ Procs(0, n, "app")
    BY <1>7, ExecSteps DEF Step
  <2>2. prog' = [x \in Pid |-> IF x = NewPid THEN "app" ELSE prog[x]]
    BY <1>7 DEF LeftExec
  <2>3. NewPid = n
    BY <1>0, <2>1, NewPidIs
  <2>4. q # n
    BY <2>2, <2>3
  <2> QED
    BY <1>1, <2>1, <2>2, <2>3, <2>4 DEF Continues
<1>8. CASE LeftExit(p) \/ ExitThread(p) \/ App(p)
  <2>1. Procs(p, 0, "")
    BY <1>8, ExitSteps DEF Ends, Step
  <2>2. Live(q) /\ q # p
    BY <1>0, <1>1, <2>1
  <2>3. prog'[q] = prog[q]
    BY <1>8, <2>2, EndProgs
  <2> QED
    BY <2>2, <2>3 DEF Continues
<1>9. CASE Crash(p) \/ FaultOf(p)
  <2>1. PICK n : /\ n \in Pid \/ n = 0
                 /\ n \in Pid => pcbs[p].name \in Archive
                 /\ Procs(p, n, pcbs[p].name)
    BY <1>9, FaultSteps DEF Ends, Step
  <2>2. p \in Active /\ Recovered(p)
    BY <1>9, FaultSteps
  <2>3. q # p /\ q # n /\ prog'[q] = prog[q]
    BY <2>1, <2>2, RecoveredProgs DEF OfThread
  <2> QED
    BY <1>1, <2>1, <2>3 DEF Continues
<1> QED
  BY <1>2, <1>3, <1>5, <1>6, <1>7, <1>8, <1>9 DEF ShellStep, OtherStep

(* Every step of a program ends at most the caller and starts at most one  *)
(* process.                                                                *)
LEMMA StepProcs ==
  ASSUME JobInv, NEW p \in Pid, ShellStep(p) \/ OtherStep(p) \/ Prompt(p) \/ FaultOf(p)
  PROVE  \E v, n, name : Procs(v, n, name) /\ v \in {0, p}
<1>1. CASE WaitForDrivers(p) \/ GetShm(p) \/ Prompt(p) \/ MakePipe(p) \/ LeftPlain(p)
           \/ LeftWrite(p) \/ WaitChild(p) \/ WaitLeft(p) \/ WaitRight(p)
           \/ ClosePipe(p) \/ Ls(p) \/ Grep(p) \/ Ready(p) \/ UNCHANGED vars
  BY <1>1, PlainSteps
<1>2. CASE (\E f : SpawnThread(p, f)) \/ LeftExec(p)
  <2>1. \E n : Step(0, n, "shell_thread") \/ Step(0, n, "app")
    BY <1>2, SpawnSteps, ExecSteps
  <2> QED
    BY <2>1 DEF Step
<1>3. CASE LeftLs(p) \/ Right(p)
  BY <1>1, <1>2, <1>3 DEF LeftLs, Right
<1>4. CASE LeftExit(p) \/ ExitThread(p) \/ App(p)
  BY <1>4, ExitSteps DEF Ends, Step
<1>5. CASE Crash(p) \/ FaultOf(p)
  <2>1. \E n : Procs(p, n, pcbs[p].name)
    BY <1>5, FaultSteps DEF Ends, Step
  <2> QED
    BY <2>1
<1> QED
  BY <1>1, <1>2, <1>3, <1>4, <1>5 DEF ShellStep, OtherStep

(* What the other programs do leaves the shell where it is, and asleep if  *)
(* it is not they that it waits for.                                       *)
LEMMA OthersStep ==
  ASSUME JobInv, NEW p \in Pid, OtherStep(p) \/ FaultOf(p)
  PROVE  \/ p \in Shells /\ p \notin Shells'
         \/ /\ p \notin Shells
            /\ shell'.pc = shell.pc /\ SameCommand /\ SamePids
            /\ \E v, n, name : Step(v, n, name) /\ v \in {0, p} /\ n \notin Shells
<1>0. Inv /\ Programs /\ JobTypes /\ 0 \notin Pid /\ Shells \subseteq Pid
  BY ControlTypes DEF JobInv, KInv, Shells, Active
<1>1. UNCHANGED shell => shell'.pc = shell.pc /\ SameCommand /\ SamePids
  BY DEF SameCommand, SamePids
<1>2. CASE Ls(p) \/ Grep(p) \/ Ready(p)
  <2>1. (\E data : PipeWrite(p, data)) \/ PipeWrClose(p) \/ PipeRead(p) \/ DriverReady(p)
        \/ UNCHANGED vars
    BY <1>2 DEF Ls, Grep, Ready, WriteChunk, CloseWrite
  <2>2. Step(0, 0, "")
    BY <1>0, <2>1, PipeCallsProcs
  <2>3. p \notin Shells
    <3>1. CASE Ls(p) \/ Grep(p)
      <4>1. IsThread(p)
        BY <1>0, <3>1 DEF Ls, Grep, Programs
      <4> QED
        BY <4>1 DEF IsThread, Shells
    <3>2. CASE Ready(p)
      <4>1. "shell" \notin Driver
        BY BootAssumption, Zenon DEF Driver
      <4> QED
        BY <3>2, <4>1 DEF Ready, DriverReady, Shells
    <3> QED
      BY <1>2, <3>1, <3>2
  <2>4. shell'.pc = shell.pc /\ SameCommand /\ SamePids
    <3>1. CASE WriteChunk(p)
      BY <1>0, <3>1, WriteFields
    <3> QED
      BY <1>1, <1>2, <3>1 DEF Ls, Grep, Ready
  <2> QED
    BY <1>0, <2>2, <2>3, <2>4
<1>3. ASSUME NEW n, NEW name, NEW I, Ends(p, n, name, I), p \notin Shells => UNCHANGED shell
      PROVE  \/ p \in Shells /\ p \notin Shells'
             \/ /\ p \notin Shells
                /\ shell'.pc = shell.pc /\ SameCommand /\ SamePids
                /\ \E v, m, nm : Step(v, m, nm) /\ v \in {0, p} /\ m \notin Shells
  <2>1. Step(p, n, name)
    BY <1>3 DEF Ends
  <2>2. CASE p \in Shells
    BY <2>1, <2>2 DEF Step, Procs, Shells, Active
  <2>3. CASE p \notin Shells
    <3>1. n \notin Shells
      BY <1>0, <2>1 DEF Step, Procs, Shells, Active
    <3> QED
      BY <1>1, <1>3, <2>1, <2>3, <3>1
  <2> QED
    BY <2>2, <2>3
<1>4. CASE ExitThread(p) \/ App(p)
  <2>1. Ends(p, 0, "", WrittenBy(p)) /\ UNCHANGED shell
    BY <1>4, ExitSteps DEF ExitThread, App
  <2> QED
    BY <1>3, <2>1
<1>5. CASE FaultOf(p)
  <2>1. PICK n : Ends(p, n, pcbs[p].name, {})
    BY <1>5, FaultSteps
  <2>2. p \in Active /\ Recovered(p)
    BY <1>5, FaultSteps
  <2>3. p \notin Shells => UNCHANGED shell
    BY <2>2 DEF Recovered, Shells
  <2> QED
    BY <1>3, <2>1, <2>3
<1> QED
  BY <1>2, <1>4, <1>5 DEF OtherStep

(* Where the threads of the pipeline are alive, the shell can only go on   *)
(* from one of its last labels.                                            *)
LEMMA LateSteps ==
  ASSUME JobInv, NEW p \in Pid, ShellStep(p) \/ Prompt(p),
         shell.pc \in {"right", "wait_left", "wait_right", "close"}
  PROVE  Right(p) \/ WaitLeft(p) \/ WaitRight(p) \/ ClosePipe(p)
BY DEF ShellStep, WaitForDrivers, GetShm, MakePipe, LeftLs, LeftPlain, LeftWrite, LeftExec,
       LeftExit, WaitChild, Crash, Prompt, At

(* Every step keeps ThreadsSound. *)
LEMMA ThreadsNext ==
  ASSUME JobInv, JobsNext, KInv'
  PROVE  ThreadsSound'
<1>0. JobTypes /\ KInv /\ Inv /\ 0 \notin Pid
  BY ControlTypes DEF JobInv, KInv
<1>1. PICK p \in Pid : ShellStep(p) \/ OtherStep(p) \/ Prompt(p) \/ FaultOf(p)
  BY DEF JobsNext
<1>2. SUFFICES ASSUME NEW s \in Shells', NEW q \in Pid, Live(q)',
                      prog'[q] \in {"ls", "grep", "grep_wait"}
               PROVE  /\ prog'[q] = "ls" => LsOfJob(s, q)'
                      /\ prog'[q] \in {"grep", "grep_wait"} => GrepOfJob(s, q)'
  BY DEF ThreadsSound
<1>3. pcbs'[q].parent = s
  <2>1. /\ pcbs'[q].active /\ pcbs'[q].name = "shell_thread" /\ thread'[q] # "none"
        /\ s \in Pid /\ pcbs'[s].active /\ pcbs'[s].name = "shell"
    BY <1>2 DEF Live, IsThread, Shells, Active
  <2>2. q \in Active' /\ s \in Active' /\ IsThread(q)'
    BY <2>1 DEF Active, IsThread
  <2>3. pcbs'[q].parent \in Active' /\ pcbs'[pcbs'[q].parent].name = "shell"
    BY <2>1, <2>2 DEF KInv, WakeInv, ParentsSound
  <2> QED
    BY <2>1, <2>2, <2>3 DEF KInv, WakeInv, OneInstance, Archive
<1>4. q # 0 /\ pcbs'[q].active /\ s \in Pid /\ pcbs'[s].active
  BY <1>0, <1>2 DEF Live, Shells, Active
<1>5. CASE Continues(q)
  <2>1. Live(q) /\ prog[q] \in {"ls", "grep", "grep_wait"}
    BY <1>2, <1>5 DEF Continues
  <2>2. PICK v, n, name : Procs(v, n, name) /\ v \in {0, p}
    BY <1>1, StepProcs
  <2>3. q # v /\ q # n /\ q \in Active
    BY <1>4, <2>1, <2>2 DEF Procs, Live, Active
  <2>4. s = pcbs[q].parent
    BY <1>3, <2>2, <2>3 DEF Procs
  <2>5. Shells = {s} /\ s \in Shells
    BY <1>0, <2>1, <2>4, LiveThread
  <2>6. /\ prog'[q] = "ls" => LsOfJob(s, q)
        /\ prog'[q] \in {"grep", "grep_wait"} => GrepOfJob(s, q)
    BY <1>5, <2>1, <2>5 DEF Continues, JobInv, ThreadsSound
  <2>7. shell.is_piping /\ shell.pc \in {"right", "wait_left", "wait_right", "close"}
    BY <2>1, PipeThreads
  <2>8. CASE OtherStep(p) \/ FaultOf(p)
    <3>1. p # s /\ shell'.pc = shell.pc /\ SameCommand /\ SamePids
      BY <1>2, <2>5, <2>8, OthersStep
    <3>2. PICK w, m, nm : Step(w, m, nm) /\ w \in {0, p} /\ m \notin Shells
      BY <1>2, <2>5, <2>8, OthersStep
    <3>3. s # w /\ s # m /\ q # w
      BY <1>0, <1>4, <2>5, <3>1, <3>2 DEF Step, Procs
    <3>4. pcbs[s].waiting_for = q => pcbs'[s].waiting_for = q
      BY <1>4, <3>2, <3>3 DEF Step, Waits
    <3> QED
      BY <2>6, <3>1, <3>4 DEF LsOfJob, GrepOfJob, SameCommand, SamePids
  <2>9. CASE ShellStep(p) \/ Prompt(p)
    <3>1. Right(p) \/ WaitLeft(p) \/ WaitRight(p) \/ ClosePipe(p)
      BY <2>7, <2>9, LateSteps
    <3>2. At(p, shell.pc)
      BY <3>1 DEF Right, WaitLeft, WaitRight, ClosePipe, At
    <3>3. p = s /\ pcbs[s].waiting_for = 0
      BY <1>0, <2>5, <3>2, ShellRuns
    <3>4. CASE Right(p)
      <4>1. shell.pc = "right"
        BY <3>4 DEF Right, At
      <4>2. LsOfJob(s, q) /\ prog'[q] = "ls"
        BY <1>2, <2>6, <4>1 DEF GrepOfJob
      <4>3. /\ shell'.pc = "wait_left" /\ SameCommand /\ shell'.left_pid = shell.left_pid
            /\ shell'.right_pid = shell.right_pid \/ (shell'.right_pid = NewPid /\ SpawnThread(p, "grep"))
        BY <1>0, <2>7, <3>4, RightFields
      <4>4. q # NewPid
        <5>1. NewPid = n \/ NewPid = 0
          BY <2>2, NewPidIs
        <5> QED
          BY <1>4, <2>3, <5>1
      <4> QED
        BY <4>2, <4>3, <4>4 DEF LsOfJob, SameCommand
    <3>5. CASE WaitLeft(p)
      <4>1. Wait(p, shell.left_pid) /\ Goto("wait_right") /\ shell.pc = "wait_left"
        BY <3>5 DEF WaitLeft, At
      <4>2. shell'.pc = "wait_right" /\ SameCommand /\ SamePids
        BY <1>0, <4>1, GotoFields DEF ShellPc
      <4>3. CASE prog'[q] = "ls"
        <5>1. q = shell.left_pid
          BY <2>6, <4>3 DEF LsOfJob
        <5>2. SysWait(p, q)
          BY <2>3, <4>1, <5>1 DEF Wait
        <5>3. pcbs'[p].waiting_for = q
          BY <1>0, <5>2, SysWaitProcs
        <5> QED
          BY <2>6, <3>3, <4>2, <4>3, <5>3 DEF LsOfJob, SameCommand, SamePids
      <4>4. CASE prog'[q] \in {"grep", "grep_wait"}
        BY <2>6, <4>2, <4>4 DEF GrepOfJob, SameCommand, SamePids
      <4> QED
        BY <1>2, <4>3, <4>4
    <3>6. CASE WaitRight(p)
      <4>1. Wait(p, shell.right_pid) /\ Goto("close") /\ shell.pc = "wait_right"
        BY <3>6 DEF WaitRight, At
      <4>2. shell'.pc = "close" /\ SameCommand /\ SamePids
        BY <1>0, <4>1, GotoFields DEF ShellPc
      <4>3. prog'[q] # "ls"
        BY <1>4, <2>6, <3>3, <4>1 DEF LsOfJob
      <4>4. GrepOfJob(s, q)
        BY <1>2, <2>6, <4>3
      <4>5. SysWait(p, q)
        BY <2>3, <4>1, <4>4 DEF Wait, GrepOfJob
      <4>6. pcbs'[p].waiting_for = q
        BY <1>0, <4>5, SysWaitProcs
      <4> QED
        BY <3>3, <4>2, <4>3, <4>4, <4>6 DEF GrepOfJob, SameCommand, SamePids
    <3>7. CASE ClosePipe(p)
      <4>1. shell.pc = "close"
        BY <3>7 DEF ClosePipe, At
      <4> QED
        BY <1>2, <1>4, <2>6, <3>3, <4>1 DEF LsOfJob, GrepOfJob
    <3> QED
      BY <3>1, <3>4, <3>5, <3>6, <3>7
  <2> QED
    BY <1>1, <2>8, <2>9
<1>6. CASE LeftLs(p) /\ q = NewPid /\ prog'[q] = "ls"
  <2>1. /\ shell'.pc = "right" /\ shell'.left_pid = q /\ shell'.right_pid = shell.right_pid
        /\ SameCommand
    BY <1>0, <1>6, LeftLsFields
  <2>2. shell.is_piping /\ shell.right_pid = 0
    BY <1>6 DEF LeftLs, At, JobInv, ShellSound
  <2> QED
    BY <1>4, <1>6, <2>1, <2>2 DEF LsOfJob, SameCommand
<1>7. CASE Right(p) /\ SpawnThread(p, "grep") /\ q = NewPid /\ prog'[q] = "grep" /\ ~pcbs[q].active
  <2>1. /\ \/ shell'.pc = (IF shell.is_piping THEN "wait_left" ELSE "prompt")
              /\ UNCHANGED vars
           \/ shell'.pc = "wait_left" /\ shell.is_piping /\ shell'.right_pid = NewPid
        /\ SameCommand
    BY <1>0, <1>7, RightFields
  <2>2. ~UNCHANGED vars
    BY <1>4, <1>7 DEF vars
  <2> QED
    BY <1>7, <2>1, <2>2 DEF GrepOfJob, SameCommand
<1> QED
  BY <1>1, <1>2, <1>5, <1>6, <1>7, LiveBefore

(* How the programs go on. *)
LEMMA ProgBefore ==
  ASSUME JobInv, NEW p \in Pid, ShellStep(p) \/ OtherStep(p) \/ Prompt(p) \/ FaultOf(p),
         NEW q \in Pid
  PROVE  \/ prog'[q] = prog[q] \/ prog'[q] \in {"none", "init"}
         \/ prog[q] = "grep_wait" /\ prog'[q] \in {"grep", "exit"}
         \/ q = p /\ Ls(p) /\ prog[q] = "ls" /\ prog'[q] = "exit"
         \/ q = p /\ Grep(p) /\ prog[q] = "grep" /\ prog'[q] \in {"grep_wait", "exit"}
         \/ LeftLs(p) /\ q = NewPid /\ prog'[q] = "ls"
         \/ Right(p) /\ SpawnThread(p, "grep") /\ q = NewPid /\ prog'[q] = "grep"
         \/ LeftExec(p) /\ q = NewPid /\ prog'[q] = "app"
<1>0. Inv /\ 0 \notin Pid /\ prog \in [Pid -> Program]
  BY ControlTypes DEF JobInv, KInv, JobTypes
<1>1. CASE UNCHANGED prog
  BY <1>1
<1>2. CASE WaitForDrivers(p) \/ GetShm(p) \/ Prompt(p) \/ MakePipe(p) \/ LeftPlain(p)
           \/ WaitChild(p) \/ WaitLeft(p) \/ WaitRight(p) \/ ClosePipe(p)
  BY <1>1, <1>2 DEF WaitForDrivers, GetShm, Prompt, MakePipe, LeftPlain, WaitChild, WaitLeft,
                    WaitRight, Wait, ClosePipe
<1>3. CASE LeftLs(p)
  BY <1>3 DEF LeftLs, SpawnThread
<1>4. CASE Right(p)
  <2>1. CASE SpawnThread(p, "grep")
    <3>1. prog' = [x \in Pid |-> IF x = NewPid THEN "grep" ELSE prog[x]]
      BY <2>1 DEF SpawnThread
    <3> QED
      BY <1>4, <2>1, <3>1
  <2> QED
    BY <1>1, <1>4, <2>1 DEF Right
<1>5. CASE LeftExec(p)
  BY <1>5 DEF LeftExec
<1>6. CASE \E R, a : Receive(R, a, prog)
  <2>1. PICK R, a : Receive(R, a, prog)
    BY <1>6
  <2>2. prog'[q] = prog[q] \/ (prog[q] = "grep_wait" /\ prog'[q] \in {"grep", "exit"})
    BY <2>1, ReceiveWoken
  <2> QED
    BY <2>2
<1>7. CASE LeftWrite(p) \/ (Ls(p) /\ WriteChunk(p))
  BY <1>6, <1>7 DEF LeftWrite, WriteChunk, CloseWrite
<1>8. CASE Ls(p) /\ CloseWrite(p, [prog EXCEPT ![p] = "exit"])
  <2>1. PICK now : now = [prog EXCEPT ![p] = "exit"]
    OBVIOUS
  <2>2. PICK R : Receive(R, 0, now)
    BY <1>8, <2>1 DEF CloseWrite
  <2>3. prog'[q] = now[q] \/ (prog[q] = "grep_wait" /\ prog'[q] \in {"grep", "exit"})
    BY <2>2, ReceiveWoken
  <2>4. now[q] = IF q = p THEN "exit" ELSE prog[q]
    BY <1>0, <2>1
  <2>5. prog[p] = "ls"
    BY <1>8 DEF Ls
  <2> QED
    BY <1>8, <2>3, <2>4, <2>5
<1>9. CASE Grep(p)
  <2>1. /\ prog[p] = "grep"
        /\ UNCHANGED prog \/ \E f \in {"grep_wait", "exit"} : prog' = [prog EXCEPT ![p] = f]
    BY <1>9 DEF Grep
  <2> QED
    BY <1>0, <1>9, <2>1
<1>10. CASE Ready(p)
  <2>1. prog' = [prog EXCEPT ![p] = "none"]
    BY <1>10 DEF Ready
  <2> QED
    BY <1>0, <2>1
<1>11. CASE LeftExit(p) \/ ExitThread(p) \/ App(p)
  BY <1>11, EndProgs
<1>12. CASE Crash(p) \/ FaultOf(p)
  <2>1. prog'[q] \in {"init", "none", prog[q]}
    BY <1>12 DEF Crash, FaultOf, Recovered
  <2> QED
    BY <2>1
<1> QED
  BY <1>2, <1>3, <1>4, <1>5, <1>7, <1>8, <1>9, <1>10, <1>11, <1>12
     DEF ShellStep, OtherStep, Ls

(* Only SYS_EXEC starts an application. *)
LEMMA AppsNext ==
  ASSUME JobInv, JobsNext
  PROVE  Apps'
<1>1. PICK p \in Pid : ShellStep(p) \/ OtherStep(p) \/ Prompt(p) \/ FaultOf(p)
  BY DEF JobsNext
<1>2. SUFFICES ASSUME NEW q \in Pid, prog'[q] = "app" PROVE pcbs'[q].name = "app"
  BY DEF Apps
<1>3. pcbs'[q].active /\ 0 \notin Pid
  BY <1>2, ProgTypes, ControlTypes DEF JobInv, KInv
<1>4. CASE prog[q] = "app"
  <2>1. pcbs[q].active /\ pcbs[q].name = "app"
    BY <1>4 DEF JobInv, JobTypes, Apps
  <2>2. PICK v, n, name : Procs(v, n, name)
    BY <1>1, StepProcs
  <2>3. q # v /\ q # n
    BY <1>3, <2>1, <2>2 DEF Procs
  <2> QED
    BY <2>1, <2>2, <2>3 DEF Procs
<1>5. CASE LeftExec(p) /\ q = NewPid
  <2>1. PICK n : (n \in Pid \/ n = 0) /\ Procs(0, n, "app")
    BY <1>5, ExecSteps DEF Step
  <2>2. NewPid = n
    BY <1>3, <2>1, NewPidIs
  <2> QED
    BY <1>5, <2>1, <2>2 DEF Procs
<1> QED
  BY <1>1, <1>2, <1>4, <1>5, ProgBefore

(* A shell ends by exit or by a fault. *)
LEMMA ShellEnds ==
  ASSUME JobInv, NEW p \in Pid, ShellStep(p) \/ OtherStep(p) \/ Prompt(p) \/ FaultOf(p),
         p \in Shells, p \notin Shells'
  PROVE  LeftExit(p) \/ (shell' = NewShell /\ Recovered(p))
<1>0. p \in Active /\ pcbs[p].name = "shell" /\ 0 \notin Pid /\ Programs
  BY ControlTypes DEF Shells, JobInv, KInv
<1>1. ASSUME NEW n, NEW name, Procs(0, n, name) PROVE FALSE
  <2>1. p # 0 /\ p # n
    BY <1>0, <1>1 DEF Procs, Active
  <2> QED
    BY <1>0, <1>1, <2>1 DEF Procs, Shells, Active
<1>2. CASE WaitForDrivers(p) \/ GetShm(p) \/ Prompt(p) \/ MakePipe(p) \/ LeftPlain(p)
           \/ LeftWrite(p) \/ WaitChild(p) \/ WaitLeft(p) \/ WaitRight(p)
           \/ ClosePipe(p) \/ Ls(p) \/ Grep(p) \/ Ready(p) \/ UNCHANGED vars
  BY <1>1, <1>2, PlainSteps
<1>3. CASE (\E f : SpawnThread(p, f)) \/ LeftExec(p)
  <2>1. \E n : Step(0, n, "shell_thread") \/ Step(0, n, "app")
    BY <1>3, SpawnSteps, ExecSteps
  <2> QED
    BY <1>1, <2>1 DEF Step
<1>4. CASE LeftLs(p) \/ Right(p)
  BY <1>2, <1>3, <1>4 DEF LeftLs, Right
<1>5. ~ExitThread(p)
  BY <1>0 DEF ExitThread, Programs, IsThread
<1>6. ~App(p)
  BY <1>0 DEF App, JobInv, Apps
<1>7. CASE Crash(p) \/ FaultOf(p)
  BY <1>0, <1>7 DEF Crash, FaultOf, Recovered
<1> QED
  BY <1>2, <1>3, <1>4, <1>5, <1>6, <1>7 DEF ShellStep, OtherStep

(* The PID of the job's grep: kept, forgotten or new. *)
LEMMA RightPidNext ==
  ASSUME JobInv, NEW p \in Pid, ShellStep(p) \/ OtherStep(p) \/ Prompt(p) \/ FaultOf(p)
  PROVE  \/ shell'.right_pid = 0
         \/ shell'.right_pid = shell.right_pid
         \/ Right(p) /\ SpawnThread(p, "grep") /\ shell'.right_pid = NewPid
<1>0. JobTypes
  BY DEF JobInv
<1>1. CASE UNCHANGED shell
  BY <1>1
<1>2. CASE \E pc \in ShellPc : Goto(pc)
  BY <1>0, <1>2, GotoFields DEF SamePids
<1>3. CASE WaitForDrivers(p) \/ GetShm(p) \/ LeftPlain(p) \/ LeftExit(p) \/ WaitChild(p)
           \/ WaitLeft(p) \/ WaitRight(p) \/ ClosePipe(p) \/ (LeftWrite(p) /\ Goto("right"))
  <2>1. \E pc \in {"shm", "prompt", "crash", "right", "write", "gone", "wait_right", "close"} :
          Goto(pc)
    BY <1>3 DEF WaitForDrivers, GetShm, LeftPlain, LeftExit, WaitChild, WaitLeft, WaitRight,
                ClosePipe
  <2> QED
    BY <1>2, <2>1 DEF ShellPc
<1>4. CASE Prompt(p)
  BY <1>4, PromptFields
<1>5. CASE MakePipe(p) \/ LeftLs(p)
  BY <1>0, <1>5, MakePipeFields, LeftLsFields DEF SamePids
<1>6. CASE LeftExec(p)
  BY <1>0, <1>6, LeftExecFields
<1>7. CASE Right(p)
  BY <1>0, <1>7, RightFields
<1>8. CASE WriteChunk(p)
  BY <1>0, <1>8, WriteFields DEF SamePids
<1>9. CASE Crash(p) \/ FaultOf(p)
  <2>1. shell' = NewShell \/ UNCHANGED shell
    BY <1>9 DEF Crash, FaultOf, Recovered
  <2> QED
    BY <2>1, NewShellFields
<1> QED
  BY <1>1, <1>3, <1>4, <1>5, <1>6, <1>7, <1>8, <1>9
     DEF ShellStep, OtherStep, LeftWrite, Ls, Grep, ExitThread, App, Ready

(* Every step keeps GrepLive. *)
LEMMA GrepLiveNext ==
  ASSUME JobInv, JobsNext, KInv'
  PROVE  GrepLive'
<1>0. JobTypes /\ KInv /\ Inv /\ 0 \notin Pid /\ Programs /\ shell \in ShellState
  BY ControlTypes DEF JobInv, KInv, JobTypes
<1>1. PICK p \in Pid : ShellStep(p) \/ OtherStep(p) \/ Prompt(p) \/ FaultOf(p)
  BY DEF JobsNext
<1>2. PICK q : q = shell'.right_pid
  OBVIOUS
<1>3. SUFFICES ASSUME q # 0, prog'[q] \in {"grep", "grep_wait", "exit"} PROVE Live(q)'
  BY <1>2 DEF GrepLive
<1>4. q \in Pid
  <2>1. shell' \in ShellState /\ MaxPid \in Nat
    BY ShellTypes, BootAssumption
  <2>2. q \in Pid0
    BY <1>2, <2>1 DEF ShellState
  <2> QED
    BY <1>3, <2>1, <2>2 DEF Pid, Pid0
<1>5. CASE Right(p) /\ SpawnThread(p, "grep") /\ q = NewPid
  <2>1. PICK n : (n \in Pid \/ n = 0) /\ Procs(0, n, "shell_thread")
    BY <1>5, SpawnSteps DEF Step
  <2>2. NewPid = n
    BY <1>0, <2>1, NewPidIs
  <2>3. pcbs'[q].active /\ pcbs'[q].name = "shell_thread" /\ ~pcbs[q].active
    BY <1>4, <1>5, <2>1, <2>2 DEF Procs
  <2>4. SysClone(p, NoPipe) /\ ~UNCHANGED pcbs
    BY <1>5, <2>3 DEF SpawnThread, vars
  <2>5. PICK t, N, tcb : /\ t \in Pid
                         /\ pcbs' = [pcbs EXCEPT ![t] = ThreadPcb(p, N, tcb)]
                         /\ thread' = [thread EXCEPT ![t] = "running"]
    BY <2>4 DEF SysClone, Panic
  <2>6. t = q
    <3>1. pcbs \in [Pid -> PCB]
      BY <1>0 DEF Inv, TypeOK
    <3>2. t # q => pcbs'[q] = pcbs[q]
      BY <1>4, <2>5, <3>1
    <3> QED
      BY <2>3, <3>2
  <2>7. thread'[q] = "running"
    BY <1>0, <1>4, <2>5, <2>6, ControlTypes
  <2> QED
    BY <2>3, <2>7 DEF Live, IsThread
<1>6. CASE q = shell.right_pid /\ ~(Right(p) /\ SpawnThread(p, "grep") /\ q = NewPid)
  <2>1. prog[q] \in {"grep", "grep_wait", "exit"}
    <3>1. SUFFICES ASSUME Ls(p), q = p, prog[q] = "ls" PROVE FALSE
      BY <1>1, <1>3, <1>4, <1>6, ProgBefore
    <3>2. Live(q)
      BY <1>0, <1>4, <3>1, CallerIsLive DEF Ls
    <3>3. pcbs[q].parent \in Shells
      BY <1>0, <1>4, <3>2, LiveThread
    <3> QED
      BY <1>4, <1>6, <3>1, <3>2, <3>3 DEF JobInv, ThreadsSound, LsOfJob
  <2>2. Live(q)
    BY <1>3, <1>6, <2>1 DEF JobInv, GrepLive
  <2>3. CASE p \in Shells /\ p \notin Shells'
    <3>1. LeftExit(p) \/ shell' = NewShell
      BY <1>1, <2>3, ShellEnds
    <3>2. LeftExit(p) => shell.right_pid = 0
      BY DEF LeftExit, At, JobInv, ShellSound
    <3> QED
      BY <1>2, <1>3, <1>6, <3>1, <3>2, NewShellFields
  <2> QED
    BY <1>1, <1>3, <1>4, <2>2, <2>3, LiveKept
<1> QED
  BY <1>1, <1>2, <1>3, <1>5, <1>6, RightPidNext

-----------------------------------------------------------------------------
(* What flows through the pipe. *)

(* A byte that grep takes out of the pipe stays in the flow. *)
LEMMA FlowRead ==
  ASSUME NEW g \in Seq(Byte), NEW b \in Seq(Byte), b # <<>>
  PROVE  Append(g, Head(b)) \o Tail(b) = g \o b
<1>1. /\ Head(b) \in Byte /\ Tail(b) \in Seq(Byte) /\ <<Head(b)>> \in Seq(Byte)
      /\ Len(Tail(b)) = Len(b) - 1 /\ Len(b) \in Nat \ {0}
  OBVIOUS
<1>2. Append(g, Head(b)) = g \o <<Head(b)>>
  BY <1>1, AppendIsConcat
<1>3. (g \o <<Head(b)>>) \o Tail(b) = g \o (<<Head(b)>> \o Tail(b))
  BY <1>1, ConcatAssociative
<1>4. <<Head(b)>> \o Tail(b) = b
  <2>1. PICK h, t : h = <<Head(b)>> /\ t = Tail(b)
    OBVIOUS
  <2>2. /\ h \in Seq(Byte) /\ t \in Seq(Byte) /\ Len(h) = 1 /\ Len(t) = Len(b) - 1
        /\ h[1] = b[1] /\ \A k \in 1 .. Len(t) : t[k] = b[k + 1]
    BY <1>1, <2>1
  <2>3. /\ h \o t \in Seq(Byte) /\ Len(h \o t) = Len(b)
        /\ \A k \in 1 .. Len(b) : (h \o t)[k] = IF k <= 1 THEN h[k] ELSE t[k - 1]
    <3>0. h \in Seq(Byte) /\ t \in Seq(Byte)
      BY <2>2
    <3>1. /\ h \o t \in Seq(Byte) /\ Len(h \o t) = Len(h) + Len(t)
          /\ \A k \in 1 .. Len(h) + Len(t) : (h \o t)[k] = IF k <= Len(h) THEN h[k] ELSE t[k - Len(h)]
      BY <3>0, ConcatProperties
    <3>2. Len(h) + Len(t) = Len(b)
      BY <1>1, <2>2
    <3> QED
      BY <2>2, <3>1, <3>2
  <2>4. ASSUME NEW k \in 1 .. Len(b) PROVE (h \o t)[k] = b[k]
    <3>1. CASE k = 1
      BY <2>2, <2>3, <3>1
    <3>2. CASE k # 1
      <4>1. k - 1 \in 1 .. Len(t) /\ (k - 1) + 1 = k /\ ~(k <= 1)
        BY <1>1, <2>2, <3>2
      <4> QED
        BY <2>2, <2>3, <4>1
    <3> QED
      BY <3>1, <3>2
  <2>5. PICK c : c = h \o t
    OBVIOUS
  <2>6. c \in Seq(Byte) /\ Len(c) = Len(b) /\ \A k \in 1 .. Len(c) : c[k] = b[k]
    BY <2>3, <2>4, <2>5
  <2>7. c = b
    BY <2>6, SeqEqual, Zenon
  <2> QED
    BY <2>1, <2>5, <2>7
<1> QED
  BY <1>2, <1>3, <1>4

(* The bytes m + 1, m + 2 .. after bytes up to m. *)
LEMMA FlowGrows ==
  ASSUME NEW f \in Seq(Byte), NEW acc \in Seq(Byte), NEW m \in Nat, NEW n \in Nat,
         Byte \subseteq Nat, Len(acc) <= n, \A k \in 1 .. Len(acc) : acc[k] = m + k
  PROVE  /\ Ascending(f, m) => Ascending(f \o acc, m + n)
         /\ Complete(f, m) /\ Len(acc) = n => Complete(f \o acc, m + n)
<1>1. PICK h : h = f \o acc
  OBVIOUS
<1>2. PICK a, b : a = Len(f) /\ b = Len(acc)
  OBVIOUS
<1>3. a \in Nat /\ b \in Nat /\ b <= n
  BY <1>2
<1>4. /\ h \in Seq(Byte) /\ Len(h) = a + b
      /\ \A k \in 1 .. (a + b) : h[k] = IF k <= a THEN f[k] ELSE acc[k - a]
  BY <1>1, <1>2
<1>5. /\ \A k \in 1 .. a : h[k] = f[k] /\ h[k] \in Nat
      /\ \A k \in (a + 1) .. (a + b) : h[k] = m + (k - a)
  <2>1. ASSUME NEW k \in 1 .. a PROVE h[k] = f[k] /\ h[k] \in Nat
    <3>0. f[k] \in Byte
      BY <1>2
    <3>1. f[k] \in Nat
      BY <3>0
    <3>2. k \in 1 .. (a + b) /\ k <= a
      BY <1>3
    <3> QED
      BY <1>4, <3>1, <3>2
  <2>2. ASSUME NEW k \in (a + 1) .. (a + b) PROVE h[k] = m + (k - a)
    <3>1. k \in 1 .. (a + b) /\ ~(k <= a) /\ k - a \in 1 .. b
      BY <1>3
    <3> QED
      BY <1>2, <1>4, <3>1
  <2> QED
    BY <2>1, <2>2
<1>6. ASSUME Ascending(f, m) PROVE Ascending(h, m + n)
  <2>1. \A k \in 1 .. a : h[k] <= m
    BY <1>2, <1>5, <1>6 DEF Ascending
  <2>2. \A j, k \in 1 .. a : j < k => h[j] < h[k]
    BY <1>2, <1>5, <1>6 DEF Ascending
  <2>3. ASSUME NEW k \in 1 .. (a + b) PROVE h[k] <= m + n
    <3>1. CASE k <= a
      BY <1>3, <1>5, <2>1, <3>1
    <3>2. CASE k > a
      BY <1>3, <1>5, <3>2
    <3> QED
      BY <1>3, <3>1, <3>2
  <2>4. ASSUME NEW j \in 1 .. (a + b), NEW k \in 1 .. (a + b), j < k PROVE h[j] < h[k]
    <3>1. CASE k <= a
      BY <1>3, <2>2, <2>4, <3>1
    <3>2. CASE j <= a /\ k > a
      <4>1. h[j] <= m /\ h[j] \in Nat /\ h[k] = m + (k - a)
        BY <1>3, <1>5, <2>1, <3>2
      <4> QED
        BY <1>3, <3>2, <4>1
    <3>3. CASE j > a
      <4>1. h[j] = m + (j - a) /\ h[k] = m + (k - a)
        BY <1>3, <1>5, <2>4, <3>3
      <4> QED
        BY <1>3, <2>4, <4>1
    <3> QED
      BY <1>3, <2>4, <3>1, <3>2, <3>3
  <2> QED
    BY <1>4, <2>3, <2>4 DEF Ascending
<1>7. ASSUME Complete(f, m), b = n PROVE Complete(h, m + n)
  <2>1. a = m /\ \A k \in 1 .. m : f[k] = k
    BY <1>2, <1>7 DEF Complete
  <2>2. ASSUME NEW k \in 1 .. (m + n) PROVE h[k] = k
    <3>1. CASE k <= m
      BY <1>3, <1>5, <2>1, <3>1
    <3>2. CASE k > m
      <4>1. h[k] = m + (k - m)
        BY <1>3, <1>5, <1>7, <2>1, <3>2
      <4> QED
        BY <1>3, <4>1
    <3> QED
      BY <1>3, <3>1, <3>2
  <2> QED
    BY <1>4, <1>7, <2>1, <2>2 DEF Complete
<1> QED
  BY <1>1, <1>2, <1>6, <1>7

-----------------------------------------------------------------------------
(* The pipe of the job. *)

(* A step of process p. *)
StepOf(p) == ShellStep(p) \/ OtherStep(p) \/ Prompt(p) \/ FaultOf(p)

(* The step saves no reply cap but that of a shell, and sends no grep to   *)
(* wait.                                                                   *)
NoNewWait ==
  /\ \A s \in Slot0 : replies'[s] \in {0, replies[s]} \cup Shells
  /\ \A q \in Active : prog'[q] = "grep_wait" => prog[q] = "grep_wait"

(* Who waits after such a step has waited before. *)
LEMMA WaitsBefore ==
  ASSUME JobInv, NEW p \in Pid, StepOf(p), NoNewWait, NEW s \in Slot0, NEW q \in Pid,
         replies'[s] = q, Live(q)', prog'[q] = "grep_wait"
  PROVE  replies[s] = q /\ Live(q) /\ prog[q] = "grep_wait"
<1>0. Inv /\ 0 \notin Pid /\ RepliesSound /\ q # 0
  BY ControlTypes DEF JobInv, KInv, WakeInv
<1>1. PICK v, n, name : Procs(v, n, name)
  BY StepProcs DEF StepOf
<1>2. pcbs'[q].active /\ pcbs'[q].name = "shell_thread" /\ thread'[q] # "none"
  BY DEF Live, IsThread
<1>3. q # v
  BY <1>1, <1>2 DEF Procs
<1>4. q \in Active
  BY <1>0 DEF NoNewWait, Shells, RepliesSound
<1>5. q # n
  BY <1>1, <1>4 DEF Procs, Active
<1>6. pcbs[q].active /\ pcbs[q].name = "shell_thread" /\ thread[q] # "none"
  BY <1>1, <1>2, <1>3, <1>5 DEF Procs
<1>7. Live(q) /\ q \notin Shells
  BY <1>6 DEF Live, IsThread, Shells
<1>8. replies[s] = q
  BY <1>0, <1>7 DEF NoNewWait
<1> QED
  BY <1>4, <1>7, <1>8 DEF NoNewWait

(* Neither does such a step disturb the reader that waits at pipe i. *)
LEMMA ReaderKept ==
  ASSUME JobInv, NEW p \in Pid, StepOf(p), NoNewWait,
         NEW x \in Shells, x \in Shells', NEW i \in PipeId, ReaderSound(i),
         NEW r, r = g_pipes[i].reader_reply_cap, g_pipes'[i].reader_reply_cap = r,
         r # NoSlot => replies'[r] = replies[r] /\ prog'[replies[r]] = "grep_wait"
  PROVE  ReaderSound(i)'
<1>0. KInv /\ Inv
  BY DEF JobInv, KInv
<1>1. ASSUME NEW s \in Slot0, NEW q \in Pid,
             replies'[s] = q, Live(q)', prog'[q] = "grep_wait"
      PROVE  s \in {r, NoSlot}
  <2>1. replies[s] = q /\ Live(q) /\ prog[q] = "grep_wait"
    BY <1>1, WaitsBefore
  <2> QED
    BY <2>1 DEF ReaderSound
<1>2. ASSUME r # NoSlot
      PROVE  \E q \in Pid : replies'[r] = q /\ Live(q)' /\ prog'[q] = "grep_wait"
  <2>1. PICK q \in Pid : q = replies[r] /\ Live(q) /\ prog[q] = "grep_wait"
    BY <1>2 DEF ReaderSound
  <2>2. replies'[r] = q /\ prog'[q] = "grep_wait"
    BY <1>2, <2>1
  <2>3. p \in Shells => p \in Shells'
    BY <1>0, OneShell
  <2>4. Live(q)'
    BY <2>1, <2>2, <2>3, LiveKept DEF StepOf
  <2> QED
    BY <2>2, <2>4
<1> QED
  BY <1>1, <1>2 DEF ReaderSound

(* The step does not concern pipe i. *)
LEMMA PipeKept ==
  ASSUME JobInv, NEW p \in Pid, StepOf(p), NoNewWait,
         NEW x \in Shells, x \in Shells', NEW i \in PipeId, JobPipe(x, i),
         g_pipes'[i] = g_pipes[i], UNCHANGED grepIn,
         shell'.sent = shell.sent, shell'.len = shell.len,
         Idle' => /\ Idle /\ shell'.left_pid = shell.left_pid
                  /\ shell'.right_pid = shell.right_pid,
         NEW r, r = g_pipes[i].reader_reply_cap,
         r # NoSlot => replies'[r] = replies[r] /\ prog'[replies[r]] = "grep_wait",
         shell'.right_pid # 0 /\ prog'[shell'.right_pid] = "exit" =>
           shell.right_pid # 0 /\ prog[shell.right_pid] = "exit"
  PROVE  JobPipe(x, i)'
<1>1. ReaderSound(i)'
  <2>1. ReaderSound(i) /\ g_pipes'[i].reader_reply_cap = r
    BY DEF JobPipe
  <2> QED
    BY <2>1, ReaderKept
<1>2. OwnPipe(x, i)'
  BY DEF JobPipe, OwnPipe
<1>3. FlowSound(i)'
  BY DEF JobPipe, FlowSound, Flow, Ascending, Complete
<1>4. EndSound(i)'
  BY DEF JobPipe, EndSound
<1>5. IdlePipe(i)'
  BY DEF JobPipe, IdlePipe
<1> QED
  BY <1>1, <1>2, <1>3, <1>4, <1>5 DEF JobPipe

(* An empty pipe, before anything is written. *)
LEMMA EmptyPipe ==
  ASSUME NEW i, grepIn' = <<>>, g_pipes'[i].buffer = <<>>, ~g_pipes'[i].eof,
         shell'.sent = 0, shell'.left_pid = 0, shell'.right_pid = 0
  PROVE  IdlePipe(i)' /\ FlowSound(i)' /\ EndSound(i)'
<1>1. IdlePipe(i)' /\ EndSound(i)'
  BY DEF IdlePipe, EndSound
<1>2. Flow(i)' = <<>> /\ Len(<<>>) = 0
  BY DEF Flow
<1>3. Ascending(<<>>, 0) /\ Complete(<<>>, 0)
  BY DEF Ascending, Complete
<1> QED
  BY <1>1, <1>2, <1>3 DEF FlowSound, Ascending, Complete

(* The steps that touch no pipe. *)
Quiet(p) ==
  \/ WaitForDrivers(p) \/ GetShm(p) \/ LeftPlain(p) \/ LeftLs(p) \/ LeftExec(p)
  \/ WaitChild(p) \/ Right(p) \/ WaitLeft(p) \/ WaitRight(p)
  \/ At(p, "pipe") /\ Goto("left") /\ UNCHANGED <<vars, prog, grepIn>>

(* A quiet step moves no position, and makes no job idle. *)
LEMMA QuietFields ==
  ASSUME JobInv, NEW p \in Pid, Quiet(p)
  PROVE  /\ shell'.sent = shell.sent /\ shell'.len = shell.len
         /\ Idle' => /\ Idle /\ shell'.left_pid = shell.left_pid
                     /\ shell'.right_pid = shell.right_pid
<1>0. JobTypes
  BY DEF JobInv
<1>1. ASSUME NEW pc \in ShellPc, Goto(pc)
      PROVE  /\ shell'.sent = shell.sent /\ shell'.len = shell.len
             /\ shell'.left_pid = shell.left_pid /\ shell'.right_pid = shell.right_pid
             /\ shell'.is_piping = shell.is_piping /\ shell'.pc = pc
  BY <1>0, <1>1, GotoFields DEF SameCommand, SamePids
<1>2. CASE \/ WaitForDrivers(p) \/ GetShm(p) \/ LeftPlain(p)
           \/ At(p, "pipe") /\ Goto("left") /\ UNCHANGED <<vars, prog, grepIn>>
  <2>1. shell.pc \in {"start", "shm", "left", "pipe"}
    BY <1>2 DEF WaitForDrivers, GetShm, LeftPlain, At
  <2>2. \E pc \in {"shm", "prompt", "crash", "right", "write", "left"} : Goto(pc)
    BY <1>2 DEF WaitForDrivers, GetShm, LeftPlain
  <2> QED
    BY <1>1, <2>1, <2>2 DEF ShellPc, Idle
<1>3. CASE WaitChild(p) \/ WaitLeft(p) \/ WaitRight(p)
  <2>1. \E pc \in {"right", "wait_right", "close"} : Goto(pc)
    BY <1>3 DEF WaitChild, WaitLeft, WaitRight
  <2> QED
    BY <1>1, <2>1 DEF ShellPc, Idle
<1>4. CASE LeftLs(p)
  <2>1. shell.is_piping
    BY <1>4 DEF LeftLs
  <2> QED
    BY <1>0, <1>4, <2>1, LeftLsFields DEF SameCommand, Idle
<1>5. CASE LeftExec(p)
  <2>1. shell.pc = "left"
    BY <1>5 DEF LeftExec, At
  <2> QED
    BY <1>0, <1>5, <2>1, LeftExecFields DEF SameCommand, Idle
<1>6. CASE Right(p)
  <2>1. /\ shell'.pc \in {"wait_left", "prompt"} /\ shell'.sent = shell.sent
        /\ shell'.len = shell.len /\ shell'.is_piping = shell.is_piping
        /\ shell'.left_pid = shell.left_pid
        /\ \/ shell'.right_pid = shell.right_pid
              /\ (shell'.pc = "prompt" => ~shell.is_piping)
           \/ shell'.pc = "wait_left" /\ shell.is_piping
    BY <1>0, <1>6, RightFields DEF SameCommand
  <2> QED
    BY <2>1 DEF Idle
<1> QED
  BY <1>2, <1>3, <1>4, <1>5, <1>6 DEF Quiet

(* The reply caps after the caller has been saved in a new slot. *)
LEMMA SavedReplies ==
  ASSUME JobInv, NEW p \in Pid, NEW s \in Slot0, alloc_slot(s), SaveCaller(s, p)
  PROVE  /\ \A t \in Slot0 : t # s => replies'[t] = replies[t]
         /\ replies'[s] \in {p, replies[s]}
         /\ \A i \in PipeId : g_pipes[i].reader_reply_cap # NoSlot =>
              /\ g_pipes[i].reader_reply_cap \in Slot0
              /\ g_pipes[i].reader_reply_cap # s
<1>0. Inv /\ replies \in [Slot0 -> Pid0]
  BY ControlTypes DEF JobInv, KInv
<1>1. s # NoSlot => s \in Available
  BY <1>0, AllocSlot DEF Available
<1>2. ASSUME NEW i \in PipeId, g_pipes[i].reader_reply_cap # NoSlot
      PROVE  g_pipes[i].reader_reply_cap \in Slot0 /\ g_pipes[i].reader_reply_cap # s
  BY <1>0, <1>1, <1>2, ReaderSlot DEF Slot0
<1> QED
  BY <1>0, <1>2 DEF SaveCaller

(* The reply caps after sends to other slots. *)
LEMMA OthersAnswered ==
  ASSUME Inv, NEW R, NEW V, replies' = RepliesLeft(R, V)
  PROVE  /\ \A s \in Slot0 : replies'[s] \in {0, replies[s]}
         /\ \A s \in Slot0 : s \notin R /\ replies[s] \notin V => replies'[s] = replies[s]
BY DEF RepliesLeft

(* A rollback of SYS_SHM_GET empties only slots that it has been given. *)
LEMMA ShmReplies ==
  ASSUME JobInv, ShmOnce, NEW p \in Pid, ShmGet(p)
  PROVE  /\ \A s \in Slot0 : replies'[s] \in {0, replies[s]}
         /\ \A s \in Slot : s \notin Available => replies'[s] = replies[s]
         /\ UNCHANGED g_pipes
<1>0. /\ Inv /\ free_slots \in SUBSET Slot /\ fresh_slots \in SUBSET Slot
      /\ free_slots \cap fresh_slots = {} /\ TableCaps \in Nat /\ ShmPages \in Nat
  BY SlotAssumption DEF JobInv, KInv, Inv, TypeOK, NoAliasing
<1>1. CASE UNCHANGED <<g_pipes, replies>>
  BY <1>1
<1>2. CASE \E k \in 0 .. ShmPages : ShmGets(p, k, 0) \/ ShmGets(p, k, TableCaps)
  <2>1. pcbs[p].shm_copies = NoCopies
    BY DEF ShmGet
  <2>2. PICK k \in 0 .. ShmPages, n \in {0, TableCaps} : ShmGets(p, k, n)
    BY <1>2
  <2>3. k + n \in Nat
    BY <1>0
  <2>4. PICK N \in Grants(k + n, free_slots) : \E f \in [1 .. k -> N] :
          \/ UNCHANGED replies
          \/ \E oom \in BOOLEAN :
               replies' = RepliesLeft({ShmFill(p, k, f, oom)[j] : j \in ShmPage} \ {NoSlot}, {})
    BY <2>2 DEF ShmGets
  <2>5. PICK f \in [1 .. k -> N] :
          \/ UNCHANGED replies
          \/ \E oom \in BOOLEAN :
               replies' = RepliesLeft({ShmFill(p, k, f, oom)[j] : j \in ShmPage} \ {NoSlot}, {})
    BY <2>4
  <2>6. N \subseteq Available
    BY <1>0, <2>3, GrantsOf DEF Available
  <2>7. ASSUME NEW oom \in BOOLEAN, NEW j \in ShmPage
        PROVE  ShmFill(p, k, f, oom)[j] \in N \cup {NoSlot}
    <3>1. pcbs[p].shm_copies[j] = NoSlot
      BY <2>1 DEF NoCopies
    <3>2. j <= k => j \in 1 .. k
      BY <1>0 DEF ShmPage
    <3> QED
      BY <3>1, <3>2 DEF ShmFill
  <2>8. CASE UNCHANGED replies
    BY <2>8 DEF ShmGet, Panic
  <2>9. CASE ~UNCHANGED replies
    <3>1. PICK oom \in BOOLEAN :
            replies' = RepliesLeft({ShmFill(p, k, f, oom)[j] : j \in ShmPage} \ {NoSlot}, {})
      BY <2>5, <2>9
    <3>2. PICK R : R = {ShmFill(p, k, f, oom)[j] : j \in ShmPage} \ {NoSlot}
      OBVIOUS
    <3>3. R \subseteq Available
      BY <2>6, <2>7, <3>2
    <3>4. replies' = RepliesLeft(R, {})
      BY <3>1, <3>2
    <3>5. UNCHANGED g_pipes
      BY DEF ShmGet, Panic
    <3> QED
      BY <1>0, <3>3, <3>4, <3>5, OthersAnswered DEF Slot0
  <2> QED
    BY <2>8, <2>9
<1> QED
  <2>1. ShmPage \subseteq 0 .. ShmPages
    BY <1>0 DEF ShmPage
  <2>2. Panic => UNCHANGED <<g_pipes, replies>>
    BY DEF Panic, slotVars
  <2> QED
    BY <1>1, <1>2, <2>1, <2>2 DEF ShmGet

(* A quiet step changes the program of no process that is there. *)
LEMMA QuietProgs ==
  ASSUME JobInv, NEW p \in Pid, Quiet(p)
  PROVE  /\ UNCHANGED grepIn
         /\ \A q \in Active : prog'[q] = prog[q]
         /\ shell'.right_pid # 0 /\ prog'[shell'.right_pid] = "exit" =>
              shell.right_pid # 0 /\ prog[shell.right_pid] = "exit"
<1>0. JobTypes /\ 0 \notin Pid /\ KInv /\ shell \in ShellState /\ shell.right_pid \in Pid0
  BY ControlTypes DEF JobInv, KInv, JobTypes, ShellState
<1>1. ASSUME NEW pc \in ShellPc, Goto(pc) PROVE shell'.right_pid = shell.right_pid
  BY <1>0, <1>1, GotoFields DEF SamePids
<1>2. ASSUME NEW n, n \in Pid \/ n = 0, NEW name, Procs(0, n, name), NEW f \in {"ls", "grep", "app"},
             prog' = [q \in Pid |-> IF q = NewPid THEN f ELSE prog[q]]
      PROVE  /\ NewPid = n
             /\ \A q \in Active : prog'[q] = prog[q]
             /\ \A q \in Pid : prog'[q] = "exit" => prog[q] = "exit"
             /\ n \in Pid => prog'[n] = f
  <2>1. NewPid = n
    BY <1>0, <1>2, NewPidIs
  <2>2. \A q \in Active : q \in Pid /\ q # n
    BY <1>2 DEF Procs, Active
  <2> QED
    BY <1>2, <2>1, <2>2
<1>3. shell.right_pid # 0 => shell.right_pid \in Pid
  <2>1. MaxPid \in Nat
    BY BootAssumption
  <2> QED
    BY <1>0, <2>1 DEF Pid, Pid0
<1>4. CASE \/ WaitForDrivers(p) \/ GetShm(p) \/ LeftPlain(p)
           \/ WaitChild(p) \/ WaitLeft(p) \/ WaitRight(p)
           \/ At(p, "pipe") /\ Goto("left") /\ UNCHANGED <<vars, prog, grepIn>>
  <2>1. UNCHANGED <<prog, grepIn>>
    BY <1>4 DEF WaitForDrivers, GetShm, LeftPlain, WaitChild, WaitLeft, WaitRight, Wait
  <2>2. \E pc \in {"shm", "prompt", "crash", "right", "write", "left", "wait_right", "close"} :
          Goto(pc)
    BY <1>4 DEF WaitForDrivers, GetShm, LeftPlain, WaitChild, WaitLeft, WaitRight
  <2>3. shell'.right_pid = shell.right_pid
    BY <1>1, <2>2 DEF ShellPc
  <2> QED
    BY <2>1, <2>3
<1>5. CASE LeftLs(p) \/ LeftExec(p)
  <2>1. UNCHANGED grepIn /\ shell'.right_pid = shell.right_pid
    BY <1>0, <1>5, LeftLsFields, LeftExecFields DEF LeftLs, LeftExec, SpawnThread
  <2>2. PICK f \in {"ls", "app"} : prog' = [q \in Pid |-> IF q = NewPid THEN f ELSE prog[q]]
    BY <1>5 DEF LeftLs, LeftExec, SpawnThread
  <2>3. PICK n, name : (n \in Pid \/ n = 0) /\ Procs(0, n, name)
    BY <1>5, SpawnSteps, ExecSteps DEF LeftLs, Step
  <2>4. /\ \A q \in Active : prog'[q] = prog[q]
        /\ \A q \in Pid : prog'[q] = "exit" => prog[q] = "exit"
    BY <1>2, <2>2, <2>3
  <2> QED
    BY <1>3, <2>1, <2>4
<1>6. CASE Right(p)
  <2>1. CASE UNCHANGED <<vars, prog, grepIn>> /\ shell'.right_pid = shell.right_pid
    BY <2>1
  <2>2. CASE shell'.right_pid = NewPid /\ SpawnThread(p, "grep")
    <3>1. PICK n, name : (n \in Pid \/ n = 0) /\ Procs(0, n, name)
      BY <2>2, SpawnSteps DEF Step
    <3>2. /\ UNCHANGED grepIn
          /\ prog' = [q \in Pid |-> IF q = NewPid THEN "grep" ELSE prog[q]]
      BY <2>2 DEF SpawnThread
    <3>3. /\ NewPid = n /\ \A q \in Active : prog'[q] = prog[q]
          /\ n \in Pid => prog'[n] = "grep"
      BY <1>2, <3>1, <3>2
    <3> QED
      BY <2>2, <3>1, <3>2, <3>3
  <2> QED
    BY <1>0, <1>6, <2>1, <2>2, RightFields
<1> QED
  BY <1>4, <1>5, <1>6 DEF Quiet

(* A quiet step answers no reader and changes no pipe. *)
LEMMA QuietReplies ==
  ASSUME JobInv, ShmOnce, NEW p \in Pid, Quiet(p)
  PROVE  /\ UNCHANGED g_pipes
         /\ \A s \in Slot0 : replies'[s] \in {0, replies[s]} \cup Shells
         /\ \A i \in PipeId : g_pipes[i].reader_reply_cap # NoSlot =>
              replies'[g_pipes[i].reader_reply_cap] = replies[g_pipes[i].reader_reply_cap]
<1>0. KInv /\ Inv
  BY DEF JobInv, KInv
<1>1. CASE UNCHANGED <<g_pipes, replies>>
  BY <1>1
<1>2. CASE WaitAllReady(p) \/ \E t : SysWait(p, t)
  <2>1. p \in Shells /\ UNCHANGED g_pipes
    BY <1>2 DEF WaitAllReady, SysWait, Calls, Shells, Active
  <2>2. PICK s \in Slot0 : alloc_slot(s) /\ SaveCaller(s, p)
    BY <1>2 DEF WaitAllReady, SysWait
  <2>3. /\ \A t \in Slot0 : t # s => replies'[t] = replies[t]
        /\ replies'[s] \in {p, replies[s]}
        /\ \A i \in PipeId : g_pipes[i].reader_reply_cap # NoSlot =>
             /\ g_pipes[i].reader_reply_cap \in Slot0
             /\ g_pipes[i].reader_reply_cap # s
    BY <2>2, SavedReplies
  <2> QED
    BY <2>1, <2>3
<1>3. CASE GetShm(p)
  <2>1. /\ \A s \in Slot0 : replies'[s] \in {0, replies[s]}
        /\ \A s \in Slot : s \notin Available => replies'[s] = replies[s]
        /\ UNCHANGED g_pipes
    BY <1>3, ShmReplies DEF GetShm
  <2>2. ASSUME NEW i \in PipeId, g_pipes[i].reader_reply_cap # NoSlot
        PROVE  g_pipes[i].reader_reply_cap \in Slot /\ g_pipes[i].reader_reply_cap \notin Available
    BY <1>0, <2>2, ReaderSlot
  <2> QED
    BY <2>1, <2>2
<1>4. CASE LeftLs(p) \/ LeftExec(p) \/ Right(p)
  <2>1. CASE Right(p) /\ ~\E f : SpawnThread(p, f)
    BY <1>1, <2>1 DEF Right, vars, slotVars
  <2>2. CASE \E f : SpawnThread(p, f)
    BY <1>1, <2>2, SpawnSteps
  <2>3. CASE LeftExec(p)
    BY <1>1, <2>3, ExecSteps
  <2> QED
    BY <1>4, <2>1, <2>2, <2>3 DEF LeftLs
<1>5. CASE \/ WaitForDrivers(p) \/ WaitChild(p) \/ WaitLeft(p) \/ WaitRight(p) \/ LeftPlain(p)
           \/ At(p, "pipe") /\ Goto("left") /\ UNCHANGED <<vars, prog, grepIn>>
  <2>1. WaitAllReady(p) \/ (\E t : SysWait(p, t)) \/ UNCHANGED vars
    BY <1>5 DEF WaitForDrivers, WaitChild, WaitLeft, WaitRight, LeftPlain, Wait
  <2> QED
    BY <1>1, <1>2, <2>1 DEF vars, slotVars
<1> QED
  BY <1>3, <1>4, <1>5 DEF Quiet

(* A quiet step keeps what is said of the pipe of the job. *)
LEMMA QuietPipe ==
  ASSUME JobInv, ShmOnce, NEW p \in Pid, StepOf(p), Quiet(p),
         NEW x \in Shells, x \in Shells', NEW i \in PipeId, JobPipe(x, i)
  PROVE  JobPipe(x, i)'
<1>0. KInv /\ Inv /\ RepliesSound
  BY DEF JobInv, KInv, WakeInv
<1>1. PICK r : r = g_pipes[i].reader_reply_cap
  OBVIOUS
<1>2. NoNewWait
  BY QuietProgs, QuietReplies DEF NoNewWait
<1>3. ASSUME r # NoSlot PROVE replies'[r] = replies[r] /\ prog'[replies[r]] = "grep_wait"
  <2>1. replies[r] \in Pid /\ Live(replies[r]) /\ prog[replies[r]] = "grep_wait"
    BY <1>1, <1>3 DEF JobPipe, ReaderSound
  <2>2. replies[r] \in Active
    BY <2>1 DEF Live, Active
  <2> QED
    BY <1>1, <1>3, <2>1, <2>2, QuietProgs, QuietReplies
<1>4. g_pipes'[i] = g_pipes[i]
  BY QuietReplies
<1>5. /\ UNCHANGED grepIn
      /\ shell'.right_pid # 0 /\ prog'[shell'.right_pid] = "exit" =>
           shell.right_pid # 0 /\ prog[shell.right_pid] = "exit"
  BY QuietProgs
<1>6. /\ shell'.sent = shell.sent /\ shell'.len = shell.len
      /\ Idle' => /\ Idle /\ shell'.left_pid = shell.left_pid
                  /\ shell'.right_pid = shell.right_pid
  BY QuietFields
<1> QED
  BY <1>1, <1>2, <1>3, <1>4, <1>5, <1>6, PipeKept

(* A process that is not the shell ends: it has written to no pipe of the  *)
(* shell, and no reader of such a pipe has waited for it.                  *)
LEMMA EndPipe ==
  ASSUME JobInv, NEW p \in Pid, StepOf(p), thread[p] = "running", p \notin Shells,
         NEW x \in Shells, x \in Shells', NEW i \in PipeId, JobPipe(x, i),
         NEW n, NEW name, NEW I \in SUBSET PipeId, i \notin I, Ends(p, n, name, I),
         UNCHANGED <<grepIn, shell>>,
         \A q \in Pid : prog[q] = "grep_wait" /\ q # p /\ q # n /\ pcbs[q].active =>
           \/ prog'[q] = "grep_wait"
           \/ q \in Woken(Readers(I)) /\ prog'[q] = "exit",
         \A q \in Pid : prog'[q] = "grep_wait" => prog[q] = "grep_wait",
         \A q \in Pid : prog'[q] = "exit" =>
           \/ prog[q] = "exit"
           \/ prog[q] = "grep_wait" /\ q \in Woken(Readers(I))
  PROVE  JobPipe(x, i)'
<1>0. /\ KInv /\ Inv /\ RepliesSound /\ 0 \notin Pid /\ shell \in ShellState
      /\ shell.right_pid \in Pid0 /\ MaxPid \in Nat
  BY ControlTypes, BootAssumption DEF JobInv, KInv, WakeInv, JobTypes, ShellState
<1>1. PICK r : r = g_pipes[i].reader_reply_cap
  OBVIOUS
<1>2. PICK R : R = Readers(I) \cup ReplyCaps(Waiters(p))
  OBVIOUS
<1>3. replies' = RepliesLeft(R, {p})
  BY <1>2 DEF Ends
<1>4. NoNewWait
  BY <1>0, <1>3, OthersAnswered DEF NoNewWait, Active
<1>5. r # NoSlot => r \in Slot0 /\ r \notin R /\ r \notin Readers(I)
  <2>1. SUFFICES ASSUME r # NoSlot PROVE r \in Slot0 /\ r \notin R /\ r \notin Readers(I)
    OBVIOUS
  <2>2. /\ r \in Slot
        /\ \A j \in PipeId : j # i => g_pipes[j].reader_reply_cap # r
        /\ \A w \in Pid : pcbs[w].reply_cap # r
    BY <1>0, <1>1, <2>1, ReaderSlot
  <2>3. r \notin Readers(I)
    BY <2>2 DEF Readers
  <2>4. r \notin ReplyCaps(Waiters(p))
    BY <2>2 DEF ReplyCaps, Waiters, Active
  <2> QED
    BY <1>2, <2>2, <2>3, <2>4 DEF Slot0
<1>6. ASSUME NEW q \in Pid, Live(q), prog[q] = "grep_wait", q \in Woken(Readers(I))
      PROVE  FALSE
  <2>1. PICK s \in Readers(I) : replies[s] = q
    BY <1>6 DEF Woken
  <2>2. s \in Slot0 /\ s # NoSlot
    BY <1>0, <2>1, ReaderSlots, InvParts DEF Readers
  <2>3. s = r
    BY <1>1, <1>6, <2>1, <2>2 DEF JobPipe, ReaderSound
  <2> QED
    BY <1>5, <2>1, <2>2, <2>3
<1>7. ASSUME r # NoSlot PROVE replies'[r] = replies[r] /\ prog'[replies[r]] = "grep_wait"
  <2>1. PICK q \in Pid : q = replies[r] /\ Live(q) /\ prog[q] = "grep_wait"
    BY <1>1, <1>7 DEF JobPipe, ReaderSound
  <2>2. r \in Slot0 /\ replies[r] # 0
    BY <1>0, <1>5, <1>7, <2>1
  <2>3. q # p
    BY <2>1, <2>2, <1>0 DEF RepliesSound
  <2>4. q # n /\ pcbs[q].active
    BY <2>1 DEF Ends, Step, Procs, Live
  <2>5. prog'[q] = "grep_wait"
    BY <1>6, <2>1, <2>3, <2>4
  <2>6. replies'[r] = replies[r]
    BY <1>0, <1>3, <1>5, <1>7, <2>1, <2>3, OthersAnswered
  <2> QED
    BY <2>1, <2>5, <2>6
<1>8. ASSUME shell'.right_pid # 0, prog'[shell'.right_pid] = "exit"
      PROVE  shell.right_pid # 0 /\ prog[shell.right_pid] = "exit"
  <2>1. PICK q : q = shell.right_pid
    OBVIOUS
  <2>2. q \in Pid
    BY <1>0, <1>8, <2>1 DEF Pid, Pid0
  <2>3. prog[q] = "grep_wait" => Live(q)
    BY <1>8, <2>1 DEF JobInv, GrepLive
  <2> QED
    BY <1>6, <1>8, <2>1, <2>2, <2>3
<1>9. g_pipes'[i] = g_pipes[i]
  BY DEF Ends, AtEof
<1>10. Idle' => Idle
  BY DEF Idle
<1> QED
  BY <1>1, <1>4, <1>7, <1>8, <1>9, <1>10, PipeKept

(* A process that exits keeps what is said of the pipe of the job. *)
LEMMA ExitPipe ==
  ASSUME JobInv, NEW p \in Pid, StepOf(p), ExitThread(p) \/ App(p),
         NEW x \in Shells, x \in Shells', NEW i \in PipeId, JobPipe(x, i)
  PROVE  JobPipe(x, i)'
<1>1. Ends(p, 0, "", WrittenBy(p)) /\ thread[p] = "running" /\ UNCHANGED grepIn
  BY ExitSteps
<1>2. UNCHANGED shell
  BY DEF ExitThread, App
<1>3. p \notin Shells
  <2>1. IsThread(p) \/ pcbs[p].name = "app"
    BY DEF ExitThread, App, ThreadExit, JobInv, Apps
  <2> QED
    BY <2>1 DEF IsThread, Shells
<1>4. i \notin WrittenBy(p) /\ WrittenBy(p) \in SUBSET PipeId
  BY <1>3 DEF JobPipe, OwnPipe, WrittenBy
<1>5. /\ prog'[p] = "none"
      /\ \A q \in Pid : q # p =>
           \/ prog'[q] = prog[q]
           \/ /\ q \in Woken(Readers(WrittenBy(p)))
              /\ prog[q] = "grep_wait" /\ prog'[q] = "exit"
  BY EndProgs
<1>6. PICK I, n, name : I = WrittenBy(p) /\ n = 0 /\ name = ""
  OBVIOUS
<1>7. /\ \A q \in Pid : prog[q] = "grep_wait" /\ q # p /\ q # n /\ pcbs[q].active =>
           \/ prog'[q] = "grep_wait"
           \/ q \in Woken(Readers(I)) /\ prog'[q] = "exit"
      /\ \A q \in Pid : prog'[q] = "grep_wait" => prog[q] = "grep_wait"
      /\ \A q \in Pid : prog'[q] = "exit" =>
           \/ prog[q] = "exit"
           \/ prog[q] = "grep_wait" /\ q \in Woken(Readers(I))
  BY <1>5, <1>6
<1>8. Ends(p, n, name, I) /\ i \notin I /\ I \in SUBSET PipeId
  BY <1>1, <1>4, <1>6
<1>9. thread[p] = "running" /\ UNCHANGED <<grepIn, shell>>
  BY <1>1, <1>2
<1> QED
  BY <1>3, <1>7, <1>8, <1>9, EndPipe

(* A process that faults, other than the shell, keeps it. *)
LEMMA FaultPipe ==
  ASSUME JobInv, NEW p \in Pid, StepOf(p), FaultOf(p), p \notin Shells,
         NEW x \in Shells, x \in Shells', NEW i \in PipeId, JobPipe(x, i)
  PROVE  JobPipe(x, i)'
<1>1. p \in Active /\ thread[p] = "running" /\ Recovered(p)
  BY FaultSteps
<1>2. PICK n : /\ n \in Pid \/ n = 0
               /\ n \in Pid => pcbs[p].name \in Archive
               /\ Ends(p, n, pcbs[p].name, {})
  BY FaultSteps
<1>3. pcbs[p].name # "shell"
  BY <1>1 DEF Shells
<1>4. UNCHANGED <<shell, grepIn>>
  BY <1>1, <1>3 DEF Recovered
<1>5. /\ \A q \in Pid : prog'[q] \in OfThread => q # p /\ q # n /\ prog'[q] = prog[q]
      /\ \A q \in Pid : q # p /\ q # n /\ pcbs[q].active => prog'[q] = prog[q]
  BY <1>1, <1>2, RecoveredProgs DEF Ends, Step
<1>6. PICK I : I = {}
  OBVIOUS
<1>7. I \in SUBSET PipeId /\ i \notin I /\ Ends(p, n, pcbs[p].name, I)
  BY <1>2, <1>6
<1>8. PICK name : name = pcbs[p].name
  OBVIOUS
<1>9. /\ \A q \in Pid : prog[q] = "grep_wait" /\ q # p /\ q # n /\ pcbs[q].active =>
           \/ prog'[q] = "grep_wait"
           \/ q \in Woken(Readers(I)) /\ prog'[q] = "exit"
      /\ \A q \in Pid : prog'[q] = "grep_wait" => prog[q] = "grep_wait"
      /\ \A q \in Pid : prog'[q] = "exit" =>
           \/ prog[q] = "exit"
           \/ prog[q] = "grep_wait" /\ q \in Woken(Readers(I))
  BY <1>5 DEF OfThread
<1> QED
  BY <1>1, <1>4, <1>7, <1>8, <1>9, EndPipe

(* Only the shell waits for the drivers. *)
LEMMA ReadyPipe ==
  ASSUME JobInv, NEW p \in Pid, StepOf(p), Ready(p),
         NEW x \in Shells, x \in Shells', NEW i \in PipeId, JobPipe(x, i)
  PROVE  JobPipe(x, i)'
<1>0. KInv /\ Inv /\ RepliesSound /\ JobTypes /\ prog \in [Pid -> Program]
  BY DEF JobInv, KInv, WakeInv, JobTypes
<1>1. PICK r : r = g_pipes[i].reader_reply_cap
  OBVIOUS
<1>2. prog[p] = "init" /\ prog' = [prog EXCEPT ![p] = "none"] /\ UNCHANGED <<shell, grepIn>>
  BY DEF Ready
<1>3. UNCHANGED g_pipes
  BY DEF Ready, DriverReady
<1>4. \A q \in Pid : prog'[q] = prog[q] \/ (q = p /\ prog[q] = "init" /\ prog'[q] = "none")
  BY <1>0, <1>2
<1>5. /\ \A s \in Slot0 : replies'[s] \in {0, replies[s]}
      /\ \A s \in Slot0 : s # driver_ready_wait_reply => replies'[s] = replies[s]
  <2>1. CASE UNCHANGED replies
    BY <2>1
  <2>2. CASE replies' = RepliesLeft({driver_ready_wait_reply} \ {NoSlot}, {})
    <3>1. PICK R, V : R = {driver_ready_wait_reply} \ {NoSlot} /\ V = {}
      OBVIOUS
    <3>2. replies' = RepliesLeft(R, V)
      BY <2>2, <3>1
    <3>3. /\ \A s \in Slot0 : replies'[s] \in {0, replies[s]}
          /\ \A s \in Slot0 : s \notin R /\ replies[s] \notin V => replies'[s] = replies[s]
      BY <1>0, <3>2, OthersAnswered
    <3> QED
      BY <3>1, <3>3
  <2> QED
    BY <2>1, <2>2 DEF Ready, DriverReady
<1>6. NoNewWait
  BY <1>4, <1>5 DEF NoNewWait, Active
<1>7. ASSUME r # NoSlot PROVE replies'[r] = replies[r] /\ prog'[replies[r]] = "grep_wait"
  <2>1. replies[r] \in Pid /\ prog[replies[r]] = "grep_wait"
    BY <1>1, <1>7 DEF JobPipe, ReaderSound
  <2>2. r \in Slot0 /\ r # driver_ready_wait_reply
    BY <1>0, <1>1, <1>7, ReaderSlot DEF Slot0
  <2> QED
    BY <1>4, <1>5, <2>1, <2>2
<1>8. shell'.right_pid # 0 /\ prog'[shell'.right_pid] = "exit" =>
        shell.right_pid # 0 /\ prog[shell.right_pid] = "exit"
  <2>1. shell.right_pid \in Pid0 /\ MaxPid \in Nat
    BY <1>0, BootAssumption DEF JobTypes, ShellState
  <2>2. shell.right_pid # 0 => shell.right_pid \in Pid
    BY <2>1 DEF Pid, Pid0
  <2> QED
    BY <1>2, <1>4, <2>2
<1>9. g_pipes'[i] = g_pipes[i] /\ (Idle' => Idle)
  BY <1>2, <1>3 DEF Idle
<1> QED
  BY <1>1, <1>2, <1>6, <1>7, <1>8, <1>9, PipeKept

(* The pipe is new: no grep can wait there yet. *)
LEMMA NewPipe ==
  ASSUME JobInv, NEW p \in Pid, MakePipe(p), SysPipe(p)
  PROVE  \E i \in PipeId : pcbs'[p].pipe_fd = i /\ JobPipe(p, i)'
<1>0. /\ KInv /\ Inv /\ JobTypes /\ g_pipes \in [PipeId -> Pipe] /\ pcbs \in [Pid -> PCB]
      /\ UNCHANGED <<prog, grepIn>> /\ At(p, "pipe")
  BY DEF JobInv, KInv, Inv, TypeOK, MakePipe
<1>1. PICK i \in PipeId :
        /\ g_pipes' = [g_pipes EXCEPT ![i] =
                         [active |-> TRUE, buffer |-> <<>>, reader_reply_cap |-> NoSlot,
                          writer_pid |-> p, owner_pid |-> p, eof |-> FALSE]]
        /\ pcbs' = [pcbs EXCEPT ![p].pipe_fd = i]
  BY DEF SysPipe
<1>2. pcbs'[p].pipe_fd = i
  BY <1>0, <1>1 DEF PCB
<1>3. g_pipes'[i] = [active |-> TRUE, buffer |-> <<>>, reader_reply_cap |-> NoSlot,
                     writer_pid |-> p, owner_pid |-> p, eof |-> FALSE]
  BY <1>0, <1>1
<1>4. OwnPipe(p, i)' /\ g_pipes'[i].reader_reply_cap = NoSlot
      /\ g_pipes'[i].buffer = <<>> /\ ~g_pipes'[i].eof
  BY <1>3 DEF OwnPipe
<1>5. shell.pc = "pipe" /\ Shells = {p}
  BY <1>0, ShellRuns
<1>6. /\ shell'.sent = 0 /\ shell'.left_pid = 0 /\ shell'.right_pid = 0
      /\ grepIn' = <<>>
  BY <1>0, <1>5, MakePipeFields DEF JobInv, ShellSound, SamePids
<1>7. IdlePipe(i)' /\ FlowSound(i)' /\ EndSound(i)'
  BY <1>4, <1>6, EmptyPipe
<1>8. ASSUME NEW s \in Slot0, NEW q \in Pid,
             replies'[s] = q, Live(q)', prog'[q] = "grep_wait"
      PROVE  FALSE
  <2>1. Procs(0, 0, "") /\ UNCHANGED thread
    BY <1>0, FdProcs
  <2>2. pcbs[q].active /\ pcbs[q].name = "shell_thread" /\ thread[q] # "none"
    <3>1. q # 0
      BY <1>0, ControlTypes
    <3> QED
      BY <1>8, <2>1, <3>1 DEF Procs, Live, IsThread
  <2>3. Live(q) /\ prog[q] = "grep_wait"
    BY <1>0, <1>8, <2>2 DEF Live, IsThread
  <2> QED
    BY <1>5, <2>3, PipeThreads
<1>9. ReaderSound(i)'
  BY <1>4, <1>8 DEF ReaderSound
<1> QED
  BY <1>2, <1>4, <1>7, <1>9 DEF JobPipe

(* A new command keeps it: the pipe of the last one was left empty. *)
LEMMA PromptPipe ==
  ASSUME JobInv, NEW p \in Pid, StepOf(p), Prompt(p),
         NEW x \in Shells, x \in Shells', NEW i \in PipeId, JobPipe(x, i)
  PROVE  JobPipe(x, i)'
<1>1. UNCHANGED <<vars, prog>> /\ grepIn' = <<>> /\ shell.pc = "prompt"
  BY DEF Prompt, At
<1>2. UNCHANGED <<pcbs, g_pipes, replies, thread>>
  BY <1>1 DEF vars
<1>3. g_pipes[i].buffer = <<>> /\ ~g_pipes[i].eof
  BY <1>1 DEF JobPipe, IdlePipe, Idle
<1>4. shell'.sent = 0 /\ shell'.left_pid = 0 /\ shell'.right_pid = 0
  BY PromptFields
<1>5. g_pipes'[i].buffer = <<>> /\ ~g_pipes'[i].eof
  BY <1>2, <1>3
<1>6. IdlePipe(i)' /\ FlowSound(i)' /\ EndSound(i)'
  BY <1>1, <1>4, <1>5, EmptyPipe
<1>7. OwnPipe(x, i)'
  BY <1>2 DEF JobPipe, OwnPipe
<1>8. ReaderSound(i)'
  BY <1>1, <1>2 DEF JobPipe, ReaderSound, Live, IsThread
<1> QED
  BY <1>6, <1>7, <1>8 DEF JobPipe

(* The reader of pipe i has been answered: no other grep waits. *)
LEMMA ReaderGone ==
  ASSUME JobInv, NEW p \in Pid, StepOf(p), NEW i \in PipeId, ReaderSound(i),
         replies' = RepliesLeft(Readers({i}), {}), g_pipes'[i].reader_reply_cap = NoSlot,
         \A q \in Pid : prog'[q] = "grep_wait" => prog[q] = "grep_wait"
  PROVE  ReaderSound(i)'
<1>0. Inv /\ replies \in [Slot0 -> Pid0] /\ 0 \notin Pid
  BY ControlTypes DEF JobInv, KInv
<1>1. PICK R, V : R = Readers({i}) /\ V = {}
  OBVIOUS
<1>2. /\ \A s \in Slot0 : replies'[s] \in {0, replies[s]}
      /\ \A s \in R : s \in Slot0 => replies'[s] = 0
  <2>1. replies' = RepliesLeft(R, V)
    BY <1>1
  <2> QED
    BY <2>1 DEF RepliesLeft
<1>3. NoNewWait
  BY <1>2 DEF NoNewWait, Active
<1>4. ASSUME NEW s \in Slot0, NEW q \in Pid,
             replies'[s] = q, Live(q)', prog'[q] = "grep_wait"
      PROVE  s = NoSlot
  <2>1. replies[s] = q /\ Live(q) /\ prog[q] = "grep_wait"
    BY <1>3, <1>4, WaitsBefore
  <2>2. s \in {g_pipes[i].reader_reply_cap, NoSlot}
    BY <2>1 DEF ReaderSound
  <2>3. s # NoSlot => s \in R
    BY <1>1, <2>2 DEF Readers
  <2> QED
    BY <1>0, <1>2, <1>4, <2>3
<1> QED
  BY <1>4 DEF ReaderSound

(* A chunk is written: the flow grows by what the buffer accepts, whether  *)
(* a reader waits or not.                                                  *)
LEMMA WrittenFlow ==
  ASSUME JobInv, NEW p \in Pid, WriteChunk(p), NEW i \in PipeId, NEW acc,
         Written(p, i, acc), ReaderSound(i)
  PROVE  Flow(i)' = Flow(i) \o acc
<1>0. /\ Inv /\ g_pipes \in [PipeId -> Pipe] /\ grepIn \in Seq(Byte) /\ 0 \notin Pid
      /\ Byte \subseteq Nat \ {0}
  <2>1. Byte = 1 .. MaxOut /\ MaxOut \in Nat
    BY CommandAssumption
  <2> QED
    BY <2>1, ControlTypes DEF JobInv, KInv, Inv, TypeOK, JobTypes
<1>1. PICK b : b = g_pipes[i].buffer
  OBVIOUS
<1>2. b \in Seq(Byte) /\ acc \in Seq(Byte)
  BY <1>0, <1>1 DEF Pipe, Written
<1>3. CASE g_pipes[i].reader_reply_cap = NoSlot
  <2>1. g_pipes' = [g_pipes EXCEPT ![i].buffer = b \o acc] /\ UNCHANGED grepIn
    BY <1>1, <1>3 DEF Written
  <2>2. g_pipes'[i].buffer = b \o acc
    BY <1>0, <2>1 DEF Pipe
  <2>3. grepIn \o (b \o acc) = (grepIn \o b) \o acc
    BY <1>0, <1>2, ConcatAssociative
  <2> QED
    BY <1>1, <2>1, <2>2, <2>3 DEF Flow
<1>4. CASE g_pipes[i].reader_reply_cap # NoSlot
  <2>1. /\ b = <<>> /\ Len(acc) > 0
        /\ g_pipes' = [g_pipes EXCEPT ![i].buffer = Tail(acc), ![i].reader_reply_cap = NoSlot]
        /\ Receive(Readers({i}), Head(acc), prog)
    BY <1>1, <1>4 DEF Written
  <2>2. acc # <<>> /\ Head(acc) \in Byte
    BY <1>2, <2>1
  <2>3. Head(acc) # 0
    BY <1>0, <2>2
  <2>4. g_pipes'[i].buffer = Tail(acc)
    BY <1>0, <2>1 DEF Pipe
  <2>5. PICK q \in Pid : q = replies[g_pipes[i].reader_reply_cap] /\ prog[q] = "grep_wait"
    BY <1>4 DEF ReaderSound
  <2>6. q \in {y \in Woken(Readers({i})) \ {0} : prog[y] = "grep_wait"}
    BY <1>0, <1>4, <2>5 DEF Woken, Readers
  <2>7. grepIn' = Append(grepIn, Head(acc))
    BY <2>1, <2>3, <2>6 DEF Receive
  <2>8. Append(grepIn, Head(acc)) \o Tail(acc) = grepIn \o acc
    BY <1>0, <1>2, <2>2, FlowRead
  <2>9. grepIn \o b = grepIn
    BY <1>0, <2>1, ConcatEmptySeq
  <2> QED
    BY <1>1, <2>4, <2>7, <2>8, <2>9 DEF Flow
<1> QED
  BY <1>3, <1>4

(* sys_write keeps what is said of the pipe of the job. *)
LEMMA WritePipe ==
  ASSUME JobInv, NEW p \in Pid, StepOf(p), WriteChunk(p), ~Idle,
         NEW x \in Shells, x \in Shells', NEW i \in PipeId, JobPipe(x, i), PipeOf(p) = i
  PROVE  JobPipe(x, i)'
<1>0. /\ KInv /\ Inv /\ g_pipes \in [PipeId -> Pipe] /\ grepIn \in Seq(Byte) /\ 0 \notin Pid
      /\ Byte \subseteq Nat /\ JobTypes /\ shell \in ShellState
      /\ PipeSize \in Nat /\ MaxOut \in Nat
  <2>1. Byte = 1 .. MaxOut /\ MaxOut \in Nat /\ PipeSize \in Nat
    BY CommandAssumption, PipeAssumption
  <2> QED
    BY <2>1, ControlTypes DEF JobInv, KInv, Inv, TypeOK, JobTypes
<1>1. PICK acc : Written(p, i, acc)
  BY WriteIs DEF Written
<1>2. PICK b, g, f, m, n : /\ b = g_pipes[i].buffer /\ g = grepIn /\ f = Flow(i)
                           /\ m = shell.sent /\ n = shell'.sent - shell.sent
  OBVIOUS
<1>3. /\ shell' \in ShellState /\ shell'.sent <= shell'.len
      /\ shell.sent < shell.len /\ shell.sent < shell'.sent
      /\ SameCommand /\ SamePids /\ shell'.pc = shell.pc
  BY <1>0, WriteFields
<1>4. m \in Nat /\ n \in Nat /\ m + n = shell'.sent /\ shell'.len = shell.len
  <2>1. shell.sent \in Nat /\ shell'.sent \in Nat
    BY <1>0, <1>3 DEF ShellState
  <2> QED
    BY <1>2, <1>3, <2>1 DEF SameCommand
<1>5. /\ acc \in Seq(Byte) /\ Len(acc) <= n
      /\ \A k \in 1 .. Len(acc) : acc[k] = m + k
      /\ Len(b) + n <= PipeSize => Len(acc) = n
  BY <1>1, <1>2 DEF Written
<1>6. b \in Seq(Byte) /\ g \in Seq(Byte) /\ f = g \o b
  BY <1>0, <1>2 DEF Pipe, Flow
<1>7. f \in Seq(Byte) /\ Len(f) = Len(g) + Len(b) /\ Len(b) \in Nat /\ Len(g) \in Nat
  BY <1>6
<1>8. FlowSound(i)'
  <2>1. Flow(i)' = f \o acc
    BY <1>1, <1>2, WrittenFlow DEF JobPipe
  <2>2. Ascending(f \o acc, m + n)
    BY <1>0, <1>2, <1>4, <1>5, <1>7, FlowGrows DEF JobPipe, FlowSound
  <2>3. ASSUME shell.len <= PipeSize PROVE Complete(f \o acc, m + n)
    <3>1. Complete(f, m)
      BY <1>2, <2>3 DEF JobPipe, FlowSound
    <3>2. Len(f) = m
      BY <3>1 DEF Complete
    <3>3. shell'.sent <= shell.len /\ shell.len \in Nat
      BY <1>0, <1>3, <1>4 DEF ShellState
    <3>4. Len(b) + n <= PipeSize
      BY <1>0, <1>4, <1>7, <2>3, <3>2, <3>3
    <3> QED
      BY <1>0, <1>4, <1>5, <1>7, <3>1, <3>4, FlowGrows
  <2>4. Ascending(Flow(i)', shell'.sent)
    BY <1>4, <2>1, <2>2
  <2>5. shell'.len <= PipeSize => Complete(Flow(i)', shell'.sent)
    BY <1>4, <2>1, <2>3
  <2> QED
    BY <2>4, <2>5 DEF FlowSound, Ascending, Complete
<1>9. OwnPipe(x, i)' /\ g_pipes'[i].eof = g_pipes[i].eof
  BY <1>0, <1>1 DEF Written, JobPipe, OwnPipe, Pipe
<1>10. shell.sent # shell.len
  <2>1. shell.sent \in Nat /\ shell.len \in Nat
    BY <1>0 DEF ShellState
  <2> QED
    BY <1>3, <2>1
<1>11. \A q \in Pid : \/ prog'[q] = prog[q]
                      \/ prog[q] = "grep_wait" /\ prog'[q] = "grep"
  <2>1. CASE UNCHANGED prog
    BY <2>1
  <2>2. CASE Receive(Readers({i}), Head(acc), prog) /\ Len(acc) > 0
    <3>1. Head(acc) \in Byte
      BY <1>5, <2>2
    <3>2. Byte = 1 .. MaxOut
      BY CommandAssumption
    <3>3. Head(acc) # 0
      BY <1>0, <3>1, <3>2
    <3> QED
      BY <2>2, <3>3, ReceiveProgs
  <2> QED
    BY <1>1, <2>1, <2>2 DEF Written
<1>12. EndSound(i)'
  <2>1. ~g_pipes[i].eof /\ ~(shell.right_pid # 0 /\ prog[shell.right_pid] = "exit")
    BY <1>10 DEF JobPipe, EndSound
  <2>2. shell.right_pid # 0 => shell.right_pid \in Pid
    <3>1. MaxPid \in Nat /\ shell.right_pid \in Pid0
      BY <1>0, BootAssumption DEF ShellState
    <3> QED
      BY <3>1 DEF Pid, Pid0
  <2>3. shell'.right_pid = shell.right_pid
    BY <1>3 DEF SamePids
  <2>4. ~(shell'.right_pid # 0 /\ prog'[shell'.right_pid] = "exit")
    BY <1>11, <2>1, <2>2, <2>3
  <2> QED
    BY <1>9, <2>1, <2>4 DEF EndSound
<1>13. IdlePipe(i)'
  BY <1>3 DEF Idle, IdlePipe, SameCommand
<1>14. ReaderSound(i)'
  <2>1. CASE g_pipes[i].reader_reply_cap # NoSlot
    <3>1. replies' = RepliesLeft(Readers({i}), {})
      BY <1>1, <2>1 DEF Written
    <3>2. g_pipes'[i].reader_reply_cap = NoSlot
      BY <1>0, <1>1, <2>1 DEF Written, Pipe
    <3>3. \A q \in Pid : prog'[q] = "grep_wait" => prog[q] = "grep_wait"
      BY <1>11
    <3> QED
      BY <3>1, <3>2, <3>3, ReaderGone DEF JobPipe
  <2>2. CASE g_pipes[i].reader_reply_cap = NoSlot
    <3>1. UNCHANGED <<replies, thread, prog, pcbs>>
      BY <1>1, <2>2 DEF Written
    <3>2. g_pipes'[i].reader_reply_cap = NoSlot
      BY <1>0, <1>1, <2>2 DEF Written, Pipe
    <3> QED
      BY <2>2, <3>1, <3>2 DEF JobPipe, ReaderSound, Live, IsThread
  <2> QED
    BY <2>1, <2>2
<1> QED
  BY <1>8, <1>9, <1>12, <1>13, <1>14 DEF JobPipe

(* The end of file: nothing is missing, and a grep that waits has read all. *)
LEMMA ClosePipeEnd ==
  ASSUME JobInv, NEW p \in Pid, StepOf(p), ~Idle', shell.sent = shell.len,
         shell'.sent = shell.sent, shell'.len = shell.len,
         shell'.right_pid = shell.right_pid,
         NEW now, CloseWrite(p, now),
         \/ now = prog
         \/ now = [prog EXCEPT ![p] = "exit"] /\ p # shell.right_pid,
         NEW x \in Shells, x \in Shells', NEW i \in PipeId, JobPipe(x, i), PipeOf(p) = i
  PROVE  JobPipe(x, i)'
<1>0. /\ KInv /\ Inv /\ RestOK /\ g_pipes \in [PipeId -> Pipe] /\ grepIn \in Seq(Byte)
      /\ 0 \notin Pid /\ JobTypes /\ prog \in [Pid -> Program] /\ shell.right_pid \in Pid0
      /\ MaxPid \in Nat /\ PipeReaderSound
  BY ControlTypes, InvParts, BootAssumption
     DEF JobInv, KInv, Inv, TypeOK, JobTypes, ShellState
<1>1. /\ g_pipes' = AtEof({i}) /\ replies' = RepliesLeft(Readers({i}), {})
      /\ Receive(Readers({i}), 0, now)
  BY DEF CloseWrite, PipeWrClose
<1>2. g_pipes'[i] = [g_pipes[i] EXCEPT !.eof = TRUE, !.reader_reply_cap = NoSlot]
  BY <1>1 DEF AtEof
<1>3. /\ g_pipes'[i].buffer = g_pipes[i].buffer /\ g_pipes'[i].active = g_pipes[i].active
      /\ g_pipes'[i].owner_pid = g_pipes[i].owner_pid
      /\ g_pipes'[i].writer_pid = g_pipes[i].writer_pid
      /\ g_pipes'[i].reader_reply_cap = NoSlot
  BY <1>0, <1>2 DEF Pipe
<1>4. UNCHANGED grepIn
  <2>1. PICK v, R : v = 0 /\ R = Readers({i})
    OBVIOUS
  <2>2. Receive(R, v, now)
    BY <1>1, <2>1
  <2>3. v # 0 => FALSE
    BY <2>1
  <2> QED
    BY <2>2, <2>3 DEF Receive
<1>5. ASSUME NEW q \in Pid
      PROVE  \/ prog'[q] = prog[q]
             \/ q = p /\ prog'[q] = "exit" /\ p # shell.right_pid
             \/ /\ prog[q] = "grep_wait" /\ prog'[q] = "exit"
                /\ q \in Woken(Readers({i}))
  <2>1. PICK v, R : v = 0 /\ R = Readers({i})
    OBVIOUS
  <2>2. Receive(R, v, now)
    BY <1>1, <2>1
  <2>3. \/ prog'[q] = now[q]
        \/ /\ q \in Woken(R) /\ prog[q] = "grep_wait"
           /\ prog'[q] = (IF v = 0 THEN "exit" ELSE "grep")
    BY <2>2, ReceiveWoken
  <2>4. now[q] = prog[q] \/ (q = p /\ now[q] = "exit" /\ p # shell.right_pid)
    BY <1>0
  <2> QED
    BY <2>1, <2>3, <2>4
<1>6. OwnPipe(x, i)'
  BY <1>3 DEF JobPipe, OwnPipe
<1>7. FlowSound(i)'
  <2>1. Flow(i)' = Flow(i)
    BY <1>3, <1>4 DEF Flow
  <2> QED
    BY <2>1 DEF JobPipe, FlowSound, Ascending, Complete
<1>8. EndSound(i)'
  <2>1. ASSUME shell'.right_pid # 0, prog'[shell'.right_pid] = "exit"
        PROVE  g_pipes[i].buffer = <<>>
    <3>1. PICK q : q = shell.right_pid
      OBVIOUS
    <3>2. q \in Pid /\ prog'[q] = "exit"
      BY <1>0, <2>1, <3>1 DEF Pid, Pid0
    <3>3. CASE prog[q] = "exit"
      BY <2>1, <3>1, <3>3 DEF JobPipe, EndSound
    <3>4. CASE q \in Woken(Readers({i}))
      <4>1. g_pipes[i].reader_reply_cap # NoSlot
        BY <3>4 DEF Woken, Readers
      <4> QED
        BY <1>0, <4>1 DEF PipeReaderSound
    <3> QED
      BY <1>5, <3>1, <3>2, <3>3, <3>4
  <2> QED
    BY <1>3, <2>1 DEF EndSound
<1>9. IdlePipe(i)'
  BY DEF IdlePipe
<1>10. ReaderSound(i)'
  <2>1. \A q \in Pid : prog'[q] = "grep_wait" => prog[q] = "grep_wait"
    BY <1>5
  <2> QED
    BY <1>1, <1>3, <2>1, ReaderGone DEF JobPipe
<1> QED
  BY <1>6, <1>7, <1>8, <1>9, <1>10 DEF JobPipe

(* grep reads, waits or stops. *)
LEMMA GrepPipe ==
  ASSUME JobInv, NEW p \in Pid, StepOf(p), Grep(p),
         NEW x \in Shells, x \in Shells', NEW i \in PipeId, JobPipe(x, i), PipeOf(p) = i
  PROVE  JobPipe(x, i)'
<1>0. /\ KInv /\ Inv /\ g_pipes \in [PipeId -> Pipe] /\ grepIn \in Seq(Byte)
      /\ 0 \notin Pid /\ JobTypes /\ prog \in [Pid -> Program] /\ RepliesSound
      /\ replies \in [Slot0 -> Pid0] /\ thread \in [Pid -> {"none", "running", "blocked"}]
      /\ Programs
  BY ControlTypes DEF JobInv, KInv, Inv, TypeOK, JobTypes, WakeInv
<1>1. Calls(p) /\ prog[p] = "grep" /\ UNCHANGED shell
  BY DEF Grep
<1>2. Live(p)
  BY <1>0, <1>1, CallerIsLive
<1>3. /\ p = shell.right_pid
      /\ \A q \in Pid : Live(q) /\ prog[q] = "grep_wait" => FALSE
  BY <1>0, <1>1, <1>2 DEF JobInv, ThreadsSound, GrepOfJob
<1>4. thread[p] = "running"
  BY <1>1 DEF Calls
<1>5. g_pipes[i].reader_reply_cap = NoSlot
  BY <1>3 DEF JobPipe, ReaderSound
<1>6. Idle' <=> Idle
  BY <1>1 DEF Idle
<1>7. ~Idle
  BY <1>1, <1>2, PipeThreads
<1>8. IdlePipe(i)'
  BY <1>6, <1>7 DEF IdlePipe
<1>9. CASE PipeRead(p) /\ g_pipes[i].buffer # <<>>
  <2>1. /\ g_pipes' = [g_pipes EXCEPT ![i].buffer = Tail(@)]
        /\ UNCHANGED <<slotVars, thread, pcbs>>
    BY <1>9 DEF PipeRead
  <2>2. UNCHANGED <<replies, thread, pcbs, prog>> /\ grepIn' = Append(grepIn, Head(g_pipes[i].buffer))
    BY <1>9, <2>1 DEF Grep, slotVars
  <2>3. PICK b : b = g_pipes[i].buffer
    OBVIOUS
  <2>4. b \in Seq(Byte) /\ b # <<>>
    BY <1>0, <1>9, <2>3 DEF Pipe
  <2>5. /\ g_pipes'[i].buffer = Tail(b) /\ g_pipes'[i].active = g_pipes[i].active
        /\ g_pipes'[i].owner_pid = g_pipes[i].owner_pid
        /\ g_pipes'[i].writer_pid = g_pipes[i].writer_pid
        /\ g_pipes'[i].eof = g_pipes[i].eof
        /\ g_pipes'[i].reader_reply_cap = g_pipes[i].reader_reply_cap
    BY <1>0, <2>1, <2>3 DEF Pipe
  <2>6. Flow(i)' = Flow(i)
    <3>1. Append(grepIn, Head(b)) \o Tail(b) = grepIn \o b
      BY <1>0, <2>4, FlowRead
    <3> QED
      BY <2>2, <2>3, <2>5, <3>1 DEF Flow
  <2>7. FlowSound(i)' /\ OwnPipe(x, i)'
    BY <1>1, <2>5, <2>6 DEF JobPipe, FlowSound, OwnPipe, Ascending, Complete
  <2>8. EndSound(i)'
    BY <1>1, <1>3, <2>2, <2>5 DEF JobPipe, EndSound
  <2>9. ReaderSound(i)'
    BY <2>2, <2>5 DEF JobPipe, ReaderSound, Live, IsThread
  <2> QED
    BY <1>8, <2>7, <2>8, <2>9 DEF JobPipe
<1>10. CASE PipeRead(p) /\ g_pipes[i].buffer = <<>>
  <2>1. PICK s \in Slot0 : /\ alloc_slot(s) /\ SaveCaller(s, p)
                           /\ g_pipes' = [g_pipes EXCEPT ![i].reader_reply_cap = s]
    BY <1>10 DEF PipeRead
  <2>2. prog' = [prog EXCEPT ![p] = "grep_wait"] /\ UNCHANGED <<grepIn, pcbs>>
    BY <1>10 DEF Grep, PipeRead
  <2>3. /\ g_pipes'[i].buffer = g_pipes[i].buffer /\ g_pipes'[i].active = g_pipes[i].active
        /\ g_pipes'[i].owner_pid = g_pipes[i].owner_pid
        /\ g_pipes'[i].writer_pid = g_pipes[i].writer_pid
        /\ g_pipes'[i].eof = g_pipes[i].eof
        /\ g_pipes'[i].reader_reply_cap = s
    BY <1>0, <2>1 DEF Pipe
  <2>4. /\ prog'[p] = "grep_wait" /\ \A q \in Pid \ {p} : prog'[q] = prog[q]
    BY <1>0, <2>2
  <2>5. FlowSound(i)' /\ OwnPipe(x, i)'
    <3>1. Flow(i)' = Flow(i)
      BY <2>2, <2>3 DEF Flow
    <3> QED
      BY <1>1, <2>3, <3>1 DEF JobPipe, FlowSound, OwnPipe, Ascending, Complete
  <2>6. EndSound(i)'
    BY <1>1, <1>3, <2>3, <2>4 DEF JobPipe, EndSound
  <2>7. /\ thread'[p] = "blocked" /\ \A q \in Pid \ {p} : thread'[q] = thread[q]
        /\ \A t \in Slot0 \ {s} : replies'[t] = replies[t]
        /\ replies'[s] = IF replies[s] = 0 /\ s \notin occupied THEN p ELSE replies[s]
    BY <1>0, <2>1 DEF SaveCaller
  <2>8. ASSUME s # NoSlot PROVE replies'[s] = p /\ Live(p)'
    <3>1. replies[s] = 0 /\ s \notin occupied
      BY <1>0, <2>1, <2>8, NewSlotEmpty DEF KInv
    <3> QED
      BY <1>2, <2>2, <2>7, <3>1 DEF Live, IsThread
  <2>9. ASSUME NEW t \in Slot0, t # s, NEW q \in Pid,
               replies'[t] = q, Live(q)', prog'[q] = "grep_wait"
        PROVE  FALSE
    <3>1. replies[t] = q /\ q # p
      BY <1>0, <1>4, <2>7, <2>9 DEF RepliesSound
    <3>2. prog[q] = "grep_wait" /\ Live(q)
      BY <2>2, <2>4, <2>7, <2>9, <3>1 DEF Live, IsThread
    <3> QED
      BY <1>3, <3>2
  <2>10. ReaderSound(i)'
    BY <2>3, <2>4, <2>8, <2>9 DEF ReaderSound
  <2> QED
    BY <1>8, <2>5, <2>6, <2>10 DEF JobPipe
<1>11. CASE ~PipeRead(p)
  <2>1. /\ g_pipes[i].buffer = <<>> /\ g_pipes[i].eof
        /\ prog' = [prog EXCEPT ![p] = "exit"] /\ UNCHANGED <<vars, grepIn>>
    BY <1>11 DEF Grep
  <2>2. UNCHANGED <<g_pipes, replies, thread, pcbs>>
    BY <2>1 DEF vars
  <2>3. /\ prog'[p] = "exit" /\ \A q \in Pid \ {p} : prog'[q] = prog[q]
    BY <1>0, <2>1
  <2>4. FlowSound(i)' /\ OwnPipe(x, i)'
    BY <1>1, <2>1, <2>2 DEF JobPipe, FlowSound, OwnPipe, Flow, Ascending, Complete
  <2>5. EndSound(i)'
    BY <1>1, <2>1, <2>2 DEF JobPipe, EndSound
  <2>6. ASSUME NEW s \in Slot0, NEW q \in Pid,
               replies'[s] = q, Live(q)', prog'[q] = "grep_wait"
        PROVE  FALSE
    <3>1. Live(q) /\ prog[q] = "grep_wait"
      BY <2>2, <2>3, <2>6 DEF Live, IsThread
    <3> QED
      BY <1>3, <3>1
  <2>7. ReaderSound(i)'
    BY <1>5, <2>2, <2>6 DEF ReaderSound
  <2> QED
    BY <1>8, <2>4, <2>5, <2>7 DEF JobPipe
<1> QED
  BY <1>9, <1>10, <1>11

(* Only SYS_PIPE and SYS_PIPE_CLOSE change what the shell has in           *)
(* PIPE_FD_SLOT.                                                           *)
LEMMA FdKept ==
  ASSUME JobInv, NEW p \in Pid, StepOf(p), ~(MakePipe(p) /\ SysPipe(p)), ~ClosePipe(p),
         NEW x \in Shells, x \in Shells'
  PROVE  pcbs'[x].pipe_fd = pcbs[x].pipe_fd
<1>0. KInv /\ Inv /\ WakeInv /\ 0 \notin Pid /\ x \in Pid
  BY ControlTypes DEF JobInv, KInv, Shells, Active
<1>1. ASSUME NEW v, NEW n, NEW name, Step(v, n, name)
      PROVE  pcbs'[x].pipe_fd = pcbs[x].pipe_fd
  <2>1. x # v /\ x # n
    BY <1>0, <1>1 DEF Step, Procs, Shells, Active
  <2> QED
    BY <1>0, <1>1, <2>1 DEF Step, Fds
<1>2. CASE \/ (\E data : PipeWrite(p, data)) \/ PipeWrClose(p) \/ PipeRead(p)
           \/ DriverReady(p) \/ WaitAllReady(p) \/ UNCHANGED vars
  BY <1>0, <1>2, PipeCallsProcs
<1>3. CASE ShmGet(p)
  BY <1>0, <1>1, <1>3, ShmGetProcs
<1>4. CASE \E t : SysWait(p, t)
  BY <1>0, <1>4, SysWaitProcs DEF Fds
<1>5. CASE (\E f : SpawnThread(p, f)) \/ LeftExec(p)
  BY <1>1, <1>5, SpawnSteps, ExecSteps
<1>6. CASE LeftExit(p) \/ ExitThread(p) \/ App(p)
  BY <1>1, <1>6, ExitSteps DEF Ends
<1>7. CASE Crash(p) \/ FaultOf(p)
  BY <1>1, <1>7, FaultSteps DEF Ends
<1>8. StepOf(p) =>
        \/ (\E data : PipeWrite(p, data)) \/ PipeWrClose(p) \/ PipeRead(p)
        \/ DriverReady(p) \/ WaitAllReady(p) \/ UNCHANGED vars \/ ShmGet(p)
        \/ (\E t : SysWait(p, t)) \/ (\E f : SpawnThread(p, f)) \/ LeftExec(p)
        \/ LeftExit(p) \/ ExitThread(p) \/ App(p) \/ Crash(p) \/ FaultOf(p)
  <2>1. OtherStep(p) =>
          \/ (\E data : PipeWrite(p, data)) \/ PipeWrClose(p) \/ PipeRead(p)
          \/ DriverReady(p) \/ UNCHANGED vars \/ ExitThread(p) \/ App(p)
    BY DEF OtherStep, Ls, Grep, Ready, WriteChunk, CloseWrite
  <2>2. MakePipe(p) \/ LeftPlain(p) \/ Prompt(p) => UNCHANGED vars
    BY DEF MakePipe, LeftPlain, Prompt
  <2>3. WaitChild(p) \/ WaitLeft(p) \/ WaitRight(p) => UNCHANGED vars \/ \E t : SysWait(p, t)
    BY DEF WaitChild, WaitLeft, WaitRight, Wait
  <2>4. Right(p) \/ LeftLs(p) => UNCHANGED vars \/ \E f : SpawnThread(p, f)
    BY DEF Right, LeftLs
  <2>5. LeftWrite(p) => (\E data : PipeWrite(p, data)) \/ PipeWrClose(p)
    BY DEF LeftWrite, WriteChunk, CloseWrite
  <2>6. WaitForDrivers(p) => WaitAllReady(p) \/ UNCHANGED vars
    BY DEF WaitForDrivers
  <2>7. GetShm(p) => ShmGet(p)
    BY DEF GetShm
  <2> QED
    BY <2>1, <2>2, <2>3, <2>4, <2>5, <2>6, <2>7 DEF StepOf, ShellStep
<1> QED
  BY <1>2, <1>3, <1>4, <1>5, <1>6, <1>7, <1>8

(* The pipe after a step, if the shell has kept it. *)
LEMMA KeptPipe ==
  ASSUME JobInv, ShmOnce, NEW p \in Pid, StepOf(p), ~(MakePipe(p) /\ SysPipe(p)), ~ClosePipe(p),
         NEW x \in Shells, x \in Shells', NEW i \in PipeId, JobPipe(x, i),
         pcbs[x].pipe_fd = i
  PROVE  JobPipe(x, i)'
<1>0. KInv /\ Inv /\ JobTypes /\ Programs /\ ShellSound /\ x \in Pid
  BY DEF JobInv, KInv, Shells, Active
<1>1. CASE LeftWrite(p)
  <2>1. At(p, "write")
    BY <1>1 DEF LeftWrite
  <2>2. Shells = {p} /\ PipeOf(p) = pcbs[p].pipe_fd /\ shell.pc = "write"
    BY <1>0, <2>1, ShellRuns
  <2>3. PipeOf(p) = i /\ ~Idle /\ shell.is_piping
    BY <1>0, <2>2 DEF ShellSound, Idle
  <2>4. CASE WriteChunk(p)
    BY <2>3, <2>4, WritePipe
  <2>5. CASE shell.sent = shell.len /\ CloseWrite(p, prog) /\ Goto("right")
    <3>1. /\ shell'.pc = "right" /\ shell'.is_piping /\ shell'.sent = shell.sent
          /\ shell'.len = shell.len /\ shell'.right_pid = shell.right_pid
      BY <1>0, <2>3, <2>5, GotoFields DEF ShellPc, SameCommand, SamePids
    <3>2. ~Idle'
      BY <3>1 DEF Idle
    <3> QED
      BY <2>3, <2>5, <3>1, <3>2, ClosePipeEnd
  <2> QED
    BY <1>1, <2>4, <2>5 DEF LeftWrite
<1>2. CASE Ls(p)
  <2>1. Calls(p) /\ prog[p] = "ls"
    BY <1>2 DEF Ls
  <2>2. Live(p)
    BY <1>0, <2>1, CallerIsLive
  <2>3. PipeOf(p) = i
    BY <1>0, <2>2, LiveThread
  <2>4. ~Idle /\ p # shell.right_pid
    BY <1>0, <2>1, <2>2, PipeThreads DEF JobInv, ThreadsSound, LsOfJob
  <2>5. CASE WriteChunk(p)
    BY <2>3, <2>4, <2>5, WritePipe
  <2>6. CASE /\ shell.sent = shell.len /\ UNCHANGED shell
             /\ CloseWrite(p, [prog EXCEPT ![p] = "exit"])
    <3>1. ~Idle'
      BY <2>4, <2>6 DEF Idle
    <3>2. PICK now : now = [prog EXCEPT ![p] = "exit"]
      OBVIOUS
    <3>3. CloseWrite(p, now)
      BY <2>6, <3>2
    <3> QED
      BY <2>3, <2>4, <2>6, <3>1, <3>2, <3>3, ClosePipeEnd
  <2> QED
    BY <1>2, <2>5, <2>6 DEF Ls
<1>3. CASE Grep(p)
  <2>1. Calls(p) /\ prog[p] = "grep"
    BY <1>3 DEF Grep
  <2>2. Live(p)
    BY <1>0, <2>1, CallerIsLive
  <2>3. PipeOf(p) = i
    BY <1>0, <2>2, LiveThread
  <2> QED
    BY <1>3, <2>3, GrepPipe
<1>4. CASE ExitThread(p) \/ App(p)
  BY <1>4, ExitPipe
<1>5. CASE Ready(p)
  BY <1>5, ReadyPipe
<1>6. CASE Prompt(p)
  BY <1>6, PromptPipe
<1>7. CASE LeftExit(p)
  <2>1. p \in Shells /\ p \notin Shells' /\ Shells = {p}
    <3>1. At(p, "left")
      BY <1>7 DEF LeftExit
    <3>2. Procs(p, 0, "")
      BY <1>7, ExitSteps DEF Ends, Step
    <3> QED
      BY <1>0, <3>1, <3>2, ShellRuns DEF Procs, Shells, Active
  <2> QED
    BY <2>1
<1>8. CASE Crash(p) \/ FaultOf(p)
  <2>1. CASE p \in Shells
    <3>1. PICK n : Procs(p, n, pcbs[p].name)
      BY <1>8, FaultSteps DEF Ends, Step
    <3>2. p \notin Shells' /\ p = x
      BY <1>0, <2>1, <3>1, OneShell DEF Procs, Shells, Active
    <3> QED
      BY <3>2
  <2>2. CASE p \notin Shells
    <3>1. ~Crash(p)
      BY <1>0, <2>2, ShellRuns DEF Crash
    <3> QED
      BY <1>8, <2>2, <3>1, FaultPipe
  <2> QED
    BY <2>1, <2>2
<1>9. CASE Quiet(p)
  BY <1>9, QuietPipe
<1>10. MakePipe(p) => Quiet(p)
  BY DEF MakePipe, Quiet
<1> QED
  BY <1>1, <1>2, <1>3, <1>4, <1>5, <1>6, <1>7, <1>8, <1>9, <1>10
     DEF StepOf, ShellStep, OtherStep, Quiet

(* Every step keeps PipeSound. *)
LEMMA PipeNext ==
  ASSUME JobInv, ShmOnce, JobsNext
  PROVE  PipeSound'
<1>0. KInv /\ Inv /\ pcbs \in [Pid -> PCB] /\ 0 \notin Pid
  BY ControlTypes DEF JobInv, KInv, Inv, TypeOK
<1>1. PICK p \in Pid : StepOf(p)
  BY DEF JobsNext, StepOf
<1>2. SUFFICES ASSUME NEW x \in Shells', NEW i, i = pcbs'[x].pipe_fd, i # NoPipe
               PROVE  JobPipe(x, i)'
  BY DEF PipeSound, JobPipe, OwnPipe, IdlePipe, FlowSound, EndSound, ReaderSound, Flow
<1>3. x \in Shells
  <2>1. CASE Shells' \subseteq Shells
    BY <2>1
  <2>2. CASE p \in Shells /\ Recovered(p)
    <3>1. p \in Active /\ generic_recover_process(p)
      BY <2>2 DEF Recovered, Shells
    <3>2. PICK n, name : Procs(p, n, name)
      BY <1>0, <3>1, RecoverEnds DEF Ends, Step
    <3>3. Shells' \subseteq (Shells \ {p}) \cup {q \in {n} : q \in Pid /\ name = "shell"}
      BY <3>2, ShellsAfter
    <3>4. x # n
      BY <1>2, <3>2 DEF Procs, Shells, Active
    <3> QED
      BY <3>3, <3>4
  <2> QED
    BY <1>1, <2>1, <2>2, ShellsNext DEF StepOf
<1>4. CASE SysPipe(p) /\ MakePipe(p)
  <2>1. Shells = {p}
    BY <1>0, <1>4, ShellRuns DEF MakePipe
  <2> QED
    BY <1>2, <1>3, <1>4, <2>1, NewPipe
<1>5. CASE ClosePipe(p)
  <2>0. PipeClose(p)
    BY <1>5 DEF ClosePipe
  <2>1. p \in Shells /\ PipeOf(p) = pcbs[p].pipe_fd /\ pcbs[p].pipe_fd # NoPipe
    BY <2>0 DEF PipeClose, Calls, Shells, Active, PipeOf, IsThread
  <2>2. x = p
    BY <1>0, <1>3, <2>1, OneShell
  <2>3. g_pipes[PipeOf(p)].owner_pid = p /\ p \in Active
    BY <2>1 DEF JobInv, PipeSound, JobPipe, OwnPipe, Shells
  <2>4. pcbs' = [pcbs EXCEPT ![p].pipe_fd = NoPipe]
    BY <2>0, <2>3 DEF PipeClose
  <2>5. pcbs'[p].pipe_fd = NoPipe
    BY <1>0, <2>4 DEF PCB
  <2> QED
    BY <1>2, <2>2, <2>5
<1>6. CASE ~(MakePipe(p) /\ SysPipe(p)) /\ ~ClosePipe(p)
  <2>1. pcbs[x].pipe_fd = i
    BY <1>1, <1>2, <1>3, <1>6, FdKept
  <2>2. i \in PipeId /\ JobPipe(x, i)
    BY <1>0, <1>2, <1>3, <2>1 DEF JobInv, PipeSound, PCB, Shells, Active
  <2> QED
    BY <1>1, <1>3, <1>6, <2>1, <2>2, KeptPipe
<1> QED
  BY <1>4, <1>5, <1>6

-----------------------------------------------------------------------------
(* The invariant, and what follows from it. *)

(* The invariant holds when the boot is done. *)
LEMMA JobsStart == JobsInit => JobInv
<1> SUFFICES ASSUME JobsInit PROVE JobInv
  OBVIOUS
<1>1. Init /\ shell = NewShell /\ grepIn = <<>>
      /\ prog = [p \in Pid |-> IF p \in 1 .. Len(BootOrder) THEN "init" ELSE "none"]
  BY DEF JobsInit
<1>2. KInv
  BY <1>1, InitWake
<1>3. /\ \A q \in Pid : q \in BootPids => pcbs[q].active
      /\ \A q \in Pid : pcbs[q].pipe_fd = NoPipe
      /\ \A i \in PipeId : g_pipes[i].reader_reply_cap = NoSlot
  <2>1. PICK boot \in [BootPids -> SUBSET Slot], tv \in [BootPids -> Slot \X Slot] :
          /\ pcbs = [p \in Pid |->
                       IF p \in BootPids
                       THEN ProcessPcb(BootName(p), boot[p], tv[p][1], tv[p][2])
                       ELSE UnusedPcb]
          /\ g_pipes = [i \in PipeId |-> UnusedPipe]
    BY <1>1 DEF Init
  <2>2. UnusedPipe.reader_reply_cap = NoSlot /\ UnusedPcb.pipe_fd = NoPipe
    BY DEF UnusedPipe, UnusedPcb
  <2>3. ASSUME NEW q \in Pid
        PROVE  pcbs[q].pipe_fd = NoPipe /\ (q \in BootPids => pcbs[q].active)
    BY <2>1, <2>2 DEF ProcessPcb
  <2> QED
    BY <2>1, <2>2, <2>3
<1>4. PipeReaderSound
  BY <1>3 DEF PipeReaderSound
<1>5. 1 .. Len(BootOrder) \subseteq BootPids
  <2>0. BootOrder \in Seq(STRING)
    BY BootAssumption
  <2>1. Len(BootOrder) \in Nat
    BY <2>0
  <2> QED
    BY <2>1 DEF BootPids
<1>6. \A q \in Pid : prog[q] \in {"init", "none"}
  BY <1>1
<1>7. JobTypes
  <2>1. shell \in ShellState /\ shell.sent = 0 /\ shell.len = 0
    BY <1>1, NewShellFields
  <2>2. prog \in [Pid -> Program]
    BY <1>1 DEF Program
  <2>3. \A q \in Pid : prog[q] # "none" => pcbs[q].active
    BY <1>1, <1>3, <1>5
  <2>4. grepIn \in Seq(Byte)
    BY <1>1
  <2> QED
    BY <2>1, <2>2, <2>3, <2>4 DEF JobTypes
<1>8. Programs /\ Apps /\ ThreadsSound
  BY <1>6 DEF Programs, Apps, ThreadsSound
<1>9. shell.pc = "start" /\ shell.right_pid = 0
  BY <1>1, NewShellFields
<1>10. ShellGone /\ ShellSound /\ BootSound /\ GrepLive
  BY <1>9 DEF ShellGone, ShellSound, BootSound, GrepLive
<1>11. PipeSound
  BY <1>3 DEF PipeSound, Shells, Active
<1> QED
  BY <1>2, <1>4, <1>7, <1>8, <1>10, <1>11 DEF JobInv

(* The invariant does not depend on anything but the variables. *)
LEMMA JobsStutter ==
  ASSUME JobInv, UNCHANGED jobVars
  PROVE  JobInv'
<1>1. UNCHANGED <<vars, shell, prog, grepIn>>
  BY DEF jobVars
<1>2. UNCHANGED <<pcbs, g_pipes, driver_ready, driver_ready_wait_reply, fresh_slots,
                  free_slots, occupied, replies, thread, halted>>
  BY <1>1 DEF vars
<1>3. KInv'
  <2>1. Inv'
    BY <1>1, StutterInv DEF JobInv, KInv
  <2>2. SlotsSound'
    BY <1>2 DEF JobInv, KInv, SlotsSound, Available, ObjectSlots, ReplySlots
  <2>3. WakeInv'
    BY <1>1, StutterWake DEF JobInv, KInv
  <2> QED
    BY <2>1, <2>2, <2>3 DEF KInv
<1>4. PipeReaderSound' /\ JobTypes' /\ Programs' /\ Apps' /\ ShellGone' /\ ShellSound'
  BY <1>1, <1>2 DEF JobInv, PipeReaderSound, JobTypes, Programs, Apps, ShellGone, ShellSound,
                    Shells, Active, IsThread
<1>5. BootSound'
  BY <1>1, <1>2 DEF JobInv, BootSound, AllDriversReady, AwaitsDrivers, Shells, Active
<1>6. ThreadsSound' /\ GrepLive'
  BY <1>1, <1>2 DEF JobInv, ThreadsSound, GrepLive, LsOfJob, GrepOfJob, Live, IsThread,
                    Shells, Active
<1>7. PipeSound'
  <2>1. SUFFICES ASSUME NEW x \in Shells', NEW i, i = pcbs'[x].pipe_fd, i # NoPipe
                 PROVE  JobPipe(x, i)'
    BY DEF PipeSound, JobPipe, OwnPipe, IdlePipe, FlowSound, EndSound, ReaderSound, Flow
  <2>2. JobPipe(x, i)
    BY <1>2, <2>1 DEF JobInv, PipeSound, Shells, Active
  <2>3. OwnPipe(x, i)' /\ IdlePipe(i)'
    BY <1>1, <1>2, <2>2 DEF JobPipe, OwnPipe, IdlePipe, Idle
  <2>4. FlowSound(i)' /\ EndSound(i)'
    BY <1>1, <1>2, <2>2 DEF JobPipe, FlowSound, EndSound, Flow, Ascending, Complete
  <2>5. ReaderSound(i)'
    BY <1>1, <1>2, <2>2 DEF JobPipe, ReaderSound, Live, IsThread
  <2> QED
    BY <2>3, <2>4, <2>5 DEF JobPipe
<1> QED
  BY <1>3, <1>4, <1>5, <1>6, <1>7 DEF JobInv

(* Every step keeps the invariant. *)
LEMMA JobsStep ==
  ASSUME JobInv, ShmOnce, [JobsNext]_jobVars
  PROVE  JobInv'
<1>1. CASE JobsNext
  <2>1. [Next]_vars
    BY <1>1, JobsAreCalls DEF JobInv
  <2>2. KInv'
    BY <2>1, NextWake DEF JobInv
  <2>3. PipeReaderSound'
    BY <2>1, ReadersInv DEF JobInv, KInv
  <2> QED
    BY <1>1, <2>2, <2>3, TypesNext, AppsNext, GoneNext, ShellTypes, BootNext, ThreadsNext,
       GrepLiveNext, PipeNext DEF JobInv
<1>2. CASE UNCHANGED jobVars
  BY <1>2, JobsStutter
<1> QED
  BY <1>1, <1>2

(* The flow of a pipe whose bytes are complete, as PipelineInOrder has it. *)
LEMMA CompleteIs ==
  ASSUME NEW f \in Seq(Byte), NEW n \in Nat, Complete(f, n)
  PROVE  f = [k \in 1 .. n |-> k]
<1>1. Len(f) = n /\ \A k \in 1 .. n : f[k] = k
  BY DEF Complete
<1>2. f = [k \in 1 .. Len(f) |-> f[k]]
  OBVIOUS
<1> QED
  BY <1>1, <1>2

(* The invariant implies the three properties. *)
LEMMA JobInvImplies ==
  ASSUME JobInv
  PROVE  JobTypeOK /\ PipelineInOrder /\ PromptAfterDrivers
<1>0. JobTypes /\ shell \in ShellState /\ MaxOut \in Nat /\ KInv
  BY CommandAssumption DEF JobInv, JobTypes
<1>1. JobTypeOK
  <2>1. /\ shell.pc \in ShellPc /\ shell.sent \in Nat /\ shell.len \in 0 .. MaxOut
        /\ shell.left_pid \in Pid0 /\ shell.right_pid \in Pid0 /\ shell.child \in Pid0
        /\ shell.sent <= shell.len
    BY <1>0 DEF JobTypes, ShellState
  <2>2. shell.sent \in 0 .. shell.len
    BY <1>0, <2>1
  <2> QED
    BY <1>0, <2>1, <2>2 DEF JobTypes, JobTypeOK, ShellPc, Program
<1>2. PromptAfterDrivers
  BY DEF JobInv, BootSound, PromptAfterDrivers
<1>3. PipelineInOrder
  <2>1. SUFFICES ASSUME NEW p \in Active, pcbs[p].name = "shell", NEW i,
                        i = pcbs[p].pipe_fd, i # NoPipe
                 PROVE  /\ \A j, k \in 1 .. Len(Flow(i)) : j < k => Flow(i)[j] < Flow(i)[k]
                        /\ shell.len <= PipeSize => Flow(i) = [k \in 1 .. shell.sent |-> k]
                        /\ shell.right_pid # 0 /\ prog[shell.right_pid] = "exit" =>
                             g_pipes[i].buffer = <<>> /\ shell.sent = shell.len
    BY DEF PipelineInOrder, Flow
  <2>2. JobPipe(p, i)
    BY <2>1 DEF JobInv, PipeSound, Shells
  <2>3. i \in PipeId
    BY <1>0, <2>1 DEF KInv, Inv, TypeOK, PCB, Active
  <2>4. Flow(i) \in Seq(Byte)
    <3>1. g_pipes[i].buffer \in Seq(Byte)
      BY <1>0, <2>3 DEF KInv, Inv, TypeOK, Pipe
    <3> QED
      BY <1>0, <3>1 DEF Flow, JobTypes
  <2>5. shell.sent \in Nat
    BY <1>0 DEF ShellState
  <2>6. shell.len <= PipeSize => Flow(i) = [k \in 1 .. shell.sent |-> k]
    BY <2>2, <2>4, <2>5, CompleteIs DEF JobPipe, FlowSound
  <2> QED
    BY <2>2, <2>6 DEF JobPipe, FlowSound, EndSound, Ascending
<1> QED
  BY <1>1, <1>2, <1>3

(* JobInv holds throughout. *)
THEOREM JobInvariant ==
  ASSUME ShmOnce
  PROVE  JobsSpec => []JobInv
<1>1. JobsInit => JobInv
  BY JobsStart
<1>2. JobInv /\ [JobsNext]_jobVars => JobInv'
  BY JobsStep
<1> QED
  BY <1>1, <1>2, PTL DEF JobsSpec

(* The variables of the shell's main(), the programs of the processes and  *)
(* what grep has read have their types.                                    *)
THEOREM JobsTypeCorrect ==
  ASSUME ShmOnce
  PROVE  JobsSpec => []JobTypeOK
<1>1. JobInv => JobTypeOK
  BY JobInvImplies
<1> QED
  BY <1>1, JobInvariant, PTL

(* What grep reads is what was written, in order and up to the end.        *)
THEOREM GrepReadsInOrder ==
  ASSUME ShmOnce
  PROVE  JobsSpec => []PipelineInOrder
<1>1. JobInv => PipelineInOrder
  BY JobInvImplies
<1> QED
  BY <1>1, JobInvariant, PTL

(* The first prompt comes after all drivers are ready. *)
THEOREM DriversBeforePrompt ==
  ASSUME ShmOnce
  PROVE  JobsSpec => []PromptAfterDrivers
<1>1. JobInv => PromptAfterDrivers
  BY JobInvImplies
<1> QED
  BY <1>1, JobInvariant, PTL

-----------------------------------------------------------------------------
(* Pipes are closed.  A pipe exists only between SYS_PIPE and the close at *)
(* the end of the command line, and the shell has it in PIPE_FD_SLOT.  The *)
(* hypothesis leaves out the ways on which main() forgets the close: it is *)
(* killed, or the left command goes back to the prompt at once.            *)
PipePc == {"left", "write", "wait_child", "right", "wait_left", "wait_right",
           "close", "gone"}

OnePipe ==
  /\ shell.pc = "pipe" => <<shell.cmd, shell.right>> \in Command /\ shell.right # "none"
  /\ \A i \in PipeId : g_pipes[i].active =>
       /\ shell.is_piping /\ shell.pc \in PipePc
       /\ <<shell.cmd, shell.right>> \in Command /\ shell.right # "none"
       /\ \A x \in Shells : pcbs[x].pipe_fd = i

PipelinesEnd ==
  /\ "shell" \notin MayFault
  /\ \A c \in Command : c[1] \in {"noarg", "crash_shell"} => c[2] = "none"

(* Only SYS_PIPE makes a pipe active. *)
LEMMA ActiveBefore ==
  ASSUME JobInv, NEW p \in Pid, StepOf(p), ~(MakePipe(p) /\ SysPipe(p)),
         NEW i \in PipeId, g_pipes'[i].active
  PROVE  g_pipes[i].active
<1>0. KInv /\ Inv /\ RestOK /\ g_pipes \in [PipeId -> Pipe]
  BY InvParts DEF JobInv, KInv, Inv, TypeOK
<1>1. CASE UNCHANGED g_pipes
  BY <1>1
<1>2. ASSUME NEW I, g_pipes' = AtEof(I) PROVE g_pipes[i].active
  <2>1. g_pipes'[i] = IF i \in I
                      THEN [g_pipes[i] EXCEPT !.eof = TRUE, !.reader_reply_cap = NoSlot]
                      ELSE g_pipes[i]
    BY <1>2 DEF AtEof
  <2> QED
    BY <1>0, <2>1 DEF Pipe
<1>3. CASE LeftExit(p) \/ ExitThread(p) \/ App(p)
  BY <1>2, <1>3, ExitSteps DEF Ends
<1>4. CASE Crash(p) \/ FaultOf(p)
  BY <1>2, <1>4, FaultSteps DEF Ends
<1>5. CASE PipeWrClose(p)
  BY <1>2, <1>5 DEF PipeWrClose
<1>6. CASE WriteChunk(p)
  <2>1. PICK j \in PipeId : \E acc : Written(p, j, acc)
    BY <1>6, WriteIs
  <2>2. PICK acc : Written(p, j, acc)
    BY <2>1
  <2>3. PICK y, z : y = Tail(acc) /\ z = g_pipes[j].buffer \o acc
    OBVIOUS
  <2>4. \/ g_pipes' = [g_pipes EXCEPT ![j].buffer = y, ![j].reader_reply_cap = NoSlot]
        \/ g_pipes' = [g_pipes EXCEPT ![j].buffer = z]
    BY <2>2, <2>3 DEF Written
  <2>5. g_pipes'[i].active = g_pipes[i].active
    <3>1. CASE g_pipes' = [g_pipes EXCEPT ![j].buffer = y, ![j].reader_reply_cap = NoSlot]
      BY <1>0, <3>1 DEF Pipe
    <3>2. CASE g_pipes' = [g_pipes EXCEPT ![j].buffer = z]
      BY <1>0, <3>2 DEF Pipe
    <3> QED
      BY <2>4, <3>1, <3>2
  <2> QED
    BY <2>5
<1>7. CASE PipeRead(p)
  <2>1. PICK j : j = PipeOf(p)
    OBVIOUS
  <2>2. \/ g_pipes' = [g_pipes EXCEPT ![j].buffer = Tail(@)]
        \/ \E s : g_pipes' = [g_pipes EXCEPT ![j].reader_reply_cap = s]
    BY <1>7, <2>1 DEF PipeRead
  <2> QED
    BY <1>0, <2>2 DEF Pipe
<1>8. CASE ClosePipe(p)
  <2>1. PICK j : g_pipes' = [g_pipes EXCEPT ![j].active = FALSE]
    BY <1>8 DEF ClosePipe, PipeClose
  <2> QED
    BY <1>0, <2>1 DEF Pipe
<1>9. CASE Prompt(p) \/ MakePipe(p) \/ LeftPlain(p)
  <2>1. UNCHANGED vars
    BY <1>9 DEF Prompt, MakePipe, LeftPlain
  <2> QED
    BY <1>1, <2>1 DEF vars
<1>10. CASE WaitForDrivers(p) \/ WaitChild(p) \/ WaitLeft(p) \/ WaitRight(p) \/ GetShm(p)
  <2>1. WaitAllReady(p) \/ (\E t : SysWait(p, t)) \/ UNCHANGED vars \/ ShmGet(p)
    BY <1>10 DEF WaitForDrivers, WaitChild, WaitLeft, WaitRight, Wait, GetShm
  <2> QED
    BY <1>1, <2>1 DEF WaitAllReady, SysWait, ShmGet, Panic, vars
<1>11. CASE LeftLs(p) \/ LeftExec(p) \/ Right(p)
  <2>1. (\E f : SpawnThread(p, f)) \/ LeftExec(p) \/ UNCHANGED vars
    BY <1>11 DEF LeftLs, Right
  <2> QED
    BY <1>1, <2>1, SpawnSteps, ExecSteps DEF vars
<1>12. CASE Ready(p)
  BY <1>1, <1>12 DEF Ready, DriverReady
<1>13. LeftWrite(p) \/ Ls(p) => WriteChunk(p) \/ PipeWrClose(p)
  BY DEF LeftWrite, Ls, CloseWrite
<1>14. Grep(p) => PipeRead(p) \/ UNCHANGED g_pipes
  BY DEF Grep, vars
<1> QED
  BY <1>1, <1>3, <1>4, <1>5, <1>6, <1>7, <1>8, <1>9, <1>10, <1>11, <1>12, <1>13, <1>14
     DEF StepOf, ShellStep, OtherStep

(* Where main() goes with a pipe open. *)
LEMMA PipingNext ==
  ASSUME JobInv, OnePipe, PipelinesEnd, NEW p \in Pid, StepOf(p),
         ~MakePipe(p), ~ClosePipe(p), NEW i \in PipeId, g_pipes[i].active
  PROVE  SameCommand /\ shell'.pc \in PipePc
<1>0. /\ JobTypes /\ KInv /\ shell.pc \in PipePc /\ shell.is_piping
      /\ <<shell.cmd, shell.right>> \in Command /\ shell.right # "none"
  BY DEF JobInv, OnePipe
<1>1. shell.cmd \notin {"noarg", "crash_shell"}
  <2>1. PICK c : c = <<shell.cmd, shell.right>>
    OBVIOUS
  <2> QED
    BY <1>0, <2>1 DEF PipelinesEnd
<1>2. ASSUME NEW pc \in ShellPc, Goto(pc), pc \in PipePc PROVE SameCommand /\ shell'.pc \in PipePc
  BY <1>0, <1>2, GotoFields
<1>3. CASE UNCHANGED shell
  BY <1>0, <1>3 DEF SameCommand
<1>4. CASE LeftPlain(p) \/ LeftExit(p) \/ WaitChild(p) \/ WaitLeft(p) \/ WaitRight(p)
           \/ (LeftWrite(p) /\ Goto("right"))
  <2>1. \E pc \in {"right", "write", "gone", "wait_right", "close"} : Goto(pc)
    BY <1>1, <1>4 DEF LeftPlain, LeftExit, WaitChild, WaitLeft, WaitRight
  <2> QED
    BY <1>2, <2>1 DEF ShellPc, PipePc
<1>5. CASE LeftLs(p)
  BY <1>0, <1>5, LeftLsFields DEF PipePc
<1>6. CASE LeftExec(p)
  BY <1>0, <1>6, LeftExecFields DEF PipePc
<1>7. CASE Right(p)
  BY <1>0, <1>7, RightFields DEF PipePc
<1>8. CASE WriteChunk(p)
  BY <1>0, <1>8, WriteFields
<1>9. ~Prompt(p) /\ ~WaitForDrivers(p) /\ ~GetShm(p) /\ ~Crash(p)
  BY <1>0 DEF Prompt, WaitForDrivers, GetShm, Crash, At, PipePc
<1>10. FaultOf(p) => UNCHANGED shell
  BY DEF FaultOf, Recovered, PipelinesEnd
<1> QED
  BY <1>3, <1>4, <1>5, <1>6, <1>7, <1>8, <1>9, <1>10
     DEF StepOf, ShellStep, OtherStep, LeftWrite, Ls, Grep, ExitThread, App, Ready

(* Every step keeps OnePipe. *)
LEMMA OnePipeNext ==
  ASSUME JobInv, OnePipe, PipelinesEnd, JobsNext
  PROVE  OnePipe'
<1>0. JobTypes /\ KInv /\ Inv /\ g_pipes \in [PipeId -> Pipe] /\ pcbs \in [Pid -> PCB]
  BY DEF JobInv, KInv, Inv, TypeOK
<1>1. PICK p \in Pid : StepOf(p)
  BY DEF JobsNext, StepOf
<1>2. shell'.pc = "pipe" => <<shell'.cmd, shell'.right>> \in Command /\ shell'.right # "none"
  <2>1. CASE Prompt(p)
    BY <2>1, PromptFields
  <2>2. CASE ~Prompt(p)
    <3>1. ASSUME NEW pc \in ShellPc \ {"pipe"}, Goto(pc) PROVE shell'.pc # "pipe"
      BY <1>0, <3>1, GotoFields
    <3>2. CASE UNCHANGED shell
      BY <3>2 DEF OnePipe
    <3>3. CASE \/ WaitForDrivers(p) \/ GetShm(p) \/ LeftPlain(p) \/ LeftExit(p) \/ WaitChild(p)
               \/ WaitLeft(p) \/ WaitRight(p) \/ ClosePipe(p) \/ (LeftWrite(p) /\ Goto("right"))
      <4>1. \E pc \in {"shm", "prompt", "crash", "right", "write", "gone", "wait_right", "close"} :
              Goto(pc)
        BY <3>3 DEF WaitForDrivers, GetShm, LeftPlain, LeftExit, WaitChild, WaitLeft, WaitRight,
                    ClosePipe
      <4> QED
        BY <3>1, <4>1 DEF ShellPc
    <3>4. CASE MakePipe(p) \/ LeftLs(p) \/ LeftExec(p) \/ Right(p)
      BY <1>0, <3>4, MakePipeFields, LeftLsFields, LeftExecFields, RightFields
    <3>5. CASE WriteChunk(p)
      BY <1>0, <3>5, WriteFields DEF SameCommand, OnePipe
    <3>6. CASE Crash(p) \/ FaultOf(p)
      <4>1. shell' = NewShell \/ UNCHANGED shell
        BY <3>6 DEF Crash, FaultOf, Recovered
      <4> QED
        BY <3>2, <4>1, NewShellFields
    <3> QED
      BY <1>1, <2>2, <3>2, <3>3, <3>4, <3>5, <3>6
         DEF StepOf, ShellStep, OtherStep, LeftWrite, Ls, Grep, ExitThread, App, Ready
  <2> QED
    BY <2>1, <2>2
<1>3. SUFFICES ASSUME NEW i \in PipeId, g_pipes'[i].active
               PROVE  /\ shell'.is_piping /\ shell'.pc \in PipePc
                      /\ <<shell'.cmd, shell'.right>> \in Command /\ shell'.right # "none"
                      /\ \A x \in Shells' : pcbs'[x].pipe_fd = i
  BY <1>2 DEF OnePipe
<1>4. CASE MakePipe(p)
  <2>1. At(p, "pipe")
    BY <1>4 DEF MakePipe
  <2>2. shell.pc = "pipe" /\ Shells = {p}
    BY <1>0, <2>1, ShellRuns
  <2>3. \A j \in PipeId : ~g_pipes[j].active
    BY <2>2 DEF OnePipe, PipePc
  <2>4. SysPipe(p)
    BY <1>1, <1>3, <1>4, <2>3, ActiveBefore
  <2>5. PICK j \in PipeId : /\ \E c : g_pipes' = [g_pipes EXCEPT ![j] = c]
                            /\ pcbs' = [pcbs EXCEPT ![p].pipe_fd = j]
    BY <2>4 DEF SysPipe
  <2>6. i = j
    BY <1>0, <1>3, <2>3, <2>5
  <2>7. pcbs'[p].pipe_fd = i
    BY <1>0, <2>5, <2>6 DEF PCB
  <2>8. Shells' \subseteq {p}
    <3>1. Procs(0, 0, "")
      BY <1>0, <2>4, FdProcs
    <3>2. 0 \notin Pid
      BY <1>0, ControlTypes
    <3> QED
      BY <2>2, <3>1, <3>2 DEF Procs, Shells, Active
  <2>9. /\ shell'.pc = "left" /\ shell'.cmd = shell.cmd /\ shell'.right = shell.right
    BY <1>0, <1>4, MakePipeFields
  <2>10. shell'.is_piping
    <3>1. UNCHANGED vars => FALSE
      BY <1>3, <2>3 DEF vars
    <3> QED
      BY <1>0, <1>4, <3>1, MakePipeFields
  <2> QED
    BY <2>2, <2>7, <2>8, <2>9, <2>10 DEF OnePipe, PipePc
<1>5. CASE ~MakePipe(p)
  <2>1. g_pipes[i].active
    BY <1>1, <1>3, <1>5, ActiveBefore
  <2>2. \A x \in Shells : pcbs[x].pipe_fd = i
    BY <2>1 DEF OnePipe
  <2>3. ~ClosePipe(p)
    <3>1. SUFFICES ASSUME ClosePipe(p) PROVE FALSE
      OBVIOUS
    <3>2. PipeOf(p) = pcbs[p].pipe_fd /\ p \in Shells
      BY <1>0, <3>1, ShellRuns DEF ClosePipe
    <3>3. PipeOf(p) = i
      BY <2>2, <3>2
    <3>4. g_pipes' = [g_pipes EXCEPT ![i].active = FALSE]
      BY <3>1, <3>3 DEF ClosePipe, PipeClose
    <3> QED
      BY <1>0, <1>3, <3>4 DEF Pipe
  <2>4. SameCommand /\ shell'.pc \in PipePc
    BY <1>1, <1>5, <2>1, <2>3, PipingNext
  <2>5. Shells' \subseteq Shells
    <3>1. shell' # NewShell
      BY <2>4, NewShellFields DEF PipePc
    <3> QED
      BY <1>1, <3>1, ShellsNext DEF StepOf
  <2>6. \A x \in Shells' : pcbs'[x].pipe_fd = i
    BY <1>1, <1>5, <2>2, <2>3, <2>5, FdKept
  <2> QED
    BY <2>1, <2>4, <2>6 DEF OnePipe, SameCommand
<1> QED
  BY <1>4, <1>5

(* Every pipe a command has opened is closed when the prompt is back: what *)
(* MAX_PIPES commands in a row depend on.                                  *)
THEOREM PipesAreClosed ==
  ASSUME ShmOnce, PipelinesEnd
  PROVE  JobsSpec => []PipesClosed
<1>1. JobsInit => JobInv /\ OnePipe
  <2>1. JobsInit => shell.pc = "start" /\ \A i \in PipeId : ~g_pipes[i].active
    <3>1. UnusedPipe.active = FALSE
      BY DEF UnusedPipe
    <3> QED
      BY <3>1, NewShellFields DEF JobsInit, Init
  <2> QED
    BY <2>1, JobsStart DEF OnePipe
<1>2. JobInv /\ OnePipe /\ [JobsNext]_jobVars => (JobInv /\ OnePipe)'
  <2>1. SUFFICES ASSUME JobInv, OnePipe, [JobsNext]_jobVars PROVE JobInv' /\ OnePipe'
    OBVIOUS
  <2>2. JobInv'
    BY <2>1, JobsStep
  <2>3. CASE UNCHANGED jobVars
    BY <2>1, <2>2, <2>3 DEF OnePipe, jobVars, vars, Shells, Active
  <2> QED
    BY <2>1, <2>2, <2>3, OnePipeNext
<1>3. JobInv /\ OnePipe => PipesClosed
  BY DEF OnePipe, PipesClosed, PipePc
<1> QED
  BY <1>1, <1>2, <1>3, PTL DEF JobsSpec

-----------------------------------------------------------------------------
(* Whom the shell waits for.  sys_wait takes a PID that may be in use      *)
(* again; but between the spawn and the wait the shell itself is the only  *)
(* one to take PIDs, as long as no driver is recovered meanwhile, and what *)
(* it starts there is a thread.                                            *)
Named(t, name) == t # 0 /\ pcbs[t].active => pcbs[t].name = name

JobsNamed ==
  /\ shell.pc = "wait_child" => Named(shell.child, "app")
  /\ shell.pc \in {"write", "wait_child", "right", "wait_left"} =>
       Named(shell.left_pid, "shell_thread")
  /\ shell.pc \in {"wait_left", "wait_right"} => Named(shell.right_pid, "shell_thread")

OwnWait ==
  \A x \in Shells : pcbs[x].waiting_for # 0 =>
    /\ shell.pc \in {"right", "wait_right", "close"}
    /\ pcbs[pcbs[x].waiting_for].name =
         IF shell.pc = "right" THEN "app" ELSE "shell_thread"

DriversStay == MayFault \cap Driver = {}

(* A process that is there after a step has the name it had, or is the new *)
(* one.                                                                    *)
LEMMA NamedNext ==
  ASSUME JobInv, NEW v, NEW n, NEW new, Procs(v, n, new), n \notin Pid \/ new = "shell_thread",
         NEW t \in Pid0, NEW name, Named(t, name), n \notin Pid \/ name = "shell_thread"
  PROVE  Named(t, name)'
<1>1. SUFFICES ASSUME t # 0, pcbs'[t].active PROVE pcbs'[t].name = name
  BY DEF Named
<1>2. t \in Pid
  <2>1. MaxPid \in Nat
    BY BootAssumption
  <2> QED
    BY <1>1, <2>1 DEF Pid, Pid0
<1>3. CASE t = n
  BY <1>2, <1>3 DEF Procs
<1>4. CASE t # n
  BY <1>1, <1>2, <1>4 DEF Procs, Named
<1> QED
  BY <1>3, <1>4

(* A shell that is awake when it makes a call, and does not block in it,   *)
(* waits for nobody.                                                       *)
LEMMA AwakeNext ==
  ASSUME JobInv, NEW p \in Pid, Shells = {p}, pcbs[p].waiting_for = 0,
         NEW v, v \in {0, p}, NEW n, NEW new, Procs(v, n, new), Waits(v, n)
  PROVE  \A x \in Shells' : pcbs'[x].waiting_for = 0
<1>1. SUFFICES ASSUME NEW x \in Shells' PROVE pcbs'[x].waiting_for = 0
  OBVIOUS
<1>2. x \in (Shells \ {v}) \cup {q \in {n} : q \in Pid /\ new = "shell"}
  BY ShellsAfter
<1>3. CASE x = n /\ n \in Pid
  BY <1>3 DEF Procs
<1>4. CASE x = p /\ x # v /\ x # n
  BY <1>4 DEF Waits
<1> QED
  BY <1>2, <1>3, <1>4

(* A waiting shell goes on waiting for the same process, under its name.   *)
LEMMA AsleepNext ==
  ASSUME JobInv, KInv', OwnWait, shell'.pc = shell.pc, Shells' \subseteq Shells,
         NEW v, NEW n, NEW new, Procs(v, n, new), Waits(v, n)
  PROVE  OwnWait'
<1>1. SUFFICES ASSUME NEW x \in Shells', pcbs'[x].waiting_for # 0
               PROVE  /\ shell'.pc \in {"right", "wait_right", "close"}
                      /\ pcbs'[pcbs'[x].waiting_for].name =
                           IF shell'.pc = "right" THEN "app" ELSE "shell_thread"
  BY DEF OwnWait
<1>2. x \in Shells /\ x \in Pid /\ x \in Active /\ x \in Active'
  BY <1>1 DEF Shells, Active
<1>3. x # v /\ x # n
  BY <1>2 DEF Procs, Active
<1>4. PICK w : w = pcbs[x].waiting_for
  OBVIOUS
<1>5. pcbs'[x].waiting_for = w
  BY <1>1, <1>2, <1>3, <1>4 DEF Waits
<1>6. w \in Active
  BY <1>1, <1>2, <1>4, <1>5 DEF JobInv, KInv, WakeInv, WaitersSound
<1>7. w \in Active'
  BY <1>1, <1>2, <1>5 DEF KInv, WakeInv, WaitersSound
<1>8. w \in Pid /\ w # v /\ w # n
  BY <1>6, <1>7 DEF Procs, Active
<1>9. pcbs'[w].name = pcbs[w].name
  BY <1>8 DEF Procs
<1>10. /\ shell.pc \in {"right", "wait_right", "close"}
       /\ pcbs[w].name = IF shell.pc = "right" THEN "app" ELSE "shell_thread"
  BY <1>1, <1>2, <1>4, <1>5 DEF OwnWait
<1> QED
  BY <1>5, <1>9, <1>10

(* What the others do takes no PID, when no driver faults. *)
LEMMA OthersTakeNone ==
  ASSUME JobInv, DriversStay, NEW p \in Pid, OtherStep(p) \/ FaultOf(p), p \notin Shells
  PROVE  /\ shell'.pc = shell.pc /\ SamePids /\ Shells' \subseteq Shells
         /\ \E v, n : Procs(v, n, "") /\ Waits(v, n) /\ n \notin Pid
<1>0. Inv /\ JobTypes /\ 0 \notin Pid
  BY ControlTypes DEF JobInv, KInv
<1>1. shell'.pc = shell.pc /\ SamePids
  BY OthersStep
<1>2. \E v, n, name : Procs(v, n, name) /\ Waits(v, n) /\ n \notin Pid
  <2>1. CASE Ls(p) \/ Grep(p) \/ Ready(p)
    <3>1. (\E data : PipeWrite(p, data)) \/ PipeWrClose(p) \/ PipeRead(p) \/ DriverReady(p)
          \/ UNCHANGED vars
      BY <2>1 DEF Ls, Grep, Ready, WriteChunk, CloseWrite
    <3>2. Step(0, 0, "")
      BY <1>0, <3>1, PipeCallsProcs
    <3> QED
      BY <1>0, <3>2 DEF Step
  <2>2. CASE ExitThread(p) \/ App(p)
    <3>1. Ends(p, 0, "", WrittenBy(p))
      BY <2>2, ExitSteps
    <3> QED
      BY <1>0, <3>1 DEF Ends, Step
  <2>3. CASE FaultOf(p)
    <3>1. p \in Active
      BY <2>3, FaultSteps
    <3>2. PICK n : /\ n \in Pid => pcbs[p].name \in Archive
                   /\ Ends(p, n, pcbs[p].name, {})
      BY <2>3, FaultSteps
    <3>3. n \notin Pid
      BY <2>3, <3>1, <3>2 DEF FaultOf, DriversStay, Archive, Shells
    <3> QED
      BY <3>2, <3>3 DEF Ends, Step
  <2> QED
    BY <2>1, <2>2, <2>3 DEF OtherStep
<1>3. PICK v, n, name : Procs(v, n, name) /\ Waits(v, n) /\ n \notin Pid
  BY <1>2
<1>4. Procs(v, n, "")
  BY <1>3 DEF Procs
<1>5. Shells' \subseteq Shells
  BY <1>3, ShellsAfter
<1> QED
  BY <1>1, <1>3, <1>4, <1>5

(* The steps in which the shell neither spawns nor waits. *)
LEMMA AwakeSteps ==
  ASSUME JobInv, NEW p \in Pid,
         \/ WaitForDrivers(p) \/ GetShm(p) \/ Prompt(p) \/ MakePipe(p) \/ LeftPlain(p)
         \/ LeftWrite(p) \/ ClosePipe(p)
  PROVE  Procs(0, 0, "") /\ Waits(0, 0)
<1>0. Inv
  BY DEF JobInv, KInv
<1>1. CASE WaitForDrivers(p) \/ Prompt(p) \/ LeftPlain(p) \/ LeftWrite(p)
  <2>1. \/ (\E data : PipeWrite(p, data)) \/ PipeWrClose(p) \/ WaitAllReady(p)
        \/ UNCHANGED vars
    BY <1>1 DEF WaitForDrivers, Prompt, LeftPlain, LeftWrite, WriteChunk, CloseWrite
  <2> QED
    BY <1>0, <2>1, PipeCallsProcs DEF Step
<1>2. CASE GetShm(p)
  BY <1>0, <1>2, ShmGetProcs DEF GetShm, Step
<1>3. CASE MakePipe(p) \/ ClosePipe(p)
  <2>1. SysPipe(p) \/ PipeClose(p) \/ UNCHANGED vars
    BY <1>3 DEF MakePipe, ClosePipe
  <2>2. CASE UNCHANGED vars
    BY <1>0, <2>2, PipeCallsProcs DEF Step
  <2> QED
    BY <1>0, <2>1, <2>2, FdProcs
<1> QED
  BY <1>1, <1>2, <1>3

(* sys_wait: the shell is asleep for the PID it gave, which is in use, or  *)
(* has its answer.                                                         *)
LEMMA WaitSteps ==
  ASSUME JobInv, NEW p \in Pid, Shells = {p}, pcbs[p].waiting_for = 0,
         NEW t \in Pid0, NEW name, Wait(p, t), Named(t, name)
  PROVE  /\ Procs(0, 0, "")
         /\ \A x \in Shells' : pcbs'[x].waiting_for # 0 =>
              pcbs'[pcbs'[x].waiting_for].name = name
<1>0. Inv /\ 0 \notin Pid
  BY ControlTypes DEF JobInv, KInv
<1>1. CASE SysWait(p, t)
  <2>1. Procs(0, 0, "") /\ pcbs'[p].waiting_for = t /\ t \in Active
    BY <1>0, <1>1, SysWaitProcs
  <2>2. Shells' \subseteq {p}
    BY <1>0, <2>1, ShellsAfter
  <2>3. t \in Pid /\ t # 0 /\ pcbs[t].active
    BY <1>0, <2>1 DEF Active
  <2>4. pcbs'[t].name = name
    BY <1>0, <2>1, <2>3 DEF Procs, Named
  <2> QED
    BY <2>1, <2>2, <2>4
<1>2. CASE UNCHANGED vars
  <2>1. Procs(0, 0, "") /\ Waits(0, 0)
    BY <1>0, <1>2, PipeCallsProcs DEF Step
  <2>2. PICK v : v = 0
    OBVIOUS
  <2>3. \A x \in Shells' : pcbs'[x].waiting_for = 0
    BY <2>1, <2>2, AwakeNext
  <2> QED
    BY <2>1, <2>3
<1> QED
  BY <1>1, <1>2 DEF Wait

(* Where main() is after a step without spawn or wait. *)
LEMMA AwakePc ==
  ASSUME JobInv, NEW p \in Pid,
         \/ WaitForDrivers(p) \/ GetShm(p) \/ Prompt(p) \/ MakePipe(p) \/ LeftPlain(p)
         \/ LeftWrite(p) \/ ClosePipe(p)
  PROVE  /\ shell'.pc \notin {"wait_child", "wait_left", "wait_right"}
         /\ shell'.pc \in {"write", "right"} =>
              shell'.left_pid = shell.left_pid /\ shell.pc \in {"left", "write"}
<1>0. JobTypes
  BY DEF JobInv
<1>1. CASE Prompt(p)
  BY <1>1, PromptFields
<1>2. CASE MakePipe(p)
  BY <1>0, <1>2, MakePipeFields
<1>3. CASE WriteChunk(p) /\ At(p, "write")
  BY <1>0, <1>3, WriteFields DEF SamePids, At
<1>4. CASE \/ WaitForDrivers(p) \/ GetShm(p) \/ ClosePipe(p) \/ LeftPlain(p)
           \/ (LeftWrite(p) /\ Goto("right"))
  <2>1. \E pc \in {"shm", "prompt", "crash", "right", "write"} :
          Goto(pc) /\ (pc \in {"right", "write"} => shell.pc \in {"left", "write"})
    BY <1>4 DEF WaitForDrivers, GetShm, ClosePipe, LeftPlain, LeftWrite, At
  <2>2. PICK pc \in {"shm", "prompt", "crash", "right", "write"} :
          Goto(pc) /\ (pc \in {"right", "write"} => shell.pc \in {"left", "write"})
    BY <2>1
  <2>3. pc \in ShellPc
    BY <2>2 DEF ShellPc
  <2>4. shell'.pc = pc /\ SamePids
    BY <1>0, <2>2, <2>3, GotoFields
  <2> QED
    BY <2>2, <2>4 DEF SamePids
<1> QED
  BY <1>1, <1>2, <1>3, <1>4 DEF LeftWrite

(* Every step keeps JobsNamed and OwnWait. *)
LEMMA OwnJobNext ==
  ASSUME JobInv, KInv', DriversStay, JobsNamed, OwnWait, JobsNext
  PROVE  JobsNamed' /\ OwnWait'
<1>0. /\ JobTypes /\ KInv /\ Inv /\ 0 \notin Pid /\ ShellSound
      /\ shell.left_pid \in Pid0 /\ shell.right_pid \in Pid0 /\ shell.child \in Pid0
  BY ControlTypes DEF JobInv, KInv, JobTypes, ShellState
<1>1. PICK p \in Pid : StepOf(p)
  BY DEF JobsNext, StepOf
<1>2. PICK none : none = 0
  OBVIOUS
<1>3. shell.pc = "left" => Named(shell.left_pid, "shell_thread")
  BY <1>0 DEF ShellSound, Named
<1>4. (\A x \in Shells' : pcbs'[x].waiting_for = 0) => OwnWait'
  BY DEF OwnWait
<1>5. CASE (OtherStep(p) \/ FaultOf(p)) /\ p \notin Shells
  <2>1. shell'.pc = shell.pc /\ SamePids /\ Shells' \subseteq Shells
    BY <1>5, OthersTakeNone
  <2>2. PICK v, n : Procs(v, n, "") /\ Waits(v, n) /\ n \notin Pid
    BY <1>5, OthersTakeNone
  <2>3. PICK new : new = ""
    OBVIOUS
  <2>4. Procs(v, n, new)
    BY <2>2, <2>3
  <2>5. OwnWait'
    BY <2>1, <2>2, <2>4, AsleepNext
  <2>6. ASSUME NEW t \in Pid0, NEW name, Named(t, name) PROVE Named(t, name)'
    BY <2>2, <2>4, <2>6, NamedNext
  <2>7. JobsNamed'
    <3>1. shell.pc = "wait_child" => Named(shell.child, "app")'
      BY <1>0, <2>1, <2>6 DEF JobsNamed, SamePids, Named
    <3> QED
      BY <1>0, <2>1, <2>6, <3>1 DEF JobsNamed, SamePids, Named
  <2> QED
    BY <2>5, <2>7
<1>6. CASE shell' = NewShell /\ p \in Shells /\ (Crash(p) \/ FaultOf(p))
  <2>1. shell'.pc = "start"
    BY <1>6, NewShellFields
  <2>2. JobsNamed'
    BY <2>1 DEF JobsNamed
  <2>3. PICK n : Ends(p, n, pcbs[p].name, {})
    BY <1>6, FaultSteps
  <2>4. Procs(p, n, pcbs[p].name) /\ Waits(p, n)
    BY <2>3 DEF Ends, Step
  <2>5. Shells = {p} /\ pcbs[p].waiting_for = 0
    <3>1. IsShell(p)
      BY <1>6 DEF Crash, At, FaultOf, Shells, IsShell
    <3>2. At(p, shell.pc)
      BY <3>1 DEF At
    <3> QED
      BY <1>0, <3>2, ShellRuns
  <2>6. PICK v, new : v = p /\ new = pcbs[p].name
    OBVIOUS
  <2>7. \A x \in Shells' : pcbs'[x].waiting_for = 0
    BY <2>4, <2>5, <2>6, AwakeNext
  <2> QED
    BY <1>4, <2>2, <2>7
<1>7. CASE LeftExit(p)
  <2>1. At(p, "left") /\ Goto("gone")
    BY <1>7 DEF LeftExit
  <2>2. "gone" \in ShellPc
    BY DEF ShellPc
  <2>3. shell'.pc = "gone"
    BY <1>0, <2>1, <2>2, GotoFields
  <2>4. JobsNamed'
    BY <2>3 DEF JobsNamed
  <2>5. Shells = {p}
    BY <1>0, <2>1, ShellRuns
  <2>6. Procs(p, 0, "")
    BY <1>7, ExitSteps DEF Ends, Step
  <2>7. Shells' = {}
    <3>1. PICK new : new = ""
      OBVIOUS
    <3>2. Procs(p, none, new) /\ none \notin Pid
      BY <1>0, <1>2, <2>6, <3>1
    <3> QED
      BY <2>5, <3>2, ShellsAfter
  <2> QED
    BY <1>4, <2>4, <2>7
<1>8. CASE \/ WaitForDrivers(p) \/ GetShm(p) \/ Prompt(p) \/ MakePipe(p) \/ LeftPlain(p)
           \/ LeftWrite(p) \/ ClosePipe(p)
  <2>1. PICK new : new = ""
    OBVIOUS
  <2>2. Procs(none, none, new) /\ Waits(none, none)
    BY <1>2, <1>8, <2>1, AwakeSteps
  <2>3. Shells = {p} /\ pcbs[p].waiting_for = 0
    <3>1. \E pc : At(p, pc)
      BY <1>8 DEF WaitForDrivers, GetShm, Prompt, MakePipe, LeftPlain, LeftWrite, ClosePipe
    <3> QED
      BY <1>0, <3>1, ShellRuns
  <2>4. \A x \in Shells' : pcbs'[x].waiting_for = 0
    BY <1>2, <2>2, <2>3, AwakeNext
  <2>5. shell'.pc \in {"write", "right"} => Named(shell.left_pid, "shell_thread")'
    <3>1. SUFFICES ASSUME shell'.pc \in {"write", "right"}
                   PROVE  Named(shell.left_pid, "shell_thread")'
      OBVIOUS
    <3>2. PICK t, name : t = shell.left_pid /\ name = "shell_thread"
      OBVIOUS
    <3>3. shell'.left_pid = t /\ shell.pc \in {"left", "write"}
      BY <1>8, <3>1, <3>2, AwakePc
    <3>4. Named(t, name) /\ t \in Pid0
      BY <1>0, <1>3, <3>2, <3>3 DEF JobsNamed
    <3>5. none \notin Pid
      BY <1>0, <1>2
    <3>6. Named(t, name)'
      BY <2>2, <3>4, <3>5, NamedNext
    <3> QED
      BY <3>2, <3>3, <3>6 DEF Named
  <2>6. JobsNamed'
    BY <1>8, <2>5, AwakePc DEF JobsNamed, Named
  <2> QED
    BY <1>4, <2>4, <2>6
<1>9. ASSUME NEW pc, At(p, pc), NEW t \in Pid0, NEW name, Wait(p, t), Named(t, name),
             NEW to \in ShellPc, Goto(to), to \in {"right", "wait_right", "close"},
             name = IF to = "right" THEN "app" ELSE "shell_thread",
             to = "right" => Named(shell.left_pid, "shell_thread"),
             to = "wait_right" => Named(shell.right_pid, "shell_thread")
      PROVE  JobsNamed' /\ OwnWait'
  <2>1. Shells = {p} /\ pcbs[p].waiting_for = 0
    BY <1>0, <1>9, ShellRuns
  <2>2. PICK new : new = ""
    OBVIOUS
  <2>3. /\ Procs(none, none, new) /\ none \notin Pid
        /\ \A x \in Shells' : pcbs'[x].waiting_for # 0 =>
             pcbs'[pcbs'[x].waiting_for].name = name
    BY <1>0, <1>2, <1>9, <2>1, <2>2, WaitSteps
  <2>4. shell'.pc = to /\ SamePids
    BY <1>0, <1>9, GotoFields
  <2>5. OwnWait'
    BY <1>9, <2>3, <2>4 DEF OwnWait
  <2>6. ASSUME NEW u \in Pid0, NEW nm, Named(u, nm) PROVE Named(u, nm)'
    BY <2>3, <2>6, NamedNext
  <2>7. JobsNamed'
    BY <1>0, <1>9, <2>4, <2>6 DEF JobsNamed, SamePids, Named
  <2> QED
    BY <2>5, <2>7
<1>10. CASE WaitChild(p) \/ WaitLeft(p) \/ WaitRight(p)
  <2>0. /\ "right" \in ShellPc /\ "wait_right" \in ShellPc /\ "close" \in ShellPc
    BY DEF ShellPc
  <2>1. CASE WaitChild(p)
    <3>1. /\ At(p, "wait_child") /\ Wait(p, shell.child) /\ Goto("right")
          /\ shell.pc = "wait_child"
      BY <2>1 DEF WaitChild, At
    <3>2. Named(shell.child, "app") /\ Named(shell.left_pid, "shell_thread")
      BY <3>1 DEF JobsNamed
    <3> QED
      BY <1>0, <1>9, <2>0, <3>1, <3>2
  <2>2. CASE WaitLeft(p)
    <3>1. /\ At(p, "wait_left") /\ Wait(p, shell.left_pid) /\ Goto("wait_right")
          /\ shell.pc = "wait_left"
      BY <2>2 DEF WaitLeft, At
    <3>2. Named(shell.left_pid, "shell_thread") /\ Named(shell.right_pid, "shell_thread")
      BY <3>1 DEF JobsNamed
    <3> QED
      BY <1>0, <1>9, <2>0, <3>1, <3>2
  <2>3. CASE WaitRight(p)
    <3>1. /\ At(p, "wait_right") /\ Wait(p, shell.right_pid) /\ Goto("close")
          /\ shell.pc = "wait_right"
      BY <2>3 DEF WaitRight, At
    <3>2. Named(shell.right_pid, "shell_thread")
      BY <3>1 DEF JobsNamed
    <3> QED
      BY <1>0, <1>9, <2>0, <3>1, <3>2
  <2> QED
    BY <1>10, <2>1, <2>2, <2>3
<1>11. CASE LeftLs(p) \/ Right(p) \/ LeftExec(p)
  <2>0. \E pc : At(p, pc)
    BY <1>11 DEF LeftLs, Right, LeftExec
  <2>1. Shells = {p} /\ pcbs[p].waiting_for = 0
    BY <1>0, <2>0, ShellRuns
  <2>2. ASSUME NEW n, NEW new, Procs(0, n, new), Waits(0, n) PROVE OwnWait'
    <3>1. \A x \in Shells' : pcbs'[x].waiting_for = 0
      <4>1. Procs(none, n, new) /\ Waits(none, n)
        BY <1>2, <2>2
      <4> QED
        BY <1>2, <2>1, <4>1, AwakeNext
    <3> QED
      BY <1>4, <3>1
  <2>3. ASSUME NEW n, Procs(0, n, "shell_thread")
        PROVE  /\ NewPid # 0 => pcbs'[NewPid].name = "shell_thread"
               /\ \A t \in Pid0 : Named(t, "shell_thread") => Named(t, "shell_thread")'
    <3>1. PICK new : new = "shell_thread"
      OBVIOUS
    <3>2. Procs(none, n, new)
      BY <1>2, <2>3, <3>1
    <3>3. \A t \in Pid0 : Named(t, new) => Named(t, new)'
      BY <3>1, <3>2, NamedNext
    <3>4. (n \in Pid => NewPid = n) /\ (n \notin Pid => NewPid = 0)
      BY <3>2, NewPidIs
    <3>5. n \in Pid => pcbs'[n].name = new
      BY <3>2 DEF Procs
    <3> QED
      BY <3>1, <3>3, <3>4, <3>5
  <2>4. CASE LeftLs(p)
    <3>1. shell'.pc = "right" /\ shell'.left_pid = NewPid
      BY <1>0, <2>4, LeftLsFields
    <3>2. PICK n : Step(0, n, "shell_thread")
      BY <2>4, SpawnSteps DEF LeftLs
    <3>3. OwnWait' /\ (NewPid # 0 => pcbs'[NewPid].name = "shell_thread")
      BY <2>2, <2>3, <3>2 DEF Step
    <3> QED
      BY <3>1, <3>3 DEF JobsNamed, Named
  <2>5. CASE LeftExec(p)
    <3>1. shell.pc = "left" /\ shell.left_pid = 0
      BY <1>0, <2>5 DEF LeftExec, At, ShellSound
    <3>2. /\ shell'.pc \in {"wait_child", "right"} /\ shell'.left_pid = 0
          /\ shell'.child = NewPid
      BY <1>0, <2>5, <3>1, LeftExecFields
    <3>3. PICK n : Step(0, n, "app")
      BY <2>5, ExecSteps
    <3>4. OwnWait'
      BY <2>2, <3>3 DEF Step
    <3>5. NewPid # 0 => pcbs'[NewPid].name = "app"
      <4>1. PICK new : new = "app"
        OBVIOUS
      <4>2. Procs(none, n, new)
        BY <1>2, <3>3, <4>1 DEF Step
      <4>3. (n \in Pid => NewPid = n) /\ (n \notin Pid => NewPid = 0)
        BY <4>2, NewPidIs
      <4>4. n \in Pid => pcbs'[n].name = new
        BY <4>2 DEF Procs
      <4> QED
        BY <4>1, <4>3, <4>4
    <3> QED
      BY <3>2, <3>4, <3>5 DEF JobsNamed, Named
  <2>6. CASE Right(p)
    <3>0. shell.pc = "right" /\ shell.right_pid = 0
      BY <1>0, <2>6 DEF Right, At, ShellSound
    <3>1. PICK n : Procs(0, n, "shell_thread") /\ Waits(0, n)
      <4>1. CASE UNCHANGED vars
        <5>1. Step(0, 0, "")
          BY <1>0, <4>1, PipeCallsProcs
        <5>2. Procs(0, 0, "shell_thread") /\ Waits(0, 0)
          BY <1>0, <5>1 DEF Step, Procs
        <5> QED
          BY <5>2
      <4>2. CASE SpawnThread(p, "grep")
        BY <4>2, SpawnSteps DEF Step
      <4> QED
        BY <2>6, <4>1, <4>2 DEF Right
    <3>2. OwnWait'
      BY <2>2, <3>1
    <3>3. /\ NewPid # 0 => pcbs'[NewPid].name = "shell_thread"
          /\ Named(shell.left_pid, "shell_thread") /\ shell.left_pid \in Pid0
          /\ \A t \in Pid0 : Named(t, "shell_thread") => Named(t, "shell_thread")'
      BY <1>0, <2>3, <3>0, <3>1 DEF JobsNamed
    <3>4. PICK t : t = shell.left_pid
      OBVIOUS
    <3>5. /\ shell'.left_pid = t /\ shell'.pc \in {"wait_left", "prompt"}
          /\ shell'.right_pid \in {0, NewPid}
      BY <1>0, <2>6, <3>0, <3>4, RightFields
    <3>6. Named(t, "shell_thread")'
      BY <3>3, <3>4
    <3> QED
      BY <3>2, <3>3, <3>5, <3>6 DEF JobsNamed, Named
  <2> QED
    BY <1>11, <2>4, <2>5, <2>6
<1>12. p \in Shells /\ (OtherStep(p) \/ FaultOf(p)) =>
         LeftExit(p) \/ (shell' = NewShell /\ FaultOf(p))
  <2>1. SUFFICES ASSUME p \in Shells, OtherStep(p) \/ FaultOf(p)
                 PROVE  LeftExit(p) \/ (shell' = NewShell /\ FaultOf(p))
    OBVIOUS
  <2>2. FaultOf(p) => shell' = NewShell
    BY <2>1 DEF FaultOf, Recovered, Shells
  <2>3. ~OtherStep(p)
    <3>1. pcbs[p].name = "shell"
      BY <2>1 DEF Shells
    <3>2. "shell" \notin Driver
      BY BootAssumption, Zenon DEF Driver
    <3>3. Programs /\ Apps
      BY DEF JobInv
    <3> QED
      BY <3>1, <3>2, <3>3 DEF OtherStep, Ls, Grep, ExitThread, App, Ready, DriverReady,
                              Programs, Apps, IsThread
  <2> QED
    BY <2>1, <2>2, <2>3
<1>13. Crash(p) => p \in Shells /\ shell' = NewShell
  <2>1. Crash(p) => At(p, "crash") /\ Recovered(p)
    BY DEF Crash
  <2> QED
    BY <1>0, <2>1, ShellRuns DEF Recovered
<1> QED
  BY <1>1, <1>5, <1>6, <1>7, <1>8, <1>10, <1>11, <1>12, <1>13 DEF StepOf, ShellStep

(* The shell is asleep for nobody but the process or the thread it has     *)
(* started: sys_wait never picks up a PID in use again, as long as no      *)
(* driver is recovered.                                                    *)
THEOREM WaitsOnlyForOwnJob ==
  ASSUME ShmOnce, DriversStay
  PROVE  JobsSpec => []WaitsForOwnJob
<1>1. JobsInit => JobInv /\ JobsNamed /\ OwnWait
  <2>1. JobsInit => shell.pc = "start"
    BY NewShellFields DEF JobsInit
  <2>2. JobsInit => \A x \in Shells : pcbs[x].waiting_for = 0
    <3>1. JobsInit => \A x \in Pid : thread[x] # "blocked"
      BY DEF JobsInit, Init
    <3>2. JobsInit => WaitersSound
      BY JobsStart DEF JobInv, KInv, WakeInv
    <3> QED
      BY <3>1, <3>2 DEF WaitersSound, Shells, Active
  <2> QED
    BY <2>1, <2>2, JobsStart DEF JobsNamed, OwnWait
<1>2. JobInv /\ JobsNamed /\ OwnWait /\ [JobsNext]_jobVars => (JobInv /\ JobsNamed /\ OwnWait)'
  <2>1. SUFFICES ASSUME JobInv, JobsNamed, OwnWait, [JobsNext]_jobVars
                 PROVE  JobInv' /\ JobsNamed' /\ OwnWait'
    OBVIOUS
  <2>2. JobInv'
    BY <2>1, JobsStep
  <2>3. CASE UNCHANGED jobVars
    BY <2>1, <2>2, <2>3 DEF JobsNamed, OwnWait, Named, jobVars, vars, Shells, Active
  <2>4. KInv'
    BY <2>2 DEF JobInv
  <2> QED
    BY <2>1, <2>2, <2>3, <2>4, OwnJobNext
<1>3. OwnWait => WaitsForOwnJob
  BY DEF OwnWait, WaitsForOwnJob, Shells
<1> QED
  BY <1>1, <1>2, <1>3, PTL DEF JobsSpec
=============================================================================
