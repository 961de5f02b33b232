----------------------------- MODULE ShellJobs ------------------------------
(***************************************************************************)
(* The rootserver together with the programs that call it: the shell       *)
(* (main() of shell.cpp), its threads ls and grep, the drivers as far as   *)
(* they report readiness, and the application test.cpp.  Rootserver lets   *)
(* processes call in any order; here each follows its program, so that one *)
(* can ask whether a job ends, whether grep reads what its left neighbour  *)
(* wrote, and whom the shell really waits for.                             *)
(*                                                                         *)
(* A step of a program is a step of Rootserver, the reply included, or a   *)
(* call that the rootserver answers without changing its state.            *)
(***************************************************************************)
EXTENDS Rootserver

CONSTANTS
  Command,    \* what the user may type, as pairs <<left, right>>; see below
  MaxOut,     \* length of the longest output written into a pipe
  MayFault    \* names of the processes that may be killed by a fault

(* The commands left of '|', by what they do to a pipe and to the table:   *)
(*   ls      writes to the pipe from a thread of its own;                  *)
(*   text    help, ps, echo, cat of a file that exists: the shell writes;  *)
(*   silent  those that print on the console or not at all (pwd, time,     *)
(*           touch, an unknown word), and do not change the process table; *)
(*   noarg   a command that complains about a missing argument;            *)
(*   exec, exec_bg   a program from the disk, without and with '&';        *)
(*   crash_shell, exit.                                                    *)
(* kill and recover, which end other processes, are actions of Rootserver  *)
(* only.                                                                   *)
(* Right of it: nothing (no '|'), grep with a pattern, or anything else.   *)
Commands == {"ls", "text", "silent", "noarg", "exec", "exec_bg",
             "crash_shell", "exit"} \X {"none", "grep", "other"}

ASSUME CommandAssumption ==
  /\ Command \subseteq Commands
  /\ MaxOut \in Nat /\ Byte = 1 .. MaxOut
  /\ MayFault \subseteq Name

VARIABLES
  shell,    \* the local variables of the shell's main()
  prog,     \* what each other process is about to do
  grepIn    \* what the running grep has read from the pipe

jobVars == <<vars, shell, prog, grepIn>>

-----------------------------------------------------------------------------
(* The output of the left command is 1, 2 .. len: only the position of a   *)
(* byte matters.  child, left_pid and right_pid are 0 where the code has   *)
(* -1.                                                                     *)
NewShell == [pc |-> "start", cmd |-> "silent", right |-> "none",
             is_piping |-> FALSE, left_pid |-> 0, right_pid |-> 0, child |-> 0,
             len |-> 0, sent |-> 0]

JobsInit ==
  /\ Init
  /\ shell = NewShell
  /\ prog = [p \in Pid |-> IF p \in 1 .. Len(BootOrder) THEN "init" ELSE "none"]
  /\ grepIn = <<>>

IsShell(p) == Calls(p) /\ pcbs[p].name = "shell"
At(p, pc) == IsShell(p) /\ shell.pc = pc
Goto(pc) == shell' = [shell EXCEPT !.pc = pc]

(* The PID that a spawn in this step has taken, 0 for none. *)
NewPid == LET new == {q \in Pid : pcbs'[q].active /\ ~pcbs[q].active}
          IN  IF new = {} THEN 0 ELSE CHOOSE q \in new : TRUE

(* Reply value v reaches the grep threads that wait in the slots R: the    *)
(* next byte, or 0 for the end of file.  now is prog for all others.       *)
Receive(R, v, now) ==
  LET G == {q \in Woken(R) \ {0} : prog[q] = "grep_wait"}
  IN  /\ prog' = [q \in Pid |-> IF q \notin G THEN now[q]
                                ELSE IF v = 0 THEN "exit" ELSE "grep"]
      /\ grepIn' = IF G # {} /\ v # 0 THEN Append(grepIn, v) ELSE grepIn

(* Mutant of WriteChunk: the last chunk is not cut to length. *)
WriteChunk_Uncut(p) ==
  LET last == shell.sent + MaxChunk
      data == [k \in 1 .. MaxChunk |-> shell.sent + k]
      i    == PipeOf(p)
  IN  /\ shell.sent < shell.len
      /\ PipeWrite(p, data)
      /\ Receive(Readers({i}),
                 Head(g_pipes[i].buffer \o Accepted(g_pipes[i].buffer, data)), prog)
      /\ shell' = [shell EXCEPT !.sent = last]

(* sys_write: the next chunk of the output. *)
WriteChunk(p) ==
  LET last == IF shell.sent + MaxChunk < shell.len
              THEN shell.sent + MaxChunk ELSE shell.len
      data == [k \in 1 .. (last - shell.sent) |-> shell.sent + k]
      i    == PipeOf(p)
  IN  /\ shell.sent < shell.len
      /\ PipeWrite(p, data)
      /\ Receive(Readers({i}),
                 Head(g_pipes[i].buffer \o Accepted(g_pipes[i].buffer, data)), prog)
      /\ shell' = [shell EXCEPT !.sent = last]

(* sys_pipe_wr_close *)
CloseWrite(p, now) ==
  /\ PipeWrClose(p)
  /\ Receive(Readers({PipeOf(p)}), 0, now)

-----------------------------------------------------------------------------
(* Mutant of WaitForDrivers: the shell does not wait. *)
WaitForDrivers_NoWait(p) ==
  /\ At(p, "start")
  /\ Goto("shm")
  /\ UNCHANGED <<vars, prog, grepIn>>

(* main(), to the first prompt: all drivers ready, then the shared memory; *)
(* without it the shell ends itself by a fault.                            *)
WaitForDrivers(p) ==
  /\ At(p, "start")
  /\ \/ WaitAllReady(p)
     \/ AllDriversReady(driver_ready) /\ UNCHANGED vars
  /\ Goto("shm")
  /\ UNCHANGED <<prog, grepIn>>

GetShm(p) ==
  /\ At(p, "shm")
  /\ ShmGet(p)
  /\ Goto(IF pcbs'[p].has_shm THEN "prompt" ELSE "crash")
  /\ UNCHANGED <<prog, grepIn>>

(* Mutant of Prompt: left_pid and right_pid keep the last job's values. *)
Prompt_KeepPids(p) ==
  /\ At(p, "prompt")
  /\ \E c \in Command, len \in 0 .. MaxOut :
       /\ c[1] \notin {"ls", "text"} => len = 0
       /\ shell' = [shell EXCEPT !.pc = IF c[2] = "none" THEN "left" ELSE "pipe",
                                 !.cmd = c[1], !.right = c[2], !.len = len,
                                 !.is_piping = FALSE, !.sent = 0, !.child = 0]
  /\ grepIn' = <<>>
  /\ UNCHANGED <<vars, prog>>

(* The user types a command; len is how much it will print. *)
Prompt(p) ==
  /\ At(p, "prompt")
  /\ \E c \in Command, len \in 0 .. MaxOut :
       /\ c[1] \notin {"ls", "text"} => len = 0
       /\ shell' = [NewShell EXCEPT !.pc = IF c[2] = "none" THEN "left" ELSE "pipe",
                                    !.cmd = c[1], !.right = c[2], !.len = len]
  /\ grepIn' = <<>>
  /\ UNCHANGED <<vars, prog>>

(* SYS_PIPE; without a free pipe the command runs as if alone. *)
MakePipe(p) ==
  /\ At(p, "pipe")
  /\ \/ /\ SysPipe(p)
        /\ shell' = [shell EXCEPT !.pc = "left", !.is_piping = TRUE]
     \/ /\ \A i \in PipeId : g_pipes[i].active
        /\ Goto("left")
        /\ UNCHANGED vars
  /\ UNCHANGED <<prog, grepIn>>

(* spawn_thread: SYS_CLONE with PIPE_FD_SLOT or -1 as pipe_id, none of     *)
(* which is an index of g_pipes[].  The thread's program is f.             *)
SpawnThread(p, f) ==
  /\ \/ SysClone(p, NoPipe)
     \/ Active = Pid /\ UNCHANGED vars
  /\ prog' = [q \in Pid |-> IF q = NewPid THEN f ELSE prog[q]]
  /\ UNCHANGED grepIn

(* The command left of '|', one disjunct for each kind. *)
LeftLs(p) ==
  /\ At(p, "left") /\ shell.cmd = "ls" /\ shell.is_piping
  /\ SpawnThread(p, "ls")
  /\ shell' = [shell EXCEPT !.pc = "right", !.left_pid = NewPid]

LeftPlain(p) ==
  /\ At(p, "left")
  /\ \/ shell.cmd = "silent" /\ Goto("right")
     \/ shell.cmd \in {"ls", "text"} /\ ~shell.is_piping /\ Goto("right")
     \/ shell.cmd = "text" /\ shell.is_piping /\ Goto("write")
     \/ shell.cmd = "noarg" /\ Goto("prompt")
     \/ shell.cmd = "crash_shell" /\ Goto("crash")
  /\ UNCHANGED <<vars, prog, grepIn>>

LeftWrite(p) ==
  /\ At(p, "write")
  /\ \/ WriteChunk(p)
     \/ /\ shell.sent = shell.len
        /\ CloseWrite(p, prog)
        /\ Goto("right")

(* SYS_EXEC answers -1 or -2 when the file is missing or not an ELF, or    *)
(* when there is no PID.                                                   *)
LeftExec(p) ==
  /\ At(p, "left") /\ shell.cmd \in {"exec", "exec_bg"}
  /\ SysExec(p) \/ UNCHANGED vars
  /\ prog' = [q \in Pid |-> IF q = NewPid THEN "app" ELSE prog[q]]
  /\ shell' = [shell EXCEPT
       !.child = NewPid,
       !.pc = IF shell.cmd = "exec" /\ NewPid # 0 THEN "wait_child" ELSE "right"]
  /\ UNCHANGED grepIn

LeftExit(p) ==
  /\ At(p, "left") /\ shell.cmd = "exit"
  /\ SysExit(p)
  /\ Receive(Readers(WrittenBy(p)), 0, [prog EXCEPT ![p] = "none"])
  /\ Goto("gone")

(* sys_wait: SYS_WAIT blocks only while the PID is in use. *)
Wait(p, t) ==
  /\ \/ SysWait(p, t)
     \/ t \notin Active /\ UNCHANGED vars
  /\ UNCHANGED <<prog, grepIn>>

WaitChild(p) ==
  /\ At(p, "wait_child")
  /\ Wait(p, shell.child)
  /\ Goto("right")

(* The right side: grep in a thread of its own; then both threads are      *)
(* waited for and the pipe is closed.                                      *)
Right(p) ==
  /\ At(p, "right")
  /\ \/ /\ ~shell.is_piping
        /\ Goto("prompt")
        /\ UNCHANGED <<vars, prog, grepIn>>
     \/ /\ shell.is_piping /\ shell.right = "other"
        /\ Goto("wait_left")
        /\ UNCHANGED <<vars, prog, grepIn>>
     \/ /\ shell.is_piping /\ shell.right = "grep"
        /\ SpawnThread(p, "grep")
        /\ shell' = [shell EXCEPT !.pc = "wait_left", !.right_pid = NewPid]

WaitLeft(p) ==
  /\ At(p, "wait_left")
  /\ Wait(p, shell.left_pid)
  /\ Goto("wait_right")

WaitRight(p) ==
  /\ At(p, "wait_right")
  /\ Wait(p, shell.right_pid)
  /\ Goto("close")

(* Mutant of ClosePipe: only after a grep. *)
ClosePipe_GrepOnly(p) ==
  /\ At(p, "close")
  /\ IF shell.right_pid # 0 THEN PipeClose(p) ELSE UNCHANGED vars
  /\ Goto("prompt")
  /\ UNCHANGED <<prog, grepIn>>

ClosePipe(p) ==
  /\ At(p, "close")
  /\ PipeClose(p)
  /\ Goto("prompt")
  /\ UNCHANGED <<prog, grepIn>>

-----------------------------------------------------------------------------
(* Mutant of Ls: sys_pipe_wr_close may come before the last chunk. *)
Ls_CloseEarly(p) ==
  /\ Calls(p) /\ prog[p] = "ls"
  /\ \/ WriteChunk(p)
     \/ /\ CloseWrite(p, [prog EXCEPT ![p] = "exit"])
        /\ UNCHANGED shell

(* Mutant of Ls: sys_pipe_wr_close forgotten. *)
Ls_NoClose(p) ==
  /\ Calls(p) /\ prog[p] = "ls"
  /\ \/ WriteChunk(p)
     \/ /\ shell.sent = shell.len
        /\ prog' = [prog EXCEPT ![p] = "exit"]
        /\ UNCHANGED <<vars, shell, grepIn>>

(* ls_thread_func, after the answer of the block driver. *)
Ls(p) ==
  /\ Calls(p) /\ prog[p] = "ls"
  /\ \/ WriteChunk(p)
     \/ /\ shell.sent = shell.len
        /\ CloseWrite(p, [prog EXCEPT ![p] = "exit"])
        /\ UNCHANGED shell

(* Mutant of Grep: the end of file is looked at before the data. *)
Grep_EofFirst(p) ==
  LET pipe == g_pipes[PipeOf(p)]
  IN  /\ Calls(p) /\ prog[p] = "grep"
      /\ \/ /\ ~pipe.eof
            /\ PipeRead(p)
            /\ IF pipe.buffer = <<>>
               THEN prog' = [prog EXCEPT ![p] = "grep_wait"] /\ UNCHANGED grepIn
               ELSE grepIn' = Append(grepIn, Head(pipe.buffer)) /\ UNCHANGED prog
         \/ /\ pipe.eof
            /\ prog' = [prog EXCEPT ![p] = "exit"]
            /\ UNCHANGED <<vars, grepIn>>
      /\ UNCHANGED shell

(* grep_thread_func: bytes up to the first 0, which is the end of file. *)
Grep(p) ==
  LET pipe == g_pipes[PipeOf(p)]
  IN  /\ Calls(p) /\ prog[p] = "grep"
      /\ \/ /\ PipeRead(p)
            /\ IF pipe.buffer = <<>>
               THEN prog' = [prog EXCEPT ![p] = "grep_wait"] /\ UNCHANGED grepIn
               ELSE grepIn' = Append(grepIn, Head(pipe.buffer)) /\ UNCHANGED prog
         \/ /\ pipe.buffer = <<>> /\ pipe.eof
            /\ prog' = [prog EXCEPT ![p] = "exit"]
            /\ UNCHANGED <<vars, grepIn>>
      /\ UNCHANGED shell

(* sys_thread_exit *)
ExitThread(p) ==
  /\ prog[p] = "exit"
  /\ ThreadExit(p)
  /\ Receive(Readers(WrittenBy(p)), 0, [prog EXCEPT ![p] = "none"])
  /\ UNCHANGED shell

(* test.cpp: print the banner and exit. *)
App(p) ==
  /\ prog[p] = "app"
  /\ SysExit(p)
  /\ Receive(Readers(WrittenBy(p)), 0, [prog EXCEPT ![p] = "none"])
  /\ UNCHANGED shell

(* Mutant of Ready: the driver does not report. *)
Ready_Silent(p) ==
  /\ Calls(p) /\ prog[p] = "init"
  /\ prog' = [prog EXCEPT ![p] = "none"]
  /\ UNCHANGED <<vars, shell, grepIn>>

(* A driver has finished its initialisation. *)
Ready(p) ==
  /\ prog[p] = "init"
  /\ DriverReady(p)
  /\ prog' = [prog EXCEPT ![p] = "none"]
  /\ UNCHANGED <<shell, grepIn>>

(* A fault, and its recovery.  A shell that is started again is new; what  *)
(* it was doing is forgotten.                                              *)
Recovered(p) ==
  /\ generic_recover_process(p)
  /\ prog' = [q \in Pid |-> IF q = NewPid /\ pcbs'[q].name \in Driver THEN "init"
                            ELSE IF ~pcbs'[q].active THEN "none" ELSE prog[q]]
  /\ shell' = IF pcbs[p].name = "shell" THEN NewShell ELSE shell
  /\ UNCHANGED grepIn

Crash(p) == At(p, "crash") /\ Recovered(p)

FaultOf(p) == Calls(p) /\ pcbs[p].name \in MayFault /\ Recovered(p)

ShellStep(p) ==
  \/ WaitForDrivers(p) \/ GetShm(p) \/ MakePipe(p)
  \/ LeftLs(p) \/ LeftPlain(p) \/ LeftWrite(p) \/ LeftExec(p) \/ LeftExit(p)
  \/ WaitChild(p) \/ Right(p) \/ WaitLeft(p) \/ WaitRight(p) \/ ClosePipe(p)
  \/ Crash(p)

OtherStep(p) == Ls(p) \/ Grep(p) \/ ExitThread(p) \/ App(p) \/ Ready(p)

JobsNext ==
  \E p \in Pid : ShellStep(p) \/ OtherStep(p) \/ Prompt(p) \/ FaultOf(p)

(* All processes but the rootserver run at priority 254, in turn, and wait *)
(* in line at its endpoint: a process that can go on does.  The user may   *)
(* stop typing.                                                            *)
JobsSpec ==
  /\ JobsInit /\ [][JobsNext]_jobVars
  /\ \A p \in Pid : WF_jobVars(ShellStep(p)) /\ WF_jobVars(OtherStep(p))
-----------------------------------------------------------------------------
(* The shell, its threads and the pipe's reader are where the code has     *)
(* labels for them, and no more is written than there is.                  *)
JobTypeOK ==
  /\ shell.pc \in {"start", "shm", "prompt", "pipe", "left", "write", "wait_child",
                   "right", "wait_left", "wait_right", "close", "crash", "gone"}
  /\ shell.sent \in 0 .. shell.len /\ shell.len \in 0 .. MaxOut
  /\ {shell.left_pid, shell.right_pid, shell.child} \subseteq Pid0
  /\ prog \in [Pid -> {"none", "init", "app", "ls", "grep", "grep_wait", "exit"}]
  /\ grepIn \in Seq(Byte)

(* What grep has read, followed by what is still in the pipe, is the       *)
(* output in the order in which it was written, without gaps if it fits in *)
(* the buffer; and grep stops only after the last byte.                    *)
PipelineInOrder ==
  \A p \in Active : pcbs[p].name = "shell" /\ pcbs[p].pipe_fd # NoPipe =>
    LET pipe == g_pipes[pcbs[p].pipe_fd]
        flow == grepIn \o pipe.buffer
    IN  /\ \A j, k \in 1 .. Len(flow) : j < k => flow[j] < flow[k]
        /\ shell.len <= PipeSize => flow = [k \in 1 .. shell.sent |-> k]
        /\ shell.right_pid # 0 /\ prog[shell.right_pid] = "exit" =>
             pipe.buffer = <<>> /\ shell.sent = shell.len

(* Every pipe that a command has opened is closed when the prompt is back. *)
PipesClosed ==
  shell.pc = "prompt" => \A i \in PipeId : ~g_pipes[i].active

(* The process the shell is asleep for is the one it started: the program  *)
(* of exec, or a thread of the pipeline.  sys_wait has only a PID, and the *)
(* process may have ended, and its PID may be in use again, before the     *)
(* call.                                                                   *)
WaitsForOwnJob ==
  \A p \in Active : pcbs[p].name = "shell" /\ pcbs[p].waiting_for # 0 =>
    pcbs[pcbs[p].waiting_for].name =
      IF shell.pc = "right" THEN "app" ELSE "shell_thread"

(* The prompt comes only after every driver has reported that it is ready. *)
PromptAfterDrivers == shell.pc = "prompt" => AllDriversReady(driver_ready)

(* Every job ends, the boot included: once nothing faults any more, and as *)
(* long as the root CNode has a slot for each caller that must wait, the   *)
(* shell comes back to its prompt (or has left by exit).                   *)
NoMoreFaults == <>[][\A p \in Pid : ~FaultOf(p)]_jobVars
ShellReturns ==
  [](~halted /\ replies[NoSlot] = 0) /\ NoMoreFaults
  => (shell.pc \notin {"prompt", "gone"} ~> shell.pc \in {"prompt", "gone"})
=============================================================================
