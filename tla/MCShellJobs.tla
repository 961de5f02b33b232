----------------------------- MODULE MCShellJobs ----------------------------
(* Instances of ShellJobs.  The slots are interchangeable, which is used   *)
(* only where no liveness property is checked.                             *)
EXTENDS ShellJobs, TLC

OneDriver == <<"blk_driver">>
NoDrivers == <<>>
Bytes == 1 .. MaxOut
SlotSymmetry == Permutations(Slot)

(* The prompt, a pipe where there is none, and a restart of the shell. *)
BootJobs == {<<"silent", "none">>, <<"silent", "grep">>, <<"crash_shell", "none">>}

(* Pipelines whose left command closes the pipe. *)
PipelineJobs == {"ls", "text"} \X {"grep"}

(* These, commands alone, and some that are refused on the right side. *)
EndingJobs == ({"ls", "text"} \X {"grep", "other"})
              \cup ({"silent", "exec"} \X {"none", "other"})
              \cup ({"exec_bg", "crash_shell", "exit", "noarg"} \X {"none"})

(* A left command that writes nothing and does not close the pipe. *)
SilentPipeline == {<<"silent", "grep">>}

(* A program in the foreground. *)
Foreground == {<<"exec", "none">>}
=============================================================================
