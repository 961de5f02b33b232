# Psych Ward OS: a TLA+ verification project

Psych Ward OS is a small multi-server operating system on the seL4 microkernel.
Its own code is the directory `projects/sel4test/apps/sel4test-driver/src/`
(called `D/` below): a root server, four drivers, a shell and a test program.
The rest of the repository (kernel, libraries, the remains of the seL4 test
suite) is vendored. This project models the parts of `D/` that hold the system
together, checks them with TLC on small instances and proves the central
invariants with TLAPS for every size.

## 1. Inventory

### The parts

| Part | Code | State it keeps | Operations |
|---|---|---|---|
| Slot allocator | `allocator.cpp` | bump pointer, stack of returned slots (256) | `alloc_slot`, `free` |
| Root server: lifecycle | `main.cpp` | `pcbs[256]`: PID, name, tracked caps, VSpace, whom it waits for, reply cap, SHM copies | spawn, recover, page fault, fault, CLONE, THREAD_EXIT, EXEC, KILL, EXIT, WAIT, RECOVER, SHM_GET |
| Root server: pipes | `main.cpp` | `g_pipes[16]`: buffer, end of file, reader's reply cap, writer | PIPE, PUTS, READ, PIPE_WR_CLOSE, PIPE_CLOSE |
| Root server: readiness | `main.cpp` | `driver_ready[]`, the waiting shell's reply cap | DRIVER_READY, WAIT_ALL_DRIVERS_READY |
| Shell | `shell.cpp` | current command, pipe, PIDs of its job, current directory | pipelines, `exec`, file and network commands |
| UART driver | `uart_driver.cpp`, `uart.cpp` | keyboard ring, output buffer per sender | interrupt, PUTS, READ, FLUSH |
| Time driver | `timer_driver.cpp`, `hw_timer.cpp` | boot epoch, NTP offset | interrupt, GET_TIME, SET_TIME_OFFSET, uptime |
| Block driver | `blk_driver.cpp` | virtio queue, DMA pages | sector read and write with time-outs, the VFS dispatcher |
| FAT32 | `fat32.cpp` | allocation table, directories, current directory | create, write, delete, rename, mkdir, cd, list, read |
| Network driver | `net_driver.cpp` | virtio queues, ARP table, pending command, NTP state | ping, UDP, DNS, NTP, polling |
| Test program | `test.cpp` | none | prints and exits |

### How they interact

Every process talks to the root server with `seL4_Call`: it blocks until the
root server replies. The root server is one thread; it handles one message at a
time, but it may keep the caller's reply capability in a slot of its CNode
(SYS_WAIT, SYS_READ on an empty pipe, SYS_WAIT_ALL_DRIVERS_READY) and answer it
in the course of another call. Faults arrive at the same endpoint; the handler
ends the process and starts drivers and the shell again. The shell calls the
drivers directly and shares 16 KB of memory with all of them, in which names,
file contents and the network mailbox live. For EXEC the root server itself
calls the block driver and waits.

### What is hard here, and what correctness means

* **Capability slots.** A slot is owned by one table entry or by the allocator.
  Every path that returns slots (recovery, thread exit, wake-ups, roll-backs)
  has to delete the capability, return the slot once and forget it. Two owners
  mean that a delete destroys somebody else's capability. Properties:
  `NoAliasing`, `FreeSlotsEmpty`, `NoSlotLeak`, and for the allocator the
  refinement of `ExclusiveSlots`.
* **Saved reply capabilities.** A caller that is kept waiting must be answered
  exactly when the event it waits for has happened. Properties: `NoMissedWake`,
  `NoPrematureWake`, `PipeReaderSound`.
* **Recovery at any moment.** Properties: `OneInstance`, `ShellReturns` under
  faults, `PromptAfterDrivers`.
* **Jobs.** A pipeline is two threads, a pipe and a shell that waits for both.
  Properties: `PipelineInOrder`, `PipesClosed`, `WaitsForOwnJob`,
  `ShellReturns`.
* **Updates of several sectors.** A file command is a series of sector writes,
  and the driver may be killed or a write fail between any two. Properties:
  `NoSharedCluster`, `NoDangling`, `NoLeak`, `NoCycle`, `NothingBehindEnd`,
  `TreeSound`, `CommandReturns`, and the refinement `ExclusiveClusters`.
* **A disk that answers late.** All requests share one header, one data page and
  one chain of descriptors. Properties: `ReadRight`, `WriteRight`,
  `RequestReturns`.
* **An unreliable network.** Packets are lost, late, repeated; the driver, the
  shell and the clock of the time driver have to agree all the same. Properties:
  `ReadyOnce`, `PendingServed`, `NoLostWake`, `FirstSyncRight`, `BootCompletes`.
* **Shared memory without a lock** (`vfs_lock` does nothing, its pointer is never
  set): not modelled, listed as a hazard.

`PROJECT.json` lists every hazard with its line and the property that covers
it, or the reason why none does yet.

## 2. Modules

| Module | What it is |
|---|---|
| `ExclusiveSlots` | Abstract: slots are granted to a client only while nobody holds them, and returned by their holder. |
| `SlotAllocator` | `PsychAllocator`, with the stack as a sequence and the bump pointer as a number. Also a second `free` of a slot that is in the pool, which the code detects, and a `free` that finds the pool full, which loses the slot. |
| `SlotAllocator_proofs` | Type invariant, a sound stack, no aliasing, and the refinement, for every size. |
| `Rootserver` | The root server. |
| `Rootserver_proofs` | Type invariant, `NoAliasing`, `PipeReaderSound`, for every size. |
| `RootserverWake_proofs` | The same for `FreeSlotsEmpty`, `NoMissedWake`, `OneInstance` and the action property `NoPrematureWake`. |
| `ShellJobs` | EXTENDS `Rootserver`: the shell's `main()`, its threads, drivers that report readiness, a test program. |
| `ShellJobs_proofs` | The five invariants of `ShellJobs`, for any number of PIDs, pipes, slots, commands and bytes. |
| `Fat32` | The file system as a machine of sector writes; its refinement of `ExclusiveSlots`. |
| `Fat32_proofs` | Type invariant, `NoSharedCluster`, `NoDangling`, for every disk. |
| `Fat32Tree_proofs` | On top of it `TreeSound`, `NoLeak`, `NoCycle`, the refinement `ExclusiveClusters`, `NothingBehindEnd`, and that Floyd's check never takes a chain for a cycle. |
| `BlkVirtio` | The disk requests of the block driver and the virtio device. |
| `BlkVirtio_proofs` | All three invariants of `BlkVirtio`, for any number of requests and restarts. |
| `NetDriver` | The network driver, the clock of the time driver, the shell's network commands and the mailbox between them. |
| `NetDriver_proofs` | All five invariants of `NetDriver`, for every network, time-out and skew. |
| `MCSlotAllocator`, `MCRootserver`, `MCShellJobs`, `MCFat32`, `MCBlkVirtio`, `MCNetDriver` | Instances for TLC. `MCFat32` also compares Floyd's algorithm with its definition on all tables of its size (`FloydExact`). |

### Rootserver

One action is one turn of the main loop of `main.cpp`, from `seL4_Recv` to the
reply or to the saved reply capability. The variables are the tables of the
code (`pcbs`, `g_pipes`, `driver_ready`, `driver_ready_wait_reply`), the
allocator as two sets (`fresh_slots` above the bump pointer, `free_slots` in the
stack), and of the kernel what the tables must agree with: which slots are
occupied, whose reply capability a slot holds, and whether a thread runs or is
blocked. The allocator prefers returned slots to fresh ones as the code does;
which returned slot it takes is a choice (the order of the stack is in
`SlotAllocator`).

* `spawn_process`, `generic_recover_process` and `SYS_CLONE` take `ProcCaps` or
  `ThreadCaps` slots and put them into the tracker; the code's numbers (about 20
  to 60, depending on the ELF) are constants. Not enough slots, or a full
  tracker, ends in `while(1)`: `Panic`, variable `halted`.
* `generic_recover_process` is one action with all its effects: waiters are
  answered and their reply caps deleted (but their slots not returned: line
  571), the process is suspended, tracked slots are revoked, deleted and
  returned, SHM copies as well, a driver or the shell is spawned again under
  another PID, and only then the old PID becomes free.
* `SysKill` and `SysExit` follow the code in deleting three capabilities and
  returning no slot.
* `ShmGet` has a disjunct for success, for lack of slots, for a failing map and
  for the panic in `map_frame_robust`; the roll-back returns all slots in
  `shm_copies` and leaves them there.
* Slot 0, which `alloc_slot` returns when it has nothing, can be the target of
  `SaveCaller`: the caller then stays blocked.
* Calls that only compute a reply are stuttering steps. The outcome of
  `load_elf_from_disk` is a choice.

### ShellJobs

A step of a program is a step of `Rootserver`, so the two cannot disagree about
the tables. The shell's `main()` is a control state `shell.pc` with the local
variables that matter; commands are classified by what they do to a pipe and to
the process table (comment at `Commands`). Output is the sequence 1, 2, ..,
`len`: the properties tell bytes apart by their position only.

### Fat32

The state is the FAT, the 32-byte slots of the directories, the working directory
and the local variables of the command in progress (`op`). A command starts with
what it finds out by reading (`Start`) and goes on with one action per sector
write, in the order of the code, which the operators `AfterWrite`, `AfterDelete`
and `AfterRename` give as a sequence of stages: grow the directory, free the old
chain cluster by cluster, allocate and link the new one, write the long name,
the entry, "." and "..". `Crash` (the driver is killed and mounts the disk again)
and `WriteFails` (a directory write returns false) may come between any two.

* A long name takes one slot in front of the entry, so that the search for
  consecutive slots, a long name that straddles two clusters, and a directory
  that grows for the second slot are all reached with two slots per cluster.
* `touch` writes no long name, `mv` does: as in the code. `mv` to a short name
  rewrites the entry in place and keeps a long name in front of it.
* The code never looks at the directory attribute. The constant `Careful` says
  that the user gives files to `rm` and `echo >` and directories to `cd`, and
  leaves a file alone whose overwriting failed; the run `fat32` and the proofs
  have it, `disk_full` has not.
* The working directory stands for the directory part of a path, which the shell
  puts in front of every name.
* Two history variables serve the properties: `torn` (entries whose
  overwriting was not finished) and `leaky` (a chain may have lost its entry).
  Counters bound the commands and the failures of a run.

### BlkVirtio

The stores of `hardware_virtio_read` and `hardware_virtio_write` are steps of
their own, because a device with an old request can look at the header while the
driver changes it. The device takes a request when the index allows it and reads
the header then; it completes requests in order or in any order (chosen at the
start), well or with an error; it moves data only where the flag of the data
descriptor fits the request, and takes nothing from a queue that is longer than
agreed. A killed driver starts again with the reset of `main()`: status register,
queue page, descriptors, in this order.

### NetDriver

Each thing the driver's loop polls is an action: a received packet (`net_poll`),
a command (`net_handle_command`), and the four deadlines. The shell's side is
`Send`, `wait_for_net_mailbox` and its time-out with SYS_RECOVER, which starts a
new driver but leaves the time driver's offset. A packet stays on the network
after it was received, until it is lost: that is delay, reordering and
duplication in one. Packets carry what the properties need: a ping's number, and
for NTP when the question and the answer were sent.

## 3. Runs

| Run | Instance | Checks |
|---|---|---|
| `slot_allocator` | 4 slots, 2 clients, pool of 2 | `TypeOK`, `PoolSound`, `NoAliasing`, `Refinement` |
| `root_lifecycle` | 3 PIDs, 1 driver, 6 slots, pool of 2, SHM of one page, failing maps, no pipe | `TypeOK`, `NoAliasing`, `FreeSlotsEmpty`, `NoMissedWake`, `OneInstance`, `NoPrematureWake` |
| `root_pipes` | 3 PIDs, shell and its threads, 5 slots, 1 pipe of 1 byte, chunks of 1 or 2 bytes | `TypeOK`, `NoAliasing`, `PipeReaderSound` |
| `shell_jobs` | 3 PIDs, all kinds of commands, 1 pipe of 2 bytes, output longer than the pipe | `JobTypeOK`, `PipelineInOrder`, `PipesClosed`, `WaitsForOwnJob` |
| `shell_returns` | `ls` or a text command, piped into `grep` | `PipelineInOrder`, liveness `ShellReturns` |
| `boot` | 1 driver and the shell, both may fault at any time | `PromptAfterDrivers`, liveness `ShellReturns` |
| `fat32` | 3 clusters, 2 slots per directory cluster, a short and a long name, 5 commands, 1 crash or failing write | `TypeOK`, `NoSharedCluster`, `NoDangling`, `NoLeak`, `NoCycle`, `NothingBehindEnd`, `TreeSound`, refinement `ExclusiveClusters`, liveness `CommandReturns` |
| `block_queue` | 2 sectors, 3 requests, a queue of 2, 1 restart, any time-outs | `TypeOK`, `ReadRight`, `WriteRight`, liveness `RequestReturns` |
| `net` | 2 commands of all kinds, 2 packets under way, clock up to 2 (longer during a boot), ping numbers modulo 2 | `TypeOK`, `ReadyOnce`, `PendingServed`, `NoLostWake`, `FirstSyncRight`, liveness `BootCompletes` |
| `exit_leak` | as `root_lifecycle` | violation: `NoSlotLeak` |
| `disk_full` | as `fat32`, without `Careful` and without crashes | violation: `NoCrossLink` |
| `clock_resync` | no commands, boot and periodic synchronisation | violation: `EverySyncRight` |

**Why the bounds are enough to be interesting.** Three PIDs are a shell with a
writer and a reader, or a driver, a shell and a child, and the process table is
full in reachable states. Five to seven slots with two per process let the
CNode run dry, so that every out-of-slots branch and the panic are reached; a
pool of two overflows when one process with SHM ends. A
pipe of one byte and chunks of two give accepted, partly accepted and dropped
messages; `shell_jobs` has a pipe of two bytes and up to three of output, where order counts.
Three clusters are a root directory that grows and one file, or a root, a
directory and a file, and the disk is full in many states; five commands are
enough for: create, write, remove, and two that use what was freed. Three
requests are one that times out, one that runs into its late answer, and one
after that; a queue of two is over-full after three time-outs. Two network
commands are one that leaves something under way and one that meets it; with
numbers modulo 2 every ping wraps.
Slots are interchangeable (`SlotSymmetry`) except where liveness is checked,
where symmetry would be unsound and is not used. `CHECK_DEADLOCK FALSE` is set
since a system in which everybody has ended, or the root server has panicked,
really stops; unwanted stops are what `ShellReturns` is about.

**Fairness.** `JobsSpec` has weak fairness of the steps of each process. All
processes but the root server have priority 254 and are scheduled round-robin;
the root server has a higher one, and callers wait in line at its endpoint, so
a process that can take its next step eventually does. Nothing is assumed of
the user (`Prompt`) or of faults. `Fat32` and `BlkVirtio` assume that the
driver's thread runs (`WF(Step)`, `WF(Driver)`): a time-out is a count of turns
of a loop, so it comes if the thread runs, and nothing is assumed of the device.
`NetDriver` assumes that time passes and that the loop reaches its last test, and
nothing of the network, the shell or the user. `ShellReturns` speaks of behaviours in which
faults stop at some time, and in which no caller had to be saved in slot 0.

## 4. What the violations show

* `exit_leak`: `SYS_EXIT` does not return the slots of the process; after
  enough programs `spawn_process` panics. The repository's README promises the
  opposite (line 56).
* `disk_full`: `echo >` on an existing file frees the old clusters first. When
  the new ones do not fit, the entry keeps the number of a free cluster, and the
  next file gets it. The comment on `fat32_write_file` says the rewrite was made
  to stop writes into clusters of others.
* `clock_resync`: the second synchronisation measures the corrected clock, finds
  no error and stores "no correction". With a PL031 that is wrong, the clock is
  right and wrong in turns, half an hour each.

Three more disagreements are reproduced by changing constants of a passing run;
they are listed as hazards:

* `root_lifecycle` with `ShmOnce = FALSE` and `ShmPages = 2` violates
  `NoAliasing`: a `SYS_SHM_GET` that fails after an earlier one leaves returned
  slots in `shm_copies`, and the next failure returns them again. The programs in the repository call it once.
* `shell_returns` with `Command <- SilentPipeline` violates `ShellReturns`
  (`pwd | grep x`): only `ls`, `help`, `ps`, `echo` and `cat` close the pipe. The
  intended safety net, the end of file at `SYS_THREAD_EXIT`, needs the thread to
  be registered as the writer, and the shell passes its slot number 20 as pipe id
  (line 1204 of `main.cpp`).
* `shell_jobs` with `Command <- Foreground`, `BootOrder <- OneDriver` and
  `MayFault = {"blk_driver"}` violates `WaitsForOwnJob`: `SYS_WAIT` cannot tell a
  finished child from a process that has its PID now.

The conditions in `ReadRight` and `WriteRight` are needed as well; without them
TLC finds: a write that timed out leaves the data descriptor without its WRITE
flag, and the next read succeeds without having moved data; a late read
overwrites the data page of the following write; a device that does not work in
order puts a late answer on top of the one awaited.

## 5. Proofs

All theorems are about any number of PIDs, pipes, slots, bytes, clusters,
sectors or packets that satisfy the named assumptions of the modules
(`BootAssumption`, `SlotAssumption`, `PipeAssumption`, `FlagAssumption`,
`DiskAssumption`, `NameAssumption` and so on), which TLC evaluates on every run.
One part of `BootAssumption` is there for the proofs: the drivers of `BootOrder`
are pairwise different, as the calls of `spawn_process` in `main()` are.

Some theorems have a hypothesis on the constants besides; each stands for
behaviour of the code that really breaks the property, and section 4 or the
comment at the hypothesis names the counterexample:

| Hypothesis | Theorems | Meaning |
|---|---|---|
| `ShmOnce` | `Rootserver`, `ShellJobs` | a process asks for shared memory once |
| `PipelinesEnd` | `PipesAreClosed` | the shell is not killed, and a left command that goes straight back to the prompt has no right side |
| `DriversStay` | `WaitsOnlyForOwnJob` | drivers do not fault |
| `Careful` | `Fat32` | the user does what the code does not check (section 2) |

All of them are satisfied by the constants of the passing run that checks the
same property.

**SlotAllocator.** The invariant `PoolSound` (the stack has no duplicates and
lies below the bump pointer) is what makes `NoAliasing` inductive: without it a
pop could return a slot that is still in the stack. The refinement follows with
`held` as the abstract state.

**Rootserver: ownership.** For `ShmOnce`, the inductive invariant `Inv` is `TypeOK` and
`NoAliasing`, strengthened by the one fact that the lookup of a thread's pipe
needs: the entry of a thread has a parent in the table. `NoAliasing` is inductive
together with `TypeOK` because every entry that gives up a slot is cleared in
the step that returns the slot. The proof first restates `NoAliasing` as a fact
about a map from owners to sets of slots (each owner's set is disjoint from the
others and from what is available), and proves once what handing slots to an
owner, taking them away and returning some of them do to such a map; then
there is one lemma per action, with a step for the process table, one for the
other tables and one for ownership. Facts about `Freed` (what a pool that
overflows keeps) and `Grants` (what an allocation may hand out) are lemmas of
their own. `TypeCorrect` and `NoSlotHasTwoOwners` are consequences;
`ReadersNeverMissData` adds `PipeReaderSound`, which is inductive relative to
`Inv`.

**Rootserver: waiting and waking.** `KInv` adds to `Inv` what ties the tables to
the kernel. `SlotsSound`: a slot with a capability is not available, a slot with
a reply capability belongs to no object and the other way round; `FreeSlotsEmpty`
follows. It is proved once for every step that keeps to `SlotsStep` (slots move
from the allocator to an entry, and back only when they were emptied), and the
actions are shown to keep to it. `RepliesSound`: a saved reply capability is that
of a live process that does not run, and no process has two. `WaitersSound`: a
process in SYS_WAIT is the shell, is blocked, waits for a live PID, and the only
capability that can wake it is the one in its PCB. With `OneInstance` (only one
process can wait at a time) these give `NoMissedWake`, and `NoPrematureWake` as a
step property: whatever else is answered, the answer goes to a slot that is not
the waiter's.

**ShellJobs.** Every step of a program is a step of `Rootserver` or leaves its
tables alone, so `KInv` carries over. `JobInv` adds who uses the pipe: a live `ls`
or `grep` thread is the one of the job at hand (`ThreadsSound`), since the shell
sleeps until it has ended, and nothing but that end wakes the shell (`KInv`
again). A `grep` that sleeps does so in the reader slot of this pipe
(`ReaderSound`), so that a write hands it the next byte and the end of file a 0;
the end of file is set after the last byte (`EndSound`). `FlowSound` is then the
order of bytes. `BootSound` says that a shell that is past its readiness call
without all drivers being ready is asleep in the one slot that
SYS_DRIVER_READY answers. Two more invariants, on top of `JobInv`, are for
`PipesClosed` (a pipe exists only between SYS_PIPE and the close of the same
command line) and for `WaitsForOwnJob` (a PID that the shell remembers is not
given away before it was waited for, since nothing is started meanwhile).

**Fat32: references.** The theorems have the assumption `Careful` (`disk_full` is the
counterexample without it) and hold for every number of clusters, slots, names,
commands, crashes and failing writes. `NoSharedCluster` and `NoDangling` are not
inductive by themselves: a command carries clusters in its local variables that
no entry refers to yet (a chain being built, the file that `mv` has taken out of
the directory) or no longer (the rest of a chain being freed). The inductive
invariant adds three parts. `StagesSound` says that each command passes through
its own stages; `LocalsSound` that the locals fit the stage; `Hands` that what
the command holds in its hands is referred to by nobody else, which is what makes
writing the entry safe. There is one lemma per
action, on top of lemmas about the effect of changing one FAT entry, one slot or
one directory on `Ref`.

**Fat32: the tree.** `TreeInv` is relative to that invariant. `DirsSound` tells
directories from files along whole chains: a cluster and its successor are of the
same kind, slots marked as directories lead to directories, the others to none.
`StageSound` is what each stage of a command may rely on: the slot to be written
is vacant, the cluster to be linked is blank and the end of its chain, the chain
to be freed is no directory's, the new directory of `mkdir` is entered by nobody.
`AllFound` accounts for every cluster, referred to or in the command's hands.
`Acyclic` says that every set of clusters has one whose link leads out of it, a
form of "no cycles" without a word about chains, which a step keeps because it
links only to a cluster that is the end of its chain. Each action lemma also
shows that at most one reference moves (`RefMove`), which is the step of the
refinement. `NoCycle` then speaks of `Chain`, a recursive function: that it exists
and is a path along the links is shown by induction, in the form of the least
element of a set of numbers (`LeastNumber`, `Induction`), which needs none of the
library's theorems with an operator as parameter; a path that did not end would
pass a cluster twice (pigeonhole), and what lies between would contradict
`Acyclic`.

**Fat32: the end of a directory.** A listing stops at the first slot of kind
"end", so `NothingBehindEnd` says that the driver never writes behind one.
`EndInv`, inductive relative to the two invariants above, says it link by link,
without numbering slots: within a cluster nothing but "end" follows an "end", and
a cluster that contains one is followed only by clusters that are "end"
throughout (`EndsSound`); a directory is entered at the head of its chain and
never in the middle (`HeadsSound`); and a command that holds a slot in its locals
has no "end" in front of it (`StageEnd`, with `GrowEnd` and `DotsEnd` for a
directory that grows and for the first cluster of `mkdir`). The numbering of slots
along a chain is related to the links once, by lemmas on paths, for the two
searches that choose a slot (`RoomEnd`, `RunEnd`).

**Fat32: Floyd's algorithm.** `NeverRefused`: as long as nobody else writes the
disk, the tortoise and the hare never meet. After n rounds they are n and 2n links down
one path (`Apart`), and a path along the links passes no cluster twice
(`PathsDoNotMeet`, from `Acyclic`).

**BlkVirtio.** `IInv` adds to the three invariants what the stores of a request
have done so far (`Prepared`, `Kept`), how far the two indices can be apart when
no request is late (`Alone`), that a new instance starts from silence (`Silent`),
and what the last request in flight is and has left behind when it is the
awaited one (`Awaited`). The conditions in `ReadRight` and `WriteRight` on late
requests come in there.

**NetDriver.** `IInv` is the five invariants with three additions: `Counted`
(a series of pings has at least one, so the number left never goes below zero),
`DirectKnown` (a command carried out directly finds the router still known and
the boot over while the shell waits) and `TimesSound` (the times in packets are
not in the future, and before the first synchronisation the clock is the PL031
itself). `FirstSyncRight` needs the last: the offset computed from
an answer lies between the errors at its two ends.

**Only model-checked.** Liveness (`ShellReturns`, `CommandReturns`,
`RequestReturns`, `BootCompletes`): fairness and `ENABLED` are beyond the prover.
`FloydExact`, for the half that `NeverRefused` does not cover: that
`fat_chain_has_cycle` does report a cycle on a disk that has one. No state of this
driver's disk has one, so the half is about tables from elsewhere.

## 6. Not modelled

* The seL4 kernel, the libraries, musl and the remains of the seL4 test suite.
  They are vendored and are nearly all of the repository's lines; the system's
  own code is about twenty files in `D/`.
* The UART driver: it copies characters, one at a time; its line buffers are
  never filled in this version.
* Memory contents and ELF loading; device frames and untyped watermarks;
  `SYS_SLEEP` (no program uses it); output formatting, packet formats, the date
  arithmetic.
* Of FAT32: failing reads and failing writes to the FAT, the contents of files,
  the second copy of the FAT, commands that only read. Of the network driver:
  its virtio queues and the datagram kept for `recv`, and a machine without
  network hardware.
* The layout of the shared memory: names that are overwritten before they are
  read, the text of `echo` at the place of the network driver's receive queue.
* `kill` and `recover` as commands of the shell (as system calls they are in
  `Rootserver`).

Smaller hazards of this code that no property covers and that are not in
`PROJECT.json` for that reason: a reply slot of 0 when the pool is empty
(`main.cpp` 1064); a second reader of a pipe, and a pipe closed under its reader
(1006, 1037; no program does either); badges of interrupts that are also those of
PIDs 1 and 2 (`uart_driver.cpp` 86); `driver_ready`, never reset by a recovery
(1439); `mv` of a long name to a short one keeps the long name in front
(`fat32.cpp` 1143); writes to the FAT whose failure is ignored (172); a boot
time-out that forgets a pending `ntp` of the shell (`net_driver.cpp` 510); an
address of DNS that outlives the next question (`shell.cpp` 823); network
commands without network hardware (`net_driver.cpp` 1092).

A comment that does not fit the code any more: the one on `fat32_rename_file`
(lines 1117 to 1120) says that no long names are created; the code does create
them, and the model follows the code.

## 7. Plan

1. `Fat32` with failing reads, and over `BlkVirtio` instead of an ideal disk.
2. The shared memory: names, text and mailbox against the drivers' queues.
3. `ShellJobs`: `kill`, and clients of a recovered driver.
