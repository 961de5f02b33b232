------------------------------- MODULE Fat32 --------------------------------
(***************************************************************************)
(* The FAT32 file system of the block driver (fat32.cpp), as the shell     *)
(* commands touch, echo >, rm, mv, mkdir and cd drive it through           *)
(* blk_driver.cpp.  The block driver serves one command at a time; a       *)
(* command is a series of sector writes, and the model takes one step per  *)
(* write, so that the driver can be killed between any two of them (the    *)
(* rootserver's watchdog, SYS_RECOVER).  The disk survives; the working    *)
(* directory and the command do not.                                       *)
(*                                                                         *)
(* Of the disk the model keeps the FAT and the slots of directories.  What *)
(* a file contains is not modelled, so neither are the writes of           *)
(* write_chain_data().  A cluster is one sector.  The driver writes both   *)
(* copies of the FAT and reads the first, which is the one modelled.       *)
(*                                                                         *)
(* Paths have one component: the directory that the rest of a path leads   *)
(* to, which the shell puts in front of a name, is the working directory.  *)
(***************************************************************************)
EXTENDS Naturals, Sequences

CONSTANTS
  MaxCluster,    \* the clusters are 2 .. MaxCluster, and 2 is the root's
  SlotsPerDir,   \* 32-byte slots in a cluster of a directory
  Name,          \* what a user may type
  LongName,      \* names for which name_needs_lfn() holds
  Fmt,           \* format_fat32_name(): the 8.3 form of a name
  Alias,         \* the 8.3 form generate_short_alias() makes of a long name
  Careful,       \* the user gives files to rm and echo >, directories to cd,
                 \* and no longer uses a file when overwriting it failed; the
                 \* code checks none of this
  MaxLen,        \* clusters of data per echo >
  MaxCommands,   \* how many commands a user gives
  MaxFaults      \* how often the driver dies, or a write fails, during a command

ASSUME DiskAssumption ==
  /\ MaxCluster \in Nat /\ MaxCluster >= 2
  /\ SlotsPerDir \in Nat /\ SlotsPerDir >= 2
  /\ Careful \in BOOLEAN
  /\ MaxLen \in Nat /\ MaxCommands \in Nat /\ MaxFaults \in Nat

ASSUME NameAssumption ==
  /\ LongName \subseteq Name
  /\ \A n \in Name : Fmt[n] # Alias

VARIABLES
  fat,     \* the FAT
  data,    \* the slots of the clusters that belong to directories
  cwd,     \* fs->current_dir_cluster
  op,      \* the command in progress: its local variables
  torn,    \* history: entries whose overwriting was not finished
  leaky,   \* history: was a chain lost, with no entry that refers to it?
  faults,  \* history: number of faults so far
  commands \* history: number of commands so far

vars == <<fat, data, cwd, op, torn, leaky, faults, commands>>

-----------------------------------------------------------------------------
Free == 0
EOC  == 1                       \* any value from 0x0FFFFFF8 on
Root == 2
Cluster == 2 .. MaxCluster
SlotIdx == 1 .. SlotsPerDir
DirPlace == Cluster \X SlotIdx  \* the place of a slot on the disk

(* cluster_has_next *)
HasNext(v) == v \in Cluster

(* A slot: its first byte 0x00 ("end") or 0xE5 ("del"), a fragment of a    *)
(* long name ("lfn"), an entry ("ent"), "." or ".." ("dot").  The slots of *)
(* a cluster that is free or belongs to a file are "data".                 *)
Kind == {"end", "del", "lfn", "ent", "dot", "data"}
Text == Name \cup {Fmt[n] : n \in Name} \cup {Alias, ".", "..", "-"}
SlotVal == [kind : Kind, name : Text, clus : Cluster \cup {0}, dir : BOOLEAN]

Plain(k)    == [kind |-> k, name |-> "-", clus |-> 0, dir |-> FALSE]
Lfn(n)      == [kind |-> "lfn", name |-> n, clus |-> 0, dir |-> FALSE]
Ent(s, c, d) == [kind |-> "ent", name |-> s, clus |-> c, dir |-> d]
Dot(s, c)   == [kind |-> "dot", name |-> s, clus |-> c, dir |-> TRUE]

NoDir == [i \in SlotIdx |-> Plain("data")]
Blank == [i \in SlotIdx |-> Plain("end")]    \* zeroed by fat_alloc_chain

IsDir(c) == data[c] # NoDir
SlotAt(p) == data[p[1]][p[2]]

(* The command in progress: which one, the stage it is at, and its locals: *)
(* the slot to write and, for a long name, the one behind it; the last     *)
(* cluster of a directory that must grow; a cluster taken but not linked   *)
(* yet; the cluster fat_free_chain is at; the chain the new entry gets and *)
(* how much of it is missing; the 8.3 name, long name and kind of that     *)
(* entry; and whether the slot holds an entry that still refers to the     *)
(* chain that was freed.                                                   *)
Stage == {"idle", "grow", "free", "alloc", "mark", "run", "lfn", "entry", "dots"}
NoPlace == <<0, 0>>
Idle == [cmd |-> "none", at |-> "idle", slot |-> NoPlace, next |-> NoPlace, last |-> 0,
         new |-> 0, cl |-> 0, first |-> 0, prev |-> 0, need |-> 0,
         name |-> "-", long |-> "-", dir |-> FALSE, over |-> FALSE]

(* mkfs.fat: an empty root directory. *)
Init ==
  /\ fat = [c \in Cluster |-> IF c = Root THEN EOC ELSE Free]
  /\ data = [c \in Cluster |-> IF c = Root THEN Blank ELSE NoDir]
  /\ cwd = Root
  /\ op = Idle
  /\ torn = {}
  /\ leaky = FALSE
  /\ faults = 0
  /\ commands = 0

-----------------------------------------------------------------------------
(* Walking a chain. *)

(* fat_chain_has_cycle: the tortoise and the hare.  turn[n] is where   *)
(* they are after n turns.                                                 *)
fat_chain_has_cycle(f, start) ==
  LET turn[n \in 0 .. MaxCluster] ==
        IF n = 0 THEN [slow |-> start, fast |-> start, met |-> FALSE, ended |-> FALSE]
        ELSE LET t == turn[n - 1] IN
             IF t.met \/ t.ended THEN t
             ELSE IF ~HasNext(f[t.fast]) \/ ~HasNext(f[f[t.fast]])
             THEN [t EXCEPT !.ended = TRUE]
             ELSE [t EXCEPT !.slow = f[t.slow], !.fast = f[f[t.fast]],
                            !.met = f[t.slow] = f[f[t.fast]]]
  IN turn[MaxCluster].met

(* The clusters of the chain that starts at c, in order. *)
Chain(c) ==
  LET walk[n \in 1 .. MaxCluster] ==
        IF n = 1 THEN <<c>>
        ELSE LET w == walk[n - 1] IN
             IF HasNext(fat[w[Len(w)]]) THEN Append(w, fat[w[Len(w)]]) ELSE w
  IN walk[MaxCluster]

(* The slots of a directory with chain ch are numbered along the chain. *)
Numbers(ch) == 1 .. (SlotsPerDir * Len(ch))
PlaceOf(ch, k) == <<ch[((k - 1) \div SlotsPerDir) + 1], ((k - 1) % SlotsPerDir) + 1>>
Nth(ch, k) == SlotAt(PlaceOf(ch, k))

IsFirst(k, S) == k \in S /\ \A j \in S : k <= j

(* Slots in front of the true end of the directory. *)
InUse(ch, k) == \A j \in 1 .. k : Nth(ch, j).kind # "end"

(* Does the slot match the name?  A fragment of a long name directly in    *)
(* front of the slot takes precedence over the 8.3 name.                   *)
Matches(ch, k, n) ==
  /\ Nth(ch, k).kind \in {"ent", "dot"}
  /\ IF k > 1 /\ Nth(ch, k - 1).kind = "lfn"
     THEN Nth(ch, k - 1).name = n
     ELSE Nth(ch, k).name = Fmt[n]

(* dir_scan reports the first slot that matches and the first free one. *)
Matching(ch, n) == {k \in Numbers(ch) : Matches(ch, k, n) /\ InUse(ch, k)}
FreeNumbers(ch) == {k \in Numbers(ch) : Nth(ch, k).kind \in {"end", "del"}}

(* p is the place of the entry dir_scan finds for n in directory d. *)
Found(d, n, p) ==
  LET ch == Chain(d) IN
  /\ SlotAt(p).kind = "ent"
  /\ \E k \in Matching(ch, n) : IsFirst(k, Matching(ch, n)) /\ p = PlaceOf(ch, k)

Absent(d, n) == Matching(Chain(d), n) = {}

(* Slots a new entry may be written to, and clusters dir_grow may extend:  *)
(* the last one of the chain (DirSlot::last_clus).                         *)
IsFreePlace(p) == p \in DirPlace /\ IsDir(p[1]) /\ SlotAt(p).kind \in {"end", "del"}
IsLast(c) == c \in Cluster /\ IsDir(c) /\ ~HasNext(fat[c])

(* Where a command that found no entry puts a new one: the first free      *)
(* slot, or the cluster that dir_grow is to add.                           *)
Room(d) ==
  LET ch == Chain(d)
      free == FreeNumbers(ch)
  IN {[Idle EXCEPT !.slot = p] :
        p \in {q \in {PlaceOf(ch, k) : k \in {j \in free : IsFirst(j, free)}} : IsFreePlace(q)}}
     \cup
     {[Idle EXCEPT !.last = c] :
        c \in {b \in {ch[Len(ch)]} : free = {} /\ IsLast(b)}}

(* dir_find_or_grow_run: the first two consecutive free slots; else the    *)
(* free slot at the very end and the first of a new cluster; else a new    *)
(* cluster.  (Slots behind the end of a directory are zero.)               *)
Run(d, o) ==
  LET ch == Chain(d)
      free == FreeNumbers(ch)
      runs == {k \in free : k + 1 \in free}
      tail == SlotsPerDir * Len(ch)
  IN {[o EXCEPT !.slot = w[1], !.next = w[2]] :
        w \in {v \in {<<PlaceOf(ch, k), PlaceOf(ch, k + 1)>> : k \in {j \in runs : IsFirst(j, runs)}} :
                 IsFreePlace(v[1]) /\ IsFreePlace(v[2])}}
     \cup
     {[o EXCEPT !.slot = w[1], !.last = w[2]] :
        w \in {v \in {<<IF tail \in free THEN PlaceOf(ch, tail) ELSE NoPlace, ch[Len(ch)]>>} :
                 runs = {} /\ (v[1] = NoPlace \/ IsFreePlace(v[1])) /\ IsLast(v[2])}}

(* Mutant of FreeClusters: the last cluster of a chain counts as free. *)
FreeClusters_NoLink == {c \in Cluster : ~HasNext(fat[c])}

(* fat_find_free_cluster: the lowest free cluster. *)
FreeClusters == {c \in Cluster : fat[c] = Free}

-----------------------------------------------------------------------------
(* The order of a command's stages: After...(s, o) comes after s, "start"  *)
(* before the first.                                                       *)

(* What fat32_write_file and fat32_mkdir do once they have a slot: allocate *)
(* the chain, write the entry.                                             *)
Fill(o) == IF o.need > 0 THEN "alloc" ELSE "entry"

(* fat32_create_file, fat32_write_file and fat32_mkdir: a slot, the old    *)
(* chain freed, the new one allocated, the entry, "." and "..".            *)
AfterWrite(s, o) ==
  CASE s = "start" -> IF o.last # 0 THEN "grow" ELSE IF o.cl # 0 THEN "free" ELSE Fill(o)
    [] s \in {"grow", "free", "alloc"} -> Fill(o)
    [] s = "entry" -> IF o.cmd = "mkdir" THEN "dots" ELSE "idle"
    [] OTHER -> "idle"

(* Mutant of AfterDelete: the chain, then the entry. *)
AfterDelete_FreeFirst(s, o) ==
  CASE s = "start" -> IF o.cl # 0 THEN "free" ELSE "mark"
    [] s = "free"  -> "mark"
    [] OTHER -> "idle"

(* Mutant of AfterDelete: the chain is not freed. *)
AfterDelete_NoFree(s, o) == IF s = "start" THEN "mark" ELSE "idle"

(* fat32_delete_file: the entry, then the chain. *)
AfterDelete(s, o) ==
  CASE s = "start" -> "mark"
    [] s = "mark"  -> IF o.cl # 0 THEN "free" ELSE "idle"
    [] OTHER -> "idle"

(* Mutant of AfterRename: the new entry first. *)
AfterRename_EntryFirst(s, o) ==
  CASE s = "start" -> "run"
    [] s = "run"   -> IF o.last # 0 THEN "grow" ELSE "lfn"
    [] s = "grow"  -> "lfn"
    [] s = "lfn"   -> "entry"
    [] s = "entry" -> "mark"
    [] OTHER -> "idle"

(* fat32_rename_file with a long name: the old entry, slots for the new    *)
(* one, its long name, the entry.                                          *)
AfterRename(s, o) ==
  CASE s = "start" -> "mark"
    [] s = "mark"  -> "run"
    [] s = "run"   -> IF o.last # 0 THEN "grow" ELSE "lfn"
    [] s = "grow"  -> "lfn"
    [] s = "lfn"   -> "entry"
    [] OTHER -> "idle"

After(s, o) ==
  CASE o.cmd \in {"write", "mkdir"} -> AfterWrite(s, o)
    [] o.cmd = "delete" -> AfterDelete(s, o)
    [] o.cmd = "rename" -> AfterRename(s, o)

(* The command goes on behind stage s with locals o; it is over after the  *)
(* last stage.                                                             *)
Go(s, o) == op' = IF After(s, o) = "idle" THEN Idle ELSE [o EXCEPT !.at = After(s, o)]
Stay(o) == op' = o

-----------------------------------------------------------------------------
(* The start of a command: what it finds out by reading.  A command that   *)
(* is refused changes nothing.                                             *)

Ready == op = Idle /\ ~fat_chain_has_cycle(fat, cwd)

Start(o) == Go("start", o) /\ UNCHANGED <<fat, data, cwd, torn, leaky, faults>>

(* What a careful user gives to mv, to rm and echo >, and to cd. *)
Usable(p) == Careful => p \notin torn
Removable(p) == Usable(p) /\ (Careful => ~SlotAt(p).dir)
Enterable(p) == Careful => SlotAt(p).dir

(* fat32_create_file: an entry without clusters.  No long name is written. *)
fat32_create_file(n) ==
  /\ Ready /\ Absent(cwd, n)
  /\ \E o \in Room(cwd) : Start([o EXCEPT !.cmd = "write", !.name = Fmt[n]])

(* fat32_write_file: a file that exists keeps its name. *)
fat32_write_file(n, len) ==
  /\ Ready
  /\ \/ \E p \in DirPlace :
           /\ Found(cwd, n, p) /\ Removable(p)
           /\ Start([Idle EXCEPT !.cmd = "write", !.slot = p, !.cl = SlotAt(p).clus, !.need = len,
                                 !.name = SlotAt(p).name, !.dir = SlotAt(p).dir,
                                 !.over = SlotAt(p).clus # 0])
     \/ /\ Absent(cwd, n)
        /\ \E o \in Room(cwd) :
              Start([o EXCEPT !.cmd = "write", !.need = len, !.name = Fmt[n]])

(* fat32_delete_file *)
fat32_delete_file(n) ==
  /\ Ready
  /\ \E p \in DirPlace :
        /\ Found(cwd, n, p) /\ Removable(p)
        /\ Start([Idle EXCEPT !.cmd = "delete", !.slot = p, !.cl = SlotAt(p).clus])

(* fat32_rename_file: in place when the new name is short, else the old    *)
(* entry is marked and a new one written.                                  *)
fat32_rename_file(n, m) ==
  /\ Ready
  /\ \E p \in DirPlace :
        /\ Found(cwd, n, p) /\ Usable(p)
        /\ IF m \in LongName
           THEN Start([Idle EXCEPT !.cmd = "rename", !.slot = p, !.first = SlotAt(p).clus,
                                   !.dir = SlotAt(p).dir, !.name = Alias, !.long = m])
           ELSE /\ data' = [data EXCEPT ![p[1]][p[2]].name = Fmt[m]]
                /\ UNCHANGED <<fat, cwd, op, torn, leaky, faults>>

(* fat32_mkdir *)
fat32_mkdir(n) ==
  /\ Ready /\ Absent(cwd, n)
  /\ \E o \in Room(cwd) :
        Start([o EXCEPT !.cmd = "mkdir", !.need = 1, !.name = Fmt[n], !.dir = TRUE])

(* fat32_cd: "/", a directory in the working directory, or "..". *)
fat32_cd(c) ==
  /\ op = Idle
  /\ \/ c = Root
     \/ /\ Ready /\ \E n \in Name, p \in DirPlace :
           /\ Found(cwd, n, p) /\ Enterable(p)
           /\ c = IF SlotAt(p).clus = 0 THEN Root ELSE SlotAt(p).clus
     \/ /\ Ready /\ \E p \in DirPlace :
           /\ SlotAt(p).kind = "dot" /\ SlotAt(p).name = ".." /\ c = SlotAt(p).clus
           /\ LET ch == Chain(cwd) IN \E k \in Numbers(ch) : InUse(ch, k) /\ p = PlaceOf(ch, k)
  /\ cwd' = c
  /\ UNCHANGED <<fat, data, op, torn, leaky, faults>>

-----------------------------------------------------------------------------
(* The writes of a command.  At(s): the command is at stage s. *)

At(s) == op.at = s

SetFat(c, v) == fat' = [fat EXCEPT ![c] = v]
SetSlot(p, v) == data' = [data EXCEPT ![p[1]][p[2]] = v]

(* The command returns false and leaves the disk as it is. *)
GiveUp ==
  /\ op' = Idle
  /\ torn' = IF op.over THEN torn \cup {op.slot} ELSE torn

(* dir_grow: take a cluster and zero it; then hang it on the directory. *)
GrowAlloc ==
  /\ At("grow") /\ op.new = 0
  /\ \/ \E c \in Cluster : /\ IsFirst(c, FreeClusters) /\ SetFat(c, EOC)
                           /\ data' = [data EXCEPT ![c] = Blank]
                           /\ Stay([op EXCEPT !.new = c])
                           /\ UNCHANGED <<torn, leaky>>
     \/ /\ FreeClusters = {} /\ GiveUp
        /\ leaky' = (leaky \/ op.first # 0)
        /\ UNCHANGED <<fat, data>>
  /\ UNCHANGED <<cwd, faults, commands>>

GrowLink ==
  /\ At("grow") /\ op.new # 0
  /\ SetFat(op.last, op.new)
  /\ Go("grow", IF op.slot = NoPlace
          THEN [op EXCEPT !.new = 0, !.slot = <<op.new, 1>>, !.next = <<op.new, 2>>]
          ELSE [op EXCEPT !.new = 0, !.next = <<op.new, 1>>])
  /\ UNCHANGED <<data, cwd, torn, leaky, faults, commands>>

(* Mutant of FreeStep: cluster_has_next() is not asked. *)
FreeStep_NoEndCheck ==
  /\ At("free")
  /\ SetFat(op.cl, Free)
  /\ data' = [data EXCEPT ![op.cl] = NoDir]
  /\ Stay([op EXCEPT !.cl = fat[op.cl]])
  /\ UNCHANGED <<cwd, torn, leaky, faults, commands>>

(* fat_free_chain, one cluster.  (It looks for a cycle first; NoCycle      *)
(* shows that there is none.)                                              *)
FreeStep ==
  /\ At("free")
  /\ SetFat(op.cl, Free)
  /\ data' = [data EXCEPT ![op.cl] = NoDir]
  /\ IF HasNext(fat[op.cl]) THEN Stay([op EXCEPT !.cl = fat[op.cl]])
     ELSE Go("free", [op EXCEPT !.cl = 0])
  /\ UNCHANGED <<cwd, torn, leaky, faults, commands>>

(* Mutant of AllocFails: wait until a cluster is free. *)
AllocFails_Waits == UNCHANGED <<op, torn>>

(* fat_alloc_chain: no cluster is left.  The part of the chain that was    *)
(* built is freed and the command returns false.                           *)
AllocFails ==
  IF op.first = 0 THEN GiveUp
  ELSE /\ Stay([Idle EXCEPT !.cmd = "delete", !.at = "free", !.cl = op.first])
       /\ torn' = IF op.over THEN torn \cup {op.slot} ELSE torn

(* Mutant of Zeroed: the cluster keeps what it held. *)
Zeroed_Not(o) == NoDir

(* What a cluster holds that fat_alloc_chain zeroed: slots, for mkdir.     *)
Zeroed(o) == IF o.dir /\ ~o.over THEN Blank ELSE NoDir

(* fat_alloc_chain: take a cluster and zero it ...  (The code zeroes it    *)
(* after it is linked; no entry refers to the chain before it is complete, *)
(* so nobody reads the cluster in between.)                                *)
AllocTake ==
  /\ At("alloc") /\ op.new = 0
  /\ \/ \E c \in Cluster :
           /\ IsFirst(c, FreeClusters) /\ SetFat(c, EOC)
           /\ data' = [data EXCEPT ![c] = Zeroed(op)]
           /\ IF op.prev # 0 THEN Stay([op EXCEPT !.new = c])
              ELSE Go("alloc", [op EXCEPT !.first = c, !.prev = c, !.need = @ - 1])
           /\ UNCHANGED torn
     \/ FreeClusters = {} /\ AllocFails /\ UNCHANGED <<fat, data>>
  /\ UNCHANGED <<cwd, leaky, faults, commands>>

(* ... and link it to the one before. *)
AllocLink ==
  /\ At("alloc") /\ op.new # 0
  /\ SetFat(op.prev, op.new)
  /\ Go("alloc", [op EXCEPT !.new = 0, !.prev = op.new, !.need = @ - 1])
  /\ UNCHANGED <<data, cwd, torn, leaky, faults, commands>>

(* Mutant of Mark: the first byte becomes 0x00. *)
Mark_End ==
  /\ At("mark")
  /\ SetSlot(op.slot, Plain("end"))
  /\ Go("mark", op)
  /\ UNCHANGED <<fat, cwd, torn, leaky, faults, commands>>

(* The entry becomes 0xE5, and so do the fragments of a long name directly *)
(* in front of it in the same sector.                                      *)
Mark ==
  /\ At("mark")
  /\ LET c == op.slot[1]
         i == op.slot[2]
         name == {j \in SlotIdx : j < i /\ \A k \in j .. (i - 1) : data[c][k].kind = "lfn"}
     IN data' = [data EXCEPT ![c] = [j \in SlotIdx |->
                   IF j = i \/ j \in name THEN Plain("del") ELSE @[j]]]
  /\ Go("mark", op)
  /\ UNCHANGED <<fat, cwd, torn, leaky, faults, commands>>

(* dir_write_named_entry: find the slots (no write), ... *)
FindRun ==
  /\ At("run")
  /\ \E o \in Run(cwd, [op EXCEPT !.slot = NoPlace]) : Go("run", o)
  /\ UNCHANGED <<fat, data, cwd, torn, leaky, faults, commands>>

(* ... write the long name ... *)
WriteLfn ==
  /\ At("lfn")
  /\ SetSlot(op.slot, Lfn(op.long))
  /\ Go("lfn", [op EXCEPT !.slot = op.next])
  /\ UNCHANGED <<fat, cwd, torn, leaky, faults, commands>>

(* ... and, as the other commands do, the entry. *)
WriteEntry ==
  /\ At("entry")
  /\ SetSlot(op.slot, Ent(op.name, op.first, op.dir))
  /\ Go("entry", [op EXCEPT !.over = FALSE])
  /\ UNCHANGED <<fat, cwd, torn, leaky, faults, commands>>

(* fat32_mkdir: "." and ".." *)
WriteDots ==
  /\ At("dots")
  /\ data' = [data EXCEPT ![op.first] = [i \in SlotIdx |->
                IF i = 1 THEN Dot(".", op.first)
                ELSE IF i = 2 THEN Dot("..", cwd) ELSE Plain("end")]]
  /\ Go("dots", op)
  /\ UNCHANGED <<fat, cwd, torn, leaky, faults, commands>>

(* hardware_virtio_write returns false for a directory sector: so does the *)
(* command, and mkdir frees the cluster it took.                           *)
WriteFails ==
  /\ faults < MaxFaults /\ faults' = faults + 1
  /\ \/ (At("mark") \/ At("lfn") \/ At("dots")) /\ GiveUp /\ UNCHANGED <<fat, data>>
     \/ At("entry") /\ op.cmd # "mkdir" /\ GiveUp /\ UNCHANGED <<fat, data>>
     \/ /\ At("entry") /\ op.cmd = "mkdir"
        /\ SetFat(op.first, Free) /\ data' = [data EXCEPT ![op.first] = NoDir]
        /\ op' = Idle /\ UNCHANGED torn
  /\ leaky' = (leaky \/ (op.first # 0 /\ (At("lfn") \/ (At("entry") /\ op.cmd # "mkdir"))))
  /\ UNCHANGED <<cwd, commands>>

(* The driver dies and is started again: fat32_init. *)
Crash ==
  /\ op # Idle /\ faults < MaxFaults /\ faults' = faults + 1
  /\ GiveUp
  /\ cwd' = Root
  /\ leaky' = TRUE
  /\ UNCHANGED <<fat, data, commands>>

Command ==
  /\ commands < MaxCommands /\ commands' = commands + 1
  /\ \/ \E n \in Name : fat32_create_file(n)
     \/ \E n \in Name, len \in 0 .. MaxLen : fat32_write_file(n, len)
     \/ \E n \in Name : fat32_delete_file(n)
     \/ \E n, m \in Name : fat32_rename_file(n, m)
     \/ \E n \in Name : fat32_mkdir(n)
     \/ \E c \in Cluster : fat32_cd(c)

Step ==
  \/ GrowAlloc \/ GrowLink \/ FreeStep \/ AllocTake \/ AllocLink
  \/ Mark \/ FindRun \/ WriteLfn \/ WriteEntry \/ WriteDots

Next == Command \/ Step \/ WriteFails \/ Crash

(* The driver's thread runs: a command that was started goes on. *)
Spec == Init /\ [][Next]_vars /\ WF_vars(Step)

-----------------------------------------------------------------------------
OpType ==
  [cmd : {"none", "write", "delete", "rename", "mkdir"}, at : Stage, slot : DirPlace \cup {NoPlace}, next : DirPlace \cup {NoPlace},
   last : Cluster \cup {0}, new : Cluster \cup {0}, cl : Cluster \cup {0},
   first : Cluster \cup {0}, prev : Cluster \cup {0}, need : 0 .. MaxLen + 1,
   name : Text, long : Text, dir : BOOLEAN, over : BOOLEAN]

(* The FAT, the directories and the command in progress are well-formed:   *)
(* in particular a new entry is never written to "slot 0".                 *)
TypeOK ==
  /\ fat \in [Cluster -> Cluster \cup {Free, EOC}]
  /\ data \in [Cluster -> [SlotIdx -> SlotVal]]
  /\ cwd \in Cluster
  /\ op \in OpType
  /\ op.at \in {"mark", "lfn", "entry"} => op.slot \in DirPlace
  /\ torn \subseteq DirPlace
  /\ leaky \in BOOLEAN
  /\ faults \in 0 .. MaxFaults
  /\ commands \in 0 .. MaxCommands

(* A place that refers to a cluster: <<c, 0>> is the FAT entry of c, and   *)
(* <<c, i>> the slot i of c.  An entry that was being overwritten, when    *)
(* the command could not finish, is left out: it refers to clusters that   *)
(* were freed before.                                                      *)
Place == Cluster \X (0 .. SlotsPerDir)
Suspended == torn \cup (IF op.over THEN {op.slot} ELSE {})

Ref(p) ==
  IF p[2] = 0 THEN IF HasNext(fat[p[1]]) THEN fat[p[1]] ELSE 0
  ELSE IF SlotAt(p).kind = "ent" /\ p \notin Suspended THEN SlotAt(p).clus ELSE 0

(* No cluster belongs to two files or directories, and none of them        *)
(* reaches the root directory: fat_alloc_chain never hands out a cluster   *)
(* that something refers to.                                               *)
NoSharedCluster ==
  /\ \A p, q \in Place : p # q /\ Ref(p) # 0 => Ref(p) # Ref(q)
  /\ \A p \in Place : Ref(p) # Root

(* Whatever refers to a cluster refers to one that is in use: rm removes   *)
(* the entry before it frees the chain, and an allocation marks a cluster  *)
(* before it links it, so that also a driver killed in between leaves no   *)
(* entry that a later allocation could turn into another file.             *)
NoDangling == \A p \in Place : Ref(p) # 0 => fat[Ref(p)] # Free

(* rm, echo > and mkdir lose no space: as long as every command ran to its *)
(* end, each cluster in use is found from the root, an entry or a chain.   *)
NoLeak ==
  ~leaky /\ op = Idle =>
    \A c \in Cluster \ {Root} : fat[c] # Free => \E p \in Place : Ref(p) = c

(* No chain closes on itself: Floyd's check is for disks that others       *)
(* damaged, and never refuses a command because of what this driver wrote. *)
NoCycle == \A c \in Cluster : ~HasNext(fat[Chain(c)[Len(Chain(c))]])

(* Every entry of a directory is in front of its end: where a scan stops   *)
(* early, files would be invisible.                                        *)
NothingBehindEnd ==
  \A d \in Cluster : IsDir(d) =>
    LET ch == Chain(d) IN \A k \in Numbers(ch) : Nth(ch, k).kind = "ent" => InUse(ch, k)

(* Whatever leads to a directory leads to one: the working directory, the  *)
(* entries of directories, "." and "..".  mkdir writes the entry before    *)
(* the slots "." and ".."; when it fails in between, the new directory is  *)
(* still one (fat_alloc_chain zeroed it).                                  *)
TreeSound ==
  /\ IsDir(cwd) /\ fat[cwd] # Free
  /\ \A p \in DirPlace : SlotAt(p).dir => IsDir(SlotAt(p).clus) /\ fat[SlotAt(p).clus] # Free

(* Every step of the driver hands at most one cluster to one place that    *)
(* refers to nothing, and only a cluster nobody refers to; or it takes one *)
(* away: the FAT implements the allocator of exclusive slots.              *)
Volume == INSTANCE ExclusiveSlots WITH
            Client <- Place, Slot <- Cluster,
            held <- [p \in Place |-> IF Ref(p) = 0 THEN {} ELSE {Ref(p)}]
ExclusiveClusters == Volume!Spec

(* No two entries refer to the same cluster, whatever happened to the      *)
(* command that wrote them: the comment on fat32_write_file() promises     *)
(* that no write touches clusters of others any more.  It does not hold:   *)
(* the old chain is freed before the new one is allocated, and a full disk *)
(* leaves the entry with clusters that the next file is given.             *)
NoCrossLink ==
  \A p, q \in DirPlace :
    SlotAt(p).kind = "ent" /\ SlotAt(q).kind = "ent" /\ SlotAt(p).clus # 0 /\ p # q
      => SlotAt(p).clus # SlotAt(q).clus

(* A command returns: the walks along chains end. *)
CommandReturns == (op # Idle) ~> (op = Idle)
=============================================================================
