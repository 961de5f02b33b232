---------------------------- MODULE Fat32_proofs ----------------------------
(***************************************************************************)
(* The FAT32 driver never lets two files share a cluster, and never leaves *)
(* an entry or a chain that leads to a free cluster: for every size of the *)
(* disk and of its directories, any number of commands, and a driver that  *)
(* may be killed or refused a write at any moment, as long as the user is  *)
(* careful (see Careful).                                                  *)
(***************************************************************************)
EXTENDS Fat32, TLAPS

-----------------------------------------------------------------------------
(* The inductive invariant. *)

Unref(c) == \A p \in Place : Ref(p) # c

(* A cluster the command in progress holds: taken, but found from nowhere. *)
InFlight(c) == c \in Cluster /\ c # Root /\ fat[c] # Free /\ Unref(c)

(* Each command passes through its own stages. *)
StagesSound ==
  /\ op.at \in {"alloc", "dots"} => op.cmd \in {"write", "mkdir"}
  /\ op.at = "free" => op.cmd \in {"write", "delete"}
  /\ op.at = "mark" => op.cmd \in {"delete", "rename"}
  /\ op.at \in {"run", "lfn"} => op.cmd = "rename"
  /\ op.at \in {"grow", "entry"} => op.cmd \in {"write", "mkdir", "rename"}
  /\ op.at = "idle" => op.cmd = "none"

(* The locals fit the stage. *)
LocalsSound ==
  /\ op.at = "alloc" => op.need > 0
  /\ op.at = "alloc" \/ (op.at = "free" /\ op.cmd = "write") => op.slot \in DirPlace
  /\ op.at = "grow" /\ op.cmd # "rename" => op.slot = NoPlace
  /\ op.at = "grow" => op.last # 0
  /\ op.at = "alloc" /\ op.new # 0 => op.prev # 0
  /\ op.at = "lfn" => op.next \in DirPlace
  /\ op.over => op.cmd = "write" /\ op.at \in {"free", "alloc", "entry"}

(* The clusters in the command's hands.  A chain that fat32_delete_file or *)
(* fat32_rename_file takes from an entry belongs to that entry until the   *)
(* entry is marked.                                                        *)
Hands ==
  /\ op.new # 0 => /\ InFlight(op.new) /\ op.new # op.first
                   /\ op.at \in {"grow", "alloc"}
  /\ op.first # 0 /\ op.at \in {"grow", "alloc", "run", "lfn", "entry"} => InFlight(op.first)
  /\ op.first # 0 /\ op.at = "mark" => Ref(op.slot) = op.first
  /\ op.cl # 0 /\ op.at = "mark" => Ref(op.slot) = op.cl /\ op.first = 0
  /\ op.at = "free" => InFlight(op.cl) /\ op.first = 0 /\ op.new = 0

IInv ==
  /\ TypeOK /\ NoSharedCluster /\ NoDangling /\ fat[Root] # Free
  /\ StagesSound /\ LocalsSound /\ Hands

-----------------------------------------------------------------------------
(* Helpers. *)

(* The root is a cluster; the reserved numbers are none. *)
LEMMA Numbering ==
  /\ Root \in Cluster /\ Free \notin Cluster /\ EOC \notin Cluster /\ 0 \notin Cluster
  /\ Free # EOC /\ 1 \in SlotIdx /\ 2 \in SlotIdx /\ 0 \notin SlotIdx
  BY DiskAssumption DEF Root, Cluster, Free, EOC, SlotIdx

(* A reference is at an entry of the FAT (index 0) or at an entry of a     *)
(* directory.                                                              *)
LEMMA Places ==
  /\ DirPlace \subseteq Place /\ NoPlace \notin DirPlace
  /\ \A c \in Cluster : <<c, 0>> \in Place
  /\ \A p \in Place : p[1] \in Cluster /\ p[2] \in 0 .. SlotsPerDir /\ p = <<p[1], p[2]>>
  /\ \A p \in Place : p[2] # 0 => p \in DirPlace
  /\ \A p \in DirPlace : p[1] \in Cluster /\ p[2] \in SlotIdx /\ p[2] # 0
  BY DiskAssumption DEF DirPlace, Place, SlotIdx, Cluster, NoPlace

(* What an entry refers to is a cluster, or 0. *)
LEMMA RefType ==
  ASSUME TypeOK, NEW p \in Place
  PROVE  Ref(p) \in Cluster \cup {0}
<1>1. p[1] \in Cluster /\ (p[2] # 0 => p[2] \in SlotIdx)
  BY Places
<1>2. fat[p[1]] \in Cluster \cup {Free, EOC}
  BY <1>1 DEF TypeOK
<1>3. CASE p[2] = 0
  BY <1>2, <1>3 DEF Ref, HasNext
<1>4. CASE p[2] # 0
  <2>1. SlotAt(p) \in SlotVal
    BY <1>1, <1>4 DEF TypeOK, SlotAt
  <2>2. SlotAt(p).clus \in Cluster \cup {0}
    BY <2>1 DEF SlotVal
  <2> QED BY <1>4, <2>2 DEF Ref
<1> QED BY <1>3, <1>4

(* A step that makes at most one place q refer to a cluster x nobody       *)
(* referred to, and frees only what nobody refers to.                      *)
LEMMA RefsStep ==
  ASSUME NoSharedCluster, NoDangling, NEW q \in Place, NEW x,
         \A p \in Place : p # q => Ref(p)' \in {0, Ref(p)},
         Ref(q)' \in {0, Ref(q), x},
         x # 0 => x # Root /\ Unref(x) /\ fat'[x] # Free,
         \A p \in Place : Ref(p) # 0 => fat'[Ref(p)] # Free
  PROVE  /\ NoSharedCluster' /\ NoDangling'
         /\ \A c : c # 0 /\ c # x /\ Unref(c) => Unref(c)'
<1>1. \A p \in Place : Ref(p)' # 0 => \/ Ref(p)' = Ref(p) /\ Ref(p) # 0
                                      \/ p = q /\ Ref(p)' = x /\ x # 0
  OBVIOUS
<1>2. NoSharedCluster'
  <2>1. ASSUME NEW p \in Place, NEW r \in Place, p # r, Ref(p)' # 0
        PROVE  Ref(p)' # Ref(r)'
    BY <1>1, <2>1 DEF NoSharedCluster, Unref
  <2>2. \A p \in Place : Ref(p)' # Root
    <3> SUFFICES ASSUME NEW p \in Place, Ref(p)' = Root PROVE FALSE
      OBVIOUS
    <3>1. Root # 0
      BY DEF Root
    <3> QED BY <1>1, <3>1 DEF NoSharedCluster
  <2> QED BY <2>1, <2>2 DEF NoSharedCluster
<1>3. NoDangling'
  BY <1>1 DEF NoDangling
<1>4. \A c : c # 0 /\ c # x /\ Unref(c) => Unref(c)'
  BY <1>1 DEF Unref
<1> QED BY <1>2, <1>3, <1>4

(* What a place refers to depends on its FAT entry or its slot, and on     *)
(* whether it is suspended.                                                *)
LEMMA RefSame ==
  ASSUME NEW p \in Place, Suspended' = Suspended,
         p[2] = 0 => fat'[p[1]] = fat[p[1]],
         p[2] # 0 => SlotAt(p)' = SlotAt(p)
  PROVE  Ref(p)' = Ref(p)
  BY DEF Ref

(* A place without an entry refers to nothing. *)
LEMMA NoEntNoRef ==
  ASSUME NEW p \in DirPlace, SlotAt(p)'.kind # "ent"
  PROVE  Ref(p)' = 0
  BY Places DEF Ref

(* The locals of a command. *)
SameLocals(o, e) ==
  /\ e.cmd = o.cmd /\ e.slot = o.slot /\ e.next = o.next /\ e.last = o.last
  /\ e.new = o.new /\ e.cl = o.cl /\ e.first = o.first /\ e.prev = o.prev
  /\ e.need = o.need /\ e.name = o.name /\ e.long = o.long /\ e.dir = o.dir
  /\ e.over = o.over

(* Setting the stage of a command leaves its other locals alone. *)
LEMMA AtField ==
  ASSUME NEW o \in OpType, NEW s \in Stage
  PROVE  /\ [o EXCEPT !.at = s] \in OpType
         /\ [o EXCEPT !.at = s].at = s
         /\ SameLocals(o, [o EXCEPT !.at = s])
<1>1. [o EXCEPT !.at = s] \in OpType
  BY DEF OpType
<1>2. [o EXCEPT !.at = s].at = s
  BY DEF OpType
<1>3. SameLocals(o, [o EXCEPT !.at = s])
  BY DEF OpType, SameLocals
<1> QED BY <1>1, <1>2, <1>3

(* Between two commands the local variables are reset. *)
LEMMA IdleFields ==
  /\ Idle \in OpType /\ Idle.at = "idle" /\ Idle.cmd = "none" /\ Idle.slot = NoPlace
  /\ Idle.next = NoPlace /\ Idle.last = 0 /\ Idle.new = 0 /\ Idle.cl = 0 /\ Idle.first = 0
  /\ Idle.prev = 0 /\ Idle.need = 0 /\ Idle.over = FALSE /\ Idle.dir = FALSE
<1> DEFINE z == 0
           b == FALSE
           e == "-"
<1>a. z \in Cluster \cup {0} /\ b \in BOOLEAN /\ NoPlace \in DirPlace \cup {NoPlace}
  OBVIOUS
<1>b. z \in 0 .. MaxLen + 1
  BY DiskAssumption
<1>c. e \in Text
  BY DEF Text
<1>d. "idle" \in Stage
  BY DEF Stage
<1>1. z \in Cluster \cup {0} /\ z \in 0 .. MaxLen + 1 /\ b \in BOOLEAN /\ e \in Text
      /\ NoPlace \in DirPlace \cup {NoPlace} /\ "idle" \in Stage
  BY <1>a, <1>b, <1>c, <1>d
<1>2. Idle = [cmd |-> "none", at |-> "idle", slot |-> NoPlace, next |-> NoPlace, last |-> z,
              new |-> z, cl |-> z, first |-> z, prev |-> z, need |-> z,
              name |-> e, long |-> e, dir |-> b, over |-> b]
  BY DEF Idle
<1> HIDE DEF z, b, e, NoPlace
<1>3. Idle \in OpType
  BY <1>1, <1>2 DEF OpType
<1>4. z = 0 /\ b = FALSE
  BY DEF z, b
<1>5. /\ Idle.at = "idle" /\ Idle.cmd = "none" /\ Idle.slot = NoPlace
      /\ Idle.next = NoPlace /\ Idle.last = z /\ Idle.new = z /\ Idle.cl = z /\ Idle.first = z
      /\ Idle.prev = z /\ Idle.need = z
  BY <1>2
<1>6. Idle.over = b /\ Idle.dir = b
  BY <1>2
<1> QED BY <1>3, <1>4, <1>5, <1>6

(* Going on sets the next stage and nothing else, or ends the command. *)
LEMMA GoEffect ==
  ASSUME NEW o \in OpType, NEW s, NEW n \in Stage, After(s, o) = n, Go(s, o)
  PROVE  /\ n = "idle" => op' = Idle
         /\ n # "idle" => op' \in OpType /\ op'.at = n /\ SameLocals(o, op')
  BY AtField DEF Go

(* The stages, one by one. *)
LEMMA AfterStage ==
  ASSUME NEW o \in OpType
  PROVE  /\ o.cmd \in {"write", "mkdir"} =>
              /\ After("start", o) = IF o.last # 0 THEN "grow" ELSE IF o.cl # 0 THEN "free" ELSE Fill(o)
              /\ \A s \in {"grow", "free", "alloc"} : After(s, o) = Fill(o)
              /\ After("dots", o) = "idle"
         /\ o.cmd = "write" => After("entry", o) = "idle"
         /\ o.cmd = "mkdir" => After("entry", o) = "dots"
         /\ o.cmd = "delete" => /\ After("start", o) = "mark" /\ After("free", o) = "idle"
                                /\ After("mark", o) = IF o.cl # 0 THEN "free" ELSE "idle"
         /\ o.cmd = "rename" => /\ After("start", o) = "mark" /\ After("mark", o) = "run"
                                /\ After("run", o) = IF o.last # 0 THEN "grow" ELSE "lfn"
                                /\ After("grow", o) = "lfn" /\ After("lfn", o) = "entry"
                                /\ After("entry", o) = "idle"
         /\ Fill(o) \in {"alloc", "entry"}
         /\ Fill(o) = "alloc" => o.need > 0
<1>1. Fill(o) \in {"alloc", "entry"} /\ (Fill(o) = "alloc" => o.need > 0)
  BY DEF Fill
<1>2. ASSUME o.cmd \in {"write", "mkdir"}
      PROVE  \A s : After(s, o) = AfterWrite(s, o)
  BY <1>2 DEF After
<1>3. ASSUME o.cmd = "delete"
      PROVE  \A s : After(s, o) = AfterDelete(s, o)
  BY <1>3 DEF After
<1>4. ASSUME o.cmd = "rename"
      PROVE  \A s : After(s, o) = AfterRename(s, o)
  BY <1>4 DEF After
<1>5. /\ AfterWrite("start", o) = IF o.last # 0 THEN "grow" ELSE IF o.cl # 0 THEN "free" ELSE Fill(o)
      /\ AfterWrite("grow", o) = Fill(o) /\ AfterWrite("free", o) = Fill(o)
      /\ AfterWrite("alloc", o) = Fill(o)
      /\ AfterWrite("dots", o) = "idle"
      /\ AfterWrite("entry", o) = IF o.cmd = "mkdir" THEN "dots" ELSE "idle"
  BY DEF AfterWrite
<1>6. /\ AfterDelete("start", o) = "mark" /\ AfterDelete("free", o) = "idle"
      /\ AfterDelete("mark", o) = IF o.cl # 0 THEN "free" ELSE "idle"
  BY DEF AfterDelete
<1>7. /\ AfterRename("start", o) = "mark" /\ AfterRename("mark", o) = "run"
      /\ AfterRename("run", o) = IF o.last # 0 THEN "grow" ELSE "lfn"
      /\ AfterRename("grow", o) = "lfn" /\ AfterRename("lfn", o) = "entry"
      /\ AfterRename("entry", o) = "idle"
  BY DEF AfterRename
<1> QED BY <1>1, <1>2, <1>3, <1>4, <1>5, <1>6, <1>7

(* A command that is over leaves nothing in flight. *)
LEMMA ToIdle ==
  ASSUME op' = Idle, TypeOK', NoSharedCluster', NoDangling', fat'[Root] # Free
  PROVE  IInv'
  BY IdleFields DEF IInv, StagesSound, LocalsSound, Hands

-----------------------------------------------------------------------------
(* A write to the FAT, with or without a cluster that is cleared. *)

NoEntries(B) == B \in [SlotIdx -> SlotVal] /\ \A i \in SlotIdx : B[i].kind # "ent"

(* Neither a cluster that is no directory nor a blank one has entries. *)
LEMMA Cleared == NoEntries(NoDir) /\ NoEntries(Blank)
<1>1. \A k \in {"data", "end"} : Plain(k) \in SlotVal /\ Plain(k).kind = k
  BY DEF Plain, SlotVal, Kind, Text
<1> HIDE DEF Plain
<1> QED BY <1>1 DEF NoEntries, NoDir, Blank

(* Writing one entry of the FAT makes no other reference. *)
LEMMA FatWrite ==
  ASSUME TypeOK, Suspended' = Suspended, NEW c \in Cluster, NEW v,
         fat' = [fat EXCEPT ![c] = v],
         NEW e \in Cluster, NEW B, NoEntries(B),
         data' = data \/ data' = [data EXCEPT ![e] = B]
  PROVE  /\ \A p \in Place : p # <<c, 0>> => Ref(p)' \in {0, Ref(p)}
         /\ Ref(<<c, 0>>)' = IF v \in Cluster THEN v ELSE 0
         /\ \A d \in Cluster : d # c => fat'[d] = fat[d]
         /\ fat'[c] = v
         /\ data' \in [Cluster -> [SlotIdx -> SlotVal]]
<1>1. fat \in [Cluster -> Cluster \cup {Free, EOC}] /\ data \in [Cluster -> [SlotIdx -> SlotVal]]
  BY DEF TypeOK
<1>2. fat'[c] = v /\ \A d \in Cluster : d # c => fat'[d] = fat[d]
  BY <1>1
<1>3. data' \in [Cluster -> [SlotIdx -> SlotVal]]
  BY <1>1 DEF NoEntries
<1>4. ASSUME NEW p \in Place, p # <<c, 0>> PROVE Ref(p)' \in {0, Ref(p)}
  <2>1. p[1] \in Cluster /\ p = <<p[1], p[2]>>
    BY Places
  <2>2. CASE p[2] = 0
    <3>1. fat'[p[1]] = fat[p[1]]
      BY <1>2, <1>4, <2>1, <2>2
    <3> QED BY <2>2, <3>1, RefSame
  <2>3. CASE p[2] # 0
    <3>1. p \in DirPlace /\ p[2] \in SlotIdx
      BY <2>3, Places
    <3>2. CASE data'[p[1]] = data[p[1]]
      <4>1. SlotAt(p)' = SlotAt(p)
        BY <3>2 DEF SlotAt
      <4> QED BY <2>3, <4>1, RefSame
    <3>3. CASE data'[p[1]] = B
      <4>1. SlotAt(p)'.kind # "ent"
        BY <3>1, <3>3 DEF SlotAt, NoEntries
      <4> QED BY <3>1, <4>1, NoEntNoRef
    <3> QED BY <1>1, <2>1, <3>2, <3>3
  <2> QED BY <2>2, <2>3
<1>5. Ref(<<c, 0>>)' = IF v \in Cluster THEN v ELSE 0
  BY <1>2 DEF Ref, HasNext
<1> QED BY <1>2, <1>3, <1>4, <1>5

(* A free cluster is taken. *)
LEMMA Taken ==
  ASSUME IInv, Suspended' = Suspended, NEW c \in Cluster, fat[c] = Free,
         fat' = [fat EXCEPT ![c] = EOC], NEW B, NoEntries(B), data' = [data EXCEPT ![c] = B]
  PROVE  /\ NoSharedCluster' /\ NoDangling' /\ fat'[Root] # Free
         /\ fat' \in [Cluster -> Cluster \cup {Free, EOC}]
         /\ data' \in [Cluster -> [SlotIdx -> SlotVal]]
         /\ InFlight(c)'
         /\ \A d : InFlight(d) => d # c /\ InFlight(d)'
<1> DEFINE q == <<c, 0>>
<1>1. /\ TypeOK /\ NoSharedCluster /\ NoDangling /\ fat[Root] # Free /\ q \in Place
      /\ 0 \notin Cluster /\ Root \in Cluster /\ EOC # Free /\ EOC \notin Cluster
  BY Places, Numbering DEF IInv
<1>2. /\ \A p \in Place : p # q => Ref(p)' \in {0, Ref(p)}
      /\ Ref(q)' = 0
      /\ \A d \in Cluster : d # c => fat'[d] = fat[d]
      /\ fat'[c] = EOC
      /\ data' \in [Cluster -> [SlotIdx -> SlotVal]]
  BY <1>1, FatWrite
<1>3. \A p \in Place : Ref(p) # 0 => Ref(p) \in Cluster /\ fat[Ref(p)] # Free
  BY <1>1, RefType DEF NoDangling
<1>4. \A d \in Cluster : fat[d] # Free => fat'[d] # Free
  BY <1>1, <1>2
<1>5. \A p \in Place : Ref(p) # 0 => fat'[Ref(p)] # Free
  BY <1>3, <1>4
<1> HIDE DEF q
<1>6. NoSharedCluster' /\ NoDangling' /\ \A d : d # 0 /\ Unref(d) => Unref(d)'
  BY <1>1, <1>2, <1>5, RefsStep
<1>7. Unref(c) /\ c # Root
  BY <1>1, <1>3 DEF Unref
<1>8. InFlight(c)'
  BY <1>1, <1>2, <1>6, <1>7 DEF InFlight
<1>9. \A d : InFlight(d) => d # c /\ InFlight(d)'
  BY <1>1, <1>4, <1>6 DEF InFlight
<1>10. fat' \in [Cluster -> Cluster \cup {Free, EOC}]
  BY <1>1 DEF TypeOK
<1> QED BY <1>1, <1>2, <1>4, <1>6, <1>8, <1>9, <1>10

(* A cluster in flight is linked to another. *)
LEMMA Linked ==
  ASSUME IInv, Suspended' = Suspended, NEW a \in Cluster, NEW n, InFlight(n),
         fat' = [fat EXCEPT ![a] = n], UNCHANGED data
  PROVE  /\ NoSharedCluster' /\ NoDangling' /\ fat'[Root] # Free
         /\ fat' \in [Cluster -> Cluster \cup {Free, EOC}]
         /\ \A d : d # n /\ InFlight(d) => InFlight(d)'
<1> DEFINE q == <<a, 0>>
<1>1. /\ TypeOK /\ NoSharedCluster /\ NoDangling /\ fat[Root] # Free /\ q \in Place
      /\ 0 \notin Cluster /\ Root \in Cluster /\ Free \notin Cluster
      /\ n \in Cluster /\ n # Root /\ fat[n] # Free /\ Unref(n)
  BY Places, Numbering DEF IInv, InFlight
<1>2. /\ \A p \in Place : p # q => Ref(p)' \in {0, Ref(p)}
      /\ Ref(q)' = n
      /\ \A d \in Cluster : d # a => fat'[d] = fat[d]
      /\ fat'[a] = n
  BY <1>1, FatWrite, Cleared
<1>3. \A d \in Cluster : fat[d] # Free => fat'[d] # Free
  BY <1>1, <1>2
<1>4. \A p \in Place : Ref(p) # 0 => fat'[Ref(p)] # Free
  BY <1>1, <1>3, RefType DEF NoDangling
<1> HIDE DEF q
<1>5. fat'[n] # Free
  BY <1>1, <1>3
<1>6. NoSharedCluster' /\ NoDangling' /\ \A d : d # 0 /\ d # n /\ Unref(d) => Unref(d)'
  BY <1>1, <1>2, <1>4, <1>5, RefsStep
<1>7. \A d : d # n /\ InFlight(d) => InFlight(d)'
  BY <1>1, <1>3, <1>6 DEF InFlight
<1>8. fat' \in [Cluster -> Cluster \cup {Free, EOC}]
  BY <1>1 DEF TypeOK
<1> QED BY <1>1, <1>3, <1>6, <1>7, <1>8

(* The command ends early and the disk stays as it is: an entry whose      *)
(* chain was freed becomes a torn one.                                     *)
LEMMA GaveUp ==
  ASSUME IInv, GiveUp, UNCHANGED <<fat, data>>, cwd' \in Cluster, leaky' \in BOOLEAN,
         faults' \in 0 .. MaxFaults, commands' \in 0 .. MaxCommands
  PROVE  IInv'
<1>1. op' = Idle /\ torn' = IF op.over THEN torn \cup {op.slot} ELSE torn
  BY DEF GiveUp
<1>2. Suspended' = Suspended
  BY <1>1, IdleFields DEF Suspended
<1>3. op.over => op.slot \in DirPlace
  BY DEF IInv, LocalsSound, TypeOK
<1>4. TypeOK'
  BY <1>1, <1>3, IdleFields DEF IInv, TypeOK
<1>5. \A p \in Place : Ref(p)' = Ref(p)
  BY <1>2, RefSame DEF SlotAt
<1>6. NoSharedCluster' /\ NoDangling' /\ fat'[Root] # Free
  BY <1>5 DEF IInv, NoSharedCluster, NoDangling
<1> QED BY <1>1, <1>4, <1>6, ToIdle

-----------------------------------------------------------------------------
(* fat_free_chain: one cluster of a chain nobody refers to any more. *)
LEMMA FreeStepIInv ==
  ASSUME IInv, FreeStep PROVE IInv'
<1>a. op.at = "free"
  BY DEF FreeStep, At
<1>b. InFlight(op.cl)
  BY <1>a DEF IInv, Hands
<1>c. PICK c \in Cluster : c = op.cl
  BY <1>b DEF InFlight
<1>d. PICK n \in Cluster \cup {Free, EOC} : n = fat[c]
  BY DEF IInv, TypeOK
<1> DEFINE q == <<c, 0>>
           z == 0
<1>1. /\ op.at = "free" /\ fat' = [fat EXCEPT ![c] = Free] /\ data' = [data EXCEPT ![c] = NoDir]
      /\ UNCHANGED <<cwd, torn, leaky, faults, commands>>
  BY <1>c DEF FreeStep, At, SetFat
<1>2. InFlight(c) /\ op.first = 0 /\ op.new = 0 /\ op.cmd \in {"write", "delete"} /\ op \in OpType
      /\ TypeOK /\ NoSharedCluster /\ NoDangling
  BY <1>1, <1>b, <1>c DEF IInv, Hands, StagesSound, TypeOK
<1>3. z \in Cluster \cup {0} /\ z \notin Cluster /\ z = 0
  BY Numbering
<1>4. c \in Cluster /\ q \in Place /\ n \in Cluster \cup {Free, EOC}
  BY <1>2, Places DEF InFlight, TypeOK
<1>5. q \in Place /\ Ref(q) = IF n \in Cluster THEN n ELSE 0
  BY <1>4, <1>d DEF Ref, HasNext
<1> HIDE DEF q, z
<1>6. Suspended' = Suspended =>
        /\ NoSharedCluster' /\ NoDangling'
        /\ \A p \in Place : p # q => Ref(p)' \in {0, Ref(p)}
        /\ Ref(q)' = 0
        /\ fat' \in [Cluster -> Cluster \cup {Free, EOC}]
        /\ data' \in [Cluster -> [SlotIdx -> SlotVal]]
        /\ fat'[Root] # Free
        /\ \A d \in Cluster : d # c => fat'[d] = fat[d]
  <2> SUFFICES ASSUME Suspended' = Suspended
               PROVE  /\ NoSharedCluster' /\ NoDangling'
                      /\ \A p \in Place : p # q => Ref(p)' \in {0, Ref(p)}
                      /\ Ref(q)' = 0
                      /\ fat' \in [Cluster -> Cluster \cup {Free, EOC}]
                      /\ data' \in [Cluster -> [SlotIdx -> SlotVal]]
                      /\ fat'[Root] # Free
                      /\ \A d \in Cluster : d # c => fat'[d] = fat[d]
    OBVIOUS
  <2>1. /\ \A p \in Place : p # q => Ref(p)' \in {0, Ref(p)}
        /\ Ref(q)' = 0
        /\ \A d \in Cluster : d # c => fat'[d] = fat[d]
        /\ data' \in [Cluster -> [SlotIdx -> SlotVal]]
    BY <1>1, <1>2, <1>4, Cleared, FatWrite, Numbering DEF q
  <2>2. \A p \in Place : Ref(p) # 0 => Ref(p) \in Cluster /\ Ref(p) # c /\ fat[Ref(p)] # Free
    BY <1>2, RefType DEF InFlight, Unref, NoDangling
  <2>3. \A p \in Place : Ref(p) # 0 => fat'[Ref(p)] # Free
    BY <2>1, <2>2
  <2>4. NoSharedCluster' /\ NoDangling'
    BY <1>2, <1>5, <2>1, <2>3, RefsStep
  <2>5. fat'[Root] # Free
    BY <1>2, <2>1, Numbering DEF InFlight, IInv
  <2>6. fat' \in [Cluster -> Cluster \cup {Free, EOC}]
    BY <1>1, <1>2 DEF TypeOK
  <2> QED BY <2>1, <2>4, <2>5, <2>6
<1>7. CASE n \in Cluster
  <2>1. op' = [op EXCEPT !.cl = n]
    BY <1>7, <1>c, <1>d DEF FreeStep, HasNext, Stay
  <2>2. op' \in OpType
    BY <1>2, <1>7, <2>1 DEF OpType
  <2>3. /\ op'.cl = n /\ op'.at = op.at /\ op'.cmd = op.cmd /\ op'.slot = op.slot
        /\ op'.first = op.first /\ op'.new = op.new /\ op'.over = op.over
    BY <1>2, <2>1 DEF OpType
  <2>4. Suspended' = Suspended
    BY <1>1, <2>3 DEF Suspended
  <2>5. Ref(q) = n /\ n # 0 /\ n # c /\ n # Root /\ fat[n] # Free
    BY <1>2, <1>5, <1>7, Numbering DEF InFlight, Unref, NoSharedCluster, NoDangling
  <2>6. \A p \in Place : p # q => Ref(p) # n
    BY <1>2, <1>5, <2>5 DEF NoSharedCluster
  <2>7. InFlight(n)'
    BY <1>6, <1>7, <2>4, <2>5, <2>6 DEF InFlight, Unref
  <2>8. TypeOK'
    BY <1>1, <1>6, <2>2, <2>3, <2>4 DEF IInv, TypeOK
  <2>9. StagesSound' /\ LocalsSound'
    BY <1>1, <2>3 DEF IInv, StagesSound, LocalsSound
  <2>10. Hands'
    BY <1>1, <1>2, <2>3, <2>7 DEF Hands
  <2> QED BY <1>6, <2>4, <2>8, <2>9, <2>10 DEF IInv
<1>8. CASE n \notin Cluster
  <2> DEFINE o == [op EXCEPT !.cl = z]
  <2>1. Go("free", o)
    BY <1>8, <1>3, <1>c, <1>d DEF FreeStep, HasNext
  <2>2. o \in OpType
    BY <1>2, <1>3 DEF OpType
  <2>3. /\ o.cl = z /\ o.cmd = op.cmd /\ o.slot = op.slot /\ o.need = op.need
        /\ o.first = op.first /\ o.new = op.new /\ o.over = op.over
    BY <1>2 DEF OpType
  <2> HIDE DEF o
  <2>4. CASE op.cmd = "delete"
    <3>1. op' = Idle
      BY <2>1, <2>2, <2>3, <2>4, AfterStage, GoEffect DEF Stage
    <3>2. Suspended' = Suspended
      BY <1>1, <2>4, <3>1, IdleFields DEF Suspended, IInv, LocalsSound
    <3>3. TypeOK'
      BY <1>1, <1>6, <3>1, <3>2, IdleFields DEF IInv, TypeOK
    <3> QED BY <1>6, <3>1, <3>2, <3>3, ToIdle
  <2>5. CASE op.cmd = "write"
    <3>1. /\ op' \in OpType /\ op'.at \in {"alloc", "entry"} /\ SameLocals(o, op')
          /\ op'.at = "alloc" => o.need > 0
      BY <2>1, <2>2, <2>3, <2>5, AfterStage, GoEffect DEF Stage
    <3>2. /\ op'.cl = z /\ op'.cmd = "write" /\ op'.slot = op.slot /\ op'.need = o.need
          /\ op'.first = 0 /\ op'.new = 0 /\ op'.over = op.over
      BY <1>2, <2>3, <2>5, <3>1 DEF SameLocals
    <3>3. Suspended' = Suspended
      BY <1>1, <3>2 DEF Suspended
    <3>4. op.slot \in DirPlace
      BY <1>1, <2>5 DEF IInv, LocalsSound
    <3>5. TypeOK'
      BY <1>1, <1>6, <3>1, <3>2, <3>3, <3>4 DEF IInv, TypeOK
    <3>6. StagesSound' /\ LocalsSound'
      BY <3>1, <3>2, <3>4 DEF StagesSound, LocalsSound
    <3>7. Hands'
      BY <3>1, <3>2 DEF Hands
    <3> QED BY <1>6, <3>3, <3>5, <3>6, <3>7 DEF IInv
  <2> QED BY <1>2, <2>4, <2>5
<1> QED BY <1>7, <1>8

(* dir_grow takes a cluster. *)
LEMMA GrowAllocIInv ==
  ASSUME IInv, GrowAlloc PROVE IInv'
<1>1. op.at = "grow" /\ op.new = 0 /\ UNCHANGED <<cwd, faults, commands>> /\ op \in OpType
  BY DEF GrowAlloc, At, IInv, TypeOK
<1>2. CASE FreeClusters = {} /\ GiveUp /\ leaky' = (leaky \/ op.first # 0) /\ UNCHANGED <<fat, data>>
  <2>1. leaky' \in BOOLEAN
    BY <1>2
  <2> QED BY <1>1, <1>2, <2>1, GaveUp DEF IInv, TypeOK
<1>3. ASSUME NEW c \in Cluster, IsFirst(c, FreeClusters), SetFat(c, EOC),
             data' = [data EXCEPT ![c] = Blank], Stay([op EXCEPT !.new = c]),
             UNCHANGED <<torn, leaky>>
      PROVE  IInv'
  <2>1. fat[c] = Free /\ fat' = [fat EXCEPT ![c] = EOC]
    BY <1>3 DEF IsFirst, FreeClusters, SetFat
  <2>2. op' = [op EXCEPT !.new = c]
    BY <1>3 DEF Stay
  <2>3. op' \in OpType
    BY <1>1, <2>2 DEF OpType
  <2>4. /\ op'.new = c /\ op'.at = op.at /\ op'.cmd = op.cmd /\ op'.slot = op.slot /\ op'.last = op.last
        /\ op'.first = op.first /\ op'.cl = op.cl /\ op'.over = op.over
    BY <1>1, <2>2 DEF OpType
  <2>5. Suspended' = Suspended
    BY <1>3, <2>4 DEF Suspended
  <2>6. /\ NoSharedCluster' /\ NoDangling' /\ fat'[Root] # Free
        /\ fat' \in [Cluster -> Cluster \cup {Free, EOC}]
        /\ data' \in [Cluster -> [SlotIdx -> SlotVal]]
        /\ InFlight(c)'
        /\ \A d : InFlight(d) => d # c /\ InFlight(d)'
    BY <1>3, <2>1, <2>5, Cleared, Taken
  <2>7. TypeOK'
    BY <1>1, <1>3, <2>3, <2>4, <2>6 DEF IInv, TypeOK
  <2>8. StagesSound' /\ LocalsSound'
    BY <1>1, <2>4 DEF IInv, StagesSound, LocalsSound
  <2>9. op.first # 0 => InFlight(op.first)
    BY <1>1 DEF IInv, Hands
  <2>10. PICK f : f = op.first
    OBVIOUS
  <2>11. f # 0 => f # c /\ InFlight(f)'
    BY <2>6, <2>9, <2>10
  <2>12. c # 0
    BY Numbering
  <2>13. op'.first = f
    BY <2>4, <2>10
  <2>14. (f # 0 => InFlight(op.first)') /\ InFlight(op.new)'
    BY <2>4, <2>6, <2>11, <2>13 DEF InFlight, Unref
  <2>15. Hands'
    BY <1>1, <2>4, <2>11, <2>13, <2>14 DEF Hands
  <2> QED BY <2>6, <2>7, <2>8, <2>15 DEF IInv
<1> QED BY <1>1, <1>2, <1>3 DEF GrowAlloc

(* dir_grow hangs it on the directory. *)
LEMMA GrowLinkIInv ==
  ASSUME IInv, GrowLink PROVE IInv'
<1>1. op.at = "grow" /\ op.new # 0 /\ op \in OpType /\ op.over = FALSE
      /\ op.cmd \in {"write", "mkdir", "rename"}
  BY DEF GrowLink, At, IInv, TypeOK, LocalsSound, StagesSound, OpType
<1>2. UNCHANGED <<data, cwd, torn, leaky, faults, commands>> /\ fat' = [fat EXCEPT ![op.last] = op.new]
  BY DEF GrowLink, SetFat
<1>3. PICK a \in Cluster : a = op.last
  BY <1>1 DEF IInv, LocalsSound, OpType
<1>4. PICK n \in Cluster : n = op.new
  BY <1>1 DEF OpType
<1>5. PICK f : f = op.first
  OBVIOUS
<1>6. InFlight(n) /\ (f # 0 => InFlight(f) /\ f # n)
  BY <1>1, <1>4, <1>5 DEF IInv, Hands
<1> DEFINE z == 0
           s1 == <<n, 1>>
           s2 == <<n, 2>>
           o1 == [op EXCEPT !.new = z, !.slot = s1, !.next = s2]
           o2 == [op EXCEPT !.new = z, !.next = s1]
           o == IF op.slot = NoPlace THEN o1 ELSE o2
<1>7. s1 \in DirPlace /\ s2 \in DirPlace /\ z \in Cluster \cup {0} /\ z = 0
  BY Numbering DEF DirPlace
<1>8. Go("grow", o)
  BY <1>4 DEF GrowLink
<1> HIDE DEF z, s1, s2
<1>9. o1 \in OpType
  BY <1>1, <1>7 DEF OpType
<1>10. o2 \in OpType
  BY <1>1, <1>7 DEF OpType
<1>11. /\ o1.new = z /\ o1.slot = s1 /\ o1.next = s2 /\ o1.cmd = op.cmd /\ o1.first = op.first
       /\ o1.cl = op.cl /\ o1.over = op.over /\ o1.need = op.need
  BY <1>1 DEF OpType
<1>12. /\ o2.new = z /\ o2.slot = op.slot /\ o2.next = s1 /\ o2.cmd = op.cmd /\ o2.first = op.first
       /\ o2.cl = op.cl /\ o2.over = op.over /\ o2.need = op.need
  BY <1>1 DEF OpType
<1> HIDE DEF o1, o2
<1>13. /\ o \in OpType /\ o.new = z /\ o.cmd = op.cmd /\ o.first = op.first /\ o.over = FALSE
       /\ o.slot \in DirPlace /\ o.next \in DirPlace
  <2>1. op.slot # NoPlace => op.slot \in DirPlace
    BY <1>1 DEF OpType
  <2> QED BY <1>1, <1>7, <1>9, <1>10, <1>11, <1>12, <2>1
<1> HIDE DEF o
<1>14. /\ op' \in OpType /\ SameLocals(o, op')
       /\ \/ o.cmd = "rename" /\ op'.at = "lfn"
          \/ o.cmd \in {"write", "mkdir"} /\ op'.at \in {"alloc", "entry"}
       /\ op'.at = "alloc" => o.need > 0
  BY <1>1, <1>8, <1>13, AfterStage, GoEffect DEF Stage
<1>15. /\ op'.new = 0 /\ op'.first = f /\ op'.over = FALSE /\ op'.cmd = o.cmd /\ op'.need = o.need
       /\ op'.slot \in DirPlace /\ op'.next \in DirPlace
  BY <1>5, <1>7, <1>13, <1>14 DEF SameLocals
<1>16. Suspended' = Suspended
  BY <1>1, <1>2, <1>15 DEF Suspended
<1>17. /\ NoSharedCluster' /\ NoDangling' /\ fat'[Root] # Free
       /\ fat' \in [Cluster -> Cluster \cup {Free, EOC}]
       /\ \A d : d # n /\ InFlight(d) => InFlight(d)'
  BY <1>2, <1>3, <1>4, <1>6, <1>16, Linked
<1>18. TypeOK'
  BY <1>2, <1>14, <1>15, <1>17 DEF IInv, TypeOK
<1>19. StagesSound' /\ LocalsSound'
  BY <1>14, <1>15 DEF StagesSound, LocalsSound
<1>20. f # 0 => InFlight(op.first)'
  BY <1>6, <1>15, <1>17 DEF InFlight, Unref
<1>21. Hands'
  BY <1>14, <1>15, <1>20 DEF Hands
<1> QED BY <1>17, <1>18, <1>19, <1>21 DEF IInv

(* fat_alloc_chain finds the disk full. *)
LEMMA AllocFailsIInv ==
  ASSUME IInv, op.at = "alloc", op.new = 0, AllocFails, UNCHANGED <<fat, data, cwd, leaky, faults, commands>>
  PROVE  IInv'
<1>1. CASE op.first = 0
  BY <1>1, GaveUp DEF AllocFails, IInv, TypeOK
<1>2. CASE op.first # 0
  <2> DEFINE o == [Idle EXCEPT !.cmd = "delete", !.at = "free", !.cl = op.first]
  <2>1. op' = o /\ torn' = IF op.over THEN torn \cup {op.slot} ELSE torn
    BY <1>2 DEF AllocFails, Stay
  <2>2. op \in OpType /\ op.slot \in DirPlace /\ InFlight(op.first)
    BY <1>2 DEF IInv, LocalsSound, Hands, TypeOK
  <2> HIDE DEF Idle
  <2>3. op' \in OpType
    BY <2>1, <2>2, IdleFields DEF OpType, Stage
  <2>4. /\ op'.cmd = "delete" /\ op'.at = "free" /\ op'.cl = op.first /\ op'.new = 0 /\ op'.first = 0
        /\ op'.over = FALSE
    BY <2>1, IdleFields DEF OpType
  <2>5. Suspended' = Suspended
    BY <2>1, <2>4 DEF Suspended
  <2>6. \A p \in Place : Ref(p)' = Ref(p)
    BY <2>5, RefSame DEF SlotAt
  <2>7. NoSharedCluster' /\ NoDangling' /\ fat'[Root] # Free
    BY <2>6 DEF IInv, NoSharedCluster, NoDangling
  <2>8. InFlight(op.cl)'
    BY <2>2, <2>4, <2>6 DEF InFlight, Unref
  <2>9. TypeOK'
    BY <2>1, <2>2, <2>3, <2>4 DEF IInv, TypeOK
  <2>10. StagesSound' /\ LocalsSound'
    BY <2>4 DEF StagesSound, LocalsSound
  <2>11. Hands'
    BY <2>4, <2>8 DEF Hands
  <2> QED BY <2>7, <2>9, <2>10, <2>11 DEF IInv
<1> QED BY <1>1, <1>2

(* fat_alloc_chain goes on behind a cluster it took or linked: the rest of *)
(* the chain, or the entry.                                                *)
LEMMA AllocGoesOn ==
  ASSUME IInv, op.at = "alloc", NEW c \in Cluster, NEW f \in Cluster \cup {0},
         Go("alloc", [op EXCEPT !.new = 0, !.first = f, !.prev = c, !.need = @ - 1])
  PROVE  /\ op' \in OpType /\ op'.at \in {"alloc", "entry"} /\ op'.cmd = op.cmd
         /\ op'.new = 0 /\ op'.first = f /\ op'.slot = op.slot /\ op'.over = op.over
         /\ op'.at = "alloc" => op'.need > 0
<1> DEFINE z == 0
           k == op.need - 1
           o == [op EXCEPT !.new = z, !.first = f, !.prev = c, !.need = k]
<1>1. op \in OpType /\ op.need > 0 /\ op.cmd \in {"write", "mkdir"}
  BY DEF IInv, TypeOK, LocalsSound, StagesSound
<1>2. k \in 0 .. MaxLen + 1 /\ z \in Cluster \cup {0} /\ z = 0
  <2>1. op.need \in 0 .. MaxLen + 1
    BY <1>1 DEF OpType
  <2> QED BY <1>1, <2>1, DiskAssumption
<1>3. Go("alloc", o)
  OBVIOUS
<1> HIDE DEF z, k
<1>4. o \in OpType
  BY <1>1, <1>2 DEF OpType
<1>5. /\ o.new = z /\ o.first = f /\ o.slot = op.slot /\ o.over = op.over /\ o.cmd = op.cmd
  BY <1>1 DEF OpType
<1> HIDE DEF o
<1>6. /\ op' \in OpType /\ SameLocals(o, op') /\ op'.at \in {"alloc", "entry"}
      /\ op'.at = "alloc" => o.need > 0
  BY <1>1, <1>3, <1>4, <1>5, AfterStage, GoEffect DEF Stage
<1> QED BY <1>2, <1>5, <1>6 DEF SameLocals

(* The state behind a step of fat_alloc_chain that leaves nothing in its   *)
(* hands but the chain.                                                    *)
LEMMA AllocStepIInv ==
  ASSUME IInv, op.at = "alloc", UNCHANGED <<cwd, torn, leaky, faults, commands>>,
         NEW f, f # 0 => InFlight(f)',
         op' \in OpType, op'.at \in {"alloc", "entry"}, op'.cmd = op.cmd,
         op'.new = 0, op'.first = f, op'.slot = op.slot, op'.over = op.over,
         op'.at = "alloc" => op'.need > 0,
         NoSharedCluster', NoDangling', fat'[Root] # Free,
         fat' \in [Cluster -> Cluster \cup {Free, EOC}],
         data' \in [Cluster -> [SlotIdx -> SlotVal]]
  PROVE  IInv'
<1>1. op.slot \in DirPlace /\ op.cmd \in {"write", "mkdir"} /\ (op.over => op.cmd = "write")
  BY DEF IInv, LocalsSound, StagesSound
<1>2. TypeOK'
  BY <1>1 DEF IInv, TypeOK
<1>3. StagesSound' /\ LocalsSound'
  BY <1>1 DEF StagesSound, LocalsSound
<1>4. f # 0 => InFlight(op.first)'
  BY DEF InFlight, Unref
<1>5. Hands'
  BY <1>4 DEF Hands
<1> QED BY <1>2, <1>3, <1>5 DEF IInv

(* fat32_alloc_cluster() marks the free cluster it has found. *)
LEMMA AllocTakeIInv ==
  ASSUME IInv, AllocTake PROVE IInv'
<1>1. op.at = "alloc" /\ op.new = 0 /\ UNCHANGED <<cwd, leaky, faults, commands>> /\ op \in OpType
  BY DEF AllocTake, At, IInv, TypeOK
<1>2. CASE FreeClusters = {} /\ AllocFails /\ UNCHANGED <<fat, data>>
  BY <1>1, <1>2, AllocFailsIInv
<1>3. ASSUME NEW c \in Cluster, IsFirst(c, FreeClusters), SetFat(c, EOC),
             data' = [data EXCEPT ![c] = Zeroed(op)], UNCHANGED torn,
             IF op.prev # 0 THEN Stay([op EXCEPT !.new = c])
             ELSE Go("alloc", [op EXCEPT !.first = c, !.prev = c, !.need = @ - 1])
      PROVE  IInv'
  <2>1. fat[c] = Free /\ fat' = [fat EXCEPT ![c] = EOC] /\ c # 0
    BY <1>3, Numbering DEF IsFirst, FreeClusters, SetFat
  <2>2. PICK B : NoEntries(B) /\ B = Zeroed(op)
    BY Cleared DEF Zeroed
  <2>3. Suspended' = Suspended =>
          /\ NoSharedCluster' /\ NoDangling' /\ fat'[Root] # Free
          /\ fat' \in [Cluster -> Cluster \cup {Free, EOC}]
          /\ data' \in [Cluster -> [SlotIdx -> SlotVal]]
          /\ InFlight(c)'
          /\ \A d : InFlight(d) => d # c /\ InFlight(d)'
    BY <1>3, <2>1, <2>2, Taken
  <2>4. CASE op.prev # 0
    <3>1. op' = [op EXCEPT !.new = c]
      BY <1>3, <2>4 DEF Stay
    <3>2. op' \in OpType
      BY <1>1, <3>1 DEF OpType
    <3>3. /\ op'.new = c /\ op'.at = op.at /\ op'.cmd = op.cmd /\ op'.slot = op.slot /\ op'.prev = op.prev
          /\ op'.first = op.first /\ op'.cl = op.cl /\ op'.over = op.over /\ op'.need = op.need
      BY <1>1, <3>1 DEF OpType
    <3>4. Suspended' = Suspended
      BY <1>3, <3>3 DEF Suspended
    <3>5. TypeOK'
      BY <1>1, <1>3, <2>3, <3>2, <3>3, <3>4 DEF IInv, TypeOK
    <3>6. StagesSound' /\ LocalsSound'
      BY <1>1, <2>4, <3>3 DEF IInv, StagesSound, LocalsSound
    <3>7. PICK f : f = op.first
      OBVIOUS
    <3>8. f # 0 => f # c /\ InFlight(f)'
      BY <1>1, <2>3, <3>4, <3>7 DEF IInv, Hands
    <3>9. (f # 0 => InFlight(op.first)') /\ InFlight(op.new)' /\ op'.first = f
      BY <2>3, <3>3, <3>4, <3>7, <3>8 DEF InFlight, Unref
    <3>10. Hands'
      BY <1>1, <2>1, <3>3, <3>8, <3>9 DEF Hands
    <3> QED BY <2>3, <3>4, <3>5, <3>6, <3>10 DEF IInv
  <2>5. CASE op.prev = 0
    <3>1. Go("alloc", [op EXCEPT !.first = c, !.prev = c, !.need = @ - 1])
      BY <1>3, <2>5
    <3>2. [op EXCEPT !.new = 0, !.first = c, !.prev = c, !.need = @ - 1]
            = [op EXCEPT !.first = c, !.prev = c, !.need = @ - 1]
      <4> DEFINE k == op.need - 1
                 e == [op EXCEPT !.new = 0]
      <4>1. e = op
        BY <1>1 DEF OpType
      <4> HIDE DEF e
      <4>2. [e EXCEPT !.first = c, !.prev = c, !.need = k] = [op EXCEPT !.first = c, !.prev = c, !.need = k]
        BY <4>1
      <4>3. [e EXCEPT !.first = c, !.prev = c, !.need = k]
             = [op EXCEPT !.new = 0, !.first = c, !.prev = c, !.need = k]
        BY DEF e
      <4> QED BY <4>2, <4>3 DEF k
    <3>3. /\ op' \in OpType /\ op'.at \in {"alloc", "entry"} /\ op'.cmd = op.cmd
          /\ op'.new = 0 /\ op'.first = c /\ op'.slot = op.slot /\ op'.over = op.over
          /\ op'.at = "alloc" => op'.need > 0
      BY <1>1, <3>1, <3>2, AllocGoesOn
    <3>4. Suspended' = Suspended
      BY <1>3, <3>3 DEF Suspended
    <3> QED BY <1>1, <1>3, <2>3, <3>3, <3>4, AllocStepIInv
  <2> QED BY <2>4, <2>5
<1> QED BY <1>1, <1>2, <1>3 DEF AllocTake

(* fat32_alloc_cluster() links the cluster to the one before it. *)
LEMMA AllocLinkIInv ==
  ASSUME IInv, AllocLink PROVE IInv'
<1>1. op.at = "alloc" /\ op.new # 0 /\ UNCHANGED <<data, cwd, torn, leaky, faults, commands>>
      /\ op \in OpType /\ fat' = [fat EXCEPT ![op.prev] = op.new]
      /\ Go("alloc", [op EXCEPT !.new = 0, !.prev = op.new, !.need = @ - 1])
  BY DEF AllocLink, At, SetFat, IInv, TypeOK
<1>2. PICK a \in Cluster : a = op.prev
  BY <1>1 DEF IInv, LocalsSound, OpType
<1>3. PICK n \in Cluster : n = op.new
  BY <1>1 DEF OpType
<1>4. PICK f \in Cluster \cup {0} : f = op.first
  BY <1>1 DEF OpType
<1>5. InFlight(n) /\ (f # 0 => InFlight(f) /\ f # n)
  BY <1>1, <1>3, <1>4 DEF IInv, Hands
<1>6. Go("alloc", [op EXCEPT !.new = 0, !.first = f, !.prev = n, !.need = @ - 1])
  <2> DEFINE z == 0
             k == op.need - 1
  <2>1. [op EXCEPT !.new = z, !.first = f, !.prev = n, !.need = k]
          = [op EXCEPT !.new = z, !.prev = n, !.need = k]
    <3> HIDE DEF z, k
    <3>1. [op EXCEPT !.new = z, !.first = f].first = [op EXCEPT !.new = z].first
      BY <1>1, <1>4 DEF OpType
    <3> QED BY <1>1, <1>4 DEF OpType
  <2> QED BY <1>1, <1>3, <2>1
<1>7. /\ op' \in OpType /\ op'.at \in {"alloc", "entry"} /\ op'.cmd = op.cmd
      /\ op'.new = 0 /\ op'.first = f /\ op'.slot = op.slot /\ op'.over = op.over
      /\ op'.at = "alloc" => op'.need > 0
  BY <1>1, <1>6, AllocGoesOn
<1>8. Suspended' = Suspended
  BY <1>1, <1>7 DEF Suspended
<1>9. /\ NoSharedCluster' /\ NoDangling' /\ fat'[Root] # Free
      /\ fat' \in [Cluster -> Cluster \cup {Free, EOC}]
      /\ \A d : d # n /\ InFlight(d) => InFlight(d)'
  BY <1>1, <1>2, <1>3, <1>5, <1>8, Linked
<1>10. data' \in [Cluster -> [SlotIdx -> SlotVal]] /\ (f # 0 => InFlight(f)')
  BY <1>1, <1>5, <1>9 DEF IInv, TypeOK
<1> QED BY <1>1, <1>7, <1>9, <1>10, AllocStepIInv

-----------------------------------------------------------------------------
(* A write to a directory.  Slots other than q lose their entry or stay. *)

(* Writing one entry of a directory makes no other reference. *)
LEMMA SlotWrite ==
  ASSUME NEW q \in DirPlace, UNCHANGED fat,
         \A p \in DirPlace : p # q => SlotAt(p)' = SlotAt(p) \/ SlotAt(p)'.kind # "ent",
         \A p \in DirPlace : p # q => (p \in Suspended' <=> p \in Suspended)
  PROVE  \A p \in Place : p # q => Ref(p)' \in {0, Ref(p)}
<1> SUFFICES ASSUME NEW p \in Place, p # q PROVE Ref(p)' \in {0, Ref(p)}
  OBVIOUS
<1>1. CASE p[2] = 0
  BY <1>1 DEF Ref
<1>2. CASE p[2] # 0
  <2>1. p \in DirPlace
    BY <1>2, Places
  <2>2. CASE SlotAt(p)'.kind # "ent"
    BY <2>1, <2>2, NoEntNoRef
  <2>3. CASE SlotAt(p)' = SlotAt(p)
    BY <1>2, <2>1, <2>3 DEF Ref
  <2> QED BY <2>1, <2>2, <2>3
<1> QED BY <1>1, <1>2

(* What SetSlot does. *)
LEMMA SetSlotEffect ==
  ASSUME TypeOK, NEW q \in DirPlace, NEW v \in SlotVal, SetSlot(q, v)
  PROVE  /\ data' \in [Cluster -> [SlotIdx -> SlotVal]]
         /\ SlotAt(q)' = v
         /\ \A p \in DirPlace : p # q => SlotAt(p)' = SlotAt(p)
<1>1. q[1] \in Cluster /\ q[2] \in SlotIdx /\ q = <<q[1], q[2]>>
  BY Places DEF DirPlace
<1>2. data \in [Cluster -> [SlotIdx -> SlotVal]] /\ data' = [data EXCEPT ![q[1]][q[2]] = v]
  BY DEF TypeOK, SetSlot
<1>3. data' \in [Cluster -> [SlotIdx -> SlotVal]] /\ data'[q[1]][q[2]] = v
  BY <1>1, <1>2
<1>4. ASSUME NEW p \in DirPlace, p # q PROVE data'[p[1]][p[2]] = data[p[1]][p[2]]
  <2>1. p[1] \in Cluster /\ p[2] \in SlotIdx /\ (p[1] # q[1] \/ p[2] # q[2])
    BY <1>1, <1>4, Places DEF DirPlace
  <2> QED BY <1>1, <1>2, <2>1
<1> QED BY <1>3, <1>4 DEF SlotAt

(* Marking an entry takes its chain from it. *)
LEMMA MarkIInv ==
  ASSUME IInv, Mark PROVE IInv'
<1>1. /\ op.at = "mark" /\ Go("mark", op) /\ UNCHANGED <<fat, cwd, torn, leaky, faults, commands>>
      /\ op \in OpType /\ op.slot \in DirPlace /\ op.new = 0 /\ op.over = FALSE
      /\ op.cmd \in {"delete", "rename"}
  BY DEF Mark, At, IInv, TypeOK, Hands, LocalsSound, StagesSound, OpType
<1>2. PICK q \in DirPlace : q = op.slot
  BY <1>1
<1> DEFINE name == {j \in SlotIdx : j < q[2] /\ \A k \in j .. (q[2] - 1) : data[q[1]][k].kind = "lfn"}
           B == [j \in SlotIdx |-> IF j = q[2] \/ j \in name THEN Plain("del") ELSE data[q[1]][j]]
<1>3. data' = [data EXCEPT ![q[1]] = B]
  BY <1>2 DEF Mark
<1>4. Plain("del") \in SlotVal /\ Plain("del").kind = "del"
  BY DEF Plain, SlotVal, Kind, Text
<1>5. TypeOK /\ data \in [Cluster -> [SlotIdx -> SlotVal]] /\ q[1] \in Cluster /\ q[2] \in SlotIdx /\ q \in Place
  BY Places DEF IInv, TypeOK
<1> HIDE DEF name, Plain
<1>6. B \in [SlotIdx -> SlotVal] /\ B[q[2]].kind = "del"
      /\ \A j \in SlotIdx : B[j] = data[q[1]][j] \/ B[j].kind = "del"
  BY <1>4, <1>5
<1> HIDE DEF B
<1>7. data' \in [Cluster -> [SlotIdx -> SlotVal]]
  BY <1>3, <1>5, <1>6
<1>8. ASSUME NEW p \in DirPlace
      PROVE  SlotAt(p)' = SlotAt(p) \/ SlotAt(p)'.kind = "del"
  <2>1. p[1] \in Cluster /\ p[2] \in SlotIdx
    BY Places
  <2>2. CASE p[1] = q[1]
    BY <1>3, <1>5, <1>6, <2>1, <2>2 DEF SlotAt
  <2>3. CASE p[1] # q[1]
    BY <1>3, <1>5, <2>1, <2>3 DEF SlotAt
  <2> QED BY <2>2, <2>3
<1>9. SlotAt(q)'.kind = "del"
  BY <1>3, <1>5, <1>6 DEF SlotAt
<1>10. Ref(q)' = 0
  BY <1>9, NoEntNoRef
<1>11. /\ op.cmd = "rename" => op' \in OpType /\ op'.at = "run" /\ SameLocals(op, op')
       /\ op.cmd = "delete" /\ op.cl # 0 => op' \in OpType /\ op'.at = "free" /\ SameLocals(op, op')
       /\ op.cmd = "delete" /\ op.cl = 0 => op' = Idle
  BY <1>1, AfterStage, GoEffect DEF Stage
<1>12. op'.over = FALSE
  BY <1>1, <1>11, IdleFields DEF SameLocals
<1>13. Suspended' = Suspended
  BY <1>1, <1>12 DEF Suspended
<1>14. \A p \in Place : p # q => Ref(p)' \in {0, Ref(p)}
  BY <1>1, <1>8, <1>13, SlotWrite
<1>15. NoSharedCluster' /\ NoDangling' /\ fat'[Root] # Free
  <2>1. \A p \in Place : Ref(p) # 0 => fat'[Ref(p)] # Free
    BY <1>1 DEF IInv, NoDangling
  <2>2. NoSharedCluster /\ NoDangling /\ fat[Root] # Free
    BY DEF IInv
  <2> QED BY <1>1, <1>5, <1>10, <1>14, <2>1, <2>2, RefsStep
<1>16. ASSUME NEW c, c # 0, Ref(q) = c PROVE InFlight(c)'
  <2>1. c \in Cluster /\ c # Root /\ fat[c] # Free
    BY <1>5, <1>16, RefType DEF IInv, NoSharedCluster, NoDangling
  <2>2. \A p \in Place : p # q => Ref(p) # c
    BY <1>5, <1>16 DEF IInv, NoSharedCluster
  <2>3. Unref(c)'
    BY <1>10, <1>14, <1>16, <2>2 DEF Unref
  <2> QED BY <1>1, <2>1, <2>3 DEF InFlight
<1>17. PICK f, l : f = op.first /\ l = op.cl
  OBVIOUS
<1>18. (f # 0 => InFlight(f)') /\ (l # 0 => InFlight(l)' /\ f = 0)
  BY <1>1, <1>2, <1>16, <1>17 DEF IInv, Hands
<1>19. CASE op' = Idle
  <2>1. TypeOK'
    BY <1>1, <1>7, <1>19, IdleFields DEF IInv, TypeOK
  <2> QED BY <1>15, <1>19, <2>1, ToIdle
<1>20. CASE /\ op' \in OpType /\ SameLocals(op, op')
            /\ \/ op'.at = "run" /\ op.cmd = "rename"
               \/ op'.at = "free" /\ op.cmd = "delete" /\ op.cl # 0
  <2>1. op'.first = f /\ op'.cl = l /\ op'.new = 0 /\ op'.cmd = op.cmd /\ l = op.cl
    BY <1>1, <1>17, <1>20 DEF SameLocals
  <2>2. TypeOK'
    BY <1>1, <1>7, <1>20 DEF IInv, TypeOK
  <2>3. StagesSound' /\ LocalsSound'
    BY <1>12, <1>20, <2>1 DEF StagesSound, LocalsSound
  <2>4. (f # 0 => InFlight(op.first)') /\ (l # 0 => InFlight(op.cl)')
    BY <1>18, <2>1 DEF InFlight, Unref
  <2>5. Hands'
    BY <1>18, <1>20, <2>1, <2>4 DEF Hands
  <2> QED BY <1>15, <2>2, <2>3, <2>5 DEF IInv
<1> QED BY <1>1, <1>11, <1>19, <1>20

(* A step that writes nothing, or only to slots without an entry, keeps    *)
(* what refers to what.                                                    *)
LEMMA RefsKept ==
  ASSUME IInv, UNCHANGED fat, Suspended' = Suspended,
         \A p \in DirPlace : SlotAt(p)' = SlotAt(p) \/ SlotAt(p)'.kind # "ent"
  PROVE  /\ NoSharedCluster' /\ NoDangling' /\ fat'[Root] # Free
         /\ \A c : InFlight(c) => InFlight(c)'
<1>1. <<Root, 1>> \in DirPlace
  BY Numbering DEF DirPlace
<1>2. PICK q \in DirPlace : TRUE
  BY <1>1
<1>3. \A p \in Place : p # q => Ref(p)' \in {0, Ref(p)}
  BY SlotWrite
<1>4. q \in Place /\ Ref(q)' \in {0, Ref(q)}
  <2>1. CASE SlotAt(q)'.kind # "ent"
    BY <2>1, NoEntNoRef, Places
  <2>2. CASE SlotAt(q)' = SlotAt(q)
    BY <2>2, RefSame, Places
  <2> QED BY <2>1, <2>2
<1>5. \A p \in Place : Ref(p) # 0 => fat'[Ref(p)] # Free
  BY DEF IInv, NoDangling
<1>6. NoSharedCluster /\ NoDangling /\ fat[Root] # Free
  BY DEF IInv
<1>7. NoSharedCluster' /\ NoDangling' /\ \A c : c # 0 /\ Unref(c) => Unref(c)'
  BY <1>3, <1>4, <1>5, <1>6, RefsStep
<1> QED BY <1>6, <1>7, Numbering DEF InFlight

(* dir_find_or_grow_run finds two slots, or a cluster to extend. *)
LEMMA RunFields ==
  ASSUME NEW b \in OpType, NEW d, NEW o \in Run(d, b), b.slot = NoPlace
  PROVE  /\ o \in OpType /\ o.cmd = b.cmd /\ o.first = b.first /\ o.new = b.new /\ o.cl = b.cl
         /\ o.over = b.over /\ (o.last # 0 \/ (o.slot \in DirPlace /\ o.next \in DirPlace))
<1>1. \/ \E p, q : IsFreePlace(p) /\ IsFreePlace(q) /\ o = [b EXCEPT !.slot = p, !.next = q]
      \/ \E p, c : (p = NoPlace \/ IsFreePlace(p)) /\ IsLast(c) /\ o = [b EXCEPT !.slot = p, !.last = c]
  BY DEF Run
<1>2. ASSUME NEW p, NEW q, IsFreePlace(p), IsFreePlace(q), o = [b EXCEPT !.slot = p, !.next = q]
      PROVE  /\ o \in OpType /\ o.cmd = b.cmd /\ o.first = b.first /\ o.new = b.new /\ o.cl = b.cl
             /\ o.over = b.over /\ o.slot \in DirPlace /\ o.next \in DirPlace
  <2>1. p \in DirPlace /\ q \in DirPlace
    BY <1>2 DEF IsFreePlace
  <2>2. o \in OpType
    BY <1>2, <2>1 DEF OpType
  <2>3. o.cmd = b.cmd /\ o.first = b.first /\ o.new = b.new /\ o.cl = b.cl /\ o.over = b.over
        /\ o.slot = p /\ o.next = q
    BY <1>2 DEF OpType
  <2> QED BY <2>1, <2>2, <2>3
<1>3. ASSUME NEW p, NEW c, p = NoPlace \/ IsFreePlace(p), IsLast(c), o = [b EXCEPT !.slot = p, !.last = c]
      PROVE  /\ o \in OpType /\ o.cmd = b.cmd /\ o.first = b.first /\ o.new = b.new /\ o.cl = b.cl
             /\ o.over = b.over /\ o.last # 0
  <2>1. p \in DirPlace \cup {NoPlace} /\ c \in Cluster /\ c # 0
    BY <1>3, Numbering DEF IsFreePlace, IsLast
  <2> HIDE DEF NoPlace
  <2>2. o \in OpType
    BY <1>3, <2>1 DEF OpType
  <2>3. o.cmd = b.cmd /\ o.first = b.first /\ o.new = b.new /\ o.cl = b.cl /\ o.over = b.over
        /\ o.last = c
    BY <1>3 DEF OpType
  <2> QED BY <2>1, <2>2, <2>3
<1> QED BY <1>1, <1>2, <1>3

(* The search for a run of free places in a directory. *)
LEMMA FindRunIInv ==
  ASSUME IInv, FindRun PROVE IInv'
<1> DEFINE b == [op EXCEPT !.slot = NoPlace]
<1>1. /\ op.at = "run" /\ UNCHANGED <<fat, data, cwd, torn, leaky, faults, commands>> /\ op \in OpType
      /\ op.cmd = "rename" /\ op.over = FALSE /\ op.new = 0
  BY DEF FindRun, At, IInv, TypeOK, StagesSound, LocalsSound, Hands, OpType
<1>2. PICK o \in Run(cwd, b) : Go("run", o)
  BY DEF FindRun
<1>3. b \in OpType /\ b.slot = NoPlace /\ b.cmd = op.cmd /\ b.first = op.first /\ b.new = op.new
      /\ b.cl = op.cl /\ b.over = op.over
  <2> HIDE DEF NoPlace
  <2>1. b \in OpType
    BY <1>1 DEF OpType
  <2> QED BY <1>1, <2>1 DEF OpType
<1> HIDE DEF b
<1>4. /\ o \in OpType /\ o.cmd = "rename" /\ o.first = op.first /\ o.new = 0
      /\ o.over = FALSE /\ (o.last # 0 \/ (o.slot \in DirPlace /\ o.next \in DirPlace))
  BY <1>1, <1>2, <1>3, RunFields
<1>5. /\ op' \in OpType /\ SameLocals(o, op')
      /\ op'.at = IF o.last # 0 THEN "grow" ELSE "lfn"
  BY <1>2, <1>4, AfterStage, GoEffect DEF Stage
<1>6. /\ op'.cmd = "rename" /\ op'.first = op.first /\ op'.new = 0 /\ op'.over = FALSE
      /\ op'.last = o.last /\ op'.slot = o.slot /\ op'.next = o.next
  BY <1>4, <1>5 DEF SameLocals
<1>7. Suspended' = Suspended
  BY <1>1, <1>6 DEF Suspended
<1>8. PICK f : f = op.first
  OBVIOUS
<1>9. NoSharedCluster' /\ NoDangling' /\ fat'[Root] # Free /\ (InFlight(f) => InFlight(f)')
  BY <1>1, <1>7, RefsKept DEF SlotAt
<1>10. f # 0 => InFlight(f)
  BY <1>1, <1>8 DEF IInv, Hands
<1>11. op'.first = f /\ (f # 0 => InFlight(op.first)')
  BY <1>6, <1>8, <1>9, <1>10 DEF InFlight, Unref
<1>12. TypeOK'
  BY <1>1, <1>4, <1>5, <1>6 DEF IInv, TypeOK
<1>13. StagesSound' /\ LocalsSound'
  BY <1>4, <1>5, <1>6 DEF StagesSound, LocalsSound
<1>14. Hands'
  BY <1>5, <1>6, <1>11 DEF Hands
<1> QED BY <1>9, <1>12, <1>13, <1>14 DEF IInv

(* dir_write_named_entry writes the long name to a slot that then holds no *)
(* entry.                                                                  *)
LEMMA WriteLfnIInv ==
  ASSUME IInv, WriteLfn PROVE IInv'
<1> DEFINE o == [op EXCEPT !.slot = op.next]
<1>1. /\ op.at = "lfn" /\ Go("lfn", o) /\ UNCHANGED <<fat, cwd, torn, leaky, faults, commands>>
      /\ op \in OpType /\ op.slot \in DirPlace /\ op.next \in DirPlace
      /\ op.cmd = "rename" /\ op.over = FALSE /\ op.new = 0
  BY DEF WriteLfn, At, IInv, TypeOK, StagesSound, LocalsSound, Hands, OpType
<1>2. PICK q \in DirPlace : q = op.slot
  BY <1>1
<1>3. PICK v \in SlotVal : v = Lfn(op.long) /\ v.kind = "lfn"
  <2>1. op.long \in Text
    BY <1>1 DEF OpType
  <2>2. Lfn(op.long) \in SlotVal /\ Lfn(op.long).kind = "lfn"
    BY <2>1 DEF Lfn, SlotVal, Kind
  <2> QED BY <2>2
<1>4. /\ data' \in [Cluster -> [SlotIdx -> SlotVal]]
      /\ SlotAt(q)' = v
      /\ \A p \in DirPlace : p # q => SlotAt(p)' = SlotAt(p)
  <2>1. TypeOK /\ SetSlot(q, v)
    BY <1>2, <1>3 DEF WriteLfn, IInv
  <2> QED BY <2>1, SetSlotEffect
<1>5. o \in OpType /\ o.cmd = "rename" /\ o.slot = op.next /\ o.first = op.first /\ o.new = 0
      /\ o.over = FALSE
  <2>1. o \in OpType
    BY <1>1 DEF OpType
  <2> QED BY <1>1, <2>1 DEF OpType
<1> HIDE DEF o
<1>6. op' \in OpType /\ op'.at = "entry" /\ SameLocals(o, op')
  BY <1>1, <1>5, AfterStage, GoEffect DEF Stage
<1>7. /\ op'.cmd = "rename" /\ op'.slot = op.next /\ op'.first = op.first /\ op'.new = 0
      /\ op'.over = FALSE
  BY <1>5, <1>6 DEF SameLocals
<1>8. Suspended' = Suspended
  BY <1>1, <1>7 DEF Suspended
<1>9. PICK f : f = op.first
  OBVIOUS
<1>10. \A p \in DirPlace : SlotAt(p)' = SlotAt(p) \/ SlotAt(p)'.kind # "ent"
  BY <1>3, <1>4
<1>11. NoSharedCluster' /\ NoDangling' /\ fat'[Root] # Free /\ (InFlight(f) => InFlight(f)')
  BY <1>1, <1>8, <1>10, RefsKept
<1>12. f # 0 => InFlight(f)
  BY <1>1, <1>9 DEF IInv, Hands
<1>13. op'.first = f /\ (f # 0 => InFlight(op.first)')
  BY <1>7, <1>9, <1>11, <1>12 DEF InFlight, Unref
<1>14. TypeOK'
  BY <1>1, <1>4, <1>6, <1>7 DEF IInv, TypeOK
<1>15. StagesSound' /\ LocalsSound'
  BY <1>6, <1>7 DEF StagesSound, LocalsSound
<1>16. Hands'
  BY <1>6, <1>7, <1>13 DEF Hands
<1> QED BY <1>11, <1>14, <1>15, <1>16 DEF IInv

(* The entry gets the chain in the command's hands. *)
LEMMA WriteEntryIInv ==
  ASSUME IInv, WriteEntry PROVE IInv'
<1> DEFINE b == FALSE
           o == [op EXCEPT !.over = b]
<1>1. /\ op.at = "entry" /\ Go("entry", o) /\ UNCHANGED <<fat, cwd, torn, leaky, faults, commands>>
      /\ op \in OpType /\ op.slot \in DirPlace /\ op.new = 0
      /\ op.cmd \in {"write", "mkdir", "rename"}
  BY DEF WriteEntry, At, IInv, TypeOK, StagesSound, Hands, OpType
<1>2. PICK q \in DirPlace : q = op.slot
  BY <1>1
<1>3. PICK f \in Cluster \cup {0} : f = op.first
  BY <1>1 DEF OpType
<1>4. PICK v \in SlotVal : v = Ent(op.name, op.first, op.dir) /\ v.clus = f
  <2>1. op.name \in Text /\ op.first \in Cluster \cup {0} /\ op.dir \in BOOLEAN
    BY <1>1 DEF OpType
  <2>2. Ent(op.name, op.first, op.dir) \in SlotVal
    BY <2>1 DEF Ent, SlotVal, Kind
  <2>3. Ent(op.name, op.first, op.dir).clus = f
    BY <1>3 DEF Ent
  <2> QED BY <2>2, <2>3
<1>5. /\ data' \in [Cluster -> [SlotIdx -> SlotVal]]
      /\ SlotAt(q)' = v
      /\ \A p \in DirPlace : p # q => SlotAt(p)' = SlotAt(p)
  <2>1. TypeOK /\ SetSlot(q, v)
    BY <1>2, <1>4 DEF WriteEntry, IInv
  <2> QED BY <2>1, SetSlotEffect
<1>b. b \in BOOLEAN /\ b = FALSE
  OBVIOUS
<1> HIDE DEF b
<1>6. o \in OpType /\ o.cmd = op.cmd /\ o.slot = op.slot /\ o.first = op.first /\ o.new = 0
      /\ o.over = FALSE
  <2>1. o \in OpType
    BY <1>1, <1>b DEF OpType
  <2>2. o.cmd = op.cmd /\ o.slot = op.slot /\ o.first = op.first /\ o.new = op.new
    BY <1>1 DEF OpType
  <2>3. o.over = b
    BY <1>1 DEF OpType
  <2> QED BY <1>1, <1>b, <2>1, <2>2, <2>3
<1> HIDE DEF o
<1>7. /\ op.cmd \in {"write", "rename"} => op' = Idle
      /\ op.cmd = "mkdir" => op' \in OpType /\ op'.at = "dots" /\ SameLocals(o, op')
  BY <1>1, <1>6, AfterStage, GoEffect DEF Stage
<1>8. op'.over = FALSE
  BY <1>1, <1>6, <1>7, IdleFields DEF SameLocals
<1>9. \A p \in DirPlace : p # q => (p \in Suspended' <=> p \in Suspended)
  BY <1>1, <1>2, <1>8 DEF Suspended
<1>10. \A p \in Place : p # q => Ref(p)' \in {0, Ref(p)}
  BY <1>1, <1>5, <1>9, SlotWrite
<1>11. Ref(q)' \in {0, f} /\ q \in Place
  BY <1>4, <1>5, Places DEF Ref
<1>12. f # 0 => f # Root /\ Unref(f) /\ fat'[f] # Free
  BY <1>1, <1>3 DEF IInv, Hands, InFlight
<1>13. NoSharedCluster' /\ NoDangling' /\ fat'[Root] # Free
  <2>1. \A p \in Place : Ref(p) # 0 => fat'[Ref(p)] # Free
    BY <1>1 DEF IInv, NoDangling
  <2>2. NoSharedCluster /\ NoDangling /\ fat[Root] # Free
    BY DEF IInv
  <2> QED BY <1>1, <1>10, <1>11, <1>12, <2>1, <2>2, RefsStep
<1>14. CASE op' = Idle
  <2>1. TypeOK'
    BY <1>1, <1>5, <1>14, IdleFields DEF IInv, TypeOK
  <2> QED BY <1>13, <1>14, <2>1, ToIdle
<1>15. CASE op.cmd = "mkdir"
  <2>1. op' \in OpType /\ op'.at = "dots" /\ op'.cmd = "mkdir" /\ op'.new = 0 /\ op'.over = FALSE
    BY <1>6, <1>7, <1>8, <1>15 DEF SameLocals
  <2>2. TypeOK'
    BY <1>1, <1>5, <2>1 DEF IInv, TypeOK
  <2>3. StagesSound' /\ LocalsSound' /\ Hands'
    BY <2>1 DEF StagesSound, LocalsSound, Hands
  <2> QED BY <1>13, <2>2, <2>3 DEF IInv
<1> QED BY <1>1, <1>7, <1>14, <1>15

(* A cluster of a directory is overwritten with slots that are no entries; *)
(* the command ends.                                                       *)
LEMMA WriteDotsIInv ==
  ASSUME IInv, WriteDots PROVE IInv'
<1>1. /\ op.at = "dots" /\ Go("dots", op) /\ UNCHANGED <<fat, cwd, torn, leaky, faults, commands>>
      /\ op \in OpType /\ op.cmd \in {"write", "mkdir"} /\ op.over = FALSE
  BY DEF WriteDots, At, IInv, TypeOK, StagesSound, LocalsSound, OpType
<1>2. op' = Idle
  BY <1>1, AfterStage, GoEffect DEF Stage
<1>3. PICK f \in Cluster \cup {0} : f = op.first
  BY <1>1 DEF OpType
<1> DEFINE B == [i \in SlotIdx |-> IF i = 1 THEN Dot(".", f)
                                   ELSE IF i = 2 THEN Dot("..", cwd) ELSE Plain("end")]
<1>4. data' = [data EXCEPT ![f] = B] /\ data \in [Cluster -> [SlotIdx -> SlotVal]] /\ cwd \in Cluster
  BY <1>3 DEF WriteDots, IInv, TypeOK
<1>5. NoEntries(B)
  <2>1. Dot(".", f) \in SlotVal /\ Dot("..", cwd) \in SlotVal /\ Plain("end") \in SlotVal
    BY <1>3, <1>4 DEF Dot, Plain, SlotVal, Kind, Text
  <2>2. Dot(".", f).kind = "dot" /\ Dot("..", cwd).kind = "dot" /\ Plain("end").kind = "end"
    BY DEF Dot, Plain
  <2> HIDE DEF Dot, Plain
  <2> QED BY <2>1, <2>2 DEF NoEntries
<1> HIDE DEF B
<1>6. data' \in [Cluster -> [SlotIdx -> SlotVal]]
  BY <1>4, <1>5 DEF NoEntries
<1>7. \A p \in DirPlace : SlotAt(p)' = SlotAt(p) \/ SlotAt(p)'.kind # "ent"
  <2> SUFFICES ASSUME NEW p \in DirPlace PROVE SlotAt(p)' = SlotAt(p) \/ SlotAt(p)'.kind # "ent"
    OBVIOUS
  <2>1. p[1] \in Cluster /\ p[2] \in SlotIdx
    BY Places
  <2> QED BY <1>4, <1>5, <2>1 DEF SlotAt, NoEntries
<1>8. Suspended' = Suspended
  BY <1>1, <1>2, IdleFields DEF Suspended
<1>9. NoSharedCluster' /\ NoDangling' /\ fat'[Root] # Free
  BY <1>1, <1>7, <1>8, RefsKept
<1>10. TypeOK'
  BY <1>1, <1>2, <1>6, IdleFields DEF IInv, TypeOK
<1> QED BY <1>2, <1>9, <1>10, ToIdle

(* A cluster nobody refers to is freed. *)
LEMMA ClusterFreed ==
  ASSUME TypeOK, NoSharedCluster, NoDangling, fat[Root] # Free, Suspended' = Suspended,
         NEW c \in Cluster, InFlight(c), fat' = [fat EXCEPT ![c] = Free],
         data' = [data EXCEPT ![c] = NoDir]
  PROVE  /\ NoSharedCluster' /\ NoDangling' /\ fat'[Root] # Free
         /\ fat' \in [Cluster -> Cluster \cup {Free, EOC}]
         /\ data' \in [Cluster -> [SlotIdx -> SlotVal]]
<1> DEFINE q == <<c, 0>>
<1>1. Free \notin Cluster /\ q \in Place /\ Root \in Cluster
  BY Numbering, Places
<1>2. /\ \A p \in Place : p # q => Ref(p)' \in {0, Ref(p)}
      /\ Ref(q)' = 0
      /\ \A d \in Cluster : d # c => fat'[d] = fat[d]
      /\ data' \in [Cluster -> [SlotIdx -> SlotVal]]
  BY <1>1, Cleared, FatWrite
<1> HIDE DEF q
<1>3. \A p \in Place : Ref(p) # 0 => Ref(p) \in Cluster /\ Ref(p) # c /\ fat[Ref(p)] # Free
  BY RefType DEF InFlight, Unref, NoDangling
<1>4. \A p \in Place : Ref(p) # 0 => fat'[Ref(p)] # Free
  BY <1>2, <1>3
<1>5. NoSharedCluster' /\ NoDangling'
  BY <1>1, <1>2, <1>4, RefsStep
<1>6. fat'[Root] # Free
  BY <1>1, <1>2 DEF InFlight
<1>7. fat' \in [Cluster -> Cluster \cup {Free, EOC}]
  BY DEF TypeOK
<1> QED BY <1>2, <1>5, <1>6, <1>7

(* fat32_mkdir frees the cluster of a directory whose entry could not be   *)
(* written; nobody refers to it.                                           *)
LEMMA MkdirUndone ==
  ASSUME IInv, op.at = "entry", op.cmd = "mkdir", SetFat(op.first, Free),
         data' = [data EXCEPT ![op.first] = NoDir], op' = Idle, UNCHANGED <<cwd, torn>>,
         leaky' \in BOOLEAN, faults' \in 0 .. MaxFaults, commands' \in 0 .. MaxCommands
  PROVE  IInv'
<1>1. op \in OpType /\ op.over = FALSE /\ TypeOK /\ NoSharedCluster /\ NoDangling /\ fat[Root] # Free
      /\ fat \in [Cluster -> Cluster \cup {Free, EOC}] /\ data \in [Cluster -> [SlotIdx -> SlotVal]]
  BY DEF IInv, TypeOK, LocalsSound, OpType
<1>2. PICK c \in Cluster \cup {0} : c = op.first
  BY <1>1 DEF OpType
<1>3. fat' = [fat EXCEPT ![c] = Free] /\ data' = [data EXCEPT ![c] = NoDir]
  BY <1>2 DEF SetFat
<1>4. Suspended' = Suspended
  BY <1>1, IdleFields DEF Suspended
<1>5. CASE c = 0
  <2>a. 0 \notin Cluster
    BY Numbering
  <2>b. fat' = fat
    BY <1>1, <1>3, <1>5, <2>a
  <2>c. data' = data
    BY <1>1, <1>3, <1>5, <2>a
  <2>1. fat' = fat /\ data' = data
    BY <2>b, <2>c
  <2>2. NoSharedCluster' /\ NoDangling' /\ fat'[Root] # Free
    BY <1>4, <2>1, RefsKept DEF SlotAt
  <2>3. TypeOK'
    BY <1>1, <2>1, IdleFields DEF TypeOK
  <2> QED BY <2>2, <2>3, ToIdle
<1>6. CASE c # 0
  <2>1. c \in Cluster /\ InFlight(c)
    BY <1>2, <1>6 DEF IInv, Hands
  <2>2. PICK e \in Cluster : e = c
    BY <2>1
  <2>3. InFlight(e) /\ fat' = [fat EXCEPT ![e] = Free] /\ data' = [data EXCEPT ![e] = NoDir]
    BY <1>3, <2>1, <2>2
  <2>5. NoSharedCluster' /\ NoDangling' /\ fat'[Root] # Free
        /\ fat' \in [Cluster -> Cluster \cup {Free, EOC}]
        /\ data' \in [Cluster -> [SlotIdx -> SlotVal]]
    BY <1>1, <1>4, <2>3, ClusterFreed
  <2>8. TypeOK'
    BY <1>1, <2>5, IdleFields DEF TypeOK
  <2> QED BY <2>5, <2>8, ToIdle
<1> QED BY <1>5, <1>6

(* A write that the block device refuses. *)
LEMMA WriteFailsIInv ==
  ASSUME IInv, WriteFails PROVE IInv'
<1>1. /\ faults < MaxFaults /\ faults' = faults + 1 /\ UNCHANGED <<cwd, commands>>
      /\ leaky' = (leaky \/ (op.first # 0 /\ (At("lfn") \/ (At("entry") /\ op.cmd # "mkdir"))))
      /\ \/ GiveUp /\ UNCHANGED <<fat, data>>
         \/ /\ op.at = "entry" /\ op.cmd = "mkdir" /\ SetFat(op.first, Free)
            /\ data' = [data EXCEPT ![op.first] = NoDir] /\ op' = Idle /\ UNCHANGED torn
  BY DEF WriteFails, At
<1>2. faults' \in 0 .. MaxFaults
  BY <1>1, DiskAssumption DEF IInv, TypeOK
<1>3. leaky' \in BOOLEAN
  BY <1>1
<1>4. cwd' \in Cluster /\ commands' \in 0 .. MaxCommands
  BY <1>1 DEF IInv, TypeOK
<1> QED BY <1>1, <1>2, <1>3, <1>4, GaveUp, MkdirUndone

(* The machine stops: only the disk stays. *)
LEMMA CrashIInv ==
  ASSUME IInv, Crash PROVE IInv'
<1>1. /\ faults < MaxFaults /\ faults' = faults + 1 /\ UNCHANGED <<fat, data, commands>>
      /\ GiveUp /\ cwd' = Root /\ leaky' = TRUE
  BY DEF Crash
<1>2. faults' \in 0 .. MaxFaults
  BY <1>1, DiskAssumption DEF IInv, TypeOK
<1>3. leaky' \in BOOLEAN
  BY <1>1
<1>4. cwd' \in Cluster /\ commands' \in 0 .. MaxCommands
  BY <1>1, Numbering DEF IInv, TypeOK
<1> QED BY <1>1, <1>2, <1>3, <1>4, GaveUp

-----------------------------------------------------------------------------
(* The start of a command. *)

(* An entry that is not torn, while no command is in progress: what it     *)
(* refers to is its first cluster.                                         *)
LEMMA UsableRef ==
  ASSUME TypeOK, op = Idle, NEW p \in DirPlace, SlotAt(p).kind = "ent", p \notin torn
  PROVE  Ref(p) = SlotAt(p).clus
<1>1. Suspended = torn
  BY IdleFields DEF Suspended
<1> QED BY <1>1, Places DEF Ref

(* The fields of an entry have their types. *)
LEMMA SlotFields ==
  ASSUME TypeOK, NEW p \in DirPlace
  PROVE  SlotAt(p).clus \in Cluster \cup {0} /\ SlotAt(p).name \in Text /\ SlotAt(p).dir \in BOOLEAN
<1>1. p[1] \in Cluster /\ p[2] \in SlotIdx
  BY Places
<1>2. SlotAt(p) \in SlotVal
  BY <1>1 DEF TypeOK, SlotAt
<1> QED BY <1>2 DEF SlotVal

(* A command that starts with empty hands. *)
LEMMA StartEmpty ==
  ASSUME IInv, op = Idle, UNCHANGED <<fat, data, cwd, torn, leaky, faults>>,
         commands' \in 0 .. MaxCommands,
         op' \in OpType, op'.over = FALSE, TypeOK', StagesSound', LocalsSound', Hands'
  PROVE  IInv'
<1>1. Suspended' = Suspended
  BY IdleFields DEF Suspended
<1>2. NoSharedCluster' /\ NoDangling' /\ fat'[Root] # Free
  BY <1>1, RefsKept DEF SlotAt
<1> QED BY <1>2 DEF IInv

(* Nothing on the disk changes. *)
LEMMA SameRefs ==
  ASSUME op = Idle, UNCHANGED <<fat, data, torn>>, op'.over = FALSE
  PROVE  \A p \in Place : Ref(p)' = Ref(p)
<1>1. Suspended' = Suspended
  BY IdleFields DEF Suspended
<1> QED BY <1>1, RefSame DEF SlotAt

(* dir_scan found room for a new entry, or a cluster to extend. *)
LEMMA RoomFields ==
  ASSUME NEW d, NEW o \in Room(d)
  PROVE  /\ o \in OpType /\ o.first = 0 /\ o.new = 0 /\ o.cl = 0 /\ o.over = FALSE
         /\ \/ o.last # 0 /\ o.slot = NoPlace
            \/ o.last = 0 /\ o.slot \in DirPlace
<1>1. \/ \E p : IsFreePlace(p) /\ o = [Idle EXCEPT !.slot = p]
      \/ \E c : IsLast(c) /\ o = [Idle EXCEPT !.last = c]
  BY DEF Room
<1>2. ASSUME NEW p, IsFreePlace(p), o = [Idle EXCEPT !.slot = p]
      PROVE  /\ o \in OpType /\ o.first = 0 /\ o.new = 0 /\ o.cl = 0 /\ o.over = FALSE
             /\ o.last = 0 /\ o.slot \in DirPlace
  <2>1. p \in DirPlace
    BY <1>2 DEF IsFreePlace
  <2>2. o \in OpType
    BY <1>2, <2>1, IdleFields DEF OpType
  <2>3. o.first = Idle.first /\ o.new = Idle.new /\ o.cl = Idle.cl /\ o.over = Idle.over
        /\ o.last = Idle.last /\ o.slot = p
    BY <1>2, IdleFields DEF OpType
  <2> QED BY <2>1, <2>2, <2>3, IdleFields
<1>3. ASSUME NEW c, IsLast(c), o = [Idle EXCEPT !.last = c]
      PROVE  /\ o \in OpType /\ o.first = 0 /\ o.new = 0 /\ o.cl = 0 /\ o.over = FALSE
             /\ o.last # 0 /\ o.slot = NoPlace
  <2>1. c \in Cluster /\ c # 0
    BY <1>3, Numbering DEF IsLast
  <2>2. o \in OpType
    BY <1>3, <2>1, IdleFields DEF OpType
  <2>3. o.first = Idle.first /\ o.new = Idle.new /\ o.cl = Idle.cl /\ o.over = Idle.over
        /\ o.last = c /\ o.slot = Idle.slot
    BY <1>3, IdleFields DEF OpType
  <2> QED BY <2>1, <2>2, <2>3, IdleFields
<1> QED BY <1>1, <1>2, <1>3

(* A command that writes a new entry. *)
LEMMA StartNew ==
  ASSUME IInv, op = Idle, commands' \in 0 .. MaxCommands, NEW o \in OpType, Start(o),
         o.cmd \in {"write", "mkdir"}, o.first = 0, o.new = 0, o.cl = 0, o.over = FALSE,
         \/ o.last # 0 /\ o.slot = NoPlace
         \/ o.last = 0 /\ o.slot \in DirPlace
  PROVE  IInv'
<1>1. UNCHANGED <<fat, data, cwd, torn, leaky, faults>> /\ Go("start", o)
  BY DEF Start
<1>2. /\ op' \in OpType /\ SameLocals(o, op') /\ op'.at \in {"grow", "alloc", "entry"}
      /\ op'.at = "grow" <=> o.last # 0
      /\ op'.at = "alloc" => o.need > 0
  <2>1. PICK n \in {"grow", "alloc", "entry"} :
           After("start", o) = n /\ (n = "grow" <=> o.last # 0) /\ (n = "alloc" => o.need > 0)
    BY AfterStage
  <2> QED BY <1>1, <2>1, GoEffect DEF Stage
<1>3. /\ op'.cmd \in {"write", "mkdir"} /\ op'.first = 0 /\ op'.new = 0 /\ op'.cl = 0 /\ op'.over = FALSE
      /\ op'.last = o.last /\ op'.slot = o.slot /\ op'.need = o.need
  BY <1>2 DEF SameLocals
<1>4. TypeOK'
  BY <1>1, <1>2, <1>3 DEF IInv, TypeOK
<1>5. StagesSound' /\ LocalsSound' /\ Hands'
  BY <1>2, <1>3 DEF StagesSound, LocalsSound, Hands
<1> QED BY <1>1, <1>2, <1>3, <1>4, <1>5, StartEmpty

(* A command that is to remove the entry at a place. *)
LEMMA StartMark ==
  ASSUME IInv, op = Idle, commands' \in 0 .. MaxCommands, NEW o \in OpType, Start(o),
         o.cmd \in {"delete", "rename"}, o.new = 0, o.over = FALSE, o.slot \in DirPlace,
         o.first # 0 => Ref(o.slot) = o.first,
         o.cl # 0 => Ref(o.slot) = o.cl /\ o.first = 0
  PROVE  IInv'
<1>1. UNCHANGED <<fat, data, cwd, torn, leaky, faults>> /\ Go("start", o)
  BY DEF Start
<1>2. op' \in OpType /\ SameLocals(o, op') /\ op'.at = "mark"
  BY <1>1, AfterStage, GoEffect DEF Stage
<1>3. /\ op'.cmd \in {"delete", "rename"} /\ op'.new = 0 /\ op'.over = FALSE /\ op'.slot = o.slot
      /\ op'.first = o.first /\ op'.cl = o.cl
  BY <1>2 DEF SameLocals
<1>4. TypeOK'
  BY <1>1, <1>2, <1>3 DEF IInv, TypeOK
<1>5. StagesSound' /\ LocalsSound'
  BY <1>2, <1>3 DEF StagesSound, LocalsSound
<1>6. PICK q \in DirPlace : q = o.slot
  OBVIOUS
<1>7. Ref(q)' = Ref(q)
  BY <1>1, <1>3, SameRefs, Places
<1>8. Ref(op.slot)' = Ref(o.slot)
  BY <1>3, <1>6, <1>7 DEF Ref, SlotAt, Suspended
<1>9. Hands'
  BY <1>2, <1>3, <1>8 DEF Hands
<1> QED BY <1>1, <1>2, <1>3, <1>4, <1>5, <1>9, StartEmpty

(* A file is overwritten: its entry is suspended, its chain is in flight.  *)
LEMMA StartOver ==
  ASSUME IInv, op = Idle, commands' \in 0 .. MaxCommands, NEW o \in OpType, Start(o),
         o.cmd = "write", o.new = 0, o.first = 0, o.last = 0, o.over = TRUE,
         o.slot \in DirPlace, o.cl # 0, Ref(o.slot) = o.cl
  PROVE  IInv'
<1>1. UNCHANGED <<fat, data, cwd, torn, leaky, faults>> /\ Go("start", o)
  BY DEF Start
<1>2. op' \in OpType /\ SameLocals(o, op') /\ op'.at = "free"
  BY <1>1, AfterStage, GoEffect DEF Stage
<1>3. /\ op'.cmd = "write" /\ op'.new = 0 /\ op'.over = TRUE /\ op'.slot = o.slot
      /\ op'.first = 0 /\ op'.cl = o.cl
  BY <1>2 DEF SameLocals
<1>4. TypeOK'
  BY <1>1, <1>2, <1>3 DEF IInv, TypeOK
<1>5. StagesSound' /\ LocalsSound'
  BY <1>2, <1>3 DEF StagesSound, LocalsSound
<1>6. PICK q \in DirPlace : q = o.slot
  OBVIOUS
<1>7. PICK c : c = o.cl
  OBVIOUS
<1>8. Suspended = torn /\ Suspended' = torn \cup {q}
  BY <1>1, <1>3, <1>6, IdleFields DEF Suspended
<1>9. \A p \in Place : p # q => Ref(p)' = Ref(p)
  BY <1>1, <1>8 DEF Ref, SlotAt
<1>10. Ref(q)' = 0 /\ q \in Place
  BY <1>8, Places DEF Ref
<1>11. NoSharedCluster /\ NoDangling /\ fat[Root] # Free /\ TypeOK
  BY DEF IInv
<1>12. \A p \in Place : Ref(p) # 0 => fat'[Ref(p)] # Free
  BY <1>1, <1>11 DEF NoDangling
<1>13. NoSharedCluster' /\ NoDangling' /\ fat'[Root] # Free
  BY <1>1, <1>9, <1>10, <1>11, <1>12, RefsStep
<1>14. c \in Cluster /\ c # Root /\ fat[c] # Free /\ \A p \in Place : p # q => Ref(p) # c
  BY <1>6, <1>7, <1>10, <1>11, RefType DEF NoSharedCluster, NoDangling
<1>15. InFlight(c)'
  BY <1>1, <1>7, <1>9, <1>10, <1>14 DEF InFlight, Unref
<1>16. Hands'
  BY <1>2, <1>3, <1>7, <1>15 DEF Hands, InFlight, Unref
<1> QED BY <1>4, <1>5, <1>13, <1>16 DEF IInv

(* touch, echo > and mkdir of a name that is not there yet. *)
NewFile(r, c, k, t, b) == [r EXCEPT !.cmd = c, !.need = k, !.name = t, !.dir = b]

EmptyHanded(o) ==
  /\ o.first = 0 /\ o.new = 0 /\ o.cl = 0 /\ o.over = FALSE
  /\ \/ o.last # 0 /\ o.slot = NoPlace
     \/ o.last = 0 /\ o.slot \in DirPlace

(* The locals of a command that will add an entry. *)
LEMMA NewEntry ==
  ASSUME NEW r \in OpType, EmptyHanded(r), NEW c \in {"write", "mkdir"}, NEW k \in 0 .. MaxLen + 1,
         NEW t \in Text, NEW b \in BOOLEAN
  PROVE  /\ NewFile(r, c, k, t, b) \in OpType
         /\ NewFile(r, c, k, t, b).cmd = c
         /\ EmptyHanded(NewFile(r, c, k, t, b))
<1> DEFINE o == NewFile(r, c, k, t, b)
<1>1. o \in OpType
  BY DEF OpType, NewFile
<1>2. o.cmd = c /\ o.first = r.first /\ o.new = r.new /\ o.cl = r.cl /\ o.last = r.last /\ o.slot = r.slot
  BY DEF OpType, NewFile
<1>3. o.over = r.over
  BY DEF OpType, NewFile
<1> HIDE DEF o
<1>4. EmptyHanded(o)
  BY <1>2, <1>3 DEF EmptyHanded
<1> QED BY <1>1, <1>2, <1>4 DEF o

(* Every name, its 8.3 form and the alias can stand in an entry. *)
LEMMA Texts == \A n \in Name : n \in Text /\ Fmt[n] \in Text /\ Alias \in Text
  BY DEF Text

(* The fields a command leaves as they were are those of Room. *)
LEMMA RoomRest ==
  ASSUME NEW d, NEW r \in Room(d)
  PROVE  r.need = 0 /\ r.dir = FALSE /\ r \in OpType
<1>1. \/ \E p : r = [Idle EXCEPT !.slot = p]
      \/ \E c : r = [Idle EXCEPT !.last = c]
  BY DEF Room
<1>2. r \in OpType
  BY RoomFields
<1>3. r.need = Idle.need
  BY <1>1, IdleFields DEF OpType
<1>4. r.dir = Idle.dir
  BY <1>1, IdleFields DEF OpType
<1> QED BY <1>2, <1>3, <1>4, IdleFields

(* touch keeps the invariant. *)
LEMMA CreateIInv ==
  ASSUME IInv, commands' \in 0 .. MaxCommands, NEW n \in Name, fat32_create_file(n)
  PROVE  IInv'
<1>1. op = Idle
  BY DEF fat32_create_file, Ready
<1>2. PICK r \in Room(cwd) : Start([r EXCEPT !.cmd = "write", !.name = Fmt[n]])
  BY DEF fat32_create_file
<1>3. r.need = 0 /\ r.dir = FALSE /\ r \in OpType
  BY RoomRest
<1>4. PICK k, b, t, w : k = r.need /\ b = r.dir /\ t = Fmt[n] /\ w = "write"
  OBVIOUS
<1>5. k \in 0 .. MaxLen + 1 /\ b \in BOOLEAN /\ t \in Text /\ w \in {"write", "mkdir"}
  <2>1. k \in 0 .. MaxLen + 1
    BY <1>3, <1>4, DiskAssumption
  <2>2. b \in BOOLEAN
    BY <1>3, <1>4
  <2>3. t \in Text /\ w \in {"write", "mkdir"}
    BY <1>4, Texts
  <2> QED BY <2>1, <2>2, <2>3
<1>6. PICK o : o = NewFile(r, w, k, t, b)
  OBVIOUS
<1>7. [r EXCEPT !.cmd = w, !.name = t] = o
  BY <1>3, <1>4, <1>6 DEF OpType, NewFile
<1>8. Start(o)
  BY <1>2, <1>4, <1>7
<1>9. o \in OpType /\ o.cmd = w /\ EmptyHanded(o)
  <2>1. EmptyHanded(r)
    BY RoomFields DEF EmptyHanded
  <2> QED BY <1>3, <1>5, <1>6, <2>1, NewEntry
<1> QED BY <1>1, <1>5, <1>8, <1>9, StartNew DEF EmptyHanded

(* mkdir keeps the invariant. *)
LEMMA MkdirIInv ==
  ASSUME IInv, commands' \in 0 .. MaxCommands, NEW n \in Name, fat32_mkdir(n)
  PROVE  IInv'
<1>1. op = Idle
  BY DEF fat32_mkdir, Ready
<1>2. PICK r \in Room(cwd) :
         Start([r EXCEPT !.cmd = "mkdir", !.need = 1, !.name = Fmt[n], !.dir = TRUE])
  BY DEF fat32_mkdir
<1>3. PICK k, b, t, w : k = 1 /\ b = TRUE /\ t = Fmt[n] /\ w = "mkdir"
  OBVIOUS
<1>4. k \in 0 .. MaxLen + 1 /\ b \in BOOLEAN /\ t \in Text /\ w \in {"write", "mkdir"}
  <2>1. k \in 0 .. MaxLen + 1
    BY <1>3, DiskAssumption
  <2>2. b \in BOOLEAN
    BY <1>3
  <2>3. t \in Text /\ w \in {"write", "mkdir"}
    BY <1>3, Texts
  <2> QED BY <2>1, <2>2, <2>3
<1>5. PICK o : o = NewFile(r, w, k, t, b)
  OBVIOUS
<1>6. o = [r EXCEPT !.cmd = "mkdir", !.need = 1, !.name = Fmt[n], !.dir = TRUE]
  BY <1>3, <1>5, Zenon DEF NewFile
<1>7. Start(o)
  BY <1>2, <1>6
<1>8. o \in OpType /\ o.cmd = w /\ EmptyHanded(o)
  <2>1. r \in OpType /\ EmptyHanded(r)
    BY RoomFields DEF EmptyHanded
  <2> QED BY <1>4, <1>5, <2>1, NewEntry
<1> QED BY <1>1, <1>4, <1>7, <1>8, StartNew DEF EmptyHanded

(* rm of a file. *)
LEMMA DeleteIInv ==
  ASSUME IInv, Careful, commands' \in 0 .. MaxCommands, NEW n \in Name, fat32_delete_file(n)
  PROVE  IInv'
<1>1. op = Idle /\ TypeOK
  BY DEF fat32_delete_file, Ready, IInv
<1>2. PICK p \in DirPlace :
         /\ SlotAt(p).kind = "ent" /\ p \notin torn
         /\ Start([Idle EXCEPT !.cmd = "delete", !.slot = p, !.cl = SlotAt(p).clus])
  BY DEF fat32_delete_file, Found, Removable, Usable
<1>3. PICK c \in Cluster \cup {0} : c = SlotAt(p).clus /\ Ref(p) = c
  BY <1>1, <1>2, SlotFields, UsableRef
<1>4. PICK o : o = [Idle EXCEPT !.cmd = "delete", !.slot = p, !.cl = c]
  OBVIOUS
<1>5. Start(o)
  BY <1>2, <1>3, <1>4
<1>6. o \in OpType
  BY <1>4, IdleFields DEF OpType
<1>7. o.cmd = "delete" /\ o.slot = p /\ o.cl = c /\ o.new = Idle.new /\ o.first = Idle.first
  BY <1>4, IdleFields DEF OpType
<1>8. o.over = Idle.over
  BY <1>4, IdleFields DEF OpType
<1>9. o.over = FALSE /\ o.new = 0 /\ o.first = 0
  BY <1>7, <1>8, IdleFields
<1> QED BY <1>1, <1>3, <1>5, <1>6, <1>7, <1>9, StartMark

OldFile(p, c, k, t, d, b) ==
  [Idle EXCEPT !.cmd = "write", !.slot = p, !.cl = c, !.need = k, !.name = t, !.dir = d, !.over = b]

(* The locals of a command that overwrites the file it has found. *)
LEMMA OldEntry ==
  ASSUME NEW p \in DirPlace, NEW c \in Cluster \cup {0}, NEW k \in 0 .. MaxLen + 1, NEW t \in Text,
         NEW d \in BOOLEAN, NEW b \in BOOLEAN
  PROVE  LET o == OldFile(p, c, k, t, d, b) IN
         /\ o \in OpType /\ o.cmd = "write" /\ o.slot = p /\ o.cl = c /\ o.over = b
         /\ o.new = 0 /\ o.first = 0 /\ o.last = 0
<1> DEFINE e == [Idle EXCEPT !.cmd = "write", !.slot = p, !.cl = c, !.need = k]
           o == OldFile(p, c, k, t, d, b)
<1>1. e \in OpType
  BY IdleFields DEF OpType
<1>2. e.cmd = "write" /\ e.slot = p /\ e.cl = c /\ e.new = Idle.new /\ e.first = Idle.first
      /\ e.last = Idle.last
  BY IdleFields DEF OpType
<1>3. o = [e EXCEPT !.name = t, !.dir = d, !.over = b]
  BY DEF OldFile
<1> HIDE DEF e, o
<1>4. o \in OpType
  BY <1>1, <1>3 DEF OpType
<1>5. o.cmd = e.cmd /\ o.slot = e.slot /\ o.cl = e.cl /\ o.new = e.new /\ o.first = e.first
      /\ o.last = e.last
  BY <1>1, <1>3 DEF OpType
<1>6. o.over = b
  BY <1>1, <1>3 DEF OpType
<1>7. /\ o \in OpType /\ o.cmd = "write" /\ o.slot = p /\ o.cl = c /\ o.over = b
      /\ o.new = 0 /\ o.first = 0 /\ o.last = 0
  BY <1>2, <1>4, <1>5, <1>6, IdleFields
<1> QED BY <1>7 DEF o

(* echo > to a file that exists: it has clusters, which are freed, or none. *)
LEMMA OverwriteIInv ==
  ASSUME IInv, Careful, op = Idle, commands' \in 0 .. MaxCommands, NEW len \in 0 .. MaxLen,
         NEW p \in DirPlace, SlotAt(p).kind = "ent", p \notin torn,
         Start([Idle EXCEPT !.cmd = "write", !.slot = p, !.cl = SlotAt(p).clus, !.need = len,
                            !.name = SlotAt(p).name, !.dir = SlotAt(p).dir,
                            !.over = SlotAt(p).clus # 0])
  PROVE  IInv'
<1>1. TypeOK
  BY DEF IInv
<1>2. PICK c, t, d, b : /\ c = SlotAt(p).clus /\ t = SlotAt(p).name /\ d = SlotAt(p).dir
                        /\ b = (SlotAt(p).clus # 0)
  OBVIOUS
<1>3. c \in Cluster \cup {0} /\ t \in Text /\ d \in BOOLEAN /\ b \in BOOLEAN /\ Ref(p) = c
  <2>1. c \in Cluster \cup {0} /\ t \in Text /\ d \in BOOLEAN
    BY <1>1, <1>2, SlotFields
  <2>2. b \in BOOLEAN
    BY <1>2
  <2>3. Ref(p) = c
    BY <1>1, <1>2, UsableRef
  <2> QED BY <2>1, <2>2, <2>3
<1>4. b = (c # 0)
  BY <1>2
<1>5. len \in 0 .. MaxLen + 1
  BY DiskAssumption
<1>6. PICK o : o = OldFile(p, c, len, t, d, b)
  OBVIOUS
<1>7. Start(o)
  BY <1>2, <1>6, Zenon DEF OldFile
<1>8. /\ o \in OpType /\ o.cmd = "write" /\ o.slot = p /\ o.cl = c /\ o.over = b
      /\ o.new = 0 /\ o.first = 0 /\ o.last = 0
  BY <1>3, <1>5, <1>6, OldEntry
<1>12. CASE c = 0
  <2>1. o.over = FALSE /\ o.cl = 0
    BY <1>4, <1>8, <1>12
  <2> QED BY <1>7, <1>8, <2>1, StartNew
<1>13. CASE c # 0
  <2>1. o.over = TRUE
    BY <1>4, <1>8, <1>13
  <2> QED BY <1>3, <1>7, <1>8, <1>13, <2>1, StartOver
<1> QED BY <1>12, <1>13

(* The steps of fat32_write_file() keep the invariant. *)
LEMMA WriteFileIInv ==
  ASSUME IInv, Careful, commands' \in 0 .. MaxCommands, NEW n \in Name, NEW len \in 0 .. MaxLen,
         fat32_write_file(n, len)
  PROVE  IInv'
<1>1. op = Idle
  BY DEF fat32_write_file, Ready
<1>2. CASE \E r \in Room(cwd) : Start([r EXCEPT !.cmd = "write", !.need = len, !.name = Fmt[n]])
  <2>1. PICK r \in Room(cwd) : Start([r EXCEPT !.cmd = "write", !.need = len, !.name = Fmt[n]])
    BY <1>2
  <2>2. r.dir = FALSE /\ r \in OpType /\ EmptyHanded(r)
    BY RoomRest, RoomFields DEF EmptyHanded
  <2>3. PICK b, t, w : b = r.dir /\ t = Fmt[n] /\ w = "write"
    OBVIOUS
  <2>4. len \in 0 .. MaxLen + 1 /\ b \in BOOLEAN /\ t \in Text /\ w \in {"write", "mkdir"}
    <3>1. len \in 0 .. MaxLen + 1
      BY DiskAssumption
    <3>2. b \in BOOLEAN
      BY <2>2, <2>3
    <3>3. t \in Text /\ w \in {"write", "mkdir"}
      BY <2>3, Texts
    <3> QED BY <3>1, <3>2, <3>3
  <2>5. PICK o : o = NewFile(r, w, len, t, b)
    OBVIOUS
  <2>6. [r EXCEPT !.cmd = w, !.need = len, !.name = t] = o
    BY <2>2, <2>3, <2>5 DEF OpType, NewFile
  <2>7. Start(o)
    BY <2>1, <2>3, <2>6
  <2>8. o \in OpType /\ o.cmd = w /\ EmptyHanded(o)
    BY <2>2, <2>4, <2>5, NewEntry
  <2> QED BY <1>1, <2>4, <2>7, <2>8, StartNew DEF EmptyHanded
<1>3. CASE \E p \in DirPlace :
             /\ Found(cwd, n, p) /\ Removable(p)
             /\ Start([Idle EXCEPT !.cmd = "write", !.slot = p, !.cl = SlotAt(p).clus, !.need = len,
                                   !.name = SlotAt(p).name, !.dir = SlotAt(p).dir,
                                   !.over = SlotAt(p).clus # 0])
  BY <1>1, <1>3, OverwriteIInv DEF Found, Removable, Usable
<1> QED BY <1>2, <1>3 DEF fat32_write_file

(* mv to a long name. *)
LEMMA MoveIInv ==
  ASSUME IInv, op = Idle, commands' \in 0 .. MaxCommands, NEW m \in LongName,
         NEW p \in DirPlace, SlotAt(p).kind = "ent", p \notin torn,
         Start([Idle EXCEPT !.cmd = "rename", !.slot = p, !.first = SlotAt(p).clus,
                            !.dir = SlotAt(p).dir, !.name = Alias, !.long = m])
  PROVE  IInv'
<1>1. TypeOK
  BY DEF IInv
<1>2. PICK c, d : c = SlotAt(p).clus /\ d = SlotAt(p).dir
  OBVIOUS
<1>3. c \in Cluster \cup {0} /\ d \in BOOLEAN /\ Ref(p) = c
  BY <1>1, <1>2, SlotFields, UsableRef
<1>4. m \in Text /\ Alias \in Text
  BY NameAssumption, Texts
<1>5. PICK o : o = [Idle EXCEPT !.cmd = "rename", !.slot = p, !.first = c, !.dir = d,
                                !.name = Alias, !.long = m]
  OBVIOUS
<1>6. Start(o)
  BY <1>2, <1>5, Zenon
<1>7. o \in OpType
  BY <1>3, <1>4, <1>5, IdleFields DEF OpType
<1>8. o.cmd = "rename" /\ o.slot = p /\ o.first = c /\ o.new = Idle.new /\ o.cl = Idle.cl
  BY <1>5, IdleFields DEF OpType
<1>9. o.over = Idle.over
  BY <1>5, IdleFields DEF OpType
<1>10. o.new = 0 /\ o.cl = 0 /\ o.over = FALSE
  BY <1>8, <1>9, IdleFields
<1> QED BY <1>3, <1>6, <1>7, <1>8, <1>10, StartMark

(* mv to a short name changes a name in place. *)
LEMMA RenamedIInv ==
  ASSUME IInv, op = Idle, commands' \in 0 .. MaxCommands, NEW m \in Name, NEW p \in DirPlace,
         data' = [data EXCEPT ![p[1]][p[2]].name = Fmt[m]],
         UNCHANGED <<fat, cwd, op, torn, leaky, faults>>
  PROVE  IInv'
<1>1. TypeOK /\ data \in [Cluster -> [SlotIdx -> SlotVal]] /\ p[1] \in Cluster /\ p[2] \in SlotIdx
      /\ Fmt[m] \in Text /\ NoSharedCluster /\ NoDangling /\ fat[Root] # Free
  BY Places, Texts DEF IInv, TypeOK
<1>2. PICK v : v = [SlotAt(p) EXCEPT !.name = Fmt[m]]
  OBVIOUS
<1>3. SlotAt(p) \in SlotVal
  BY <1>1 DEF SlotAt
<1>4. v \in SlotVal /\ v.kind = SlotAt(p).kind /\ v.clus = SlotAt(p).clus
  BY <1>1, <1>2, <1>3 DEF SlotVal
<1>5. SetSlot(p, v)
  BY <1>1, <1>2 DEF SetSlot, SlotAt
<1>6. /\ data' \in [Cluster -> [SlotIdx -> SlotVal]]
      /\ SlotAt(p)' = v
      /\ \A q \in DirPlace : q # p => SlotAt(q)' = SlotAt(q)
  BY <1>1, <1>4, <1>5, SetSlotEffect
<1>7. Suspended' = Suspended
  BY DEF Suspended
<1>8. \A q \in Place : Ref(q)' = Ref(q)
  <2> SUFFICES ASSUME NEW q \in Place PROVE Ref(q)' = Ref(q)
    OBVIOUS
  <2>1. CASE q[2] = 0
    BY <1>7, <2>1, RefSame
  <2>2. CASE q[2] # 0 /\ q # p
    BY <1>6, <1>7, <2>2, RefSame, Places
  <2>3. CASE q = p
    BY <1>4, <1>6, <1>7, <2>3, Places DEF Ref
  <2> QED BY <2>1, <2>2, <2>3
<1>9. NoSharedCluster' /\ NoDangling'
  BY <1>1, <1>8 DEF NoSharedCluster, NoDangling
<1>10. TypeOK'
  BY <1>1, <1>6, IdleFields DEF TypeOK
<1> QED BY <1>1, <1>9, <1>10, ToIdle

(* mv keeps the invariant. *)
LEMMA RenameIInv ==
  ASSUME IInv, Careful, commands' \in 0 .. MaxCommands, NEW n \in Name, NEW m \in Name,
         fat32_rename_file(n, m)
  PROVE  IInv'
<1>1. op = Idle
  BY DEF fat32_rename_file, Ready
<1>2. PICK p \in DirPlace :
        /\ SlotAt(p).kind = "ent" /\ p \notin torn
        /\ IF m \in LongName
           THEN Start([Idle EXCEPT !.cmd = "rename", !.slot = p, !.first = SlotAt(p).clus,
                                   !.dir = SlotAt(p).dir, !.name = Alias, !.long = m])
           ELSE /\ data' = [data EXCEPT ![p[1]][p[2]].name = Fmt[m]]
                /\ UNCHANGED <<fat, cwd, op, torn, leaky, faults>>
  BY DEF fat32_rename_file, Found, Usable
<1>3. CASE m \in LongName
  BY <1>1, <1>2, <1>3, MoveIInv
<1>4. CASE m \notin LongName
  BY <1>1, <1>2, <1>4, RenamedIInv
<1> QED BY <1>3, <1>4

(* cd keeps the invariant. *)
LEMMA CdIInv ==
  ASSUME IInv, commands' \in 0 .. MaxCommands, NEW c \in Cluster, fat32_cd(c)
  PROVE  IInv'
<1>1. op = Idle /\ cwd' = c /\ UNCHANGED <<fat, data, op, torn, leaky, faults>>
  BY DEF fat32_cd
<1>2. Suspended' = Suspended
  BY <1>1 DEF Suspended
<1>3. NoSharedCluster' /\ NoDangling' /\ fat'[Root] # Free
  BY <1>1, <1>2, RefsKept DEF SlotAt
<1>4. TypeOK'
  BY <1>1 DEF IInv, TypeOK
<1> QED BY <1>1, <1>3, <1>4, ToIdle

-----------------------------------------------------------------------------
(* The theorems. *)

(* The invariant holds at the start. *)
LEMMA InitIInv == Init => IInv
<1> SUFFICES ASSUME Init PROVE IInv
  OBVIOUS
<1>1. /\ fat = [c \in Cluster |-> IF c = Root THEN EOC ELSE Free]
      /\ data = [c \in Cluster |-> IF c = Root THEN Blank ELSE NoDir]
      /\ cwd = Root /\ op = Idle /\ torn = {} /\ leaky = FALSE /\ faults = 0 /\ commands = 0
  BY DEF Init
<1>2. NoEntries(NoDir) /\ NoEntries(Blank)
  BY Cleared
<1>3. fat \in [Cluster -> Cluster \cup {Free, EOC}] /\ fat[Root] # Free
  BY <1>1, Numbering
<1>4. data \in [Cluster -> [SlotIdx -> SlotVal]]
  BY <1>1, <1>2 DEF NoEntries
<1>5. TypeOK
  <2>1. faults \in 0 .. MaxFaults /\ commands \in 0 .. MaxCommands /\ cwd \in Cluster
    BY <1>1, DiskAssumption, Numbering
  <2>2. leaky \in BOOLEAN
    BY <1>1
  <2> QED BY <1>1, <1>3, <1>4, <2>1, <2>2, IdleFields DEF TypeOK
<1>6. \A p \in Place : Ref(p) = 0
  <2> SUFFICES ASSUME NEW p \in Place PROVE Ref(p) = 0
    OBVIOUS
  <2>1. CASE p[2] = 0
    BY <1>1, <2>1, Places, Numbering DEF Ref, HasNext
  <2>2. CASE p[2] # 0
    <3>1. p[1] \in Cluster /\ p[2] \in SlotIdx
      BY <2>2, Places
    <3>2. SlotAt(p).kind # "ent"
      BY <1>1, <1>2, <3>1 DEF SlotAt, NoEntries
    <3> QED BY <2>2, <3>2 DEF Ref
  <2> QED BY <2>1, <2>2
<1>7. NoSharedCluster /\ NoDangling
  BY <1>6 DEF NoSharedCluster, NoDangling, Root
<1>8. StagesSound /\ LocalsSound /\ Hands
  BY <1>1, IdleFields DEF StagesSound, LocalsSound, Hands
<1> QED BY <1>3, <1>5, <1>7, <1>8 DEF IInv

(* A command that begins keeps the invariant. *)
LEMMA CommandIInv ==
  ASSUME IInv, Careful, Command PROVE IInv'
<1>1. commands' \in 0 .. MaxCommands
  BY DiskAssumption DEF Command, IInv, TypeOK
<1> QED BY <1>1, CreateIInv, WriteFileIInv, DeleteIInv, RenameIInv, MkdirIInv, CdIInv DEF Command

(* A step that changes nothing keeps the invariant. *)
LEMMA StutterIInv ==
  ASSUME IInv, UNCHANGED vars PROVE IInv'
<1>1. UNCHANGED <<fat, data, cwd, op, torn, leaky, faults, commands>>
  BY DEF vars
<1>2. \A p \in Place : Ref(p)' = Ref(p)
  BY <1>1 DEF Ref, SlotAt, Suspended
<1>3. TypeOK' /\ StagesSound' /\ LocalsSound'
  BY <1>1 DEF IInv, TypeOK, StagesSound, LocalsSound
<1>4. NoSharedCluster' /\ NoDangling' /\ fat'[Root] # Free
  BY <1>1, <1>2 DEF IInv, NoSharedCluster, NoDangling
<1>5. Hands'
  BY <1>1 DEF IInv, Hands, InFlight, Unref, Ref, SlotAt, Suspended
<1> QED BY <1>3, <1>4, <1>5 DEF IInv

(* Every step keeps the invariant. *)
LEMMA NextIInv ==
  ASSUME IInv, Careful, [Next]_vars PROVE IInv'
<1>1. CASE Command
  BY <1>1, CommandIInv
<1>2. CASE Step
  BY <1>2, GrowAllocIInv, GrowLinkIInv, FreeStepIInv, AllocTakeIInv, AllocLinkIInv, MarkIInv,
     FindRunIInv, WriteLfnIInv, WriteEntryIInv, WriteDotsIInv DEF Step
<1>3. CASE WriteFails
  BY <1>3, WriteFailsIInv
<1>4. CASE Crash
  BY <1>4, CrashIInv
<1>5. CASE UNCHANGED vars
  BY <1>5, StutterIInv
<1> QED BY <1>1, <1>2, <1>3, <1>4, <1>5 DEF Next

(* The inductive invariant holds of every disk size, name set, number of   *)
(* commands and number of faults, if the user is careful.                  *)
THEOREM Invariance ==
  ASSUME Careful PROVE Spec => []IInv
<1>1. Init => IInv
  BY InitIInv
<1>2. IInv /\ [Next]_vars => IInv'
  BY NextIInv
<1> QED BY <1>1, <1>2, PTL DEF Spec

(* fat32.cpp keeps the FAT and the directories well-formed, and writes     *)
(* entries only to slots of the disk, at every point of every command.     *)
THEOREM TypeCorrect ==
  ASSUME Careful PROVE Spec => []TypeOK
<1>1. IInv => TypeOK
  BY DEF IInv
<1> QED BY <1>1, Invariance, PTL

(* No two files ever share a cluster, and none takes the root's: whatever  *)
(* commands are given and wherever the driver is killed.                   *)
THEOREM FilesAreDisjoint ==
  ASSUME Careful PROVE Spec => []NoSharedCluster
<1>1. IInv => NoSharedCluster
  BY DEF IInv
<1> QED BY <1>1, Invariance, PTL

(* No entry and no chain ever leads to a cluster that the next allocation  *)
(* may take, except for an entry whose overwriting failed.                 *)
THEOREM NoUseAfterFree ==
  ASSUME Careful PROVE Spec => []NoDangling
<1>1. IInv => NoDangling
  BY DEF IInv
<1> QED BY <1>1, Invariance, PTL
=============================================================================
