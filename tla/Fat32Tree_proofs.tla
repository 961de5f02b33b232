-------------------------- MODULE Fat32Tree_proofs --------------------------
(***************************************************************************)
(* The directory tree of the FAT32 driver stays sound: what leads to a     *)
(* directory leads to one, no chain closes on itself, no cluster is lost   *)
(* by a command that ran to its end, every step hands over at most one     *)
(* cluster, no entry hides behind the end of its directory, and Floyd's    *)
(* check never takes a chain for a cycle.  As in Fat32_proofs, for every   *)
(* size of the disk, any number of commands, and a driver that may be      *)
(* killed at any moment, as long as the user is careful.                   *)
(***************************************************************************)
EXTENDS Fat32_proofs, FiniteSetTheorems, SequenceTheorems, WellFoundedInduction

-----------------------------------------------------------------------------
(* The inductive invariant. *)

(* Following links comes to an end: every set of clusters has one whose    *)
(* link leads out of it.                                                   *)
Acyclic == \A S \in SUBSET Cluster : S # {} => \E c \in S : fat[c] \notin S

(* Whoever enters directories at c: the working directory or a slot. *)
Pointed(c) == cwd = c \/ \E p \in DirPlace : SlotAt(p).dir /\ SlotAt(p).clus = c

(* Directories are in use, a chain is one of a directory or one of a file, *)
(* what leads to a directory leads to one, and entries of files to none.   *)
(* An entry whose overwriting did not finish is still there.               *)
DirsSound ==
  /\ IsDir(Root) /\ IsDir(cwd)
  /\ \A c \in Cluster : IsDir(c) => fat[c] # Free
  /\ \A c \in Cluster : HasNext(fat[c]) => (IsDir(c) <=> IsDir(fat[c]))
  /\ \A p \in DirPlace : SlotAt(p).dir => SlotAt(p).clus \in Cluster /\ IsDir(SlotAt(p).clus)
  /\ \A p \in DirPlace : SlotAt(p).kind = "dot" => SlotAt(p).dir
  /\ \A p \in DirPlace : Ref(p) # 0 /\ ~SlotAt(p).dir => ~IsDir(Ref(p))
  /\ \A p \in Suspended : SlotAt(p).kind = "ent"

(* A slot the command may write an entry to. *)
Vacant(p) == IsDir(p[1]) /\ Ref(p) = 0 /\ p \notin torn

(* The chain that the new entry gets is one of a directory exactly when    *)
(* the entry says so.                                                      *)
NewSound(o) ==
  /\ o.first # 0 => (IsDir(o.first) <=> o.dir)
  /\ o.cmd = "rename" /\ o.dir => o.first # 0
  /\ o.cmd = "write" => ~o.dir
  /\ o.cmd = "mkdir" => o.dir

(* What a command knows at each stage. *)
GrowSound ==
  /\ IsDir(op.last) /\ fat[op.last] = EOC /\ op.last # op.new
  /\ op.new # 0 => fat[op.new] = EOC /\ data[op.new] = Blank
  /\ op.slot # NoPlace => Vacant(op.slot)
  /\ NewSound(op)
  /\ op.cmd # "rename" => op.first = 0 /\ op.prev = 0
  /\ op.cmd = "mkdir" => op.need = 1

FreeSound ==
  /\ ~IsDir(op.cl)
  /\ op.cmd = "write" => Vacant(op.slot) /\ NewSound(op) /\ op.prev = 0

AllocSound ==
  /\ Vacant(op.slot) /\ NewSound(op)
  /\ op.prev # 0 => ~IsDir(op.prev) /\ fat[op.prev] = EOC /\ op.prev # op.new
  /\ op.new # 0 => ~IsDir(op.new) /\ fat[op.new] = EOC
  /\ op.prev = 0 => op.first = 0
  /\ op.cmd = "mkdir" => op.need = 1 /\ op.prev = 0

MarkSound ==
  /\ IsDir(op.slot[1]) /\ op.slot \notin torn
  /\ op.cmd = "delete" => Ref(op.slot) = op.cl /\ (op.cl # 0 => ~IsDir(op.cl))
  /\ op.cmd = "rename" => Ref(op.slot) = op.first /\ NewSound(op) /\ op.last = 0

RunSound == NewSound(op) /\ op.last = 0

LfnSound == Vacant(op.slot) /\ Vacant(op.next) /\ NewSound(op)

EntrySound ==
  /\ Vacant(op.slot) /\ NewSound(op)
  /\ op.cmd = "mkdir" =>
       /\ op.first # 0 /\ data[op.first] = Blank /\ fat[op.first] = EOC
       /\ ~Pointed(op.first) /\ op.slot[1] # op.first

DotsSound == op.first # 0 /\ data[op.first] = Blank

StageSound ==
  /\ op.at = "grow" => GrowSound
  /\ op.at = "free" => FreeSound
  /\ op.at = "alloc" => AllocSound
  /\ op.at = "mark" => MarkSound
  /\ op.at = "run" => RunSound
  /\ op.at = "lfn" => LfnSound
  /\ op.at = "entry" => EntrySound
  /\ op.at = "dots" => DotsSound

(* As long as no chain was lost, every cluster in use is referred to or in *)
(* the command's hands.                                                    *)
Hand == {op.new} \cup (IF op.at = "free" THEN {op.cl} ELSE {})
        \cup (IF op.at \in {"grow", "alloc", "run", "lfn", "entry"} THEN {op.first} ELSE {})
AllFound ==
  ~leaky => \A c \in Cluster \ {Root} : fat[c] # Free =>
     c \in Hand \/ \E p \in Place : Ref(p) = c

TreeInv == DirsSound /\ Acyclic /\ StageSound /\ AllFound

-----------------------------------------------------------------------------
(* Facts about slots and references. *)

(* A blank cluster is one of a directory, and like a cluster that is none  *)
(* it has no entries and leads nowhere.                                    *)
LEMMA Blanks ==
  /\ Blank # NoDir
  /\ \A B \in {Blank, NoDir}, i \in SlotIdx :
        B[i].kind \notin {"ent", "dot"} /\ B[i].dir = FALSE /\ B[i].clus = 0
  /\ \A B \in {Blank, NoDir} : NoEntries(B)
<1>1. /\ \A k \in {"data", "end"} : Plain(k).kind = k /\ Plain(k).dir = FALSE /\ Plain(k).clus = 0
      /\ 1 \in SlotIdx
  BY Numbering DEF Plain
<1> HIDE DEF Plain
<1>2. \A i \in SlotIdx : NoDir[i] = Plain("data") /\ Blank[i] = Plain("end")
  BY DEF NoDir, Blank
<1>3. NoDir[1].kind = "data" /\ Blank[1].kind = "end"
  BY <1>1, <1>2
<1>4. Blank # NoDir
  BY <1>3
<1>5. ASSUME NEW B \in {Blank, NoDir}, NEW i \in SlotIdx
      PROVE  B[i].kind \notin {"ent", "dot"} /\ B[i].dir = FALSE /\ B[i].clus = 0
  BY <1>1, <1>2, <1>5
<1> QED BY <1>4, <1>5, Cleared

(* A slot that is an entry, the end, or deleted is one of a directory. *)
LEMMA InDirectory ==
  ASSUME NEW p \in DirPlace, SlotAt(p).kind # "data"
  PROVE  IsDir(p[1])
<1>1. p[2] \in SlotIdx
  BY Places
<1>2. NoDir[p[2]].kind = "data"
  BY <1>1 DEF NoDir, Plain
<1> QED BY <1>2 DEF IsDir, SlotAt

(* The FAT refers to the next cluster, and only to clusters in use. *)
LEMMA LinkRef ==
  ASSUME NEW c \in Cluster, HasNext(fat[c])
  PROVE  <<c, 0>> \in Place /\ Ref(<<c, 0>>) = fat[c] /\ fat[c] # 0
BY Places, Numbering DEF Ref, HasNext

(* Nothing refers to a free cluster. *)
LEMMA FreeUnref ==
  ASSUME IInv, NEW c \in Cluster, fat[c] = Free
  PROVE  Unref(c) /\ \A d \in Cluster : fat[d] # c
<1>1. 0 \notin Cluster
  BY Numbering
<1>2. Unref(c)
  BY <1>1 DEF IInv, NoDangling, Unref
<1>3. \A d \in Cluster : fat[d] # c
  BY <1>2, LinkRef DEF Unref, HasNext
<1> QED BY <1>2, <1>3

(* A cluster that nothing refers to is no cluster's next. *)
LEMMA UnrefNoLink ==
  ASSUME NEW c \in Cluster, Unref(c)
  PROVE  \A d \in Cluster : fat[d] # c
BY LinkRef DEF Unref, HasNext

(* A cluster that is no directory is none anybody enters. *)
LEMMA NotEntered ==
  ASSUME DirsSound, NEW c \in Cluster, ~IsDir(c)
  PROVE  ~Pointed(c) /\ c # Root
BY DEF DirsSound, Pointed

(* Writing the FAT and a cluster's slots, by element. *)
LEMMA ClusterWrite ==
  ASSUME TypeOK, NEW c \in Cluster, NEW v, NEW B,
         fat' = [fat EXCEPT ![c] = v], data' = [data EXCEPT ![c] = B]
  PROVE  /\ fat'[c] = v /\ data'[c] = B
         /\ \A d \in Cluster : d # c => fat'[d] = fat[d] /\ data'[d] = data[d]
BY DEF TypeOK

(* The references of slots in clusters without entries. *)
LEMMA NoRefInside ==
  ASSUME NEW p \in DirPlace, NoEntries(data[p[1]])
  PROVE  Ref(p) = 0
<1>1. p[2] \in SlotIdx /\ p[2] # 0
  BY Places
<1>2. SlotAt(p).kind # "ent"
  BY <1>1 DEF NoEntries, SlotAt
<1> QED BY <1>1, <1>2 DEF Ref

(* The same after a step. *)
LEMMA NoRefInsideNext ==
  ASSUME NEW p \in DirPlace, NoEntries(data'[p[1]])
  PROVE  Ref(p)' = 0
<1>1. p[2] \in SlotIdx /\ p[2] # 0
  BY Places
<1>2. SlotAt(p)'.kind # "ent"
  BY <1>1 DEF NoEntries, SlotAt
<1> QED BY <1>1, <1>2, NoEntNoRef

(* What a place refers to after a step is a cluster, or 0. *)
LEMMA RefTypeNext ==
  ASSUME TypeOK', NEW p \in Place
  PROVE  Ref(p)' \in Cluster \cup {0}
<1>1. p[1] \in Cluster /\ (p[2] # 0 => p[2] \in SlotIdx)
  BY Places
<1>2. fat'[p[1]] \in Cluster \cup {Free, EOC}
  BY <1>1 DEF TypeOK
<1>3. CASE p[2] = 0
  BY <1>2, <1>3 DEF Ref, HasNext
<1>4. CASE p[2] # 0
  <2>1. SlotAt(p)' \in SlotVal
    BY <1>1, <1>4 DEF TypeOK, SlotAt
  <2>2. SlotAt(p)'.clus \in Cluster \cup {0}
    BY <2>1 DEF SlotVal
  <2> QED BY <1>4, <2>2 DEF Ref
<1> QED BY <1>3, <1>4

(* The suspended entries are slots of directories. *)
LEMMA SuspendedPlaces ==
  ASSUME IInv PROVE Suspended \subseteq DirPlace
<1>1. op.over => op.slot \in DirPlace
  BY DEF IInv, TypeOK, LocalsSound
<1> QED BY <1>1 DEF Suspended, IInv, TypeOK

(* A slot without an entry is not suspended. *)
LEMMA NotTorn ==
  ASSUME DirsSound, NEW p, SlotAt(p).kind # "ent"
  PROVE  p \notin torn
BY DEF DirsSound, Suspended

(* The same after a step. *)
LEMMA SuspendedPlacesNext ==
  ASSUME IInv' PROVE Suspended' \subseteq DirPlace
<1>1. op'.over => op'.slot \in DirPlace
  BY DEF IInv, TypeOK, LocalsSound
<1> QED BY <1>1 DEF Suspended, IInv, TypeOK

-----------------------------------------------------------------------------
(* The effect of a write on the tree. *)

(* No reference changes, or only the one at q. *)
Kept(q) == \A p \in Place : p # q => Ref(p)' = Ref(p)
Quiet == \A p \in Place : Ref(p)' = Ref(p)

(* A free cluster is taken, and cleared for a directory or a file. *)
LEMMA TakeTree ==
  ASSUME IInv, DirsSound, Acyclic, Suspended' = Suspended, cwd' = cwd,
         NEW c \in Cluster, fat[c] = Free, NEW B \in {Blank, NoDir},
         fat' = [fat EXCEPT ![c] = EOC], data' = [data EXCEPT ![c] = B]
  PROVE  /\ DirsSound' /\ Acyclic' /\ Quiet
         /\ fat'[c] = EOC /\ data'[c] = B /\ ~IsDir(c) /\ ~Pointed(c)'
         /\ \A d \in Cluster : d # c => fat'[d] = fat[d] /\ data'[d] = data[d]
<1>1. /\ TypeOK /\ NoDangling /\ Root \in Cluster /\ EOC \notin Cluster /\ EOC # Free
      /\ cwd \in Cluster /\ 0 \notin Cluster
  BY Numbering DEF IInv, TypeOK
<1>2. /\ fat'[c] = EOC /\ data'[c] = B
      /\ \A d \in Cluster : d # c => fat'[d] = fat[d] /\ data'[d] = data[d]
  BY <1>1, ClusterWrite
<1>3. ~IsDir(c) /\ data[c] = NoDir
  BY DEF DirsSound, IsDir
<1>4. ~Pointed(c) /\ c # Root
  BY <1>3, NotEntered
<1>5. Unref(c) /\ \A d \in Cluster : fat[d] # c
  BY FreeUnref
<1>6. /\ \A i \in SlotIdx : B[i].kind \notin {"ent", "dot"} /\ B[i].dir = FALSE
      /\ NoEntries(B) /\ NoEntries(NoDir)
  BY Blanks
<1>7. \A p \in DirPlace : p[1] # c => SlotAt(p)' = SlotAt(p)
  BY <1>2, Places DEF SlotAt
<1>8. \A p \in DirPlace : p[1] = c => SlotAt(p)'.kind \notin {"ent", "dot"} /\ SlotAt(p)'.dir = FALSE
  BY <1>2, <1>6, Places DEF SlotAt
<1>9. ASSUME NEW p \in Place PROVE Ref(p)' = Ref(p)
  <2>1. CASE p[2] = 0 /\ p[1] # c
    BY <1>2, <2>1, RefSame, Places
  <2>2. CASE p[2] = 0 /\ p[1] = c
    BY <1>1, <1>2, <2>2, Numbering DEF Ref, HasNext
  <2>3. CASE p[2] # 0 /\ p[1] # c
    BY <1>7, <2>3, RefSame, Places
  <2>4. CASE p[2] # 0 /\ p[1] = c
    <3>1. p \in DirPlace
      BY <2>4, Places
    <3>2. Ref(p)' = 0
      BY <1>2, <1>6, <2>4, <3>1, NoRefInsideNext
    <3>3. Ref(p) = 0
      BY <1>3, <1>6, <2>4, <3>1, NoRefInside
    <3> QED BY <3>2, <3>3
  <2> QED BY <2>1, <2>2, <2>3, <2>4
<1>10. \A d \in Cluster : d # c => (IsDir(d)' <=> IsDir(d))
  BY <1>2 DEF IsDir
<1>11. DirsSound'
  <2>1. IsDir(Root)' /\ IsDir(cwd)'
    BY <1>1, <1>4, <1>10 DEF DirsSound, Pointed, IsDir
  <2>2. ASSUME NEW d \in Cluster PROVE IsDir(d)' => fat'[d] # Free
    BY <1>1, <1>2, <1>10 DEF DirsSound
  <2>3. ASSUME NEW d \in Cluster, HasNext(fat[d])' PROVE IsDir(d)' <=> IsDir(fat[d])'
    <3>1. d # c /\ fat'[d] = fat[d] /\ fat[d] \in Cluster /\ fat[d] # c
      BY <1>1, <1>2, <1>5, <2>3 DEF HasNext
    <3>2. IsDir(d)' <=> IsDir(d)
      BY <1>10, <3>1
    <3>3. IsDir(fat[d])' <=> IsDir(fat[d])
      BY <1>2, <3>1 DEF IsDir
    <3>4. IsDir(d) <=> IsDir(fat[d])
      BY <3>1 DEF DirsSound, HasNext
    <3> QED BY <3>2, <3>3, <3>4
  <2>4. ASSUME NEW p \in DirPlace, SlotAt(p)'.dir
        PROVE  SlotAt(p)'.clus \in Cluster /\ IsDir(SlotAt(p).clus)'
    <3>1. SlotAt(p)' = SlotAt(p) /\ SlotAt(p).dir
      BY <1>7, <1>8, <2>4
    <3>2. SlotAt(p).clus \in Cluster /\ IsDir(SlotAt(p).clus)
      BY <3>1 DEF DirsSound
    <3>3. data'[SlotAt(p).clus] = data[SlotAt(p).clus]
      BY <1>2, <1>3, <3>2 DEF IsDir
    <3> QED BY <3>1, <3>2, <3>3 DEF IsDir
  <2>5. ASSUME NEW p \in DirPlace, SlotAt(p)'.kind = "dot" PROVE SlotAt(p)'.dir
    BY <1>7, <1>8, <2>5 DEF DirsSound
  <2>6. ASSUME NEW p \in DirPlace, Ref(p)' # 0, ~SlotAt(p)'.dir PROVE ~IsDir(Ref(p))'
    <3>1. p[1] # c /\ p \in Place
      BY <1>2, <1>6, <2>6, NoRefInsideNext, Places
    <3>2. SlotAt(p)' = SlotAt(p) /\ Ref(p)' = Ref(p)
      BY <1>7, <1>9, <3>1
    <3>3. Ref(p) \in Cluster /\ Ref(p) # c
      BY <1>1, <1>5, <2>6, <3>1, <3>2, RefType DEF Unref
    <3>4. ~IsDir(Ref(p))
      BY <2>6, <3>2 DEF DirsSound
    <3> QED BY <1>2, <3>2, <3>3, <3>4 DEF IsDir
  <2>7. ASSUME NEW p \in Suspended' PROVE SlotAt(p)'.kind = "ent"
    <3>1. p \in DirPlace /\ SlotAt(p).kind = "ent"
      BY <2>7, SuspendedPlaces DEF DirsSound
    <3>2. p[1] # c
      <4>1. p[1] = c => NoDir[p[2]].kind = "ent" /\ p[2] \in SlotIdx
        BY <1>3, <3>1, Places DEF SlotAt
      <4> QED BY <4>1, Blanks
    <3> QED BY <1>7, <3>1, <3>2
  <2> QED BY <2>1, <2>2, <2>3, <2>4, <2>5, <2>6, <2>7 DEF DirsSound
<1>12. Acyclic'
  BY <1>1, <1>2 DEF Acyclic
<1>13. ~Pointed(c)'
  <2>1. ASSUME NEW p \in DirPlace, SlotAt(p)'.dir, SlotAt(p)'.clus = c PROVE FALSE
    BY <1>4, <1>7, <1>8, <2>1 DEF Pointed
  <2>2. cwd' # c
    BY <1>4 DEF Pointed
  <2> QED BY <2>1, <2>2 DEF Pointed
<1> QED BY <1>2, <1>3, <1>9, <1>11, <1>12, <1>13 DEF Quiet

(* A cluster in flight that ends its chain is linked to another of the     *)
(* same sort.                                                              *)
LEMMA LinkTree ==
  ASSUME IInv, DirsSound, Acyclic, Suspended' = Suspended, cwd' = cwd, data' = data,
         NEW a \in Cluster, NEW n \in Cluster, fat[n] = EOC, a # n, IsDir(a) <=> IsDir(n),
         fat' = [fat EXCEPT ![a] = n]
  PROVE  /\ DirsSound' /\ Acyclic' /\ Kept(<<a, 0>>) /\ Ref(<<a, 0>>)' = n
         /\ fat'[a] = n /\ \A d \in Cluster : d # a => fat'[d] = fat[d]
<1>1. /\ TypeOK /\ EOC \notin Cluster /\ Free \notin Cluster /\ cwd \in Cluster
  BY Numbering DEF IInv, TypeOK
<1>2. fat'[a] = n /\ \A d \in Cluster : d # a => fat'[d] = fat[d]
  BY DEF IInv, TypeOK
<1>3. \A c : IsDir(c)' <=> IsDir(c)
  BY DEF IsDir
<1>4. \A p : SlotAt(p)' = SlotAt(p)
  BY DEF SlotAt
<1>5. \A p \in Place : p # <<a, 0>> => Ref(p)' = Ref(p)
  BY <1>2, <1>4, RefSame, Places
<1>6. Ref(<<a, 0>>)' = n
  BY <1>2 DEF Ref, HasNext
<1>7. DirsSound'
  <2>1. IsDir(Root)' /\ IsDir(cwd)'
    BY <1>3 DEF DirsSound, IsDir
  <2>2. ASSUME NEW d \in Cluster PROVE IsDir(d)' => fat'[d] # Free
    BY <1>1, <1>2, <1>3 DEF DirsSound
  <2>3. ASSUME NEW d \in Cluster, HasNext(fat[d])' PROVE IsDir(d)' <=> IsDir(fat[d])'
    BY <1>2, <2>3 DEF DirsSound, HasNext, IsDir
  <2>4. ASSUME NEW p \in DirPlace, SlotAt(p)'.dir
        PROVE  SlotAt(p)'.clus \in Cluster /\ IsDir(SlotAt(p).clus)'
    BY <1>4, <2>4 DEF DirsSound, IsDir
  <2>5. ASSUME NEW p \in DirPlace, SlotAt(p)'.kind = "dot" PROVE SlotAt(p)'.dir
    BY <1>4, <2>5 DEF DirsSound
  <2>6. ASSUME NEW p \in DirPlace, Ref(p)' # 0, ~SlotAt(p)'.dir PROVE ~IsDir(Ref(p))'
    <3>1. Ref(p)' = Ref(p) /\ SlotAt(p)' = SlotAt(p)
      BY <1>4, <1>5, Places
    <3>2. ~IsDir(Ref(p))
      BY <2>6, <3>1 DEF DirsSound
    <3> QED BY <3>1, <3>2 DEF IsDir
  <2>7. ASSUME NEW p \in Suspended' PROVE SlotAt(p)'.kind = "ent"
    BY <1>4, <2>7 DEF DirsSound
  <2> QED BY <2>1, <2>2, <2>3, <2>4, <2>5, <2>6, <2>7 DEF DirsSound
<1>8. Acyclic'
  <2> SUFFICES ASSUME NEW S \in SUBSET Cluster, S # {} PROVE \E c \in S : fat'[c] \notin S
    BY DEF Acyclic
  <2>1. CASE n \in S
    BY <1>1, <1>2, <2>1
  <2>2. CASE n \notin S
    BY <1>2, <2>2 DEF Acyclic
  <2> QED BY <2>1, <2>2
<1> QED BY <1>2, <1>5, <1>6, <1>7, <1>8 DEF Kept

(* A cluster in flight that nobody enters, without entries, is freed. *)
LEMMA FreeTree ==
  ASSUME IInv, DirsSound, Acyclic, Suspended' = Suspended, cwd' = cwd,
         NEW c \in Cluster, InFlight(c), ~Pointed(c), NoEntries(data[c]),
         fat' = [fat EXCEPT ![c] = Free], data' = [data EXCEPT ![c] = NoDir]
  PROVE  /\ DirsSound' /\ Acyclic' /\ Kept(<<c, 0>>) /\ Ref(<<c, 0>>)' = 0
         /\ fat'[c] = Free /\ data'[c] = NoDir
         /\ \A d \in Cluster : d # c => fat'[d] = fat[d] /\ data'[d] = data[d]
<1>1. /\ TypeOK /\ Root \in Cluster /\ Free \notin Cluster /\ cwd \in Cluster /\ 0 \notin Cluster
      /\ c # Root /\ Unref(c)
  BY Numbering DEF IInv, TypeOK, InFlight
<1>2. /\ fat'[c] = Free /\ data'[c] = NoDir
      /\ \A d \in Cluster : d # c => fat'[d] = fat[d] /\ data'[d] = data[d]
  BY <1>1, ClusterWrite
<1>3. \A d \in Cluster : fat[d] # c
  BY <1>1, UnrefNoLink
<1>4. /\ \A i \in SlotIdx : NoDir[i].kind \notin {"ent", "dot"} /\ NoDir[i].dir = FALSE
      /\ NoEntries(NoDir)
  BY Blanks
<1>5. \A p \in DirPlace : p[1] # c => SlotAt(p)' = SlotAt(p)
  BY <1>2, Places DEF SlotAt
<1>6. \A p \in DirPlace : p[1] = c => SlotAt(p)'.kind \notin {"ent", "dot"} /\ SlotAt(p)'.dir = FALSE
  BY <1>2, <1>4, Places DEF SlotAt
<1>7. ASSUME NEW p \in Place, p # <<c, 0>> PROVE Ref(p)' = Ref(p)
  <2>1. CASE p[2] = 0
    BY <1>2, <1>7, <2>1, RefSame, Places
  <2>3. CASE p[2] # 0 /\ p[1] # c
    BY <1>5, <2>3, RefSame, Places
  <2>4. CASE p[2] # 0 /\ p[1] = c
    <3>1. p \in DirPlace
      BY <2>4, Places
    <3>2. Ref(p)' = 0
      BY <1>2, <1>4, <2>4, <3>1, NoRefInsideNext
    <3>3. Ref(p) = 0
      BY <2>4, <3>1, NoRefInside
    <3> QED BY <3>2, <3>3
  <2> QED BY <2>1, <2>3, <2>4
<1>8. Ref(<<c, 0>>)' = 0
  BY <1>1, <1>2 DEF Ref, HasNext
<1>9. \A d \in Cluster : d # c => (IsDir(d)' <=> IsDir(d))
  BY <1>2 DEF IsDir
<1>10. ~IsDir(c)'
  BY <1>2 DEF IsDir
<1>11. DirsSound'
  <2>1. IsDir(Root)' /\ IsDir(cwd)'
    BY <1>1, <1>9 DEF DirsSound, Pointed, IsDir
  <2>2. ASSUME NEW d \in Cluster PROVE IsDir(d)' => fat'[d] # Free
    BY <1>2, <1>9, <1>10 DEF DirsSound
  <2>3. ASSUME NEW d \in Cluster, HasNext(fat[d])' PROVE IsDir(d)' <=> IsDir(fat[d])'
    <3>1. d # c /\ fat'[d] = fat[d] /\ fat[d] \in Cluster /\ fat[d] # c
      BY <1>1, <1>2, <1>3, <2>3 DEF HasNext
    <3>2. IsDir(d)' <=> IsDir(d)
      BY <1>9, <3>1
    <3>3. IsDir(fat[d])' <=> IsDir(fat[d])
      BY <1>2, <3>1 DEF IsDir
    <3>4. IsDir(d) <=> IsDir(fat[d])
      BY <3>1 DEF DirsSound, HasNext
    <3> QED BY <3>2, <3>3, <3>4
  <2>4. ASSUME NEW p \in DirPlace, SlotAt(p)'.dir
        PROVE  SlotAt(p)'.clus \in Cluster /\ IsDir(SlotAt(p).clus)'
    <3>1. SlotAt(p)' = SlotAt(p) /\ SlotAt(p).dir
      BY <1>5, <1>6, <2>4
    <3>2. SlotAt(p).clus \in Cluster /\ IsDir(SlotAt(p).clus) /\ SlotAt(p).clus # c
      BY <3>1 DEF DirsSound, Pointed
    <3>3. data'[SlotAt(p).clus] = data[SlotAt(p).clus]
      BY <1>2, <3>2
    <3> QED BY <3>1, <3>2, <3>3 DEF IsDir
  <2>5. ASSUME NEW p \in DirPlace, SlotAt(p)'.kind = "dot" PROVE SlotAt(p)'.dir
    BY <1>5, <1>6, <2>5 DEF DirsSound
  <2>6. ASSUME NEW p \in DirPlace, Ref(p)' # 0, ~SlotAt(p)'.dir PROVE ~IsDir(Ref(p))'
    <3>1. p[1] # c /\ p \in Place /\ p # <<c, 0>>
      BY <1>2, <1>4, <2>6, NoRefInsideNext, Places
    <3>2. SlotAt(p)' = SlotAt(p) /\ Ref(p)' = Ref(p)
      BY <1>5, <1>7, <3>1
    <3>3. Ref(p) \in Cluster /\ Ref(p) # c
      BY <1>1, <2>6, <3>1, <3>2, RefType DEF Unref
    <3>4. ~IsDir(Ref(p))
      BY <2>6, <3>2 DEF DirsSound
    <3> QED BY <1>2, <3>2, <3>3, <3>4 DEF IsDir
  <2>7. ASSUME NEW p \in Suspended' PROVE SlotAt(p)'.kind = "ent"
    <3>1. p \in DirPlace /\ SlotAt(p).kind = "ent"
      BY <2>7, SuspendedPlaces DEF DirsSound
    <3>2. p[1] # c
      BY <3>1, Places DEF SlotAt, NoEntries
    <3> QED BY <1>5, <3>1, <3>2
  <2> QED BY <2>1, <2>2, <2>3, <2>4, <2>5, <2>6, <2>7 DEF DirsSound
<1>12. Acyclic'
  BY <1>1, <1>2 DEF Acyclic
<1> QED BY <1>2, <1>7, <1>8, <1>11, <1>12 DEF Kept

(* Slots of directories are written, the FAT is not, and what the new      *)
(* slots lead to is sound.                                                 *)
LEMMA SlotTree ==
  ASSUME DirsSound, Acyclic, fat' = fat, IsDir(cwd)',
         \A c \in Cluster : IsDir(c)' <=> IsDir(c),
         TypeOK',
         \A p \in DirPlace : SlotAt(p)' = SlotAt(p) \/
            /\ SlotAt(p)'.dir => SlotAt(p)'.clus \in Cluster /\ IsDir(SlotAt(p)'.clus)
            /\ SlotAt(p)'.kind = "dot" => SlotAt(p)'.dir,
         \A p \in DirPlace : Ref(p)' # 0 /\ ~SlotAt(p)'.dir => ~IsDir(Ref(p)'),
         \A p \in Suspended' : SlotAt(p)'.kind = "ent"
  PROVE  DirsSound' /\ Acyclic'
<1>1. Root \in Cluster /\ 0 \notin Cluster
  BY Numbering
<1>2. IsDir(Root)'
  BY <1>1 DEF DirsSound
<1>3. ASSUME NEW d \in Cluster, HasNext(fat[d])' PROVE IsDir(d)' <=> IsDir(fat[d])'
  <2>1. fat[d] \in Cluster
    BY <1>3 DEF HasNext
  <2>2. IsDir(fat[d])' <=> IsDir(fat[d])
    BY <2>1 DEF IsDir
  <2> QED BY <1>3, <2>1, <2>2 DEF DirsSound, HasNext
<1>4. ASSUME NEW p \in DirPlace, SlotAt(p)'.dir
      PROVE  SlotAt(p)'.clus \in Cluster /\ IsDir(SlotAt(p).clus)'
  <2>1. SlotAt(p)'.clus \in Cluster /\ IsDir(SlotAt(p)'.clus)
    BY <1>4 DEF DirsSound
  <2>2. PICK c \in Cluster : c = SlotAt(p)'.clus
    BY <2>1
  <2>3. IsDir(c)'
    BY <2>1, <2>2
  <2> QED BY <2>2, <2>3 DEF IsDir
<1>5. ASSUME NEW p \in DirPlace, SlotAt(p)'.kind = "dot" PROVE SlotAt(p)'.dir
  BY <1>5 DEF DirsSound
<1>6. ASSUME NEW p \in DirPlace, Ref(p)' # 0, ~SlotAt(p)'.dir PROVE ~IsDir(Ref(p))'
  <2>1. Ref(p)' \in Cluster
    BY <1>6, RefTypeNext, Places
  <2>2. PICK c \in Cluster : c = Ref(p)'
    BY <2>1
  <2>3. ~IsDir(c)'
    BY <1>6, <2>2
  <2> QED BY <2>2, <2>3 DEF IsDir
<1>7. \A d \in Cluster : IsDir(d)' => fat'[d] # Free
  BY DEF DirsSound
<1>8. DirsSound'
  BY <1>2, <1>3, <1>4, <1>5, <1>6, <1>7 DEF DirsSound
<1> QED BY <1>8 DEF Acyclic

-----------------------------------------------------------------------------
(* The parts of the invariant that are about the command in progress. *)

(* One place starts to refer to a cluster nobody referred to, or one stops *)
(* to refer to a cluster, or nothing changes.                              *)
RefMove ==
  \E q \in Place : /\ Kept(q)
                   /\ Ref(q)' = Ref(q) \/ Ref(q)' = 0 \/ (Ref(q) = 0 /\ Unref(Ref(q)'))

(* The three kinds of such a step. *)
LEMMA Moves ==
  /\ Quiet => RefMove
  /\ \A q \in Place : Kept(q) /\ Ref(q)' = 0 => RefMove
  /\ \A q \in Place : Kept(q) /\ Ref(q) = 0 /\ Unref(Ref(q)') => RefMove
<1>1. <<Root, 0>> \in Place
  BY Places, Numbering
<1>2. Quiet => Kept(<<Root, 0>>) /\ Ref(<<Root, 0>>)' = Ref(<<Root, 0>>)
  BY <1>1 DEF Quiet, Kept
<1>3. Quiet => RefMove
  BY <1>1, <1>2 DEF RefMove
<1>4. ASSUME NEW q \in Place, Kept(q), Ref(q)' = 0 PROVE RefMove
  BY <1>4 DEF RefMove
<1>5. ASSUME NEW q \in Place, Kept(q), Ref(q) = 0 /\ Unref(Ref(q)') PROVE RefMove
  BY <1>5 DEF RefMove
<1> QED BY <1>3, <1>4, <1>5

(* A step keeps every cluster in sight: what is taken goes into the        *)
(* command's hands, and what leaves them, or a place, is referred to, in   *)
(* the hands or free afterwards.                                           *)
LEMMA FoundStep ==
  ASSUME AllFound, leaky => leaky',
         \A c \in Cluster \ {Root} : fat[c] = Free /\ fat'[c] # Free => c \in Hand',
         \A c \in Cluster \ {Root} : c \in Hand =>
            leaky' \/ c \in Hand' \/ fat'[c] = Free \/ \E p \in Place : Ref(p)' = c,
         \A p \in Place : Ref(p) \in Cluster =>
            Ref(p)' = Ref(p) \/ Ref(p) \in Hand' \/ fat'[Ref(p)] = Free
  PROVE  AllFound'
<1> SUFFICES ASSUME ~leaky', NEW c \in Cluster \ {Root}, fat'[c] # Free, c \notin Hand'
             PROVE  \E p \in Place : Ref(p)' = c
  BY DEF AllFound
<1>1. c \in Hand \/ \E p \in Place : Ref(p) = c
  BY DEF AllFound
<1> QED BY <1>1

(* The members of Hand. *)
LEMMA HandFields ==
  /\ op.new \in Hand
  /\ op.at = "free" => op.cl \in Hand
  /\ op.at \in {"grow", "alloc", "run", "lfn", "entry"} => op.first \in Hand
  /\ \A c \in Hand : \/ c = op.new
                     \/ c = op.cl /\ op.at = "free"
                     \/ c = op.first /\ op.at \in {"grow", "alloc", "run", "lfn", "entry"}
BY DEF Hand

(* The same after a step. *)
LEMMA HandFieldsNext ==
  /\ op'.new \in Hand'
  /\ op'.at = "free" => op'.cl \in Hand'
  /\ op'.at \in {"grow", "alloc", "run", "lfn", "entry"} => op'.first \in Hand'
BY DEF Hand

(* Between commands there is nothing to know. *)
LEMMA IdleStage ==
  ASSUME op' = Idle PROVE StageSound'
BY IdleFields DEF StageSound

(* The stages exclude each other. *)
LEMMA OneStage ==
  /\ op'.at = "grow" /\ GrowSound' => StageSound'
  /\ op'.at = "free" /\ FreeSound' => StageSound'
  /\ op'.at = "alloc" /\ AllocSound' => StageSound'
  /\ op'.at = "mark" /\ MarkSound' => StageSound'
  /\ op'.at = "run" /\ RunSound' => StageSound'
  /\ op'.at = "lfn" /\ LfnSound' => StageSound'
  /\ op'.at = "entry" /\ EntrySound' => StageSound'
  /\ op'.at = "dots" /\ DotsSound' => StageSound'
<1> HIDE DEF GrowSound, FreeSound, AllocSound, MarkSound, RunSound, LfnSound, EntrySound, DotsSound
<1> QED BY DEF StageSound

(* The disk stays as it is, the references too, and the working directory  *)
(* is a directory.                                                         *)
LEMMA DiskKept ==
  ASSUME DirsSound, Acyclic, fat' = fat, data' = data, TypeOK',
         cwd' \in Cluster, IsDir(cwd'), \A p \in Place : Ref(p)' \in {0, Ref(p)},
         \A p \in Suspended' : SlotAt(p).kind = "ent"
  PROVE  DirsSound' /\ Acyclic'
<1>1. (\A c : IsDir(c)' <=> IsDir(c)) /\ IsDir(cwd)' /\ \A p : SlotAt(p)' = SlotAt(p)
  BY DEF IsDir, SlotAt
<1>2. ASSUME NEW p \in DirPlace, Ref(p)' # 0, ~SlotAt(p)'.dir PROVE ~IsDir(Ref(p)')
  <2>1. Ref(p)' = Ref(p) /\ ~SlotAt(p).dir
    BY <1>1, <1>2, Places
  <2> QED BY <1>2, <2>1 DEF DirsSound
<1> QED BY <1>1, <1>2, SlotTree

(* A command gives up: the disk stays as it is. *)
LEMMA TreeGaveUp ==
  ASSUME IInv, TreeInv, IInv', GiveUp, UNCHANGED <<fat, data>>, cwd' \in {cwd, Root},
         leaky => leaky', leaky' \/ \A c \in Hand : c \notin Cluster
  PROVE  TreeInv' /\ RefMove
<1>1. op' = Idle /\ torn' = IF op.over THEN torn \cup {op.slot} ELSE torn
  BY DEF GiveUp
<1>2. Suspended' = Suspended
  BY <1>1, IdleFields DEF Suspended
<1>3. Quiet
  BY <1>2, RefSame DEF SlotAt, Quiet
<1>4. IsDir(cwd') /\ TypeOK' /\ cwd' \in Cluster
  BY DEF TreeInv, DirsSound, IInv, TypeOK
<1>5. DirsSound' /\ Acyclic'
  BY <1>2, <1>3, <1>4, DiskKept DEF TreeInv, Quiet, DirsSound
<1>6. StageSound'
  BY <1>1, IdleStage
<1>7. AllFound'
  BY <1>3, FoundStep DEF TreeInv, Quiet
<1> QED BY <1>3, <1>5, <1>6, <1>7, Moves DEF TreeInv

-----------------------------------------------------------------------------
(* dir_grow *)

(* A cluster is taken for the directory. *)
LEMMA GrowTaken ==
  ASSUME IInv, TreeInv, op.at = "grow", NEW c \in Cluster, fat[c] = Free,
         fat' = [fat EXCEPT ![c] = EOC], data' = [data EXCEPT ![c] = Blank],
         op' = [op EXCEPT !.new = c], op.new = 0, UNCHANGED <<cwd, torn, leaky>>
  PROVE  TreeInv' /\ RefMove
<1>1. op \in OpType /\ TypeOK /\ GrowSound
  BY DEF IInv, TypeOK, TreeInv, StageSound
<1>2. /\ op'.new = c /\ op'.at = "grow" /\ op'.last = op.last /\ op'.slot = op.slot
      /\ op'.first = op.first /\ op'.dir = op.dir /\ op'.cmd = op.cmd /\ op'.over = op.over
      /\ op'.prev = op.prev /\ op'.need = op.need
  BY <1>1 DEF OpType
<1>3. Suspended' = Suspended
  BY <1>2 DEF Suspended
<1>4. /\ DirsSound' /\ Acyclic' /\ Quiet
      /\ fat'[c] = EOC /\ data'[c] = Blank /\ ~IsDir(c)
      /\ \A d \in Cluster : d # c => fat'[d] = fat[d] /\ data'[d] = data[d]
  <2>1. Blank \in {Blank, NoDir}
    OBVIOUS
  <2> QED BY <1>3, <2>1, TakeTree DEF TreeInv
<1>5. op.last \in Cluster /\ op.first \in Cluster \cup {0} /\ op.slot \in DirPlace \cup {NoPlace}
  BY <1>1 DEF OpType, IInv, LocalsSound
<1>6. op.first # 0 => op.first \in Cluster /\ op.first # c
  BY <1>5 DEF IInv, Hands, InFlight
<1>7. GrowSound'
  <2>1. IsDir(op.last)' /\ fat'[op.last] = EOC /\ op.last # c
    BY <1>1, <1>4, <1>5 DEF GrowSound, IsDir
  <2>2. ASSUME op.slot # NoPlace PROVE Vacant(op.slot)'
    <3>1. op.slot \in DirPlace /\ op.slot \in Place /\ op.slot[1] \in Cluster
      BY <1>5, <2>2, Places
    <3>2. IsDir(op.slot[1]) /\ Ref(op.slot) = 0 /\ op.slot \notin torn
      BY <1>1, <2>2 DEF GrowSound, Vacant
    <3>3. op.slot[1] # c
      BY <1>4, <3>2 DEF IsDir
    <3>4. data'[op.slot[1]] = data[op.slot[1]]
      BY <1>4, <3>1, <3>3
    <3>5. PICK q \in Place : q = op.slot
      BY <3>1
    <3>6. Ref(q)' = 0
      BY <1>4, <3>2, <3>5 DEF Quiet
    <3> QED BY <1>2, <3>2, <3>4, <3>5, <3>6 DEF Vacant, IsDir, Ref, SlotAt
  <2>3. op.first # 0 => data'[op.first] = data[op.first]
    BY <1>4, <1>6
  <2>4. NewSound(op)'
    BY <1>1, <1>2, <2>3 DEF GrowSound, NewSound, IsDir
  <2> QED BY <1>1, <1>2, <1>4, <2>1, <2>2, <2>4 DEF GrowSound, IsDir
<1>8. StageSound'
  BY <1>2, <1>7, OneStage
<1>9. AllFound'
  <2>1. Hand = {op.new, op.first} /\ Hand' = {c, op.first}
    BY <1>2 DEF Hand
  <2>2. \A d \in Cluster \ {Root} : d \in Hand => d \in Hand'
    BY <2>1, Numbering
  <2>3. \A d \in Cluster \ {Root} : fat[d] = Free /\ fat'[d] # Free => d \in Hand'
    BY <1>4, <2>1
  <2> QED BY <1>4, <2>2, <2>3, FoundStep DEF TreeInv, Quiet
<1> QED BY <1>4, <1>8, <1>9, Moves DEF TreeInv

(* dir_grow() takes a cluster for the directory, or finds the disk full. *)
LEMMA GrowAllocTree ==
  ASSUME IInv, TreeInv, IInv', GrowAlloc PROVE TreeInv' /\ RefMove
<1>1. CASE \E c \in Cluster : /\ IsFirst(c, FreeClusters) /\ SetFat(c, EOC)
                              /\ data' = [data EXCEPT ![c] = Blank]
                              /\ Stay([op EXCEPT !.new = c])
                              /\ UNCHANGED <<torn, leaky>>
  <2>1. PICK c \in Cluster : /\ IsFirst(c, FreeClusters) /\ SetFat(c, EOC)
                             /\ data' = [data EXCEPT ![c] = Blank]
                             /\ Stay([op EXCEPT !.new = c])
                             /\ UNCHANGED <<torn, leaky>>
    BY <1>1
  <2>2. fat[c] = Free /\ op.at = "grow" /\ op.new = 0 /\ UNCHANGED cwd
    BY <2>1 DEF IsFirst, FreeClusters, GrowAlloc, At
  <2> QED BY <2>1, <2>2, GrowTaken DEF SetFat, Stay
<1>2. CASE /\ FreeClusters = {} /\ GiveUp
           /\ leaky' = (leaky \/ op.first # 0)
           /\ UNCHANGED <<fat, data>>
  <2>1. op.at = "grow" /\ op.new = 0 /\ UNCHANGED cwd
    BY DEF GrowAlloc, At
  <2>2. ~leaky' => \A c \in Hand : c = 0
    BY <1>2, <2>1 DEF Hand
  <2> QED BY <1>2, <2>1, <2>2, TreeGaveUp, Numbering
<1> QED BY <1>1, <1>2 DEF GrowAlloc

(* It is linked to the end of the directory. *)
LEMMA GrowLinkTree ==
  ASSUME IInv, TreeInv, IInv', GrowLink PROVE TreeInv' /\ RefMove
<1>1. op \in OpType /\ TypeOK /\ GrowSound /\ op.at = "grow" /\ op.new # 0
  BY DEF IInv, TypeOK, TreeInv, StageSound, GrowLink, At
<1>2. PICK n \in Cluster : n = op.new
  BY <1>1 DEF OpType
<1>3. PICK a \in Cluster : a = op.last
  BY <1>1 DEF OpType, IInv, LocalsSound
<1>z. PICK z \in Cluster \cup {0} : z = 0
  OBVIOUS
<1>y. PICK y \in BOOLEAN : y = (op.slot = NoPlace)
  OBVIOUS
<1>x. PICK x \in OpType : x = IF y THEN [op EXCEPT !.new = z, !.slot = <<n, 1>>, !.next = <<n, 2>>]
                              ELSE [op EXCEPT !.new = z, !.next = <<n, 1>>]
  <2>1. <<n, 1>> \in DirPlace /\ <<n, 2>> \in DirPlace
    BY Numbering DEF DirPlace
  <2> QED BY <1>1, <1>z, <2>1 DEF OpType
<1>4. /\ x.cmd = op.cmd /\ x.first = op.first /\ x.dir = op.dir /\ x.over = op.over /\ x.new = 0
      /\ x.prev = op.prev /\ x.need = op.need
      /\ y => x.slot = <<n, 1>> /\ x.next = <<n, 2>>
      /\ ~y => x.slot = op.slot /\ x.next = <<n, 1>>
  <2>1. CASE y
    BY <1>1, <1>x, <1>z, <2>1 DEF OpType
  <2>2. CASE ~y
    BY <1>1, <1>x, <1>z, <2>2 DEF OpType
  <2> QED BY <2>1, <2>2
<1>5. Go("grow", x)
  BY <1>1, <1>2, <1>x, <1>y, <1>z DEF GrowLink
<1>6. PICK s \in {"lfn", "alloc", "entry"} : s = After("grow", x)
  <2>1. op.cmd \in {"write", "mkdir", "rename"}
    BY <1>1 DEF IInv, StagesSound
  <2>2. CASE x.cmd = "rename"
    BY <2>2, AfterStage
  <2>3. CASE x.cmd \in {"write", "mkdir"}
    BY <2>3, AfterStage
  <2> QED BY <1>4, <2>1, <2>2, <2>3
<1>7. op' \in OpType /\ op'.at = s /\ SameLocals(x, op')
  <2>1. s \in Stage /\ s # "idle"
    BY DEF Stage
  <2> QED BY <1>5, <1>6, <2>1, GoEffect
<1>8. /\ op'.cmd = op.cmd /\ op'.first = op.first /\ op'.dir = op.dir /\ op'.over = op.over
      /\ op'.new = 0 /\ op'.prev = op.prev /\ op'.need = op.need
      /\ y => op'.slot = <<n, 1>> /\ op'.next = <<n, 2>>
      /\ ~y => op'.slot = op.slot /\ op'.next = <<n, 1>>
  BY <1>4, <1>7 DEF SameLocals
<1>9. ~op.over
  BY <1>1 DEF IInv, LocalsSound
<1>10. Suspended' = Suspended
  BY <1>8, <1>9 DEF Suspended, GrowLink
<1>11. /\ fat[n] = EOC /\ data[n] = Blank /\ IsDir(n) /\ IsDir(a) /\ a # n /\ InFlight(n)
       /\ fat[a] = EOC
  BY <1>1, <1>2, <1>3, Blanks DEF GrowSound, IsDir, IInv, Hands
<1>12. fat' = [fat EXCEPT ![a] = n] /\ UNCHANGED <<data, cwd, torn, leaky>>
  BY <1>2, <1>3 DEF GrowLink, SetFat
<1>13. /\ DirsSound' /\ Acyclic' /\ Kept(<<a, 0>>) /\ Ref(<<a, 0>>)' = n
       /\ fat'[a] = n /\ \A d \in Cluster : d # a => fat'[d] = fat[d]
  BY <1>10, <1>11, <1>12, LinkTree DEF TreeInv
<1>14. RefMove
  <2>1. <<a, 0>> \in Place /\ Unref(n)
    BY <1>11, Places DEF InFlight
  <2>2. Ref(<<a, 0>>) = 0
    BY <1>11, Numbering DEF Ref, HasNext
  <2> QED BY <1>13, <2>1, <2>2, Moves
<1>15. \A p \in DirPlace : Vacant(p) => Vacant(p)'
  <2> SUFFICES ASSUME NEW p \in DirPlace, Vacant(p) PROVE Vacant(p)'
    OBVIOUS
  <2>1. p # <<a, 0>> /\ p \in Place
    BY Places
  <2>2. Ref(p)' = Ref(p)
    BY <1>13, <2>1 DEF Kept
  <2> QED BY <1>12, <2>2 DEF Vacant, IsDir
<1>16. \A i \in SlotIdx : <<n, i>> \in DirPlace /\ Vacant(<<n, i>>)'
  <2> SUFFICES ASSUME NEW i \in SlotIdx PROVE <<n, i>> \in DirPlace /\ Vacant(<<n, i>>)'
    OBVIOUS
  <2>1. <<n, i>> \in DirPlace /\ NoEntries(data[n])
    BY <1>11, Blanks DEF DirPlace
  <2>2. Ref(<<n, i>>) = 0
    BY <2>1, NoRefInside
  <2>3. SlotAt(<<n, i>>).kind # "ent"
    BY <2>1 DEF SlotAt, NoEntries
  <2>4. <<n, i>> \notin torn
    BY <2>3, NotTorn DEF TreeInv
  <2> QED BY <1>11, <1>15, <2>1, <2>2, <2>4 DEF Vacant
<1>17. Vacant(op.slot)' /\ (s = "lfn" => Vacant(op.next)')
  <2>0. 1 \in SlotIdx /\ 2 \in SlotIdx
    BY Numbering
  <2>1. Vacant(<<n, 1>>)' /\ Vacant(<<n, 2>>)'
    BY <1>16, <2>0
  <2>2. CASE y
    <3>1. op'.slot = <<n, 1>> /\ op'.next = <<n, 2>>
      BY <1>8, <2>2
    <3> QED BY <2>1, <3>1 DEF Vacant, IsDir, Ref, SlotAt
  <2>3. CASE ~y
    <3>1. op.slot # NoPlace /\ op.slot \in DirPlace
      BY <1>1, <1>y, <2>3 DEF OpType
    <3>2. PICK p \in DirPlace : p = op.slot
      BY <3>1
    <3>3. Vacant(p)'
      BY <1>1, <1>15, <3>1, <3>2 DEF GrowSound
    <3>4. op'.slot = p /\ op'.next = <<n, 1>>
      BY <1>8, <2>3, <3>2
    <3> QED BY <2>1, <3>3, <3>4 DEF Vacant, IsDir, Ref, SlotAt
  <2> QED BY <2>2, <2>3
<1>18. NewSound(op)'
  BY <1>1, <1>8, <1>12 DEF GrowSound, NewSound, IsDir
<1>19. StageSound'
  <2>1. CASE s = "lfn"
    BY <1>7, <1>17, <1>18, <2>1, OneStage DEF LfnSound
  <2>2. op.cmd = "rename" => s = "lfn"
    BY <1>4, <1>6, AfterStage
  <2>3. op.cmd = "mkdir" => s = "alloc"
    <3>1. op.cmd = "mkdir" => x.need = 1
      BY <1>1, <1>4 DEF GrowSound
    <3>2. x.need > 0 => Fill(x) = "alloc"
      BY DEF Fill
    <3>3. x.cmd = "mkdir" => After("grow", x) = Fill(x)
      BY AfterStage
    <3> QED BY <1>4, <1>6, <3>1, <3>2, <3>3
  <2>4. s # "lfn" => op'.first = 0 /\ op'.prev = 0 /\ op'.new = 0 /\ (op'.cmd = "mkdir" => op'.need = 1)
    BY <1>1, <1>8, <2>2 DEF GrowSound
  <2>5. CASE s = "alloc"
    <3>1. AllocSound'
      BY <1>17, <1>18, <2>4, <2>5 DEF AllocSound
    <3> QED BY <1>7, <2>5, <3>1, OneStage
  <2>6. CASE s = "entry"
    <3>1. EntrySound'
      BY <1>8, <1>17, <1>18, <2>3, <2>6 DEF EntrySound
    <3> QED BY <1>7, <2>6, <3>1, OneStage
  <2> QED BY <2>1, <2>5, <2>6
<1>20. AllFound'
  <2>1. Hand = {op.new, op.first} /\ op.first \in Hand'
    BY <1>1, <1>7, <1>8 DEF Hand
  <2>2. \A d \in Cluster \ {Root} : d \in Hand => d \in Hand' \/ \E p \in Place : Ref(p)' = d
    BY <1>2, <1>13, <2>1, Places
  <2>3. \A d \in Cluster : fat'[d] # Free /\ fat[d] = Free => FALSE
    BY <1>11, <1>13, Numbering
  <2>4. \A p \in Place : Ref(p) \in Cluster => Ref(p)' = Ref(p)
    <3>1. Ref(<<a, 0>>) = 0
      BY <1>11, Numbering DEF Ref, HasNext
    <3> QED BY <1>13, <3>1, Numbering DEF Kept
  <2>5. leaky' = leaky
    BY <1>12
  <2> QED BY <2>2, <2>3, <2>4, <2>5, FoundStep DEF TreeInv
<1> QED BY <1>13, <1>14, <1>19, <1>20 DEF TreeInv

-----------------------------------------------------------------------------
(* fat_free_chain *)

(* The locals that stay while a chain is freed. *)
LEMMA FreeFields ==
  ASSUME op \in OpType, NEW v \in Cluster \cup {0}, NEW x, x = [op EXCEPT !.cl = v]
  PROVE  /\ x \in OpType /\ x.cl = v /\ x.at = op.at /\ x.cmd = op.cmd /\ x.slot = op.slot
         /\ x.new = op.new /\ x.first = op.first /\ x.prev = op.prev /\ x.need = op.need
         /\ x.dir = op.dir /\ x.over = op.over
BY DEF OpType

(* A vacant slot outside the cluster that is freed stays vacant. *)
LEMMA FreeVacant ==
  ASSUME NEW c \in Cluster, ~IsDir(c), Kept(<<c, 0>>),
         \A d \in Cluster : d # c => data'[d] = data[d], NEW p \in DirPlace, Vacant(p), torn' = torn
  PROVE  Vacant(p)'
<1>1. p[1] \in Cluster /\ p[1] # c /\ p \in Place /\ p # <<c, 0>>
  BY Places DEF Vacant, IsDir
<1> QED BY <1>1 DEF Vacant, IsDir, Kept

(* fat_free_chain() frees one cluster of the chain of a file. *)
LEMMA FreeStepTree ==
  ASSUME IInv, TreeInv, IInv', FreeStep PROVE TreeInv' /\ RefMove
<1>1. op \in OpType /\ TypeOK /\ FreeSound /\ op.at = "free" /\ op.first = 0 /\ op.new = 0
      /\ op.cmd \in {"write", "delete"} /\ InFlight(op.cl)
  BY DEF IInv, TypeOK, TreeInv, StageSound, FreeStep, At, Hands, StagesSound
<1>2. PICK c \in Cluster : c = op.cl
  BY <1>1 DEF InFlight
<1>3. /\ fat' = [fat EXCEPT ![c] = Free] /\ data' = [data EXCEPT ![c] = NoDir]
      /\ UNCHANGED <<cwd, torn, leaky>>
  BY <1>2 DEF FreeStep, SetFat
<1>4. ~IsDir(c) /\ InFlight(c) /\ ~Pointed(c) /\ NoEntries(data[c])
  BY <1>1, <1>2, NotEntered, Blanks DEF FreeSound, TreeInv, IsDir
<1>5. PICK n \in Cluster \cup {Free, EOC} : n = fat[c]
  BY <1>1 DEF TypeOK
<1>6. <<c, 0>> \in Place /\ Ref(<<c, 0>>) = IF n \in Cluster THEN n ELSE 0
  BY <1>5, Places DEF Ref, HasNext
<1>7. op.cmd = "write" => op.slot \in DirPlace
  BY <1>1 DEF IInv, LocalsSound
<1>a. Suspended' = Suspended => 
      /\ DirsSound' /\ Acyclic' /\ Kept(<<c, 0>>) /\ Ref(<<c, 0>>)' = 0
      /\ fat'[c] = Free /\ data'[c] = NoDir
      /\ \A d \in Cluster : d # c => fat'[d] = fat[d] /\ data'[d] = data[d]
  BY <1>1, <1>3, <1>4, FreeTree DEF TreeInv
<1>b. ASSUME Suspended' = Suspended, op'.new = 0, op'.first = 0, n \in Cluster => n \in Hand'
      PROVE  AllFound' /\ RefMove
  <2>0. Kept(<<c, 0>>) /\ Ref(<<c, 0>>)' = 0 /\ fat'[c] = Free /\ 0 \notin Cluster
        /\ \A d \in Cluster : d # c => fat'[d] = fat[d]
    BY <1>a, <1>b, Numbering
  <2>1. Hand = {op.new, op.cl}
    BY <1>1 DEF Hand
  <2>2. \A d \in Cluster \ {Root} : d \in Hand => fat'[d] = Free
    BY <1>1, <1>2, <2>0, <2>1
  <2>3. \A d \in Cluster : ~(fat[d] = Free /\ fat'[d] # Free)
    BY <2>0
  <2>4. \A p \in Place : Ref(p) \in Cluster => Ref(p)' = Ref(p) \/ Ref(p) \in Hand'
    BY <1>6, <1>b, <2>0 DEF Kept
  <2>5. leaky' = leaky
    BY <1>3
  <2>6. AllFound'
    BY <2>2, <2>3, <2>4, <2>5, FoundStep DEF TreeInv
  <2> QED BY <1>6, <2>0, <2>6, Moves
<1>c. ASSUME Suspended' = Suspended, op.cmd = "write", op'.slot = op.slot
      PROVE  Vacant(op.slot)'
  <2>1. PICK p \in DirPlace : p = op.slot
    BY <1>7, <1>c
  <2>2. Vacant(p)
    BY <1>1, <1>c, <2>1 DEF FreeSound
  <2>3. Vacant(p)'
    BY <1>3, <1>4, <1>a, <1>c, <2>2, FreeVacant
  <2>4. op'.slot = p
    BY <1>c, <2>1
  <2> QED BY <2>3, <2>4 DEF Vacant, IsDir, Ref, SlotAt
<1>d. op.cmd = "write" => ~op.dir
  BY <1>1 DEF FreeSound, NewSound
<1>8. CASE n \in Cluster
  <2>1. op' = [op EXCEPT !.cl = n]
    BY <1>2, <1>5, <1>8 DEF FreeStep, HasNext, Stay
  <2>2. /\ op'.cl = n /\ op'.at = "free" /\ op'.cmd = op.cmd /\ op'.slot = op.slot
        /\ op'.new = 0 /\ op'.first = 0 /\ op'.prev = op.prev /\ op'.dir = op.dir /\ op'.over = op.over
    <3>1. n \in Cluster \cup {0}
      BY <1>8
    <3> QED BY <1>1, <2>1, <3>1, FreeFields
  <2>3. Suspended' = Suspended
    BY <1>3, <2>2 DEF Suspended
  <2>4. ~IsDir(n)'
    <3>1. n # c
      BY <1>4, <1>5, <1>8, UnrefNoLink DEF InFlight
    <3>2. ~IsDir(n)
      BY <1>4, <1>5, <1>8 DEF TreeInv, DirsSound, HasNext
    <3> QED BY <1>8, <1>a, <2>3, <3>1, <3>2 DEF IsDir
  <2>5. FreeSound'
    BY <1>1, <1>c, <1>d, <2>2, <2>3, <2>4 DEF FreeSound, NewSound, IsDir
  <2>6. StageSound'
    BY <2>2, <2>5, OneStage
  <2>7. n \in Hand'
    BY <2>2, HandFieldsNext
  <2> QED BY <1>a, <1>b, <2>2, <2>3, <2>6, <2>7 DEF TreeInv
<1>9. CASE n \notin Cluster
  <2>z. PICK z \in Cluster \cup {0} : z = 0
    OBVIOUS
  <2>1. PICK x : x = [op EXCEPT !.cl = z]
    OBVIOUS
  <2>2. /\ x \in OpType /\ x.cmd = op.cmd /\ x.slot = op.slot /\ x.need = op.need
        /\ x.new = 0 /\ x.first = 0 /\ x.prev = op.prev /\ x.dir = op.dir /\ x.over = op.over
    BY <1>1, <2>1, FreeFields
  <2>3. Go("free", x)
    BY <1>2, <1>5, <1>9, <2>z, <2>1 DEF FreeStep, HasNext
  <2>4. CASE op.cmd = "delete"
    <3>1. op' = Idle
      <4>1. "idle" \in Stage /\ After("free", x) = "idle"
        BY <2>2, <2>4, AfterStage DEF Stage
      <4> QED BY <2>2, <2>3, <4>1, GoEffect
    <3>2. Suspended' = Suspended
      <4>1. ~op.over
        BY <2>4 DEF IInv, LocalsSound
      <4> QED BY <1>3, <3>1, <4>1, IdleFields DEF Suspended
    <3>3. StageSound' /\ op'.new = 0 /\ op'.first = 0
      BY <3>1, IdleStage, IdleFields
    <3> QED BY <1>9, <1>a, <1>b, <3>2, <3>3 DEF TreeInv
  <2>5. CASE op.cmd = "write"
    <3>1. PICK s \in {"alloc", "entry"} : s = After("free", x)
      BY <2>2, <2>5, AfterStage
    <3>2. op' \in OpType /\ op'.at = s /\ SameLocals(x, op')
      <4>1. s \in Stage /\ s # "idle"
        BY DEF Stage
      <4> QED BY <2>2, <2>3, <3>1, <4>1, GoEffect
    <3>3. /\ op'.cmd = "write" /\ op'.slot = op.slot /\ op'.new = 0 /\ op'.first = 0
          /\ op'.prev = 0 /\ op'.dir = op.dir /\ op'.over = op.over
      BY <1>1, <2>2, <2>5, <3>2 DEF SameLocals, FreeSound
    <3>4. Suspended' = Suspended
      BY <1>3, <3>3 DEF Suspended
    <3>5. Vacant(op.slot)' /\ NewSound(op)'
      BY <1>c, <1>d, <2>5, <3>3, <3>4 DEF NewSound
    <3>6. CASE s = "alloc"
      <4>1. AllocSound'
        BY <3>3, <3>5 DEF AllocSound
      <4> QED BY <1>9, <1>a, <1>b, <3>2, <3>3, <3>4, <3>6, <4>1, OneStage DEF TreeInv
    <3>7. CASE s = "entry"
      <4>1. EntrySound'
        BY <3>3, <3>5 DEF EntrySound
      <4> QED BY <1>9, <1>a, <1>b, <3>2, <3>3, <3>4, <3>7, <4>1, OneStage DEF TreeInv
    <3> QED BY <3>6, <3>7
  <2> QED BY <1>1, <2>4, <2>5
<1> QED BY <1>8, <1>9

-----------------------------------------------------------------------------
(* fat_alloc_chain *)

(* A cluster is taken: slots and chains elsewhere stay as they are. *)
LEMMA AllocTaken ==
  ASSUME IInv, TreeInv, op.at = "alloc", NEW c \in Cluster, fat[c] = Free, Suspended' = Suspended,
         fat' = [fat EXCEPT ![c] = EOC], data' = [data EXCEPT ![c] = Zeroed(op)], cwd' = cwd
  PROVE  /\ DirsSound' /\ Acyclic' /\ Quiet
         /\ fat'[c] = EOC /\ ~Pointed(c)' /\ c # op.slot[1]
         /\ data'[c] = IF op.dir THEN Blank ELSE NoDir
         /\ \A d \in Cluster : d # c => fat'[d] = fat[d] /\ data'[d] = data[d]
         /\ op.slot \in DirPlace /\ data'[op.slot[1]] # NoDir
         /\ \A p : p = op.slot => Ref(p)' = 0
<1>1. AllocSound /\ op.slot \in DirPlace /\ op \in OpType
  BY DEF TreeInv, StageSound, IInv, LocalsSound, TypeOK
<1>2. op.dir \in BOOLEAN /\ (op.dir => ~op.over)
  BY <1>1 DEF AllocSound, NewSound, OpType, IInv, LocalsSound
<1>3. PICK B \in {Blank, NoDir} : B = Zeroed(op) /\ B = IF op.dir THEN Blank ELSE NoDir
  BY <1>2 DEF Zeroed
<1>4. /\ DirsSound' /\ Acyclic' /\ Quiet
      /\ fat'[c] = EOC /\ data'[c] = B /\ ~IsDir(c) /\ ~Pointed(c)'
      /\ \A d \in Cluster : d # c => fat'[d] = fat[d] /\ data'[d] = data[d]
  BY <1>3, TakeTree DEF TreeInv
<1>5. op.slot[1] \in Cluster /\ op.slot \in Place /\ op.slot[1] # c
  BY <1>1, <1>4, Places DEF AllocSound, Vacant
<1>6. IsDir(op.slot[1]) /\ Ref(op.slot) = 0
  BY <1>1 DEF AllocSound, Vacant
<1>7. data'[op.slot[1]] = data[op.slot[1]]
  BY <1>4, <1>5
<1>8. PICK q \in Place : q = op.slot
  BY <1>5
<1>9. Ref(q)' = 0
  BY <1>4, <1>6, <1>8 DEF Quiet
<1> QED BY <1>1, <1>3, <1>4, <1>5, <1>6, <1>7, <1>8, <1>9 DEF IsDir

(* The first cluster of the chain is taken. *)
LEMMA AllocFirstTree ==
  ASSUME IInv, TreeInv, op.at = "alloc", op.new = 0, op.prev = 0, NEW c \in Cluster, fat[c] = Free,
         fat' = [fat EXCEPT ![c] = EOC], data' = [data EXCEPT ![c] = Zeroed(op)],
         Go("alloc", [op EXCEPT !.first = c, !.prev = c, !.need = @ - 1]),
         UNCHANGED <<cwd, torn, leaky>>
  PROVE  TreeInv' /\ RefMove
<1>1. AllocSound /\ op \in OpType /\ op.first = 0 /\ op.cmd \in {"write", "mkdir"} /\ op.need > 0
      /\ op.need \in 0 .. MaxLen + 1 /\ c # 0
  BY Numbering DEF TreeInv, StageSound, IInv, LocalsSound, TypeOK, StagesSound, AllocSound, OpType
<1>2. PICK k \in 0 .. MaxLen + 1 : k = op.need - 1
  BY <1>1, DiskAssumption
<1>3. PICK x \in OpType : x = [op EXCEPT !.first = c, !.prev = c, !.need = k]
  BY <1>1 DEF OpType
<1>4. /\ x.cmd = op.cmd /\ x.slot = op.slot /\ x.new = 0 /\ x.first = c /\ x.prev = c
      /\ x.dir = op.dir /\ x.over = op.over /\ x.need = k
  BY <1>1, <1>3 DEF OpType
<1>5. Go("alloc", x)
  BY <1>2, <1>3
<1>6. PICK s \in {"alloc", "entry"} : s = After("alloc", x) /\ s = Fill(x)
  BY <1>1, <1>4, AfterStage
<1>7. op' \in OpType /\ op'.at = s /\ SameLocals(x, op')
  <2>1. s \in Stage /\ s # "idle"
    BY DEF Stage
  <2> QED BY <1>5, <1>6, <2>1, GoEffect
<1>8. /\ op'.cmd = op.cmd /\ op'.slot = op.slot /\ op'.new = 0 /\ op'.first = c /\ op'.prev = c
      /\ op'.dir = op.dir /\ op'.over = op.over /\ op'.need = k
  BY <1>4, <1>7 DEF SameLocals
<1>9. Suspended' = Suspended
  BY <1>8 DEF Suspended
<1>10. /\ DirsSound' /\ Acyclic' /\ Quiet
       /\ fat'[c] = EOC /\ ~Pointed(c)' /\ c # op.slot[1]
       /\ data'[c] = IF op.dir THEN Blank ELSE NoDir
       /\ \A d \in Cluster : d # c => fat'[d] = fat[d] /\ data'[d] = data[d]
       /\ op.slot \in DirPlace /\ data'[op.slot[1]] # NoDir
       /\ \A p : p = op.slot => Ref(p)' = 0
  BY <1>9, AllocTaken
<1>11. Vacant(op.slot)'
  <2>1. PICK q : q = op.slot
    OBVIOUS
  <2>2. Ref(q)' = 0 /\ IsDir(q[1])' /\ q = op'.slot /\ q \notin torn'
    BY <1>1, <1>8, <1>10, <2>1 DEF IsDir, AllocSound, Vacant
  <2> QED BY <2>2 DEF Vacant, IsDir, Ref, SlotAt
<1>12. NewSound(op)'
  <2>1. (IsDir(c)' <=> op.dir) /\ op.dir \in BOOLEAN
    BY <1>1, <1>10, Blanks DEF IsDir, OpType
  <2> QED BY <1>1, <1>8, <2>1 DEF AllocSound, NewSound, IsDir
<1>13. StageSound'
  <2>1. op.cmd = "mkdir" => s = "entry"
    BY <1>1, <1>2, <1>4, <1>6 DEF AllocSound, Fill
  <2>2. CASE s = "alloc"
    <3>1. op.cmd = "write" /\ ~op.dir
      BY <1>1, <2>1, <2>2 DEF AllocSound, NewSound
    <3>2. ~IsDir(c)'
      BY <1>10, <3>1 DEF IsDir
    <3>3. AllocSound'
      BY <1>1, <1>8, <1>10, <1>11, <1>12, <3>1, <3>2 DEF AllocSound, IsDir
    <3> QED BY <1>7, <2>2, <3>3, OneStage
  <2>3. CASE s = "entry"
    <3>1. op.cmd = "mkdir" => op.dir
      BY <1>1 DEF AllocSound, NewSound
    <3>2. ~Pointed(op.first)'
      BY <1>8, <1>10 DEF Pointed
    <3>3. EntrySound'
      BY <1>1, <1>8, <1>10, <1>11, <1>12, <3>1, <3>2 DEF EntrySound
    <3> QED BY <1>7, <2>3, <3>3, OneStage
  <2> QED BY <2>2, <2>3
<1>14. AllFound'
  <2>1. Hand = {0} /\ c \in Hand'
    BY <1>1, <1>7, <1>8 DEF Hand
  <2>2. \A d \in Cluster \ {Root} : d \notin Hand
    BY <2>1, Numbering
  <2>3. \A d \in Cluster \ {Root} : fat[d] = Free /\ fat'[d] # Free => d \in Hand'
    BY <1>10, <2>1
  <2> QED BY <1>10, <2>2, <2>3, FoundStep DEF TreeInv, Quiet
<1> QED BY <1>10, <1>13, <1>14, Moves DEF TreeInv

(* A further one is taken. *)
LEMMA AllocMoreTree ==
  ASSUME IInv, TreeInv, op.at = "alloc", op.new = 0, op.prev # 0, NEW c \in Cluster, fat[c] = Free,
         fat' = [fat EXCEPT ![c] = EOC], data' = [data EXCEPT ![c] = Zeroed(op)],
         op' = [op EXCEPT !.new = c], UNCHANGED <<cwd, torn, leaky>>
  PROVE  TreeInv' /\ RefMove
<1>1. AllocSound /\ op \in OpType /\ op.cmd = "write" /\ ~op.dir /\ c # 0
  BY Numbering DEF TreeInv, StageSound, IInv, LocalsSound, TypeOK, StagesSound, AllocSound, NewSound
<1>2. /\ op'.cmd = op.cmd /\ op'.slot = op.slot /\ op'.new = c /\ op'.first = op.first
      /\ op'.prev = op.prev /\ op'.dir = op.dir /\ op'.over = op.over /\ op'.at = "alloc"
  BY <1>1 DEF OpType
<1>9. Suspended' = Suspended
  BY <1>2 DEF Suspended
<1>10. /\ DirsSound' /\ Acyclic' /\ Quiet
       /\ fat'[c] = EOC
       /\ data'[c] = IF op.dir THEN Blank ELSE NoDir
       /\ \A d \in Cluster : d # c => fat'[d] = fat[d] /\ data'[d] = data[d]
       /\ op.slot \in DirPlace /\ data'[op.slot[1]] # NoDir
       /\ \A p : p = op.slot => Ref(p)' = 0
  BY <1>9, AllocTaken
<1>11. Vacant(op.slot)'
  <2>1. PICK q : q = op.slot
    OBVIOUS
  <2>2. Ref(q)' = 0 /\ IsDir(q[1])' /\ q = op'.slot /\ q \notin torn'
    BY <1>1, <1>2, <1>10, <2>1 DEF IsDir, AllocSound, Vacant
  <2> QED BY <2>2 DEF Vacant, IsDir, Ref, SlotAt
<1>12. NewSound(op)'
  <2>1. op.first # 0 => op.first \in Cluster /\ op.first # c
    BY DEF IInv, Hands, InFlight
  <2>2. op.first # 0 => data'[op.first] = data[op.first]
    BY <1>10, <2>1
  <2> QED BY <1>1, <1>2, <2>2 DEF AllocSound, NewSound, IsDir
<1>13. AllocSound'
  <2>1. op.prev \in Cluster /\ ~IsDir(op.prev) /\ fat[op.prev] = EOC
    BY <1>1 DEF AllocSound, OpType
  <2>2. op.prev # c
    BY <2>1, Numbering
  <2>3. ~IsDir(op.prev)' /\ fat'[op.prev] = EOC /\ ~IsDir(c)'
    BY <1>1, <1>2, <1>10, <2>1, <2>2 DEF IsDir
  <2> QED BY <1>1, <1>2, <1>10, <1>11, <1>12, <2>2, <2>3 DEF AllocSound, IsDir
<1>14. AllFound'
  <2>1. Hand = {0, op.first} /\ Hand' = {c, op.first}
    BY <1>1, <1>2 DEF Hand
  <2>2. \A d \in Cluster \ {Root} : d \in Hand => d \in Hand'
    BY <2>1, Numbering
  <2>3. \A d \in Cluster \ {Root} : fat[d] = Free /\ fat'[d] # Free => d \in Hand'
    BY <1>10, <2>1
  <2> QED BY <1>10, <2>2, <2>3, FoundStep DEF TreeInv, Quiet
<1> QED BY <1>2, <1>10, <1>13, <1>14, Moves, OneStage DEF TreeInv

(* No cluster is left: what was taken is freed. *)
LEMMA AllocFailsTree ==
  ASSUME IInv, TreeInv, IInv', op.at = "alloc", op.new = 0, AllocFails,
         UNCHANGED <<fat, data, cwd, leaky>>
  PROVE  TreeInv' /\ RefMove
<1>1. AllocSound /\ op \in OpType /\ op.cmd \in {"write", "mkdir"}
  BY DEF TreeInv, StageSound, IInv, TypeOK, StagesSound
<1>2. Hand = {0, op.first}
  BY DEF Hand
<1>3. CASE op.first = 0
  <2>1. GiveUp /\ \A c \in Hand : c \notin Cluster
    BY <1>2, <1>3, Numbering DEF AllocFails
  <2> QED BY <2>1, TreeGaveUp
<1>4. CASE op.first # 0
  <2>1. /\ op' = [Idle EXCEPT !.cmd = "delete", !.at = "free", !.cl = op.first]
        /\ torn' = IF op.over THEN torn \cup {op.slot} ELSE torn
    BY <1>4 DEF AllocFails, Stay
  <2>2. /\ op'.at = "free" /\ op'.cmd = "delete" /\ op'.cl = op.first /\ op'.new = 0 /\ op'.over = FALSE
    BY <2>1 DEF Idle
  <2>3. Suspended' = Suspended
    BY <2>1, <2>2 DEF Suspended
  <2>4. Quiet
    BY <2>3, RefSame DEF SlotAt, Quiet
  <2>5. DirsSound' /\ Acyclic'
    BY <2>3, <2>4, DiskKept DEF TreeInv, Quiet, DirsSound, IInv, TypeOK
  <2>6. ~IsDir(op.first)
    BY <1>1, <1>4 DEF AllocSound, NewSound
  <2>7. FreeSound'
    BY <2>2, <2>6 DEF FreeSound, IsDir
  <2>8. op.first \in Hand'
    BY <2>2, HandFieldsNext
  <2>9. \A c \in Cluster : c \in Hand => c \in Hand'
    BY <1>2, <2>8, Numbering
  <2>10. AllFound'
    BY <2>4, <2>9, FoundStep DEF TreeInv, Quiet
  <2> QED BY <2>2, <2>4, <2>5, <2>7, <2>10, Moves, OneStage DEF TreeInv
<1> QED BY <1>3, <1>4

(* fat_alloc_chain() takes a cluster, or finds the disk full. *)
LEMMA AllocTakeTree ==
  ASSUME IInv, TreeInv, IInv', AllocTake PROVE TreeInv' /\ RefMove
<1>0. op.at = "alloc" /\ op.new = 0 /\ UNCHANGED <<cwd, leaky>>
  BY DEF AllocTake, At
<1>1. CASE FreeClusters = {} /\ AllocFails /\ UNCHANGED <<fat, data>>
  BY <1>0, <1>1, AllocFailsTree
<1>2. CASE \E c \in Cluster :
             /\ IsFirst(c, FreeClusters) /\ SetFat(c, EOC)
             /\ data' = [data EXCEPT ![c] = Zeroed(op)]
             /\ IF op.prev # 0 THEN Stay([op EXCEPT !.new = c])
                ELSE Go("alloc", [op EXCEPT !.first = c, !.prev = c, !.need = @ - 1])
             /\ UNCHANGED torn
  <2>1. PICK c \in Cluster :
             /\ IsFirst(c, FreeClusters) /\ SetFat(c, EOC)
             /\ data' = [data EXCEPT ![c] = Zeroed(op)]
             /\ IF op.prev # 0 THEN Stay([op EXCEPT !.new = c])
                ELSE Go("alloc", [op EXCEPT !.first = c, !.prev = c, !.need = @ - 1])
             /\ UNCHANGED torn
    BY <1>2
  <2>2. fat[c] = Free
    BY <2>1 DEF IsFirst, FreeClusters
  <2>3. CASE op.prev # 0
    BY <1>0, <2>1, <2>2, <2>3, AllocMoreTree DEF SetFat, Stay
  <2>4. CASE op.prev = 0
    BY <1>0, <2>1, <2>2, <2>4, AllocFirstTree DEF SetFat
  <2> QED BY <2>3, <2>4
<1> QED BY <1>1, <1>2 DEF AllocTake

(* It is linked to the one before. *)
LEMMA AllocLinkTree ==
  ASSUME IInv, TreeInv, IInv', AllocLink PROVE TreeInv' /\ RefMove
<1>1. AllocSound /\ op \in OpType /\ op.at = "alloc" /\ op.new # 0 /\ op.prev # 0 /\ op.need > 0
      /\ op.cmd = "write" /\ op.need \in 0 .. MaxLen + 1 /\ op.slot \in DirPlace
  BY DEF TreeInv, StageSound, IInv, LocalsSound, TypeOK, StagesSound, AllocSound, OpType, AllocLink, At
<1>2. PICK k \in 0 .. MaxLen + 1 : k = op.need - 1
  BY <1>1, DiskAssumption
<1>z. PICK z \in Cluster \cup {0} : z = 0
  OBVIOUS
<1>n. PICK n \in Cluster : n = op.new
  BY <1>1 DEF OpType
<1>a. PICK a \in Cluster : a = op.prev
  BY <1>1 DEF OpType
<1>3. PICK x \in OpType : x = [op EXCEPT !.new = z, !.prev = n, !.need = k]
  BY <1>1 DEF OpType
<1>4. /\ x.cmd = op.cmd /\ x.slot = op.slot /\ x.new = 0 /\ x.first = op.first /\ x.prev = n
      /\ x.dir = op.dir /\ x.over = op.over
  BY <1>1, <1>3, <1>z DEF OpType
<1>5. Go("alloc", x)
  BY <1>2, <1>3, <1>z, <1>n DEF AllocLink
<1>6. PICK s \in {"alloc", "entry"} : s = After("alloc", x)
  BY <1>1, <1>4, AfterStage
<1>7. op' \in OpType /\ op'.at = s /\ SameLocals(x, op')
  <2>1. s \in Stage /\ s # "idle"
    BY DEF Stage
  <2> QED BY <1>5, <1>6, <2>1, GoEffect
<1>8. /\ op'.cmd = "write" /\ op'.slot = op.slot /\ op'.new = 0 /\ op'.first = op.first
      /\ op'.prev = n /\ op'.dir = op.dir /\ op'.over = op.over
  BY <1>1, <1>4, <1>7 DEF SameLocals
<1>9. Suspended' = Suspended
  BY <1>8 DEF Suspended, AllocLink
<1>10. /\ fat' = [fat EXCEPT ![a] = n] /\ UNCHANGED <<data, cwd, torn, leaky>>
       /\ ~IsDir(a) /\ ~IsDir(n) /\ fat[a] = EOC /\ fat[n] = EOC /\ a # n /\ Unref(n)
  BY <1>1, <1>a, <1>n DEF AllocLink, SetFat, AllocSound, IInv, Hands, InFlight
<1>11. /\ DirsSound' /\ Acyclic' /\ Kept(<<a, 0>>) /\ Ref(<<a, 0>>)' = n
       /\ fat'[a] = n /\ \A d \in Cluster : d # a => fat'[d] = fat[d]
  BY <1>9, <1>10, LinkTree DEF TreeInv
<1>12. <<a, 0>> \in Place /\ Ref(<<a, 0>>) = 0
  BY <1>10, Numbering, Places DEF Ref, HasNext
<1>13. RefMove
  BY <1>10, <1>11, <1>12, Moves
<1>14. Vacant(op.slot)'
  <2>1. PICK p \in DirPlace : p = op.slot
    BY <1>1
  <2>2. p # <<a, 0>> /\ p \in Place /\ Vacant(p)
    BY <1>1, <2>1, Places DEF AllocSound
  <2>3. Ref(p)' = 0 /\ IsDir(p[1])' /\ op'.slot = p /\ p \notin torn'
    BY <1>8, <1>10, <1>11, <2>1, <2>2 DEF Kept, Vacant, IsDir
  <2> QED BY <2>3 DEF Vacant, IsDir, Ref, SlotAt
<1>15. NewSound(op)'
  BY <1>1, <1>8, <1>10 DEF AllocSound, NewSound, IsDir
<1>16. StageSound'
  <2>1. fat'[n] = EOC /\ n # 0 /\ ~IsDir(n)'
    BY <1>10, <1>11, Numbering DEF IsDir
  <2>2. CASE s = "alloc"
    <3>1. AllocSound'
      BY <1>8, <1>14, <1>15, <2>1 DEF AllocSound, IsDir
    <3> QED BY <1>7, <2>2, <3>1, OneStage
  <2>3. CASE s = "entry"
    <3>1. EntrySound'
      BY <1>8, <1>14, <1>15 DEF EntrySound
    <3> QED BY <1>7, <2>3, <3>1, OneStage
  <2> QED BY <2>2, <2>3
<1>17. AllFound'
  <2>1. Hand = {op.new, op.first} /\ op.first \in Hand'
    BY <1>1, <1>7, <1>8 DEF Hand
  <2>2. \A d \in Cluster \ {Root} : d \in Hand => d \in Hand' \/ \E p \in Place : Ref(p)' = d
    BY <1>n, <1>11, <1>12, <2>1
  <2>3. \A d \in Cluster : fat'[d] # Free /\ fat[d] = Free => FALSE
    BY <1>10, <1>11, Numbering
  <2>4. \A p \in Place : Ref(p) \in Cluster => Ref(p)' = Ref(p)
    BY <1>11, <1>12, Numbering DEF Kept
  <2>5. leaky' = leaky
    BY <1>10
  <2> QED BY <2>2, <2>3, <2>4, <2>5, FoundStep DEF TreeInv
<1> QED BY <1>11, <1>13, <1>16, <1>17 DEF TreeInv

-----------------------------------------------------------------------------
(* Writes to slots. *)

(* A slot is written, and others may lose what was no entry. *)
LEMMA SlotsWritten ==
  ASSUME IInv, TreeInv, IInv', fat' = fat, cwd' = cwd,
         NEW q \in DirPlace, IsDir(q[1]), SlotAt(q)'.kind # "data",
         \A d \in Cluster : d # q[1] => data'[d] = data[d],
         \A p \in DirPlace : p # q => SlotAt(p)' = SlotAt(p) \/
            /\ SlotAt(p).kind # "ent"
            /\ SlotAt(p)'.kind \notin {"ent", "dot"} /\ SlotAt(p)'.dir = FALSE,
         \A p \in DirPlace : p # q => (p \in Suspended' <=> p \in Suspended),
         q \notin Suspended',
         SlotAt(q)'.dir => SlotAt(q)'.clus \in Cluster /\ IsDir(SlotAt(q)'.clus),
         SlotAt(q)'.kind = "dot" => SlotAt(q)'.dir,
         Ref(q)' # 0 /\ ~SlotAt(q)'.dir => ~IsDir(Ref(q)')
  PROVE  DirsSound' /\ Acyclic' /\ Kept(q) /\ \A c \in Cluster : IsDir(c)' <=> IsDir(c)
<1>1. /\ DirsSound /\ Acyclic /\ TypeOK' /\ cwd \in Cluster /\ q[1] \in Cluster /\ q[2] \in SlotIdx
      /\ q \in Place
  BY Places DEF TreeInv, IInv, TypeOK
<1>2. IsDir(q[1])'
  <2>1. NoDir[q[2]].kind = "data"
    BY <1>1 DEF NoDir, Plain
  <2> QED BY <2>1 DEF IsDir, SlotAt
<1>3. \A c \in Cluster : IsDir(c)' <=> IsDir(c)
  BY <1>2 DEF IsDir
<1>4. ASSUME NEW p \in Place, p # q PROVE Ref(p)' = Ref(p)
  <2>1. CASE p[2] = 0
    BY <2>1 DEF Ref
  <2>2. CASE p[2] # 0
    <3>1. p \in DirPlace /\ (p \in Suspended' <=> p \in Suspended)
      BY <1>4, <2>2, Places
    <3>2. CASE SlotAt(p)' = SlotAt(p)
      BY <2>2, <3>1, <3>2 DEF Ref
    <3>3. CASE SlotAt(p).kind # "ent" /\ SlotAt(p)'.kind # "ent"
      BY <2>2, <3>3 DEF Ref
    <3> QED BY <1>4, <3>1, <3>2, <3>3
  <2> QED BY <2>1, <2>2
<1>5. IsDir(cwd)'
  BY <1>1, <1>3 DEF DirsSound, IsDir
<1>6. ASSUME NEW p \in DirPlace, Ref(p)' # 0, ~SlotAt(p)'.dir PROVE ~IsDir(Ref(p)')
  <2>1. CASE p = q
    BY <1>6, <2>1
  <2>2. CASE p # q
    <3>1. Ref(p)' = Ref(p) /\ p[2] # 0
      BY <1>4, <2>2, Places
    <3>2. SlotAt(p)'.kind = "ent"
      BY <1>6, <3>1 DEF Ref
    <3>3. SlotAt(p)' = SlotAt(p)
      BY <2>2, <3>2
    <3> QED BY <1>1, <1>6, <3>1, <3>3 DEF DirsSound
  <2> QED BY <2>1, <2>2
<1>7. ASSUME NEW p \in DirPlace
      PROVE  SlotAt(p)' = SlotAt(p) \/
                /\ SlotAt(p)'.dir => SlotAt(p)'.clus \in Cluster /\ IsDir(SlotAt(p)'.clus)
                /\ SlotAt(p)'.kind = "dot" => SlotAt(p)'.dir
  <2>1. CASE p = q
    BY <2>1
  <2>2. CASE p # q
    BY <2>2
  <2> QED BY <2>1, <2>2
<1>8. ASSUME NEW p \in Suspended' PROVE SlotAt(p)'.kind = "ent"
  <2>1. p # q /\ p \in DirPlace
    BY <1>8, SuspendedPlacesNext
  <2>2. SlotAt(p).kind = "ent"
    BY <1>1, <1>8, <2>1 DEF DirsSound
  <2> QED BY <2>1, <2>2
<1>9. DirsSound' /\ Acyclic'
  BY <1>1, <1>3, <1>5, <1>6, <1>7, <1>8, SlotTree
<1> QED BY <1>3, <1>4, <1>9 DEF Kept

(* The effect of SetSlot on whole clusters. *)
LEMMA SetSlotRest ==
  ASSUME TypeOK, NEW q \in DirPlace, NEW v, SetSlot(q, v)
  PROVE  \A d \in Cluster : d # q[1] => data'[d] = data[d]
BY Places DEF TypeOK, SetSlot

(* The entry, and the name in front of it, are marked. *)
LEMMA MarkSlots ==
  ASSUME IInv, Mark, NEW q \in DirPlace, q = op.slot
  PROVE  /\ SlotAt(q)' = Plain("del")
         /\ \A d \in Cluster : d # q[1] => data'[d] = data[d]
         /\ \A p \in DirPlace : p # q => SlotAt(p)' = SlotAt(p) \/
               (SlotAt(p).kind = "lfn" /\ SlotAt(p)' = Plain("del"))
<1> DEFINE name == {j \in SlotIdx : j < q[2] /\ \A k \in j .. (q[2] - 1) : data[q[1]][k].kind = "lfn"}
           B == [j \in SlotIdx |-> IF j = q[2] \/ j \in name THEN Plain("del") ELSE data[q[1]][j]]
<1>1. data' = [data EXCEPT ![q[1]] = B]
  BY DEF Mark
<1>2. data \in [Cluster -> [SlotIdx -> SlotVal]] /\ q[1] \in Cluster /\ q[2] \in SlotIdx /\ q = <<q[1], q[2]>>
  BY Places DEF IInv, TypeOK
<1>3. \A j \in name : data[q[1]][j].kind = "lfn"
  BY <1>2 DEF SlotIdx
<1> HIDE DEF name, Plain
<1>4. B[q[2]] = Plain("del")
      /\ \A j \in SlotIdx : j # q[2] => \/ B[j] = data[q[1]][j]
                                        \/ data[q[1]][j].kind = "lfn" /\ B[j] = Plain("del")
  BY <1>2, <1>3
<1> HIDE DEF B
<1>5. data'[q[1]] = B /\ \A d \in Cluster : d # q[1] => data'[d] = data[d]
  BY <1>1, <1>2
<1>6. SlotAt(q)' = Plain("del")
  BY <1>4, <1>5 DEF SlotAt
<1>7. ASSUME NEW p \in DirPlace, p # q
      PROVE  SlotAt(p)' = SlotAt(p) \/ (SlotAt(p).kind = "lfn" /\ SlotAt(p)' = Plain("del"))
  <2>1. p[1] \in Cluster /\ p[2] \in SlotIdx /\ p = <<p[1], p[2]>>
    BY Places
  <2>2. CASE p[1] = q[1]
    BY <1>2, <1>4, <1>5, <1>7, <2>1, <2>2 DEF SlotAt
  <2>3. CASE p[1] # q[1]
    BY <1>5, <2>1, <2>3 DEF SlotAt
  <2> QED BY <2>2, <2>3
<1> QED BY <1>5, <1>6, <1>7

(* rm and mv mark the old entry and the long name in front of it. *)
LEMMA MarkTree ==
  ASSUME IInv, TreeInv, IInv', Mark PROVE TreeInv' /\ RefMove
<1>1. /\ op.at = "mark" /\ Go("mark", op) /\ UNCHANGED <<fat, cwd, torn, leaky>>
      /\ op \in OpType /\ op.slot \in DirPlace /\ op.new = 0 /\ op.over = FALSE
      /\ op.cmd \in {"delete", "rename"} /\ MarkSound
  BY DEF Mark, At, IInv, TypeOK, Hands, LocalsSound, StagesSound, OpType, TreeInv, StageSound
<1>2. PICK q \in DirPlace : q = op.slot
  BY <1>1
<1>3. /\ SlotAt(q)' = Plain("del")
      /\ \A d \in Cluster : d # q[1] => data'[d] = data[d]
      /\ \A p \in DirPlace : p # q => SlotAt(p)' = SlotAt(p) \/
            (SlotAt(p).kind = "lfn" /\ SlotAt(p)' = Plain("del"))
  BY <1>2, MarkSlots
<1>4. Plain("del").kind = "del" /\ Plain("del").dir = FALSE
  BY DEF Plain
<1> HIDE DEF Plain
<1>5. /\ op.cmd = "rename" => op' \in OpType /\ op'.at = "run" /\ SameLocals(op, op')
      /\ op.cmd = "delete" /\ op.cl # 0 => op' \in OpType /\ op'.at = "free" /\ SameLocals(op, op')
      /\ op.cmd = "delete" /\ op.cl = 0 => op' = Idle
  BY <1>1, AfterStage, GoEffect DEF Stage
<1>6. op'.over = FALSE /\ op'.new = 0
  BY <1>1, <1>5, IdleFields DEF SameLocals
<1>7. Suspended' = torn /\ Suspended = torn /\ q \notin torn
  BY <1>1, <1>2, <1>6 DEF Suspended, MarkSound
<1>8. Ref(q)' = 0
  BY <1>3, <1>4, NoEntNoRef
<1>9. DirsSound' /\ Acyclic' /\ Kept(q) /\ \A c \in Cluster : IsDir(c)' <=> IsDir(c)
  <2>1. IsDir(q[1]) /\ fat' = fat /\ cwd' = cwd
    BY <1>1, <1>2 DEF MarkSound
  <2>2. SlotAt(q)'.kind = "del" /\ SlotAt(q)'.dir = FALSE
    BY <1>3, <1>4
  <2>3. \A p \in DirPlace : p # q => SlotAt(p)' = SlotAt(p) \/
            /\ SlotAt(p).kind # "ent"
            /\ SlotAt(p)'.kind \notin {"ent", "dot"} /\ SlotAt(p)'.dir = FALSE
    BY <1>3, <1>4
  <2>4. q \notin Suspended' /\ \A p \in DirPlace : p # q => (p \in Suspended' <=> p \in Suspended)
    BY <1>7
  <2> QED BY <1>3, <1>8, <2>1, <2>2, <2>3, <2>4, SlotsWritten
<1>10. RefMove
  BY <1>8, <1>9, Moves, Places
<1>11. Ref(q) # 0 => Ref(q) \in Hand'
  <2>1. op.cmd = "delete" => Ref(q) = op.cl
    BY <1>1, <1>2 DEF MarkSound
  <2>2. op.cmd = "rename" => Ref(q) = op.first
    BY <1>1, <1>2 DEF MarkSound
  <2>3. op.cmd = "rename" => op.first \in Hand'
    BY <1>5, HandFieldsNext DEF SameLocals
  <2>4. op.cmd = "delete" /\ op.cl # 0 => op.cl \in Hand'
    BY <1>5, HandFieldsNext DEF SameLocals
  <2> QED BY <1>1, <2>1, <2>2, <2>3, <2>4
<1>12. AllFound'
  <2>1. Hand = {0} /\ 0 \notin Cluster
    BY <1>1, Numbering DEF Hand
  <2>2. \A p \in Place : Ref(p) \in Cluster => Ref(p)' = Ref(p) \/ Ref(p) \in Hand'
    BY <1>9, <1>11, <2>1 DEF Kept
  <2>3. leaky' = leaky /\ fat' = fat
    BY <1>1
  <2> QED BY <2>1, <2>2, <2>3, FoundStep DEF TreeInv
<1>13. StageSound'
  <2>1. CASE op.cmd = "rename"
    <3>1. op'.at = "run" /\ op'.first = op.first /\ op'.cmd = "rename" /\ op'.dir = op.dir /\ op'.last = op.last
      BY <1>5, <2>1 DEF SameLocals
    <3>2. op.first # 0 => op.first \in Cluster
      BY <1>1 DEF OpType
    <3>3. op.first # 0 => (IsDir(op.first)' <=> IsDir(op.first))
      BY <1>9, <3>1, <3>2 DEF IsDir
    <3>4. RunSound'
      BY <1>1, <2>1, <3>1, <3>3 DEF MarkSound, RunSound, NewSound, IsDir
    <3> QED BY <3>1, <3>4, OneStage
  <2>2. CASE op.cmd = "delete" /\ op.cl # 0
    <3>1. op'.at = "free" /\ op'.cl = op.cl /\ op'.cmd = "delete" /\ op.cl \in Cluster
      BY <1>1, <1>5, <2>2 DEF SameLocals, OpType
    <3>2. ~IsDir(op.cl)
      BY <1>1, <2>2 DEF MarkSound
    <3>3. FreeSound'
      BY <1>9, <3>1, <3>2 DEF FreeSound, IsDir
    <3> QED BY <3>1, <3>3, OneStage
  <2>3. CASE op.cmd = "delete" /\ op.cl = 0
    BY <1>5, <2>3, IdleStage
  <2> QED BY <1>1, <2>1, <2>2, <2>3
<1> QED BY <1>9, <1>10, <1>12, <1>13 DEF TreeInv

(* A free place of a directory is vacant. *)
LEMMA FreePlaceVacant ==
  ASSUME DirsSound, NEW p, IsFreePlace(p)
  PROVE  p \in DirPlace /\ Vacant(p)
<1>1. p \in DirPlace /\ IsDir(p[1]) /\ SlotAt(p).kind # "ent"
  BY DEF IsFreePlace
<1>2. p[2] # 0
  BY <1>1, Places
<1>3. Ref(p) = 0
  BY <1>1, <1>2 DEF Ref
<1> QED BY <1>1, <1>3, NotTorn DEF Vacant

(* The last cluster of a directory ends its chain. *)
LEMMA LastEnds ==
  ASSUME TypeOK, DirsSound, NEW c, IsLast(c)
  PROVE  c \in Cluster /\ IsDir(c) /\ fat[c] = EOC
BY DEF IsLast, HasNext, DirsSound, TypeOK

(* What dir_find_or_grow_run returns. *)
LEMMA RunPlaces ==
  ASSUME NEW b \in OpType, NEW d, NEW o \in Run(d, b), b.last = 0
  PROVE  /\ o.dir = b.dir /\ o.cmd = b.cmd /\ o.first = b.first
         /\ \/ o.last = 0 /\ IsFreePlace(o.slot) /\ IsFreePlace(o.next)
            \/ IsLast(o.last) /\ (o.slot = NoPlace \/ IsFreePlace(o.slot))
<1>1. \/ \E p, q : IsFreePlace(p) /\ IsFreePlace(q) /\ o = [b EXCEPT !.slot = p, !.next = q]
      \/ \E p, c : (p = NoPlace \/ IsFreePlace(p)) /\ IsLast(c) /\ o = [b EXCEPT !.slot = p, !.last = c]
  BY DEF Run
<1>2. ASSUME NEW p, NEW q, IsFreePlace(p), IsFreePlace(q), o = [b EXCEPT !.slot = p, !.next = q]
      PROVE  /\ o.dir = b.dir /\ o.cmd = b.cmd /\ o.first = b.first
             /\ o.last = 0 /\ IsFreePlace(o.slot) /\ IsFreePlace(o.next)
  <2>1. o.dir = b.dir /\ o.cmd = b.cmd /\ o.first = b.first /\ o.last = b.last /\ o.slot = p /\ o.next = q
    BY <1>2 DEF OpType
  <2> QED BY <1>2, <2>1
<1>3. ASSUME NEW p, NEW c, p = NoPlace \/ IsFreePlace(p), IsLast(c), o = [b EXCEPT !.slot = p, !.last = c]
      PROVE  /\ o.dir = b.dir /\ o.cmd = b.cmd /\ o.first = b.first
             /\ IsLast(o.last) /\ (o.slot = NoPlace \/ IsFreePlace(o.slot))
  <2>1. o.dir = b.dir /\ o.cmd = b.cmd /\ o.first = b.first /\ o.last = c /\ o.slot = p
    BY <1>3 DEF OpType
  <2> QED BY <1>3, <2>1
<1> QED BY <1>1, <1>2, <1>3

(* A vacant place stays vacant while the disk does. *)
LEMMA VacantKept ==
  ASSUME NEW p \in DirPlace, Vacant(p), data' = data, torn' = torn, Ref(p)' = Ref(p)
  PROVE  Vacant(p)'
BY DEF Vacant, IsDir

(* mv finds slots for the new entry, or a directory that must grow. *)
LEMMA FindRunTree ==
  ASSUME IInv, TreeInv, IInv', FindRun PROVE TreeInv' /\ RefMove
<1> DEFINE b == [op EXCEPT !.slot = NoPlace]
<1>1. /\ op.at = "run" /\ UNCHANGED <<fat, data, cwd, torn, leaky>> /\ op \in OpType
      /\ op.cmd = "rename" /\ op.over = FALSE /\ op.new = 0 /\ RunSound
  BY DEF FindRun, At, IInv, TypeOK, StagesSound, LocalsSound, Hands, OpType, TreeInv, StageSound
<1>2. PICK o \in Run(cwd, b) : Go("run", o)
  BY DEF FindRun
<1>3. b \in OpType /\ b.slot = NoPlace /\ b.cmd = op.cmd /\ b.first = op.first /\ b.new = op.new
      /\ b.cl = op.cl /\ b.over = op.over /\ b.last = op.last /\ b.dir = op.dir
  <2> HIDE DEF NoPlace
  <2>1. b \in OpType
    BY <1>1 DEF OpType
  <2> QED BY <1>1, <2>1 DEF OpType
<1> HIDE DEF b
<1>4. o \in OpType /\ o.cmd = "rename" /\ o.first = op.first /\ o.new = 0 /\ o.over = FALSE
  BY <1>1, <1>2, <1>3, RunFields
<1>5. /\ o.dir = op.dir
      /\ \/ o.last = 0 /\ IsFreePlace(o.slot) /\ IsFreePlace(o.next)
         \/ IsLast(o.last) /\ (o.slot = NoPlace \/ IsFreePlace(o.slot))
  <2>1. b.last = 0
    BY <1>1, <1>3 DEF RunSound
  <2> QED BY <1>2, <1>3, <2>1, RunPlaces
<1>6. /\ op' \in OpType /\ SameLocals(o, op')
      /\ op'.at = IF o.last # 0 THEN "grow" ELSE "lfn"
  BY <1>2, <1>4, AfterStage, GoEffect DEF Stage
<1>7. /\ op'.cmd = "rename" /\ op'.first = op.first /\ op'.new = 0 /\ op'.over = FALSE
      /\ op'.last = o.last /\ op'.slot = o.slot /\ op'.next = o.next /\ op'.dir = op.dir
  BY <1>4, <1>5, <1>6 DEF SameLocals
<1>8. Suspended' = Suspended
  BY <1>1, <1>7 DEF Suspended
<1>9. Quiet
  BY <1>1, <1>8, RefSame DEF Quiet, SlotAt
<1>10. DirsSound' /\ Acyclic'
  BY <1>1, <1>8, <1>9, DiskKept DEF TreeInv, Quiet, DirsSound, IInv, TypeOK
<1>11. ASSUME NEW p, IsFreePlace(p) PROVE Vacant(p)'
  <2>1. p \in DirPlace /\ Vacant(p)
    BY <1>11, FreePlaceVacant DEF TreeInv
  <2> QED BY <1>1, <1>9, <2>1, Places, VacantKept DEF Quiet
<1>12. NewSound(op)'
  BY <1>1, <1>7 DEF RunSound, NewSound, IsDir
<1>13. StageSound'
  <2>1. CASE o.last = 0 /\ IsFreePlace(o.slot) /\ IsFreePlace(o.next)
    <3>1. PICK p, r : p = o.slot /\ r = o.next
      OBVIOUS
    <3>2. Vacant(p)' /\ Vacant(r)' /\ op'.slot = p /\ op'.next = r
      BY <1>7, <1>11, <2>1, <3>1
    <3>3. Vacant(op.slot)' /\ Vacant(op.next)'
      BY <3>2 DEF Vacant, IsDir, Ref, SlotAt
    <3> QED BY <1>6, <1>12, <2>1, <3>3, OneStage DEF LfnSound
  <2>2. CASE IsLast(o.last) /\ (o.slot = NoPlace \/ IsFreePlace(o.slot))
    <3>1. o.last \in Cluster /\ IsDir(o.last) /\ fat[o.last] = EOC
      BY <2>2, LastEnds DEF IInv, TreeInv
    <3>2. o.last # 0
      BY <3>1, Numbering
    <3>3. op'.slot # NoPlace => Vacant(op.slot)'
      <4> SUFFICES ASSUME op'.slot # NoPlace PROVE Vacant(op.slot)'
        OBVIOUS
      <4>1. PICK p : p = o.slot
        OBVIOUS
      <4>2. Vacant(p)' /\ op'.slot = p
        BY <1>7, <1>11, <2>2, <4>1
      <4> QED BY <4>2 DEF Vacant, IsDir, Ref, SlotAt
    <3>4. IsDir(op.last)' /\ fat'[op'.last] = EOC
      BY <1>1, <1>7, <3>1 DEF IsDir
    <3>5. GrowSound'
      BY <1>7, <1>12, <3>2, <3>3, <3>4 DEF GrowSound
    <3> QED BY <1>6, <3>2, <3>5, OneStage
  <2> QED BY <1>5, <2>1, <2>2
<1>14. AllFound'
  <2>1. Hand = {0, op.first} /\ op.first \in Hand' /\ 0 \notin Cluster
    BY <1>1, <1>6, <1>7, Numbering DEF Hand
  <2>2. leaky' = leaky /\ fat' = fat
    BY <1>1
  <2> QED BY <1>9, <2>1, <2>2, FoundStep DEF TreeInv, Quiet
<1> QED BY <1>9, <1>10, <1>13, <1>14, Moves DEF TreeInv

(* dir_write_named_entry writes the long name. *)
LEMMA WriteLfnTree ==
  ASSUME IInv, TreeInv, IInv', WriteLfn PROVE TreeInv' /\ RefMove
<1> DEFINE o == [op EXCEPT !.slot = op.next]
<1>1. /\ op.at = "lfn" /\ Go("lfn", o) /\ UNCHANGED <<fat, cwd, torn, leaky>>
      /\ op \in OpType /\ op.slot \in DirPlace /\ op.next \in DirPlace
      /\ op.cmd = "rename" /\ op.over = FALSE /\ op.new = 0 /\ LfnSound
  BY DEF WriteLfn, At, IInv, TypeOK, StagesSound, LocalsSound, Hands, OpType, TreeInv, StageSound
<1>2. PICK q \in DirPlace : q = op.slot
  BY <1>1
<1>3. PICK v \in SlotVal : v = Lfn(op.long) /\ v.kind = "lfn" /\ v.dir = FALSE
  <2>1. op.long \in Text
    BY <1>1 DEF OpType
  <2>2. Lfn(op.long) \in SlotVal /\ Lfn(op.long).kind = "lfn" /\ Lfn(op.long).dir = FALSE
    BY <2>1 DEF Lfn, SlotVal, Kind
  <2> QED BY <2>2
<1>4. /\ SlotAt(q)' = v
      /\ \A p \in DirPlace : p # q => SlotAt(p)' = SlotAt(p)
      /\ \A d \in Cluster : d # q[1] => data'[d] = data[d]
  <2>1. TypeOK /\ SetSlot(q, v)
    BY <1>2, <1>3 DEF WriteLfn, IInv
  <2> QED BY <2>1, SetSlotEffect, SetSlotRest
<1>5. o \in OpType /\ o.cmd = "rename" /\ o.slot = op.next /\ o.first = op.first /\ o.new = 0
      /\ o.over = FALSE /\ o.dir = op.dir
  <2>1. o \in OpType
    BY <1>1 DEF OpType
  <2> QED BY <1>1, <2>1 DEF OpType
<1> HIDE DEF o
<1>6. op' \in OpType /\ op'.at = "entry" /\ SameLocals(o, op')
  BY <1>1, <1>5, AfterStage, GoEffect DEF Stage
<1>7. /\ op'.cmd = "rename" /\ op'.slot = op.next /\ op'.first = op.first /\ op'.new = 0
      /\ op'.over = FALSE /\ op'.dir = op.dir
  BY <1>5, <1>6 DEF SameLocals
<1>8. Suspended' = torn /\ Suspended = torn /\ q \notin torn
  BY <1>1, <1>2, <1>7 DEF Suspended, LfnSound, Vacant
<1>9. Ref(q)' = 0
  BY <1>3, <1>4, NoEntNoRef
<1>10. DirsSound' /\ Acyclic' /\ Kept(q) /\ \A c \in Cluster : IsDir(c)' <=> IsDir(c)
  <2>1. IsDir(q[1]) /\ fat' = fat /\ cwd' = cwd
    BY <1>1, <1>2 DEF LfnSound, Vacant
  <2>2. SlotAt(q)'.kind = "lfn" /\ SlotAt(q)'.dir = FALSE
    BY <1>3, <1>4
  <2>3. q \notin Suspended' /\ \A p \in DirPlace : p # q => (p \in Suspended' <=> p \in Suspended)
    BY <1>8
  <2> QED BY <1>4, <1>9, <2>1, <2>2, <2>3, SlotsWritten
<1>11. RefMove
  BY <1>9, <1>10, Moves, Places
<1>12. EntrySound'
  <2>1. PICK r \in DirPlace : r = op.next
    BY <1>1
  <2>2. Vacant(r) /\ r \in Place /\ r[1] \in Cluster
    BY <1>1, <2>1, Places DEF LfnSound
  <2>3. Ref(r)' = 0 /\ IsDir(r[1])' /\ r \notin torn' /\ r = op'.slot
    BY <1>1, <1>7, <1>9, <1>10, <2>1, <2>2 DEF Kept, Vacant
  <2>4. Vacant(op.slot)'
    BY <2>3 DEF Vacant, IsDir, Ref, SlotAt
  <2>5. op.first # 0 => op.first \in Cluster
    BY <1>1 DEF OpType
  <2>6. NewSound(op)'
    BY <1>1, <1>7, <1>10, <2>5 DEF LfnSound, NewSound, IsDir
  <2> QED BY <1>7, <2>4, <2>6 DEF EntrySound
<1>13. AllFound'
  <2>1. Hand = {0, op.first} /\ op.first \in Hand' /\ 0 \notin Cluster
    BY <1>1, <1>6, <1>7, Numbering DEF Hand
  <2>2. leaky' = leaky /\ fat' = fat
    BY <1>1
  <2>3. Ref(q) = 0
    BY <1>1, <1>2 DEF LfnSound, Vacant
  <2>4. \A p \in Place : Ref(p) \in Cluster => Ref(p)' = Ref(p)
    BY <1>10, <2>1, <2>3 DEF Kept
  <2> QED BY <2>1, <2>2, <2>4, FoundStep DEF TreeInv
<1> QED BY <1>6, <1>10, <1>11, <1>12, <1>13, OneStage DEF TreeInv

(* The entry is written. *)
LEMMA WriteEntryTree ==
  ASSUME IInv, TreeInv, IInv', WriteEntry PROVE TreeInv' /\ RefMove
<1>z. PICK b \in BOOLEAN : b = FALSE
  OBVIOUS
<1>1. /\ op.at = "entry" /\ Go("entry", [op EXCEPT !.over = b]) /\ UNCHANGED <<fat, cwd, torn, leaky>>
      /\ op \in OpType /\ op.slot \in DirPlace /\ op.new = 0
      /\ op.cmd \in {"write", "mkdir", "rename"} /\ EntrySound
  BY <1>z DEF WriteEntry, At, IInv, TypeOK, StagesSound, Hands, OpType, TreeInv, StageSound
<1>2. PICK q \in DirPlace : q = op.slot
  BY <1>1
<1>3. PICK f \in Cluster \cup {0} : f = op.first
  BY <1>1 DEF OpType
<1>4. PICK v \in SlotVal : v = Ent(op.name, op.first, op.dir) /\ v.clus = f /\ v.dir = op.dir /\ v.kind = "ent"
  <2>1. op.name \in Text /\ op.first \in Cluster \cup {0} /\ op.dir \in BOOLEAN
    BY <1>1 DEF OpType
  <2>2. Ent(op.name, op.first, op.dir) \in SlotVal
    BY <2>1 DEF Ent, SlotVal, Kind
  <2>3. /\ Ent(op.name, op.first, op.dir).clus = f /\ Ent(op.name, op.first, op.dir).dir = op.dir
        /\ Ent(op.name, op.first, op.dir).kind = "ent"
    BY <1>3 DEF Ent
  <2> QED BY <2>2, <2>3
<1>5. /\ SlotAt(q)' = v
      /\ \A p \in DirPlace : p # q => SlotAt(p)' = SlotAt(p)
      /\ \A d \in Cluster : d # q[1] => data'[d] = data[d]
  <2>1. TypeOK /\ SetSlot(q, v)
    BY <1>2, <1>4 DEF WriteEntry, IInv
  <2> QED BY <2>1, SetSlotEffect, SetSlotRest
<1>6. PICK o \in OpType : /\ o = [op EXCEPT !.over = b]
                          /\ o.cmd = op.cmd /\ o.slot = op.slot /\ o.first = op.first
                          /\ o.new = op.new /\ o.over = b
  <2>1. [op EXCEPT !.over = b] \in OpType
    BY <1>1 DEF OpType
  <2>2. PICK o \in OpType : o = [op EXCEPT !.over = b]
    BY <2>1
  <2>3. o.cmd = op.cmd /\ o.slot = op.slot /\ o.first = op.first /\ o.new = op.new /\ o.over = b
    BY <1>1, <2>2 DEF OpType
  <2> QED BY <2>2, <2>3
<1>7. /\ op.cmd \in {"write", "rename"} => op' = Idle
      /\ op.cmd = "mkdir" => op' \in OpType /\ op'.at = "dots" /\ SameLocals(o, op')
  <2>1. Go("entry", o) /\ o.cmd = op.cmd
    BY <1>1, <1>6
  <2> QED BY <1>1, <2>1, AfterStage, GoEffect DEF Stage
<1>8. op'.over = FALSE /\ op'.new = 0
  BY <1>1, <1>6, <1>7, <1>z, IdleFields DEF SameLocals
<1>9. Suspended' = torn /\ q \notin torn /\ Ref(q) = 0 /\ IsDir(q[1])
  BY <1>1, <1>2, <1>8 DEF Suspended, EntrySound, Vacant
<1>10. Ref(q)' = f /\ q \in Place
  BY <1>4, <1>5, <1>9, Places DEF Ref
<1>11. /\ op.dir => f \in Cluster /\ IsDir(f)
       /\ f # 0 /\ ~op.dir => ~IsDir(f)
  BY <1>1, <1>3 DEF EntrySound, NewSound
<1>12. DirsSound' /\ Acyclic' /\ Kept(q) /\ \A c \in Cluster : IsDir(c)' <=> IsDir(c)
  <2>1. fat' = fat /\ cwd' = cwd
    BY <1>1
  <2>2. SlotAt(q)'.kind = "ent" /\ SlotAt(q)'.dir = op.dir /\ SlotAt(q)'.clus = f
    BY <1>4, <1>5
  <2>3. q \notin Suspended' /\ \A p \in DirPlace : p # q => (p \in Suspended' <=> p \in Suspended)
    BY <1>2, <1>9 DEF Suspended
  <2> QED BY <1>5, <1>9, <1>10, <1>11, <2>1, <2>2, <2>3, SlotsWritten
<1>13. RefMove
  <2>1. f # 0 => Unref(f)
    BY <1>1, <1>3 DEF IInv, Hands, InFlight
  <2> QED BY <1>9, <1>10, <1>12, <2>1, Moves
<1>14. StageSound'
  <2>1. CASE op' = Idle
    BY <2>1, IdleStage
  <2>2. CASE op.cmd = "mkdir"
    <3>1. op'.at = "dots" /\ op'.first = op.first
      BY <1>6, <1>7, <2>2 DEF SameLocals
    <3>2. op.first \in Cluster /\ op.first # 0 /\ op.first # q[1] /\ data[op.first] = Blank
      BY <1>1, <1>2, <2>2 DEF EntrySound, OpType
    <3>3. data'[op.first] = Blank
      BY <1>5, <3>2
    <3>4. DotsSound'
      BY <3>1, <3>2, <3>3 DEF DotsSound
    <3> QED BY <3>1, <3>4, OneStage
  <2> QED BY <1>1, <1>7, <2>1, <2>2
<1>15. AllFound'
  <2>1. Hand = {0, f} /\ 0 \notin Cluster
    BY <1>1, <1>3, Numbering DEF Hand
  <2>2. leaky' = leaky /\ fat' = fat
    BY <1>1
  <2>4. \A p \in Place : Ref(p) \in Cluster => Ref(p)' = Ref(p)
    BY <1>9, <1>12, <2>1 DEF Kept
  <2> QED BY <1>10, <2>1, <2>2, <2>4, FoundStep DEF TreeInv
<1> QED BY <1>12, <1>13, <1>14, <1>15 DEF TreeInv

(* "." and ".." are written. *)
LEMMA WriteDotsTree ==
  ASSUME IInv, TreeInv, IInv', WriteDots PROVE TreeInv' /\ RefMove
<1>1. /\ op.at = "dots" /\ Go("dots", op) /\ UNCHANGED <<fat, cwd, torn, leaky>>
      /\ op \in OpType /\ op.cmd \in {"write", "mkdir"} /\ op.over = FALSE /\ op.new = 0 /\ DotsSound
  BY DEF WriteDots, At, IInv, TypeOK, StagesSound, LocalsSound, OpType, Hands, TreeInv, StageSound
<1>2. op' = Idle
  BY <1>1, AfterStage, GoEffect DEF Stage
<1>3. PICK f \in Cluster : f = op.first /\ data[f] = Blank
  BY <1>1 DEF OpType, DotsSound
<1>4. PICK B : B = [i \in SlotIdx |-> IF i = 1 THEN Dot(".", f)
                                     ELSE IF i = 2 THEN Dot("..", cwd) ELSE Plain("end")]
  OBVIOUS
<1>5. data' = [data EXCEPT ![f] = B] /\ data \in [Cluster -> [SlotIdx -> SlotVal]] /\ cwd \in Cluster
  BY <1>3, <1>4 DEF WriteDots, IInv, TypeOK
<1>6. /\ \A i \in SlotIdx : /\ B[i].kind \in {"dot", "end"} /\ (B[i].kind = "dot" => B[i].dir)
                            /\ B[i].dir => B[i].clus \in {f, cwd}
      /\ B[1].kind = "dot"
  <2>1. /\ Dot(".", f).kind = "dot" /\ Dot("..", cwd).kind = "dot" /\ Plain("end").kind = "end"
        /\ Dot(".", f).dir = TRUE /\ Dot("..", cwd).dir = TRUE /\ Plain("end").dir = FALSE
        /\ Dot(".", f).clus = f /\ Dot("..", cwd).clus = cwd
    BY DEF Dot, Plain
  <2> HIDE DEF Dot, Plain
  <2> QED BY <1>4, <2>1, Numbering
<1>7. /\ data'[f] = B /\ \A d \in Cluster : d # f => data'[d] = data[d]
  BY <1>5
<1>8. \A p \in DirPlace : p[1] # f => SlotAt(p)' = SlotAt(p)
  BY <1>7, Places DEF SlotAt
<1>9. \A p \in DirPlace : p[1] = f => /\ SlotAt(p).kind = "end" /\ SlotAt(p)'.kind \in {"dot", "end"}
                                      /\ (SlotAt(p)'.kind = "dot" => SlotAt(p)'.dir)
                                      /\ SlotAt(p)'.dir => SlotAt(p)'.clus \in {f, cwd}
  <2>1. \A i \in SlotIdx : Blank[i].kind = "end"
    BY DEF Blank, Plain
  <2> QED BY <1>3, <1>6, <1>7, <2>1, Places DEF SlotAt
<1>10. Suspended' = Suspended
  BY <1>1, <1>2, IdleFields DEF Suspended
<1>11. ASSUME NEW p \in Place PROVE Ref(p)' = Ref(p)
  <2>1. CASE p[2] = 0
    BY <1>1, <2>1 DEF Ref
  <2>2. CASE p[2] # 0 /\ p[1] # f
    BY <1>8, <1>10, <2>2, RefSame, Places
  <2>3. CASE p[2] # 0 /\ p[1] = f
    BY <1>9, <2>3, Places DEF Ref
  <2> QED BY <2>1, <2>2, <2>3
<1>12. IsDir(f) /\ IsDir(f)' /\ IsDir(cwd)
  <2>1. NoDir[1].kind = "data"
    BY Numbering DEF NoDir, Plain
  <2>2. IsDir(f)'
    BY <1>6, <1>7, <2>1 DEF IsDir
  <2> QED BY <1>3, <2>2, Blanks DEF IsDir, TreeInv, DirsSound
<1>13. \A c \in Cluster : IsDir(c)' <=> IsDir(c)
  BY <1>7, <1>12 DEF IsDir
<1>14. DirsSound' /\ Acyclic'
  <2>1. \A p \in DirPlace : SlotAt(p)' = SlotAt(p) \/
            /\ SlotAt(p)'.dir => SlotAt(p)'.clus \in Cluster /\ IsDir(SlotAt(p)'.clus)
            /\ SlotAt(p)'.kind = "dot" => SlotAt(p)'.dir
    BY <1>5, <1>8, <1>9, <1>12
  <2>2. ASSUME NEW p \in DirPlace, Ref(p)' # 0, ~SlotAt(p)'.dir PROVE ~IsDir(Ref(p)')
    <3>1. Ref(p)' = Ref(p) /\ p[2] # 0
      BY <1>11, Places
    <3>2. SlotAt(p).kind = "ent"
      BY <2>2, <3>1 DEF Ref
    <3>3. SlotAt(p)' = SlotAt(p)
      BY <1>8, <1>9, <3>2
    <3> QED BY <2>2, <3>1, <3>3 DEF TreeInv, DirsSound
  <2>3. \A p \in Suspended' : SlotAt(p)'.kind = "ent"
    <3> SUFFICES ASSUME NEW p \in Suspended' PROVE SlotAt(p)'.kind = "ent"
      OBVIOUS
    <3>1. p \in DirPlace /\ SlotAt(p).kind = "ent"
      BY <1>10, SuspendedPlaces DEF TreeInv, DirsSound
    <3> QED BY <1>8, <1>9, <3>1
  <2>4. IsDir(cwd)' /\ fat' = fat /\ TypeOK'
    BY <1>1, <1>5, <1>12, <1>13 DEF IsDir, IInv
  <2> QED BY <1>13, <2>1, <2>2, <2>3, <2>4, SlotTree DEF TreeInv
<1>15. AllFound'
  <2>1. Hand = {0} /\ 0 \notin Cluster
    BY <1>1, Numbering DEF Hand
  <2>2. leaky' = leaky /\ fat' = fat
    BY <1>1
  <2> QED BY <1>11, <2>1, <2>2, FoundStep DEF TreeInv
<1> QED BY <1>2, <1>11, <1>14, <1>15, IdleStage, Moves DEF TreeInv, Quiet

-----------------------------------------------------------------------------
(* Failures. *)

(* A directory sector that cannot be written ends the command. *)
LEMMA WriteFailsTree ==
  ASSUME IInv, TreeInv, IInv', WriteFails PROVE TreeInv' /\ RefMove
<1>1. /\ cwd' = cwd /\ op \in OpType /\ leaky \in BOOLEAN
      /\ leaky' = (leaky \/ (op.first # 0 /\ (op.at = "lfn" \/ (op.at = "entry" /\ op.cmd # "mkdir"))))
  BY DEF WriteFails, At, IInv, TypeOK
<1>2. leaky => leaky'
  BY <1>1
<1>3. op.at \notin {"grow", "alloc"} => op.new = 0
  BY DEF IInv, Hands
<1>4. CASE (At("mark") \/ At("lfn") \/ At("dots")) /\ GiveUp /\ UNCHANGED <<fat, data>>
  <2>1. \A c \in Hand : c = op.new \/ (c = op.first /\ op.at = "lfn")
    BY <1>4 DEF At, Hand
  <2>a. op.new = 0
    BY <1>3, <1>4 DEF At
  <2>b. op.at = "lfn" /\ op.first # 0 => leaky'
    BY <1>1
  <2>2. leaky' \/ \A c \in Hand : c = 0
    BY <2>1, <2>a, <2>b
  <2> QED BY <1>1, <1>2, <1>4, <2>2, TreeGaveUp, Numbering
<1>5. CASE At("entry") /\ op.cmd # "mkdir" /\ GiveUp /\ UNCHANGED <<fat, data>>
  <2>1. \A c \in Hand : c = op.new \/ c = op.first
    BY <1>5 DEF At, Hand
  <2>2. leaky' \/ \A c \in Hand : c = 0
    BY <1>1, <1>3, <1>5, <2>1 DEF At
  <2> QED BY <1>1, <1>2, <1>5, <2>2, TreeGaveUp, Numbering
<1>6. CASE /\ At("entry") /\ op.cmd = "mkdir"
           /\ SetFat(op.first, Free) /\ data' = [data EXCEPT ![op.first] = NoDir]
           /\ op' = Idle /\ UNCHANGED torn
  <2>1. EntrySound /\ op.at = "entry" /\ op.over = FALSE
    BY <1>1, <1>6 DEF At, TreeInv, StageSound, IInv, LocalsSound, OpType
  <2>2. PICK c \in Cluster : c = op.first
    BY <1>1, <1>6, <2>1 DEF EntrySound, OpType
  <2>3. InFlight(c) /\ ~Pointed(c) /\ NoEntries(data[c]) /\ fat[c] = EOC
    BY <1>6, <2>1, <2>2, Blanks DEF EntrySound, IInv, Hands
  <2>4. Suspended' = Suspended
    BY <1>6, <2>1, IdleFields DEF Suspended
  <2>5. /\ DirsSound' /\ Acyclic' /\ Kept(<<c, 0>>) /\ Ref(<<c, 0>>)' = 0
        /\ fat'[c] = Free
        /\ \A d \in Cluster : d # c => fat'[d] = fat[d] /\ data'[d] = data[d]
    <3>1. fat' = [fat EXCEPT ![c] = Free] /\ data' = [data EXCEPT ![c] = NoDir]
      BY <1>6, <2>2 DEF SetFat
    <3> QED BY <1>1, <2>3, <2>4, <3>1, FreeTree DEF TreeInv
  <2>6. <<c, 0>> \in Place /\ Ref(<<c, 0>>) = 0
    BY <2>3, Numbering, Places DEF Ref, HasNext
  <2>7. AllFound'
    <3>1. Hand = {0, c} /\ 0 \notin Cluster
      BY <1>3, <2>1, <2>2, Numbering DEF Hand
    <3>2. \A p \in Place : Ref(p) \in Cluster => Ref(p)' = Ref(p)
      BY <2>5, <2>6, <3>1 DEF Kept
    <3>3. \A d \in Cluster : ~(fat[d] = Free /\ fat'[d] # Free)
      BY <2>5
    <3> QED BY <1>2, <2>5, <3>1, <3>2, <3>3, FoundStep DEF TreeInv
  <2> QED BY <1>6, <2>5, <2>6, <2>7, IdleStage, Moves DEF TreeInv
<1> QED BY <1>4, <1>5, <1>6 DEF WriteFails

(* The driver dies during a command and starts again at the root. *)
LEMMA CrashTree ==
  ASSUME IInv, TreeInv, IInv', Crash PROVE TreeInv' /\ RefMove
BY TreeGaveUp DEF Crash

-----------------------------------------------------------------------------
(* The start of a command. *)

(* Between commands the hands are empty. *)
LEMMA IdleHand ==
  ASSUME op = Idle
  PROVE  Hand = {0} /\ 0 \notin Cluster /\ Suspended = torn
BY IdleFields, Numbering DEF Hand, Suspended

(* The disk as a command finds it. *)
LEMMA StartDisk ==
  ASSUME IInv, TreeInv, IInv', op = Idle, UNCHANGED <<fat, data, cwd, torn, leaky>>, op'.over = FALSE
  PROVE  DirsSound' /\ Acyclic' /\ Quiet /\ AllFound'
<1>1. Quiet
  BY SameRefs DEF Quiet
<1>2. Suspended' = torn /\ Suspended = torn
  BY IdleHand DEF Suspended
<1>3. DirsSound' /\ Acyclic'
  BY <1>1, <1>2, DiskKept DEF TreeInv, Quiet, DirsSound, IInv, TypeOK
<1>4. AllFound'
  BY <1>1, IdleHand, FoundStep DEF TreeInv, Quiet
<1> QED BY <1>1, <1>3, <1>4

(* A new entry, or a file without clusters that is overwritten. *)
Opening(o) ==
  /\ o \in OpType /\ o.cmd \in {"write", "mkdir"}
  /\ o.first = 0 /\ o.new = 0 /\ o.cl = 0 /\ o.prev = 0 /\ o.over = FALSE
  /\ o.cmd = "write" => ~o.dir
  /\ o.cmd = "mkdir" => o.dir /\ o.need = 1
  /\ \/ o.last = 0 /\ o.slot \in DirPlace /\ Vacant(o.slot)
     \/ IsLast(o.last) /\ o.slot = NoPlace

(* A command that writes a new entry starts. *)
LEMMA OpeningTree ==
  ASSUME IInv, TreeInv, IInv', op = Idle, NEW o, Opening(o), Start(o)
  PROVE  TreeInv' /\ RefMove
<1>1. o \in OpType /\ Go("start", o) /\ UNCHANGED <<fat, data, cwd, torn, leaky>>
  BY DEF Opening, Start
<1>2. PICK s \in {"grow", "alloc", "entry"} :
         /\ s = After("start", o)
         /\ s = IF o.last # 0 THEN "grow" ELSE Fill(o)
         /\ o.last = 0 => s # "grow"
  <2>1. After("start", o) = IF o.last # 0 THEN "grow" ELSE Fill(o)
    BY <1>1, AfterStage DEF Opening
  <2>2. Fill(o) \in {"alloc", "entry"}
    BY <1>1, AfterStage
  <2> QED BY <2>1, <2>2
<1>3. op' \in OpType /\ op'.at = s /\ SameLocals(o, op')
  <2>1. s \in Stage /\ s # "idle"
    BY DEF Stage
  <2> QED BY <1>1, <1>2, <2>1, GoEffect
<1>4. /\ op'.cmd = o.cmd /\ op'.slot = o.slot /\ op'.last = o.last /\ op'.new = 0 /\ op'.first = 0
      /\ op'.prev = 0 /\ op'.dir = o.dir /\ op'.over = FALSE /\ op'.need = o.need
  BY <1>3 DEF SameLocals, Opening
<1>5. DirsSound' /\ Acyclic' /\ Quiet /\ AllFound'
  BY <1>1, <1>4, StartDisk
<1>6. NewSound(op)'
  BY <1>4 DEF NewSound, Opening
<1>7. StageSound'
  <2>1. CASE IsLast(o.last) /\ o.slot = NoPlace
    <3>1. o.last \in Cluster /\ IsDir(o.last) /\ fat[o.last] = EOC /\ o.last # 0
      BY <2>1, LastEnds, Numbering DEF IInv, TreeInv
    <3>2. IsDir(op.last)' /\ fat'[op'.last] = EOC /\ s = "grow"
      BY <1>1, <1>2, <1>4, <3>1 DEF IsDir
    <3>3. GrowSound'
      BY <1>4, <1>6, <2>1, <3>1, <3>2 DEF GrowSound, Opening
    <3> QED BY <1>3, <3>2, <3>3, OneStage
  <2>2. CASE o.last = 0 /\ o.slot \in DirPlace /\ Vacant(o.slot)
    <3>1. PICK p \in DirPlace : p = o.slot
      BY <2>2
    <3>2. Vacant(p)' /\ op'.slot = p
      BY <1>1, <1>4, <1>5, <2>2, <3>1, VacantKept, Places DEF Quiet
    <3>3. Vacant(op.slot)'
      BY <3>2 DEF Vacant, IsDir, Ref, SlotAt
    <3>4. CASE s = "alloc"
      <4>1. AllocSound'
        BY <1>4, <1>6, <3>3 DEF AllocSound, Opening
      <4> QED BY <1>3, <3>4, <4>1, OneStage
    <3>5. CASE s = "entry"
      <4>1. o.cmd # "mkdir"
        BY <1>2, <2>2, <3>5 DEF Fill, Opening
      <4>2. EntrySound'
        BY <1>4, <1>6, <3>3, <4>1 DEF EntrySound
      <4> QED BY <1>3, <3>5, <4>2, OneStage
    <3> QED BY <1>2, <2>2, <3>4, <3>5
  <2> QED BY <2>1, <2>2 DEF Opening
<1> QED BY <1>5, <1>7, Moves DEF TreeInv

(* Where Room puts a new entry. *)
LEMMA RoomPlaces ==
  ASSUME NEW d, NEW r \in Room(d)
  PROVE  /\ r.prev = 0
         /\ \/ r.last = 0 /\ IsFreePlace(r.slot)
            \/ IsLast(r.last) /\ r.slot = NoPlace
<1>1. \/ \E p : IsFreePlace(p) /\ r = [Idle EXCEPT !.slot = p]
      \/ \E c : IsLast(c) /\ r = [Idle EXCEPT !.last = c]
  BY DEF Room
<1>2. ASSUME NEW p, IsFreePlace(p), r = [Idle EXCEPT !.slot = p]
      PROVE  r.prev = 0 /\ r.last = 0 /\ IsFreePlace(r.slot)
  <2>1. r.prev = Idle.prev /\ r.last = Idle.last /\ r.slot = p
    BY <1>2, IdleFields DEF OpType
  <2> QED BY <1>2, <2>1, IdleFields
<1>3. ASSUME NEW c, IsLast(c), r = [Idle EXCEPT !.last = c]
      PROVE  r.prev = 0 /\ IsLast(r.last) /\ r.slot = NoPlace
  <2>1. r.prev = Idle.prev /\ r.last = c /\ r.slot = Idle.slot
    BY <1>3, IdleFields DEF OpType
  <2> QED BY <1>3, <2>1, IdleFields
<1> QED BY <1>1, <1>2, <1>3

(* The locals of a command that makes a new entry. *)
LEMMA NewOpening ==
  ASSUME TreeInv, NEW d, NEW r \in Room(d), NEW c \in {"write", "mkdir"}, NEW k \in 0 .. MaxLen + 1,
         NEW t \in Text, NEW b \in BOOLEAN, c = "write" => ~b, c = "mkdir" => b /\ k = 1
  PROVE  Opening(NewFile(r, c, k, t, b))
<1>1. r \in OpType /\ EmptyHanded(r)
  BY RoomFields DEF EmptyHanded
<1>2. PICK o : o = NewFile(r, c, k, t, b)
  OBVIOUS
<1>3. o \in OpType /\ o.cmd = c /\ EmptyHanded(o)
  BY <1>1, <1>2, NewEntry
<1>4. o.prev = r.prev /\ o.need = k /\ o.slot = r.slot /\ o.last = r.last
  BY <1>1, <1>2 DEF OpType, NewFile
<1>5. o.dir = b
  BY <1>1, <1>2 DEF OpType, NewFile
<1>6. r.prev = 0 /\ (\/ r.last = 0 /\ IsFreePlace(r.slot)
                     \/ IsLast(r.last) /\ r.slot = NoPlace)
  BY RoomPlaces
<1>7. IsFreePlace(r.slot) => r.slot \in DirPlace /\ Vacant(r.slot)
  BY FreePlaceVacant DEF TreeInv
<1>8. o.cmd = "write" => ~o.dir
  BY <1>3, <1>5
<1>9. o.cmd = "mkdir" => o.dir /\ o.need = 1
  BY <1>3, <1>4, <1>5
<1>10. \/ o.last = 0 /\ o.slot \in DirPlace /\ Vacant(o.slot)
       \/ IsLast(o.last) /\ o.slot = NoPlace
  BY <1>4, <1>6, <1>7
<1>11. o.first = 0 /\ o.new = 0 /\ o.cl = 0 /\ o.prev = 0 /\ o.over = FALSE /\ o.cmd \in {"write", "mkdir"}
  BY <1>3, <1>4, <1>6 DEF EmptyHanded
<1> QED BY <1>2, <1>3, <1>8, <1>9, <1>10, <1>11 DEF Opening

(* touch keeps the tree sound. *)
LEMMA CreateTree ==
  ASSUME IInv, TreeInv, IInv', NEW n \in Name, fat32_create_file(n)
  PROVE  TreeInv' /\ RefMove
<1>1. op = Idle
  BY DEF fat32_create_file, Ready
<1>2. PICK r \in Room(cwd) : Start([r EXCEPT !.cmd = "write", !.name = Fmt[n]])
  BY DEF fat32_create_file
<1>3. r.need = 0 /\ r.dir = FALSE /\ r \in OpType
  BY RoomRest
<1>4. PICK k, b, t, w : k = r.need /\ b = r.dir /\ t = Fmt[n] /\ w = "write"
  OBVIOUS
<1>5. k \in 0 .. MaxLen + 1 /\ b \in BOOLEAN /\ t \in Text /\ w \in {"write", "mkdir"} /\ ~b /\ w # "mkdir"
  <2>1. k \in 0 .. MaxLen + 1
    BY <1>3, <1>4, DiskAssumption
  <2>2. b \in BOOLEAN /\ ~b
    BY <1>3, <1>4
  <2>3. t \in Text /\ w \in {"write", "mkdir"} /\ w # "mkdir"
    BY <1>4, Texts
  <2> QED BY <2>1, <2>2, <2>3
<1>6. PICK o : o = NewFile(r, w, k, t, b)
  OBVIOUS
<1>7. [r EXCEPT !.cmd = w, !.name = t] = o
  BY <1>3, <1>4, <1>6 DEF OpType, NewFile
<1>8. Start(o)
  BY <1>2, <1>4, <1>7
<1>9. Opening(o)
  BY <1>5, <1>6, NewOpening
<1> QED BY <1>1, <1>8, <1>9, OpeningTree

(* mkdir keeps the tree sound. *)
LEMMA MkdirTree ==
  ASSUME IInv, TreeInv, IInv', NEW n \in Name, fat32_mkdir(n)
  PROVE  TreeInv' /\ RefMove
<1>1. op = Idle
  BY DEF fat32_mkdir, Ready
<1>2. PICK r \in Room(cwd) :
         Start([r EXCEPT !.cmd = "mkdir", !.need = 1, !.name = Fmt[n], !.dir = TRUE])
  BY DEF fat32_mkdir
<1>3. PICK k, b, t, w : k = 1 /\ b = TRUE /\ t = Fmt[n] /\ w = "mkdir"
  OBVIOUS
<1>4. k \in 0 .. MaxLen + 1 /\ b \in BOOLEAN /\ t \in Text /\ w \in {"write", "mkdir"}
      /\ k = 1 /\ b /\ w # "write"
  <2>1. k \in 0 .. MaxLen + 1 /\ k = 1
    BY <1>3, DiskAssumption
  <2>2. b \in BOOLEAN /\ b
    BY <1>3
  <2>3. t \in Text /\ w \in {"write", "mkdir"} /\ w # "write"
    BY <1>3, Texts
  <2> QED BY <2>1, <2>2, <2>3
<1>5. PICK o : o = NewFile(r, w, k, t, b)
  OBVIOUS
<1>6. o = [r EXCEPT !.cmd = "mkdir", !.need = 1, !.name = Fmt[n], !.dir = TRUE]
  BY <1>3, <1>5, Zenon DEF NewFile
<1>7. Start(o)
  BY <1>2, <1>6
<1>8. Opening(o)
  BY <1>4, <1>5, NewOpening
<1> QED BY <1>1, <1>7, <1>8, OpeningTree

(* rm and mv to a long name: an entry is to be marked. *)
LEMMA StartMarkTree ==
  ASSUME IInv, TreeInv, IInv', op = Idle, NEW o \in OpType, Start(o),
         o.cmd \in {"delete", "rename"}, o.new = 0, o.over = FALSE, o.slot \in DirPlace,
         IsDir(o.slot[1]), o.slot \notin torn,
         o.cmd = "delete" => Ref(o.slot) = o.cl /\ (o.cl # 0 => ~IsDir(o.cl)),
         o.cmd = "rename" => Ref(o.slot) = o.first /\ NewSound(o) /\ o.last = 0
  PROVE  TreeInv' /\ RefMove
<1>1. Go("start", o) /\ UNCHANGED <<fat, data, cwd, torn, leaky>>
  BY DEF Start
<1>2. op' \in OpType /\ op'.at = "mark" /\ SameLocals(o, op')
  BY <1>1, AfterStage, GoEffect DEF Stage
<1>3. /\ op'.cmd = o.cmd /\ op'.slot = o.slot /\ op'.last = o.last /\ op'.new = 0 /\ op'.first = o.first
      /\ op'.dir = o.dir /\ op'.over = FALSE /\ op'.cl = o.cl
  BY <1>2 DEF SameLocals
<1>4. DirsSound' /\ Acyclic' /\ Quiet /\ AllFound'
  BY <1>1, <1>3, StartDisk
<1>5. PICK q \in DirPlace : q = o.slot
  OBVIOUS
<1>6. Ref(q)' = Ref(q) /\ op'.slot = q
  BY <1>3, <1>4, <1>5, Places DEF Quiet
<1>7. Ref(op.slot)' = Ref(q)
  BY <1>6 DEF Ref, SlotAt
<1>8. MarkSound'
  <2>1. IsDir(op.slot[1])' /\ op'.slot \notin torn'
    BY <1>1, <1>3 DEF IsDir
  <2>2. o.cmd = "delete" => Ref(op.slot)' = op'.cl /\ (op'.cl # 0 => ~IsDir(op.cl)')
    BY <1>1, <1>3, <1>5, <1>7 DEF IsDir
  <2>3. o.cmd = "rename" => Ref(op.slot)' = op'.first /\ NewSound(op)' /\ op'.last = 0
    BY <1>1, <1>3, <1>5, <1>7 DEF IsDir, NewSound
  <2> QED BY <1>3, <2>1, <2>2, <2>3 DEF MarkSound
<1> QED BY <1>2, <1>4, <1>8, OneStage, Moves DEF TreeInv

(* echo > to a file that has clusters: its entry is suspended. *)
LEMMA StartOverTree ==
  ASSUME IInv, TreeInv, IInv', op = Idle, NEW o \in OpType, Start(o),
         o.cmd = "write", o.new = 0, o.first = 0, o.prev = 0, o.last = 0, o.over = TRUE, ~o.dir,
         o.slot \in DirPlace, SlotAt(o.slot).kind = "ent", o.slot \notin torn,
         o.cl \in Cluster, Ref(o.slot) = o.cl, ~IsDir(o.cl)
  PROVE  TreeInv' /\ RefMove
<1>1. Go("start", o) /\ UNCHANGED <<fat, data, cwd, torn, leaky>>
  BY DEF Start
<1>2. op' \in OpType /\ op'.at = "free" /\ SameLocals(o, op')
  <2>1. o.cl # 0
    BY Numbering
  <2> QED BY <1>1, <2>1, AfterStage, GoEffect DEF Stage
<1>3. /\ op'.cmd = "write" /\ op'.slot = o.slot /\ op'.new = 0 /\ op'.first = 0 /\ op'.prev = 0
      /\ ~op'.dir /\ op'.over = TRUE /\ op'.cl = o.cl
  BY <1>2 DEF SameLocals
<1>4. PICK q \in DirPlace : q = o.slot
  OBVIOUS
<1>5. Suspended' = torn \cup {q} /\ Suspended = torn
  BY <1>1, <1>3, <1>4, IdleHand DEF Suspended
<1>6. \A p : SlotAt(p)' = SlotAt(p)
  BY <1>1 DEF SlotAt
<1>7. Ref(q)' = 0 /\ q \in Place
  BY <1>5, Places DEF Ref
<1>8. Kept(q)
  BY <1>1, <1>5, <1>6 DEF Kept, Ref
<1>9. DirsSound' /\ Acyclic'
  <2>1. \A p \in Place : Ref(p)' \in {0, Ref(p)}
    BY <1>7, <1>8 DEF Kept
  <2>2. \A p \in Suspended' : SlotAt(p).kind = "ent"
    BY <1>4, <1>5 DEF TreeInv, DirsSound
  <2>3. fat' = fat /\ data' = data /\ TypeOK' /\ cwd' \in Cluster /\ IsDir(cwd')
    BY <1>1 DEF IInv, TypeOK, TreeInv, DirsSound
  <2> QED BY <2>1, <2>2, <2>3, DiskKept DEF TreeInv
<1>10. FreeSound'
  <2>1. IsDir(q[1])
    BY <1>4, InDirectory
  <2>2. op'.slot = q /\ IsDir(q[1])' /\ q \notin torn'
    BY <1>1, <1>3, <1>4, <2>1 DEF IsDir
  <2>3. Vacant(op.slot)'
    BY <1>7, <2>2 DEF Vacant, IsDir, Ref, SlotAt
  <2>4. ~IsDir(op.cl)'
    BY <1>1, <1>3 DEF IsDir
  <2> QED BY <1>3, <2>3, <2>4 DEF FreeSound, NewSound
<1>11. AllFound'
  <2>1. o.cl \in Hand'
    BY <1>2, <1>3, HandFieldsNext
  <2>2. \A p \in Place : Ref(p) \in Cluster => Ref(p)' = Ref(p) \/ Ref(p) \in Hand'
    BY <1>4, <1>8, <2>1 DEF Kept
  <2>3. leaky' = leaky /\ fat' = fat
    BY <1>1
  <2> QED BY <2>2, <2>3, IdleHand, FoundStep DEF TreeInv
<1> QED BY <1>2, <1>7, <1>8, <1>9, <1>10, <1>11, OneStage, Moves DEF TreeInv

(* What an entry of a file or a directory leads to. *)
LEMMA EntryLeads ==
  ASSUME IInv, TreeInv, op = Idle, NEW p \in DirPlace, SlotAt(p).kind = "ent", p \notin torn
  PROVE  /\ IsDir(p[1]) /\ Ref(p) = SlotAt(p).clus
         /\ SlotAt(p).clus \in Cluster \cup {0} /\ SlotAt(p).dir \in BOOLEAN /\ SlotAt(p).name \in Text
         /\ SlotAt(p).dir => SlotAt(p).clus # 0
         /\ SlotAt(p).clus # 0 => (IsDir(SlotAt(p).clus) <=> SlotAt(p).dir)
<1>1. TypeOK /\ DirsSound /\ 0 \notin Cluster
  BY Numbering DEF IInv, TreeInv
<1>2. Ref(p) = SlotAt(p).clus
  BY <1>1, UsableRef
<1>3. SlotAt(p).clus \in Cluster \cup {0} /\ SlotAt(p).dir \in BOOLEAN /\ SlotAt(p).name \in Text
  BY <1>1, SlotFields
<1>4. SlotAt(p).dir => SlotAt(p).clus # 0 /\ IsDir(SlotAt(p).clus)
  BY <1>1 DEF DirsSound
<1>5. SlotAt(p).clus # 0 /\ ~SlotAt(p).dir => ~IsDir(SlotAt(p).clus)
  BY <1>1, <1>2 DEF DirsSound
<1> QED BY <1>2, <1>3, <1>4, <1>5, InDirectory

(* rm of a file keeps the tree sound. *)
LEMMA DeleteTree ==
  ASSUME IInv, TreeInv, IInv', Careful, NEW n \in Name, fat32_delete_file(n)
  PROVE  TreeInv' /\ RefMove
<1>1. op = Idle
  BY DEF fat32_delete_file, Ready
<1>2. PICK p \in DirPlace :
         /\ SlotAt(p).kind = "ent" /\ p \notin torn /\ ~SlotAt(p).dir
         /\ Start([Idle EXCEPT !.cmd = "delete", !.slot = p, !.cl = SlotAt(p).clus])
  BY DEF fat32_delete_file, Found, Removable, Usable
<1>3. PICK c \in Cluster \cup {0} : c = SlotAt(p).clus /\ Ref(p) = c /\ (c # 0 => ~IsDir(c)) /\ IsDir(p[1])
  BY <1>1, <1>2, EntryLeads
<1>4. PICK o : o = [Idle EXCEPT !.cmd = "delete", !.slot = p, !.cl = c]
  OBVIOUS
<1>5. Start(o)
  BY <1>2, <1>3, <1>4
<1>6. o \in OpType
  BY <1>4, IdleFields DEF OpType
<1>7. o.cmd = "delete" /\ o.slot = p /\ o.cl = c /\ o.new = Idle.new
  BY <1>4, IdleFields DEF OpType
<1>8. o.over = Idle.over
  BY <1>4, IdleFields DEF OpType
<1>9. o.over = FALSE /\ o.new = 0
  BY <1>7, <1>8, IdleFields
<1>10. o.cmd \in {"delete", "rename"} /\ o.slot \in DirPlace /\ IsDir(o.slot[1]) /\ o.slot \notin torn
       /\ Ref(o.slot) = o.cl /\ (o.cl # 0 => ~IsDir(o.cl)) /\ o.cmd # "rename"
  BY <1>2, <1>3, <1>7
<1> QED BY <1>1, <1>5, <1>6, <1>9, <1>10, StartMarkTree

(* mv to a long name starts with the old entry. *)
LEMMA MoveTree ==
  ASSUME IInv, TreeInv, IInv', op = Idle, NEW m \in LongName,
         NEW p \in DirPlace, SlotAt(p).kind = "ent", p \notin torn,
         Start([Idle EXCEPT !.cmd = "rename", !.slot = p, !.first = SlotAt(p).clus,
                            !.dir = SlotAt(p).dir, !.name = Alias, !.long = m])
  PROVE  TreeInv' /\ RefMove
<1>2. PICK c, d : c = SlotAt(p).clus /\ d = SlotAt(p).dir
  OBVIOUS
<1>3. c \in Cluster \cup {0} /\ d \in BOOLEAN /\ Ref(p) = c /\ IsDir(p[1])
      /\ (d => c # 0) /\ (c # 0 => (IsDir(c) <=> d))
  BY <1>2, EntryLeads
<1>4. m \in Text /\ Alias \in Text
  BY NameAssumption, Texts
<1>5. PICK o : o = [Idle EXCEPT !.cmd = "rename", !.slot = p, !.first = c, !.dir = d,
                                !.name = Alias, !.long = m]
  OBVIOUS
<1>6. Start(o)
  BY <1>2, <1>5, Zenon
<1>7. o \in OpType
  BY <1>3, <1>4, <1>5, IdleFields DEF OpType
<1>8. o.cmd = "rename" /\ o.slot = p /\ o.first = c /\ o.new = Idle.new /\ o.last = Idle.last
  BY <1>5, IdleFields DEF OpType
<1>9. o.over = Idle.over
  BY <1>5, IdleFields DEF OpType
<1>10. o.dir = d
  BY <1>5, IdleFields DEF OpType
<1>11. o.new = 0 /\ o.last = 0 /\ o.over = FALSE
  BY <1>8, <1>9, IdleFields
<1>12. NewSound(o)
  BY <1>3, <1>8, <1>10 DEF NewSound
<1>13. o.cmd \in {"delete", "rename"} /\ o.slot \in DirPlace /\ IsDir(o.slot[1]) /\ o.slot \notin torn
       /\ Ref(o.slot) = o.first /\ o.cmd # "delete"
  BY <1>3, <1>8
<1> QED BY <1>6, <1>7, <1>11, <1>12, <1>13, StartMarkTree

(* mv to a short name changes the name of an entry and nothing else. *)
LEMMA RenamedTree ==
  ASSUME IInv, TreeInv, IInv', op = Idle, NEW m \in Name, NEW p \in DirPlace,
         SlotAt(p).kind = "ent", p \notin torn,
         data' = [data EXCEPT ![p[1]][p[2]].name = Fmt[m]],
         UNCHANGED <<fat, cwd, op, torn, leaky, faults>>
  PROVE  TreeInv' /\ RefMove
<1>1. TypeOK /\ data \in [Cluster -> [SlotIdx -> SlotVal]] /\ p[1] \in Cluster /\ p[2] \in SlotIdx
      /\ Fmt[m] \in Text
  BY Places, Texts DEF IInv, TypeOK
<1>2. PICK v : v = [SlotAt(p) EXCEPT !.name = Fmt[m]]
  OBVIOUS
<1>3. SlotAt(p) \in SlotVal
  BY <1>1 DEF SlotAt
<1>4. v \in SlotVal /\ v.kind = SlotAt(p).kind /\ v.clus = SlotAt(p).clus /\ v.dir = SlotAt(p).dir
  BY <1>1, <1>2, <1>3 DEF SlotVal
<1>5. SetSlot(p, v)
  BY <1>1, <1>2 DEF SetSlot, SlotAt
<1>6. /\ SlotAt(p)' = v
      /\ \A q \in DirPlace : q # p => SlotAt(q)' = SlotAt(q)
      /\ \A d \in Cluster : d # p[1] => data'[d] = data[d]
  BY <1>1, <1>4, <1>5, SetSlotEffect, SetSlotRest
<1>7. Suspended' = torn /\ Suspended = torn
  BY IdleHand, IdleFields DEF Suspended
<1>8. Ref(p)' = Ref(p)
  BY <1>4, <1>6, <1>7, Places DEF Ref
<1>9. /\ IsDir(p[1]) /\ Ref(p) = SlotAt(p).clus
      /\ SlotAt(p).dir => SlotAt(p).clus \in Cluster
      /\ SlotAt(p).clus # 0 => (IsDir(SlotAt(p).clus) <=> SlotAt(p).dir)
  BY EntryLeads
<1>10. DirsSound' /\ Acyclic' /\ Kept(p)
  <2>1. /\ SlotAt(p)'.kind = "ent" /\ SlotAt(p)'.dir = SlotAt(p).dir /\ SlotAt(p)'.clus = SlotAt(p).clus
    BY <1>4, <1>6
  <2>2. p \notin Suspended' /\ \A q \in DirPlace : q # p => (q \in Suspended' <=> q \in Suspended)
    BY <1>7
  <2>3. SlotAt(p)'.dir => SlotAt(p)'.clus \in Cluster /\ IsDir(SlotAt(p)'.clus)
    BY <2>1 DEF TreeInv, DirsSound
  <2>4. Ref(p)' # 0 /\ ~SlotAt(p)'.dir => ~IsDir(Ref(p)')
    BY <1>8, <1>9, <2>1
  <2>5. fat' = fat /\ cwd' = cwd
    OBVIOUS
  <2> QED BY <1>6, <1>9, <2>1, <2>2, <2>3, <2>4, <2>5, SlotsWritten
<1>11. Quiet
  BY <1>8, <1>10 DEF Quiet, Kept
<1>12. AllFound'
  BY <1>11, IdleHand, FoundStep DEF TreeInv, Quiet
<1> QED BY <1>10, <1>11, <1>12, IdleStage, Moves DEF TreeInv

(* mv keeps the tree sound. *)
LEMMA RenameTree ==
  ASSUME IInv, TreeInv, IInv', Careful, NEW n \in Name, NEW m \in Name, fat32_rename_file(n, m)
  PROVE  TreeInv' /\ RefMove
<1>1. op = Idle
  BY DEF fat32_rename_file, Ready
<1>2. PICK p \in DirPlace :
        /\ SlotAt(p).kind = "ent" /\ p \notin torn
        /\ IF m \in LongName
           THEN Start([Idle EXCEPT !.cmd = "rename", !.slot = p, !.first = SlotAt(p).clus,
                                   !.dir = SlotAt(p).dir, !.name = Alias, !.long = m])
           ELSE /\ data' = [data EXCEPT ![p[1]][p[2]].name = Fmt[m]]
                /\ UNCHANGED <<fat, cwd, op, torn, leaky, faults>>
  BY DEF fat32_rename_file, Found, Usable
<1>3. CASE m \in LongName
  BY <1>1, <1>2, <1>3, MoveTree
<1>4. CASE m \notin LongName
  BY <1>1, <1>2, <1>4, RenamedTree
<1> QED BY <1>3, <1>4

(* The remaining locals of a command that overwrites a file. *)
LEMMA OldRest ==
  ASSUME NEW p \in DirPlace, NEW c \in Cluster \cup {0}, NEW k \in 0 .. MaxLen + 1, NEW t \in Text,
         NEW d \in BOOLEAN, NEW b \in BOOLEAN
  PROVE  OldFile(p, c, k, t, d, b).dir = d /\ OldFile(p, c, k, t, d, b).prev = 0
<1> DEFINE e == [Idle EXCEPT !.cmd = "write", !.slot = p, !.cl = c, !.need = k]
           o == OldFile(p, c, k, t, d, b)
<1>1. e \in OpType
  BY IdleFields DEF OpType
<1>2. e.prev = Idle.prev
  BY IdleFields DEF OpType
<1>3. o = [e EXCEPT !.name = t, !.dir = d, !.over = b]
  BY DEF OldFile
<1> HIDE DEF e, o
<1>4. o.prev = e.prev
  BY <1>1, <1>3 DEF OpType
<1>5. o.dir = d
  BY <1>1, <1>3 DEF OpType
<1>6. o.dir = d /\ o.prev = 0
  BY <1>2, <1>4, <1>5, IdleFields
<1> QED BY <1>6 DEF o

(* echo > to a file that exists starts with its old chain. *)
LEMMA OverwriteTree ==
  ASSUME IInv, TreeInv, IInv', op = Idle, NEW len \in 0 .. MaxLen,
         NEW p \in DirPlace, SlotAt(p).kind = "ent", p \notin torn, ~SlotAt(p).dir,
         Start([Idle EXCEPT !.cmd = "write", !.slot = p, !.cl = SlotAt(p).clus, !.need = len,
                            !.name = SlotAt(p).name, !.dir = SlotAt(p).dir,
                            !.over = SlotAt(p).clus # 0])
  PROVE  TreeInv' /\ RefMove
<1>2. PICK c, t, d, b : /\ c = SlotAt(p).clus /\ t = SlotAt(p).name /\ d = SlotAt(p).dir
                        /\ b = (SlotAt(p).clus # 0)
  OBVIOUS
<1>3. c \in Cluster \cup {0} /\ t \in Text /\ d \in BOOLEAN /\ b \in BOOLEAN /\ Ref(p) = c
      /\ ~d /\ IsDir(p[1]) /\ (c # 0 => ~IsDir(c))
  <2>1. c \in Cluster \cup {0} /\ t \in Text /\ d \in BOOLEAN /\ Ref(p) = c /\ IsDir(p[1])
    BY <1>2, EntryLeads
  <2>2. b \in BOOLEAN /\ ~d
    BY <1>2
  <2>3. c # 0 => ~IsDir(c)
    BY <1>2, EntryLeads
  <2> QED BY <2>1, <2>2, <2>3
<1>4. b = (c # 0)
  BY <1>2
<1>5. len \in 0 .. MaxLen + 1
  BY DiskAssumption
<1>6. PICK o : o = OldFile(p, c, len, t, d, b)
  OBVIOUS
<1>7. Start(o)
  BY <1>2, <1>6, Zenon DEF OldFile
<1>8. /\ o \in OpType /\ o.cmd = "write" /\ o.slot = p /\ o.cl = c /\ o.over = b
      /\ o.new = 0 /\ o.first = 0 /\ o.last = 0
  BY <1>3, <1>5, <1>6, OldEntry
<1>9. o.dir = d /\ o.prev = 0
  BY <1>3, <1>5, <1>6, OldRest
<1>10. ~o.dir
  BY <1>3, <1>9
<1>12. CASE c = 0
  <2>1. o.over = FALSE /\ o.cl = 0
    BY <1>4, <1>8, <1>12
  <2>2. Vacant(p)
    BY <1>3, <1>12 DEF Vacant
  <2>3. Opening(o)
    BY <1>8, <1>9, <1>10, <2>1, <2>2 DEF Opening
  <2> QED BY <1>7, <2>3, OpeningTree
<1>13. CASE c # 0
  <2>1. o.over = TRUE
    BY <1>4, <1>8, <1>13
  <2>2. o.slot \in DirPlace /\ SlotAt(o.slot).kind = "ent" /\ o.slot \notin torn
        /\ o.cl \in Cluster /\ Ref(o.slot) = o.cl /\ ~IsDir(o.cl)
    BY <1>3, <1>8, <1>13
  <2> QED BY <1>7, <1>8, <1>9, <1>10, <2>1, <2>2, StartOverTree
<1> QED BY <1>12, <1>13

(* echo > keeps the tree sound. *)
LEMMA WriteFileTree ==
  ASSUME IInv, TreeInv, IInv', Careful, NEW n \in Name, NEW len \in 0 .. MaxLen, fat32_write_file(n, len)
  PROVE  TreeInv' /\ RefMove
<1>1. op = Idle
  BY DEF fat32_write_file, Ready
<1>2. CASE \E r \in Room(cwd) : Start([r EXCEPT !.cmd = "write", !.need = len, !.name = Fmt[n]])
  <2>1. PICK r \in Room(cwd) : Start([r EXCEPT !.cmd = "write", !.need = len, !.name = Fmt[n]])
    BY <1>2
  <2>2. r.dir = FALSE /\ r \in OpType
    BY RoomRest
  <2>3. PICK b, t, w : b = r.dir /\ t = Fmt[n] /\ w = "write"
    OBVIOUS
  <2>4. len \in 0 .. MaxLen + 1 /\ b \in BOOLEAN /\ t \in Text /\ w \in {"write", "mkdir"}
        /\ ~b /\ w # "mkdir"
    <3>1. len \in 0 .. MaxLen + 1
      BY DiskAssumption
    <3>2. b \in BOOLEAN /\ ~b
      BY <2>2, <2>3
    <3>3. t \in Text /\ w \in {"write", "mkdir"} /\ w # "mkdir"
      BY <2>3, Texts
    <3> QED BY <3>1, <3>2, <3>3
  <2>5. PICK o : o = NewFile(r, w, len, t, b)
    OBVIOUS
  <2>6. [r EXCEPT !.cmd = w, !.need = len, !.name = t] = o
    BY <2>2, <2>3, <2>5 DEF OpType, NewFile
  <2>7. Start(o)
    BY <2>1, <2>3, <2>6
  <2>8. Opening(o)
    BY <2>4, <2>5, NewOpening
  <2> QED BY <1>1, <2>7, <2>8, OpeningTree
<1>3. CASE \E p \in DirPlace :
             /\ Found(cwd, n, p) /\ Removable(p)
             /\ Start([Idle EXCEPT !.cmd = "write", !.slot = p, !.cl = SlotAt(p).clus, !.need = len,
                                   !.name = SlotAt(p).name, !.dir = SlotAt(p).dir,
                                   !.over = SlotAt(p).clus # 0])
  BY <1>1, <1>3, OverwriteTree DEF Found, Removable, Usable
<1> QED BY <1>2, <1>3 DEF fat32_write_file

(* cd leads to a directory. *)
LEMMA CdTree ==
  ASSUME IInv, TreeInv, IInv', Careful, NEW c \in Cluster, fat32_cd(c)
  PROVE  TreeInv' /\ RefMove
<1>1. op = Idle /\ cwd' = c /\ UNCHANGED <<fat, data, op, torn, leaky>>
  BY DEF fat32_cd
<1>2. IsDir(c)
  <2>0. DirsSound
    BY DEF TreeInv
  <2>1. CASE c = Root
    BY <2>0, <2>1 DEF DirsSound
  <2>2. CASE \E n \in Name, p \in DirPlace :
               /\ Found(cwd, n, p) /\ Enterable(p)
               /\ c = IF SlotAt(p).clus = 0 THEN Root ELSE SlotAt(p).clus
    <3>1. PICK p \in DirPlace : /\ SlotAt(p).dir
                                /\ c = IF SlotAt(p).clus = 0 THEN Root ELSE SlotAt(p).clus
      BY <2>2 DEF Enterable
    <3>2. SlotAt(p).clus \in Cluster /\ IsDir(SlotAt(p).clus)
      BY <2>0, <3>1 DEF DirsSound
    <3> QED BY <3>1, <3>2, Numbering
  <2>3. CASE \E p \in DirPlace : SlotAt(p).kind = "dot" /\ c = SlotAt(p).clus
    BY <2>0, <2>3 DEF DirsSound
  <2> QED BY <2>1, <2>2, <2>3 DEF fat32_cd
<1>3. Suspended' = Suspended
  BY <1>1 DEF Suspended
<1>4. Quiet
  BY <1>1, <1>3, RefSame DEF Quiet, SlotAt
<1>5. DirsSound' /\ Acyclic'
  BY <1>1, <1>2, <1>3, <1>4, DiskKept DEF TreeInv, Quiet, DirsSound, IInv
<1>6. AllFound'
  BY <1>1, <1>4, IdleHand, FoundStep DEF TreeInv, Quiet
<1> QED BY <1>1, <1>4, <1>5, <1>6, IdleStage, Moves DEF TreeInv

-----------------------------------------------------------------------------
(* The invariant holds. *)

(* An empty disk is sound. *)
LEMMA InitTree == Init => TreeInv
<1> SUFFICES ASSUME Init PROVE TreeInv
  OBVIOUS
<1>1. /\ fat = [c \in Cluster |-> IF c = Root THEN EOC ELSE Free]
      /\ data = [c \in Cluster |-> IF c = Root THEN Blank ELSE NoDir]
      /\ cwd = Root /\ op = Idle /\ torn = {} /\ leaky = FALSE
  BY DEF Init
<1>2. \A c \in Cluster : fat[c] \notin Cluster /\ (c # Root => fat[c] = Free)
  BY <1>1, Numbering
<1>3. /\ IsDir(Root) /\ fat[Root] = EOC
      /\ \A c \in Cluster : IsDir(c) <=> c = Root
      /\ \A c \in Cluster : data[c] \in {Blank, NoDir}
  BY <1>1, Numbering, Blanks DEF IsDir
<1>4. \A p \in DirPlace : SlotAt(p).dir = FALSE /\ SlotAt(p).kind \notin {"ent", "dot"}
  BY <1>3, Blanks, Places DEF SlotAt
<1>5. \A p \in Place : Ref(p) = 0
  BY <1>2, <1>4, Places DEF Ref, HasNext
<1>6. Suspended = {}
  BY <1>1, IdleFields DEF Suspended
<1>7. DirsSound
  <2>1. \A c \in Cluster : IsDir(c) => fat[c] # Free
    BY <1>3, Numbering
  <2> QED BY <1>1, <1>2, <1>3, <1>4, <1>5, <1>6, <2>1, Places DEF DirsSound, HasNext
<1>8. Acyclic
  BY <1>2 DEF Acyclic
<1>9. StageSound
  BY <1>1, IdleFields DEF StageSound
<1>10. AllFound
  BY <1>2 DEF AllFound
<1> QED BY <1>7, <1>8, <1>9, <1>10 DEF TreeInv

(* Nothing changes: nothing breaks. *)
LEMMA StutterTree ==
  ASSUME TreeInv, UNCHANGED vars PROVE TreeInv' /\ RefMove
<1>1. fat' = fat /\ data' = data /\ cwd' = cwd /\ op' = op /\ torn' = torn /\ leaky' = leaky
  BY DEF vars
<1>2. Suspended' = Suspended
  BY <1>1 DEF Suspended
<1>3. \A p \in Place : Ref(p)' = Ref(p)
  BY <1>1, <1>2 DEF Ref, SlotAt
<1>4. DirsSound'
  <2>1. DirsSound
    BY DEF TreeInv
  <2>2. \A p \in Place : Ref(p)' # 0 /\ ~SlotAt(p)'.dir => Ref(p) # 0 /\ ~SlotAt(p).dir /\ Ref(p)' = Ref(p)
    BY <1>1, <1>3 DEF SlotAt
  <2>3. \A c : IsDir(c)' <=> IsDir(c)
    BY <1>1 DEF IsDir
  <2>4. \A p \in DirPlace : Ref(p)' # 0 /\ ~SlotAt(p)'.dir => ~IsDir(Ref(p)')
    BY <2>1, <2>2, <2>3, Places DEF DirsSound
  <2>5. \A p \in DirPlace : (Ref(p) # 0 /\ ~SlotAt(p).dir => ~IsDir(Ref(p)))'
    BY <2>4, <1>1 DEF IsDir
  <2> QED BY <2>1, <2>5, <1>1, <1>2, <2>3 DEF DirsSound, SlotAt, IsDir
<1>5. Acyclic'
  BY <1>1 DEF TreeInv, Acyclic
<1>6. StageSound'
  <2>1. \A p : Vacant(p)' <=> Vacant(p)
    BY <1>1, <1>2 DEF Vacant, IsDir, Ref, SlotAt
  <2>2. \A c : (IsDir(c)' <=> IsDir(c)) /\ (Pointed(c)' <=> Pointed(c))
    BY <1>1 DEF IsDir, Pointed, SlotAt
  <2>3. NewSound(op)' <=> NewSound(op)
    BY <1>1 DEF NewSound, IsDir
  <2>4. Ref(op.slot)' = Ref(op.slot)
    BY <1>1, <1>2 DEF Ref, SlotAt
  <2>5. (Vacant(op.slot)' <=> Vacant(op.slot)) /\ (Vacant(op.next)' <=> Vacant(op.next))
    BY <1>1, <1>2 DEF Vacant, IsDir, Ref, SlotAt
  <2>6. StageSound
    BY DEF TreeInv
  <2>7. /\ GrowSound => GrowSound'
        /\ AllocSound => AllocSound'
        /\ FreeSound => FreeSound'
    BY <1>1, <2>3, <2>5 DEF GrowSound, AllocSound, FreeSound, IsDir
  <2>8. /\ MarkSound => MarkSound'
        /\ RunSound => RunSound'
        /\ LfnSound => LfnSound'
        /\ DotsSound => DotsSound'
    BY <1>1, <2>3, <2>4, <2>5 DEF MarkSound, RunSound, LfnSound, DotsSound, IsDir
  <2>9. EntrySound => EntrySound'
    BY <1>1, <2>3, <2>5 DEF EntrySound, Pointed, SlotAt
  <2> QED BY <1>1, <2>6, <2>7, <2>8, <2>9 DEF StageSound
<1>7. AllFound'
  BY <1>1, <1>3 DEF TreeInv, AllFound, Hand
<1>8. RefMove
  BY <1>3, Moves DEF Quiet
<1> QED BY <1>4, <1>5, <1>6, <1>7, <1>8 DEF TreeInv

(* Every step keeps the tree sound and moves at most one reference. *)
LEMMA NextTree ==
  ASSUME IInv, TreeInv, Careful, [Next]_vars PROVE TreeInv' /\ RefMove
<1>1. IInv'
  BY NextIInv
<1>2. CASE Command
  BY <1>1, <1>2, CreateTree, WriteFileTree, DeleteTree, RenameTree, MkdirTree, CdTree DEF Command
<1>3. CASE Step
  BY <1>1, <1>3, GrowAllocTree, GrowLinkTree, FreeStepTree, AllocTakeTree, AllocLinkTree, MarkTree,
     FindRunTree, WriteLfnTree, WriteEntryTree, WriteDotsTree DEF Step
<1>4. CASE WriteFails
  BY <1>1, <1>4, WriteFailsTree
<1>5. CASE Crash
  BY <1>1, <1>5, CrashTree
<1>6. CASE UNCHANGED vars
  BY <1>6, StutterTree
<1> QED BY <1>2, <1>3, <1>4, <1>5, <1>6 DEF Next

(* The inductive invariant holds in every state: the disk and the command  *)
(* in progress fit together, also when the driver was killed in between.   *)
THEOREM TreeInvariance ==
  ASSUME Careful PROVE Spec => [](IInv /\ TreeInv)
<1>1. Init => IInv /\ TreeInv
  BY InitIInv, InitTree
<1>2. IInv /\ TreeInv /\ [Next]_vars => IInv' /\ TreeInv'
  BY NextIInv, NextTree
<1> QED BY <1>1, <1>2, PTL DEF Spec

(* The working directory and every slot that says it leads to a directory  *)
(* lead to a cluster that is in use and holds slots, whenever the driver   *)
(* was killed, whichever write failed.                                     *)
THEOREM TreeStaysSound ==
  ASSUME Careful PROVE Spec => []TreeSound
<1>1. IInv /\ TreeInv => TreeSound
  BY DEF IInv, TypeOK, TreeInv, DirsSound, TreeSound
<1> QED BY <1>1, TreeInvariance, PTL

(* As long as every command ran to its end, each cluster in use is         *)
(* referred to: rm, echo > and mkdir lose no space.                        *)
THEOREM NothingIsLost ==
  ASSUME Careful PROVE Spec => []NoLeak
<1>1. IInv /\ TreeInv => NoLeak
  BY IdleHand DEF TreeInv, AllFound, NoLeak
<1> QED BY <1>1, TreeInvariance, PTL

(* The references of the FAT and the directories, taken together, are an   *)
(* allocator of exclusive slots: a step gives a cluster that nobody refers *)
(* to to one place that refers to nothing, or takes one away.              *)
THEOREM ClustersAreExclusive ==
  ASSUME Careful PROVE Spec => ExclusiveClusters
<1> DEFINE refs == [p \in Place |-> IF Ref(p) = 0 THEN {} ELSE {Ref(p)}]
<1>1. Init => Volume!Init
  <2> SUFFICES ASSUME Init PROVE Volume!Init
    OBVIOUS
  <2>1. \A p \in Place : Ref(p) = 0
    <3>1. /\ fat = [c \in Cluster |-> IF c = Root THEN EOC ELSE Free]
          /\ data = [c \in Cluster |-> IF c = Root THEN Blank ELSE NoDir]
      BY DEF Init
    <3>2. \A c \in Cluster : fat[c] \notin Cluster /\ data[c] \in {Blank, NoDir}
      BY <3>1, Numbering
    <3>3. \A p \in DirPlace : SlotAt(p).kind # "ent"
      BY <3>2, Blanks, Places DEF SlotAt
    <3> QED BY <3>2, <3>3, Places DEF Ref, HasNext
  <2> QED BY <2>1 DEF Volume!Init
<1>2. ASSUME IInv, TreeInv, [Next]_vars PROVE [Volume!Next]_refs
  <2>1. RefMove /\ IInv'
    BY <1>2, NextTree, NextIInv
  <2>2. PICK q \in Place : /\ Kept(q)
                           /\ Ref(q)' = Ref(q) \/ Ref(q)' = 0 \/ (Ref(q) = 0 /\ Unref(Ref(q)'))
    BY <2>1 DEF RefMove
  <2>3. Ref(q) \in Cluster \cup {0} /\ Ref(q)' \in Cluster \cup {0}
    BY <1>2, <2>1, RefType, RefTypeNext DEF IInv
  <2>4. PICK a, b : a = Ref(q) /\ b = Ref(q)'
    OBVIOUS
  <2>5. \A p \in Place : p # q => Ref(p)' = Ref(p)
    BY <2>2 DEF Kept
  <2>6. refs' = [refs EXCEPT ![q] = IF b = 0 THEN {} ELSE {b}]
    BY <2>4, <2>5
  <2>7. refs[q] = IF a = 0 THEN {} ELSE {a}
    BY <2>4
  <2>8. CASE b = a
    BY <2>6, <2>7, <2>8
  <2>9. CASE b = 0 /\ b # a
    <3>1. a \in Cluster /\ a \in refs[q] /\ refs[q] \ {a} = {}
      BY <2>3, <2>4, <2>7, <2>9
    <3>2. refs' = [refs EXCEPT ![q] = @ \ {a}]
      BY <2>6, <2>9, <3>1
    <3>3. Volume!Return(q, a)
      BY <3>1, <3>2 DEF Volume!Return
    <3> QED BY <3>1, <3>3 DEF Volume!Next
  <2>10. CASE b # 0 /\ b # a
    <3>1. a = 0 /\ Unref(b) /\ b \in Cluster
      BY <2>2, <2>3, <2>4, <2>10
    <3>2. \A p \in Place : b \notin refs[p]
      BY <3>1 DEF Unref
    <3>3. refs[q] \cup {b} = {b}
      BY <2>7, <3>1
    <3>4. refs' = [refs EXCEPT ![q] = @ \cup {b}]
      BY <2>6, <2>10, <3>3
    <3>5. Volume!Grant(q, b)
      BY <3>2, <3>4 DEF Volume!Grant
    <3> QED BY <3>1, <3>5 DEF Volume!Next
  <2> QED BY <2>8, <2>9, <2>10
<1> QED BY <1>1, <1>2, TreeInvariance, PTL DEF Spec, ExclusiveClusters, Volume!Spec

-----------------------------------------------------------------------------
(* Chains.  The library's induction theorems take an operator; the least   *)
(* element of a set of numbers does as well.                               *)

(* A set of numbers that is not empty has a least element. *)
LEMMA LeastNumber ==
  ASSUME NEW S \in SUBSET Nat, S # {}
  PROVE  \E m \in S : \A k \in S : m <= k
<1>1. IsWellFoundedOn(OpToRel(<, Nat), Nat)
  BY NatLessThanWellFounded
<1>2. PICK R : R = OpToRel(<, Nat)
  OBVIOUS
<1>3. IsWellFoundedOn(R, Nat)
  BY <1>1, <1>2
<1>4. PICK x \in S : \A y \in S : ~(<<y, x>> \in R)
  BY <1>3, WFMin
<1>5. \A y \in Nat : <<y, x>> \in R <=> y < x
  BY <1>2 DEF OpToRel
<1>6. \A y \in S : y \in Nat /\ x \in Nat /\ ~(y < x)
  BY <1>4, <1>5
<1>7. \A y \in S : x <= y
  BY <1>6
<1> QED BY <1>7

(* Induction up to N, for a set of numbers. *)
LEMMA Induction ==
  ASSUME NEW N \in Nat, NEW a \in Nat, NEW S, a \in S,
         \A n \in a .. (N - 1) : n \in S => n + 1 \in S
  PROVE  \A n \in a .. N : n \in S
<1> SUFFICES ASSUME NEW n \in a .. N, n \notin S PROVE FALSE
  OBVIOUS
<1> DEFINE T == {k \in Nat : k \in a .. N /\ k \notin S}
<1>1. T \in SUBSET Nat /\ n \in T
  OBVIOUS
<1> HIDE DEF T
<1>2. PICK m \in T : \A k \in T : m <= k
  BY <1>1, LeastNumber
<1> USE DEF T
<1>3. m \in Nat /\ m \in a .. N /\ m \notin S /\ m # a
  BY <1>2
<1>4. m - 1 \in Nat /\ m - 1 \in a .. (N - 1) /\ (m - 1) + 1 = m
  BY <1>3
<1>5. m - 1 \notin T
  BY <1>2, <1>3, <1>4
<1>6. m - 1 \in S
  BY <1>4, <1>5
<1> QED BY <1>3, <1>4, <1>6

(* The recursive function of Chain(c), up to m. *)
Extend(v) == IF HasNext(fat[v[Len(v)]]) THEN Append(v, fat[v[Len(v)]]) ELSE v
Walks(c, m, w) == w = [n \in 1 .. m |-> IF n = 1 THEN <<c>> ELSE Extend(w[n - 1])]

(* There is such a function. *)
LEMMA WalkExists ==
  ASSUME NEW c, NEW N \in Nat PROVE \E w : Walks(c, N, w)
<1> DEFINE S == {m \in Nat : \E w : Walks(c, m, w)}
<1>1. 0 \in S
  <2>1. Walks(c, 0, [n \in 1 .. 0 |-> 0])
    BY DEF Walks
  <2> QED BY <2>1
<1>2. ASSUME NEW n \in 0 .. (N - 1), n \in S PROVE n + 1 \in S
  <2>1. PICK w : Walks(c, n, w)
    BY <1>2
  <2> DEFINE x == [k \in 1 .. (n + 1) |-> IF k = 1 THEN <<c>> ELSE Extend(w[k - 1])]
  <2>2. ASSUME NEW k \in 1 .. n PROVE x[k] = w[k]
    <3>1. k \in 1 .. (n + 1)
      OBVIOUS
    <3>2. x[k] = IF k = 1 THEN <<c>> ELSE Extend(w[k - 1])
      BY <3>1
    <3>3. w[k] = IF k = 1 THEN <<c>> ELSE Extend(w[k - 1])
      BY <2>1 DEF Walks
    <3> QED BY <3>2, <3>3
  <2>3. \A k \in 1 .. (n + 1) : k # 1 => k - 1 \in 1 .. n
    OBVIOUS
  <2>4. \A k \in 1 .. (n + 1) : k # 1 => x[k - 1] = w[k - 1]
    <3> HIDE DEF x
    <3> QED BY <2>2, <2>3
  <2>5. PICK y : y = x
    OBVIOUS
  <2>6. \A k \in 1 .. (n + 1) : k # 1 => y[k - 1] = w[k - 1]
    BY <2>4, <2>5
  <2>7. y = [k \in 1 .. (n + 1) |-> IF k = 1 THEN <<c>> ELSE Extend(y[k - 1])]
    BY <2>5, <2>6
  <2>8. Walks(c, n + 1, y)
    BY <2>7 DEF Walks
  <2> QED BY <2>8
<1> HIDE DEF S
<1>3. N \in S
  BY <1>1, <1>2, Induction
<1> USE DEF S
<1> QED BY <1>3

(* What Chain(c) is the last value of. *)
LEMMA ChainWalk ==
  ASSUME NEW c PROVE \E w : Walks(c, MaxCluster, w) /\ Chain(c) = w[MaxCluster]
<1> DEFINE w == CHOOSE w : w = [n \in 1 .. MaxCluster |->
                  IF n = 1 THEN <<c>>
                  ELSE LET v == w[n - 1] IN
                       IF HasNext(fat[v[Len(v)]]) THEN Append(v, fat[v[Len(v)]]) ELSE v]
<1>1. Chain(c) = w[MaxCluster]
  BY DEF Chain
<1>2. \E x : Walks(c, MaxCluster, x)
  BY WalkExists, DiskAssumption
<1>3. Walks(c, MaxCluster, w)
  BY <1>2 DEF Walks, Extend
<1> QED BY <1>1, <1>3

(* A path from c along the links. *)
Path(c, ch) ==
  /\ ch \in Seq(Cluster) /\ Len(ch) >= 1 /\ ch[1] = c
  /\ \A i \in 1 .. (Len(ch) - 1) : ch[i + 1] = fat[ch[i]]

(* Extending a path along the link of its last cluster. *)
LEMMA ExtendPath ==
  ASSUME TypeOK, NEW c \in Cluster, NEW v, Path(c, v)
  PROVE  /\ Path(c, Extend(v))
         /\ HasNext(fat[v[Len(v)]]) => Len(Extend(v)) = Len(v) + 1
         /\ ~HasNext(fat[v[Len(v)]]) => Extend(v) = v
<1> DEFINE l == Len(v)
<1>1. v \in Seq(Cluster) /\ l \in Nat /\ l >= 1
  BY DEF Path
<1>2. CASE HasNext(fat[v[l]])
  <2>1. PICK e : e = fat[v[l]]
    OBVIOUS
  <2>2. e \in Cluster
    BY <1>2, <2>1 DEF HasNext
  <2>3. PICK x : x = Append(v, e)
    OBVIOUS
  <2>4. Extend(v) = x
    BY <1>2, <2>1, <2>3 DEF Extend
  <2>5. /\ x \in Seq(Cluster) /\ Len(x) = l + 1
        /\ \A i \in 1 .. l : x[i] = v[i]
        /\ x[l + 1] = e
    BY <1>1, <2>2, <2>3, AppendProperties
  <2>6. ASSUME NEW i \in 1 .. (Len(x) - 1) PROVE x[i + 1] = fat[x[i]]
    <3>1. CASE i = l
      BY <2>1, <2>5, <3>1, <1>1
    <3>2. CASE i # l
      <4>1. i \in 1 .. l /\ i + 1 \in 1 .. l /\ i \in 1 .. (l - 1)
        BY <2>5, <1>1, <3>2
      <4> QED BY <4>1, <2>5 DEF Path
    <3> QED BY <3>1, <3>2
  <2>7. x[1] = c /\ Len(x) >= 1
    BY <1>1, <2>5 DEF Path
  <2> QED BY <1>2, <2>4, <2>5, <2>6, <2>7 DEF Path
<1>3. CASE ~HasNext(fat[v[l]])
  BY <1>3 DEF Extend
<1> QED BY <1>2, <1>3

(* Chain(c) is a path that ends, or one longer than the disk has clusters. *)
LEMMA ChainPath ==
  ASSUME TypeOK, NEW c \in Cluster, NEW ch, ch = Chain(c)
  PROVE  Path(c, ch) /\ (Len(ch) = MaxCluster \/ ~HasNext(fat[ch[Len(ch)]]))
<1>1. PICK w : Walks(c, MaxCluster, w) /\ ch = w[MaxCluster]
  BY ChainWalk
<1>2. MaxCluster \in Nat /\ MaxCluster >= 2
  BY DiskAssumption
<1> DEFINE Good(n) == Path(c, w[n]) /\ (Len(w[n]) = n \/ ~HasNext(fat[w[n][Len(w[n])]]))
           S == {n \in Nat : Good(n)}
<1>3. \A n \in 1 .. MaxCluster : w[n] = IF n = 1 THEN <<c>> ELSE Extend(w[n - 1])
  BY <1>1 DEF Walks
<1>4. 1 \in S
  <2>1. w[1] = <<c>>
    BY <1>2, <1>3
  <2>2. PICK v : v = w[1]
    OBVIOUS
  <2>3. v \in Seq(Cluster) /\ Len(v) = 1 /\ v[1] = c
    BY <2>1, <2>2
  <2>4. \A i \in 1 .. (Len(v) - 1) : FALSE
    BY <2>3
  <2>5. Path(c, v)
    BY <2>3, <2>4 DEF Path
  <2> QED BY <2>2, <2>3, <2>5
<1>5. ASSUME NEW n \in 1 .. (MaxCluster - 1), n \in S PROVE n + 1 \in S
  <2>1. n \in Nat /\ n + 1 \in 1 .. MaxCluster /\ n + 1 # 1 /\ (n + 1) - 1 = n
    BY <1>2
  <2>2. PICK v : v = w[n]
    OBVIOUS
  <2>3. w[n + 1] = Extend(v)
    BY <1>3, <2>1, <2>2
  <2>4. Path(c, v) /\ (Len(v) = n \/ ~HasNext(fat[v[Len(v)]]))
    BY <1>5, <2>2
  <2>5. /\ Path(c, Extend(v))
        /\ HasNext(fat[v[Len(v)]]) => Len(Extend(v)) = Len(v) + 1
        /\ ~HasNext(fat[v[Len(v)]]) => Extend(v) = v
    BY <2>4, ExtendPath
  <2>6. Good(n + 1)
    BY <2>3, <2>4, <2>5
  <2> QED BY <2>1, <2>6
<1> HIDE DEF S
<1>6. MaxCluster \in S
  <2>1. \A n \in 1 .. MaxCluster : n \in S
    BY <1>2, <1>4, <1>5, Induction
  <2> QED BY <2>1, <1>2
<1> USE DEF S
<1> QED BY <1>1, <1>6

(* A path passes no cluster twice. *)
LEMMA PathsDoNotMeet ==
  ASSUME TypeOK, Acyclic, NEW c \in Cluster, NEW ch, Path(c, ch),
         NEW i \in 1 .. Len(ch), NEW j \in 1 .. Len(ch), i < j
  PROVE  ch[i] # ch[j]
<1> SUFFICES ASSUME ch[i] = ch[j] PROVE FALSE
  OBVIOUS
<1> DEFINE S == {ch[k] : k \in i .. (j - 1)}
<1>1. ch \in Seq(Cluster) /\ Len(ch) \in Nat /\ i \in Nat /\ j \in Nat
  BY DEF Path
<1>2. \A k \in i .. (j - 1) : k \in 1 .. Len(ch) /\ k \in 1 .. (Len(ch) - 1) /\ ch[k] \in Cluster
  BY <1>1
<1>3. S \in SUBSET Cluster
  BY <1>2
<1>4. S # {}
  <2>1. i \in i .. (j - 1)
    BY <1>1
  <2> QED BY <2>1
<1>5. ASSUME NEW k \in i .. (j - 1) PROVE fat[ch[k]] \in S
  <2>1. fat[ch[k]] = ch[k + 1]
    BY <1>2 DEF Path
  <2>2. CASE k = j - 1
    <3>1. k + 1 = j /\ i \in i .. (j - 1)
      BY <1>1, <2>2
    <3>2. fat[ch[k]] = ch[i]
      BY <2>1, <3>1
    <3> QED BY <3>1, <3>2
  <2>3. CASE k # j - 1
    <3>1. k + 1 \in i .. (j - 1)
      BY <1>1, <2>3
    <3> QED BY <2>1, <3>1
  <2> QED BY <2>2, <2>3
<1>6. \A x \in S : fat[x] \in S
  BY <1>5
<1> HIDE DEF S
<1> QED BY <1>3, <1>4, <1>6 DEF Acyclic

(* The chain of c, whole: from c along the links to the end. *)
LEMMA ChainEnds ==
  ASSUME TypeOK, Acyclic, NEW c \in Cluster, NEW ch, ch = Chain(c)
  PROVE  Path(c, ch) /\ ~HasNext(fat[ch[Len(ch)]])
<1>1. Path(c, ch) /\ (Len(ch) = MaxCluster \/ ~HasNext(fat[ch[Len(ch)]]))
  BY ChainPath
<1>2. ASSUME Len(ch) = MaxCluster PROVE FALSE
  <2>1. MaxCluster \in Nat /\ MaxCluster >= 2 /\ 1 \in Int /\ 2 \in Int /\ MaxCluster \in Int
    BY DiskAssumption
  <2>2. /\ IsFiniteSet(1 .. MaxCluster) /\ Cardinality(1 .. MaxCluster) = MaxCluster
        /\ IsFiniteSet(Cluster) /\ Cardinality(Cluster) = MaxCluster - 1
    BY <2>1, FS_Interval DEF Cluster
  <2>3. ch \in [1 .. MaxCluster -> Cluster]
    BY <1>1, <1>2, LenProperties DEF Path
  <2>4. PICK n, d : n = 1 .. MaxCluster /\ d = Cluster
    OBVIOUS
  <2>5. IsFiniteSet(n) /\ IsFiniteSet(d) /\ Cardinality(d) < Cardinality(n) /\ ch \in [n -> d]
    BY <2>1, <2>2, <2>3, <2>4
  <2>6. \E x, y \in n : x # y /\ ch[x] = ch[y]
    BY <2>5, FS_PigeonHole
  <2>7. PICK x, y \in 1 .. Len(ch) : x # y /\ ch[x] = ch[y]
    BY <2>4, <2>6, <1>2
  <2>8. x < y \/ y < x
    BY <2>7, <1>2, <2>1
  <2> QED BY <1>1, <2>7, <2>8, PathsDoNotMeet
<1> QED BY <1>1, <1>2

(* No chain closes on itself: fat_chain_has_cycle() never has a reason to  *)
(* refuse a command, and the walks along chains end.                       *)
THEOREM ChainsEnd ==
  ASSUME Careful PROVE Spec => []NoCycle
<1>1. IInv /\ TreeInv => NoCycle
  <2> SUFFICES ASSUME IInv, TreeInv, NEW c \in Cluster
               PROVE  ~HasNext(fat[Chain(c)[Len(Chain(c))]])
    BY DEF NoCycle
  <2>1. PICK ch : ch = Chain(c)
    OBVIOUS
  <2>2. ~HasNext(fat[ch[Len(ch)]])
    BY <2>1, ChainEnds DEF IInv, TreeInv
  <2> QED BY <2>1, <2>2
<1> QED BY <1>1, TreeInvariance, PTL

-----------------------------------------------------------------------------
(* The end of a directory: the second inductive invariant, on top of the   *)
(* first.                                                                  *)

End(c, i) == data[c][i].kind = "end"
NoEnd(c) == \A i \in SlotIdx : ~End(c, i)

(* Behind the end of a directory there is nothing but the end: in the      *)
(* cluster, and in the one that its link leads to.                         *)
EndsSound ==
  /\ \A c \in Cluster, i, j \in SlotIdx : i < j /\ End(c, i) => End(c, j)
  /\ \A c \in Cluster : HasNext(fat[c]) => NoEnd(c) \/ \A j \in SlotIdx : End(fat[c], j)

(* Directories are entered at their first cluster. *)
HeadsSound == \A c \in Cluster : Pointed(c) => \A d \in Cluster : fat[d] # c

(* A slot that is in front of the end, or the end itself. *)
NoEndBefore(p) ==
  /\ \A j \in SlotIdx : j < p[2] => ~End(p[1], j)
  /\ \A d \in Cluster : fat[d] = p[1] => NoEnd(d)

(* Slot q is the next one of the directory behind p. *)
Follows(p, q) ==
  \/ q = <<p[1], p[2] + 1>>
  \/ p[2] = SlotsPerDir /\ q = <<fat[p[1]], 1>>

GrowEnd ==
  /\ op.new # 0 => ~Pointed(op.new)
  /\ op.slot = NoPlace => NoEnd(op.last)
  /\ op.slot # NoPlace => NoEndBefore(op.slot) /\ op.slot = <<op.last, SlotsPerDir>>

DotsEnd == fat[op.first] = EOC /\ \A d \in Cluster : fat[d] # op.first

(* Where a command writes, it does not write behind the end. *)
StageEnd ==
  /\ op.at = "grow" => GrowEnd
  /\ op.at \in {"free", "alloc", "entry"} /\ op.cmd # "delete" => NoEndBefore(op.slot)
  /\ op.at = "mark" => SlotAt(op.slot).kind # "end"
  /\ op.at = "lfn" => NoEndBefore(op.slot) /\ Follows(op.slot, op.next)
  /\ op.at = "dots" => DotsEnd

EndInv == EndsSound /\ HeadsSound /\ StageEnd

-----------------------------------------------------------------------------
(* The numbers of slots along a chain. *)

(* Quotient and remainder, from any way to write a number. *)
LEMMA Divide ==
  ASSUME NEW s \in Nat, s >= 2, NEW n \in Nat, NEW b \in Nat, NEW i \in 0 .. (s - 1), n = s * b + i
  PROVE  n \div s = b /\ n % s = i
<1>1. n \div s \in Nat /\ n % s \in 0 .. (s - 1) /\ n = s * (n \div s) + (n % s)
  OBVIOUS
<1>2. PICK q \in Nat, r \in 0 .. (s - 1) : q = n \div s /\ r = n % s
  BY <1>1
<1>3. s * b + i = s * q + r
  BY <1>1, <1>2
<1>4. q = b /\ r = i
  BY <1>3, SMTT(30)
<1> QED BY <1>2, <1>4

(* Products in order. *)
LEMMA Products ==
  ASSUME NEW s \in Nat, s >= 2, NEW b \in Nat, NEW l \in Nat
  PROVE  /\ b < l => s * b + s <= s * l
         /\ s * b \in Nat /\ s * l \in Nat /\ s * (b + 1) = s * b + s
         /\ \A i \in Nat : i >= 1 /\ s * b + i <= s * l => b < l
<1>1. s * b \in Nat /\ s * l \in Nat /\ s * (b + 1) = s * b + s
  OBVIOUS
<1>2. ASSUME b < l PROVE s * b + s <= s * l
  BY <1>2, SMTT(30)
<1>3. ASSUME NEW i \in Nat, i >= 1, s * b + i <= s * l PROVE b < l
  BY <1>3, SMTT(30)
<1> QED BY <1>1, <1>2, <1>3

(* Slot i of cluster b + 1 has the number SlotsPerDir * b + i. *)
LEMMA PlaceAt ==
  ASSUME NEW ch, NEW b \in Nat, NEW i \in SlotIdx
  PROVE  /\ SlotsPerDir * b + i \in Nat /\ SlotsPerDir * b + i >= 1
         /\ PlaceOf(ch, SlotsPerDir * b + i) = <<ch[b + 1], i>>
         /\ Nth(ch, SlotsPerDir * b + i) = data[ch[b + 1]][i]
         /\ \A l \in Nat : l = Len(ch) /\ b < l => SlotsPerDir * b + i \in Numbers(ch)
<1>1. SlotsPerDir \in Nat /\ SlotsPerDir >= 2 /\ i \in Nat /\ i >= 1 /\ i <= SlotsPerDir
  BY DiskAssumption DEF SlotIdx
<1>2. PICK k : k = SlotsPerDir * b + i
  OBVIOUS
<1>3. PICK s : s = SlotsPerDir
  OBVIOUS
<1>4. s * b \in Nat
  BY <1>1, <1>3
<1>5. k \in Nat /\ k >= 1 /\ k - 1 \in Nat /\ i - 1 \in 0 .. (s - 1) /\ k - 1 = s * b + (i - 1)
  BY <1>1, <1>2, <1>3, <1>4
<1>6. (k - 1) \div s = b /\ (k - 1) % s = i - 1
  <2>1. PICK n, m : n = k - 1 /\ m = i - 1
    OBVIOUS
  <2>2. n \in Nat /\ m \in 0 .. (s - 1) /\ n = s * b + m /\ s \in Nat /\ s >= 2
    BY <1>1, <1>3, <1>5, <2>1
  <2>3. n \div s = b /\ n % s = m
    BY <2>2, Divide
  <2> QED BY <2>1, <2>3
<1>7. (i - 1) + 1 = i
  BY <1>1
<1>8. PlaceOf(ch, k) = <<ch[b + 1], i>>
  BY <1>3, <1>6, <1>7 DEF PlaceOf
<1>9. Nth(ch, k) = data[ch[b + 1]][i]
  BY <1>8 DEF Nth, SlotAt
<1>10. ASSUME NEW l \in Nat, l = Len(ch), b < l PROVE k \in Numbers(ch)
  <2>1. s * b + s <= s * l /\ s * l \in Nat
    BY <1>1, <1>3, <1>10, Products
  <2> QED BY <1>1, <1>2, <1>3, <1>4, <1>5, <1>10, <2>1 DEF Numbers
<1> QED BY <1>2, <1>5, <1>8, <1>9, <1>10

(* Number k is that of a slot in one of l clusters. *)
Located(l, k) == \E b \in Nat, i \in SlotIdx : b < l /\ k = SlotsPerDir * b + i

(* Every number is that of a slot. *)
LEMMA NumberOf ==
  ASSUME NEW ch, NEW l \in Nat, l = Len(ch), NEW k \in Numbers(ch)
  PROVE  Located(l, k)
<1>1. PICK s : s = SlotsPerDir
  OBVIOUS
<1>2. s \in Nat /\ s >= 2 /\ SlotIdx = 1 .. s
  BY <1>1, DiskAssumption DEF SlotIdx
<1>3. s * l \in Nat
  BY <1>2
<1>4. k \in Nat /\ k >= 1 /\ k <= s * l /\ k - 1 \in Nat
  BY <1>1, <1>2, <1>3 DEF Numbers
<1>5. PICK n \in Nat : n = k - 1
  BY <1>4
<1>6. n \div s \in Nat /\ n % s \in 0 .. (s - 1) /\ n = s * (n \div s) + (n % s)
  BY <1>2
<1>7. PICK b \in Nat, r \in 0 .. (s - 1) : n = s * b + r
  BY <1>6
<1>8. s * b \in Nat /\ r + 1 \in SlotIdx /\ k = s * b + (r + 1) /\ r + 1 \in Nat /\ r + 1 >= 1
  BY <1>2, <1>4, <1>5, <1>7
<1>9. b < l
  BY <1>2, <1>4, <1>8, Products
<1> QED BY <1>1, <1>8, <1>9 DEF Located

(* The number behind a number is that of the next slot. *)
LEMMA NumberNext ==
  ASSUME NEW c \in Cluster, NEW ch, Path(c, ch), NEW k \in Numbers(ch), k + 1 \in Numbers(ch)
  PROVE  \E b \in Nat, i \in SlotIdx :
           /\ b < Len(ch) /\ PlaceOf(ch, k) = <<ch[b + 1], i>> /\ ch[b + 1] \in Cluster
           /\ \/ i + 1 \in SlotIdx /\ PlaceOf(ch, k + 1) = <<ch[b + 1], i + 1>>
              \/ /\ i = SlotsPerDir /\ HasNext(fat[ch[b + 1]])
                 /\ PlaceOf(ch, k + 1) = <<fat[ch[b + 1]], 1>>
<1>1. PICK s, l : s = SlotsPerDir /\ l = Len(ch)
  OBVIOUS
<1>2. s \in Nat /\ s >= 2 /\ SlotIdx = 1 .. s /\ l \in Nat /\ ch \in Seq(Cluster)
  BY <1>1, DiskAssumption DEF SlotIdx, Path
<1>3. PICK b \in Nat, i \in SlotIdx : b < l /\ k = s * b + i
  <2>1. l \in Nat /\ l = Len(ch) /\ k \in Numbers(ch)
    BY <1>1, <1>2
  <2>2. Located(l, k)
    BY <2>1, NumberOf
  <2> QED BY <1>1, <2>2 DEF Located
<1>4. s * b \in Nat /\ i \in Nat /\ i >= 1 /\ i <= s /\ s * l \in Nat
  BY <1>2
<1>5. PlaceOf(ch, k) = <<ch[b + 1], i>>
  BY <1>1, <1>3, PlaceAt
<1>6. b + 1 \in 1 .. l /\ ch[b + 1] \in Cluster
  BY <1>1, <1>2, <1>3
<1>7. CASE i # s
  <2>1. i + 1 \in SlotIdx
    BY <1>2, <1>4, <1>7
  <2>2. PlaceOf(ch, s * b + (i + 1)) = <<ch[b + 1], i + 1>>
    BY <1>1, <2>1, PlaceAt
  <2>3. k + 1 = s * b + (i + 1)
    BY <1>3, <1>4
  <2> QED BY <1>1, <1>3, <1>5, <1>6, <2>1, <2>2, <2>3
<1>8. CASE i = s
  <2>1. s * (b + 1) = s * b + s /\ b + 1 \in Nat
    BY <1>2, Products
  <2>2. k + 1 = s * (b + 1) + 1
    BY <1>3, <1>4, <1>8, <2>1
  <2>3. k + 1 <= s * l
    BY <1>1, <1>4, <1>3 DEF Numbers
  <2>4. b + 1 < l
    <3>1. PICK e \in Nat : e = b + 1
      BY <2>1
    <3>2. s * e + 1 <= s * l
      BY <2>2, <2>3, <3>1
    <3> QED BY <1>2, <3>1, <3>2, Products
  <2>5. 1 \in SlotIdx
    BY <1>2
  <2>6. PlaceOf(ch, s * (b + 1) + 1) = <<ch[(b + 1) + 1], 1>>
    <3>1. PICK e \in Nat, o \in SlotIdx : e = b + 1 /\ o = 1
      BY <2>1, <2>5
    <3>2. PlaceOf(ch, SlotsPerDir * e + o) = <<ch[e + 1], o>>
      BY PlaceAt
    <3> QED BY <1>1, <3>1, <3>2
  <2>7. ch[(b + 1) + 1] = fat[ch[b + 1]]
    <3>1. b + 1 \in 1 .. (l - 1)
      BY <1>2, <2>4
    <3> QED BY <1>1, <3>1 DEF Path
  <2>8. HasNext(fat[ch[b + 1]])
    <3>1. (b + 1) + 1 \in 1 .. l
      BY <1>2, <2>4
    <3> QED BY <1>1, <1>2, <2>7, <3>1 DEF HasNext
  <2> QED BY <1>1, <1>3, <1>5, <1>6, <1>8, <2>2, <2>6, <2>7, <2>8
<1> QED BY <1>7, <1>8

(* Behind the end comes the end. *)
LEMMA EndNext ==
  ASSUME EndsSound, NEW c \in Cluster, NEW ch, Path(c, ch), NEW k \in Numbers(ch),
         k + 1 \in Numbers(ch), Nth(ch, k).kind = "end"
  PROVE  Nth(ch, k + 1).kind = "end"
<1>1. PICK b \in Nat, i \in SlotIdx :
           /\ b < Len(ch) /\ PlaceOf(ch, k) = <<ch[b + 1], i>> /\ ch[b + 1] \in Cluster
           /\ \/ i + 1 \in SlotIdx /\ PlaceOf(ch, k + 1) = <<ch[b + 1], i + 1>>
              \/ /\ i = SlotsPerDir /\ HasNext(fat[ch[b + 1]])
                 /\ PlaceOf(ch, k + 1) = <<fat[ch[b + 1]], 1>>
  BY NumberNext
<1>2. PICK x \in Cluster : x = ch[b + 1]
  BY <1>1
<1>3. End(x, i)
  BY <1>1, <1>2 DEF Nth, SlotAt, End
<1>4. CASE i + 1 \in SlotIdx /\ PlaceOf(ch, k + 1) = <<x, i + 1>>
  <2>1. i < i + 1
    BY DEF SlotIdx
  <2>2. End(x, i + 1)
    BY <1>3, <1>4, <2>1 DEF EndsSound
  <2> QED BY <1>4, <2>2 DEF Nth, SlotAt, End
<1>5. CASE HasNext(fat[x]) /\ PlaceOf(ch, k + 1) = <<fat[x], 1>>
  <2>1. End(fat[x], 1)
    BY <1>3, <1>5, Numbering DEF EndsSound, NoEnd
  <2> QED BY <1>5, <2>1 DEF Nth, SlotAt, End
<1> QED BY <1>1, <1>2, <1>4, <1>5

(* Everything behind the end is the end. *)
LEMMA EndStays ==
  ASSUME EndsSound, NEW c \in Cluster, NEW ch, Path(c, ch), NEW k \in Numbers(ch),
         NEW j \in 1 .. k, Nth(ch, j).kind = "end"
  PROVE  Nth(ch, k).kind = "end"
<1>1. SlotsPerDir * Len(ch) \in Nat
  <2>1. Len(ch) \in Nat
    BY DEF Path
  <2> QED BY <2>1, DiskAssumption
<1>2. k \in Nat /\ j \in Nat /\ \A n \in 1 .. k : n \in Numbers(ch)
  BY <1>1 DEF Numbers
<1> DEFINE T == {n \in Nat : Nth(ch, n).kind = "end"}
<1>3. j \in T
  BY <1>2
<1>4. ASSUME NEW n \in j .. (k - 1), n \in T PROVE n + 1 \in T
  <2>1. n \in Numbers(ch) /\ n + 1 \in Numbers(ch) /\ n + 1 \in Nat
    BY <1>2
  <2> QED BY <1>4, <2>1, EndNext
<1> HIDE DEF T
<1>5. \A n \in j .. k : n \in T
  BY <1>2, <1>3, <1>4, Induction
<1>6. k \in T
  BY <1>2, <1>5
<1> QED BY <1>6 DEF T

(* A cluster is linked to by one cluster at most. *)
LEMMA OneLink ==
  ASSUME NoSharedCluster, NEW d \in Cluster, NEW e \in Cluster, fat[d] = fat[e], HasNext(fat[d])
  PROVE  d = e
<1>1. /\ <<d, 0>> \in Place /\ Ref(<<d, 0>>) = fat[d] /\ fat[d] # 0
      /\ <<e, 0>> \in Place /\ Ref(<<e, 0>>) = fat[e]
  BY LinkRef
<1>2. <<d, 0>> = <<e, 0>>
  BY <1>1 DEF NoSharedCluster
<1> QED BY <1>2

(* Where nothing in front is the end of the directory. *)
LEMMA FrontOfEnd ==
  ASSUME NoSharedCluster, HeadsSound, NEW c \in Cluster, Pointed(c), NEW ch, Path(c, ch),
         NEW k \in Numbers(ch), \A j \in Numbers(ch) : j < k => Nth(ch, j).kind # "end"
  PROVE  NoEndBefore(PlaceOf(ch, k))
<1>1. PICK s, l : s = SlotsPerDir /\ l = Len(ch)
  OBVIOUS
<1>2. s \in Nat /\ s >= 2 /\ SlotIdx = 1 .. s /\ l \in Nat /\ ch \in Seq(Cluster)
  BY <1>1, DiskAssumption DEF SlotIdx, Path
<1>3. PICK b \in Nat, i \in SlotIdx : b < l /\ k = s * b + i
  <2>1. l \in Nat /\ l = Len(ch) /\ k \in Numbers(ch)
    BY <1>1, <1>2
  <2>2. Located(l, k)
    BY <2>1, NumberOf
  <2> QED BY <1>1, <2>2 DEF Located
<1>4. PlaceOf(ch, k) = <<ch[b + 1], i>>
  BY <1>1, <1>3, PlaceAt
<1>5. s * b \in Nat
  BY <1>2
<1>6. ASSUME NEW j \in SlotIdx, j < i PROVE ~End(ch[b + 1], j)
  <2>1. s * b + j \in Numbers(ch) /\ Nth(ch, s * b + j) = data[ch[b + 1]][j]
    <3>1. /\ Nth(ch, SlotsPerDir * b + j) = data[ch[b + 1]][j]
          /\ \A n \in Nat : n = Len(ch) /\ b < n => SlotsPerDir * b + j \in Numbers(ch)
      BY PlaceAt
    <3> QED BY <1>1, <1>2, <1>3, <3>1
  <2>2. s * b + j < k
    BY <1>2, <1>3, <1>5, <1>6
  <2> QED BY <2>1, <2>2 DEF End
<1>7. ASSUME NEW d \in Cluster, fat[d] = ch[b + 1] PROVE NoEnd(d)
  <2>1. b # 0
    <3>1. ASSUME b = 0 PROVE ch[b + 1] = c
      BY <3>1 DEF Path
    <3> QED BY <1>7, <3>1 DEF HeadsSound
  <2>2. PICK a \in Nat : b = a + 1
    <3>1. b - 1 \in Nat /\ b = (b - 1) + 1
      BY <2>1
    <3> QED BY <3>1
  <2>3. b \in 1 .. (l - 1) /\ b \in 1 .. l /\ b + 1 \in 1 .. l
    BY <1>2, <1>3, <2>1
  <2>4. ch[b + 1] = fat[ch[b]] /\ ch[b] \in Cluster /\ ch[b + 1] \in Cluster
    BY <1>1, <1>2, <2>3 DEF Path
  <2>5. d = ch[b]
    BY <1>7, <2>4, OneLink DEF HasNext
  <2>6. ASSUME NEW m \in SlotIdx PROVE ~End(d, m)
    <3>1. a < l /\ s * b = s * a + s /\ s * a \in Nat
      BY <1>2, <2>2, <2>3, Products
    <3>2. s * a + m \in Numbers(ch) /\ Nth(ch, s * a + m) = data[ch[a + 1]][m]
      <4>1. /\ Nth(ch, SlotsPerDir * a + m) = data[ch[a + 1]][m]
            /\ \A n \in Nat : n = Len(ch) /\ a < n => SlotsPerDir * a + m \in Numbers(ch)
        BY PlaceAt
      <4> QED BY <1>1, <1>2, <3>1, <4>1
    <3>3. s * a + m < k
      BY <1>2, <1>3, <3>1
    <3> QED BY <2>2, <2>5, <3>2, <3>3 DEF End
  <2> QED BY <2>6 DEF NoEnd
<1>8. PICK p : p = <<ch[b + 1], i>>
  OBVIOUS
<1>9. p[1] = ch[b + 1] /\ p[2] = i
  BY <1>8
<1>10. NoEndBefore(p)
  BY <1>6, <1>7, <1>9 DEF NoEndBefore
<1> QED BY <1>4, <1>8, <1>10

(* The last cluster of a directory without an end. *)
LEMMA LastNoEnd ==
  ASSUME NEW c \in Cluster, NEW ch, Path(c, ch), \A j \in Numbers(ch) : Nth(ch, j).kind # "end"
  PROVE  NoEnd(ch[Len(ch)])
<1>1. PICK s, l : s = SlotsPerDir /\ l = Len(ch)
  OBVIOUS
<1>2. l \in Nat /\ l >= 1
  BY <1>1 DEF Path
<1>3. PICK b \in Nat : l = b + 1
  <2>1. l - 1 \in Nat /\ l = (l - 1) + 1
    BY <1>2
  <2> QED BY <2>1
<1>4. ASSUME NEW i \in SlotIdx PROVE ~End(ch[b + 1], i)
  <2>1. b < l
    BY <1>2, <1>3
  <2>2. s * b + i \in Numbers(ch) /\ Nth(ch, s * b + i) = data[ch[b + 1]][i]
    BY <1>1, <1>2, <2>1, PlaceAt
  <2> QED BY <2>2 DEF End
<1> QED BY <1>1, <1>3, <1>4 DEF NoEnd

(* The very last slot of a directory. *)
LEMMA TailPlace ==
  ASSUME NEW c \in Cluster, NEW ch, Path(c, ch)
  PROVE  /\ SlotsPerDir * Len(ch) \in Numbers(ch)
         /\ PlaceOf(ch, SlotsPerDir * Len(ch)) = <<ch[Len(ch)], SlotsPerDir>>
<1>1. PICK s, l : s = SlotsPerDir /\ l = Len(ch)
  OBVIOUS
<1>2. l \in Nat /\ l >= 1 /\ s \in Nat /\ s \in SlotIdx /\ s >= 2
  BY <1>1, DiskAssumption DEF Path, SlotIdx
<1>3. PICK b \in Nat : l = b + 1
  <2>1. l - 1 \in Nat /\ l = (l - 1) + 1
    BY <1>2
  <2> QED BY <2>1
<1>4. s * l = s * b + s /\ b < l
  BY <1>2, <1>3, Products
<1>5. s * b + s \in Numbers(ch) /\ PlaceOf(ch, s * b + s) = <<ch[b + 1], s>>
  BY <1>1, <1>2, <1>4, PlaceAt
<1> QED BY <1>1, <1>3, <1>4, <1>5

-----------------------------------------------------------------------------
(* Where commands find room. *)

(* Two slots in a row that are the end are a run of free slots. *)
LEMMA EndRun ==
  ASSUME EndsSound, NEW c \in Cluster, NEW ch, Path(c, ch), NEW j \in Numbers(ch),
         Nth(ch, j).kind = "end", j + 1 \in Numbers(ch)
  PROVE  j \in FreeNumbers(ch) /\ j + 1 \in FreeNumbers(ch)
BY EndNext DEF FreeNumbers

(* The chain of the working directory, which is entered at its first       *)
(* cluster.                                                                *)
LEMMA CwdChain ==
  ASSUME IInv, TreeInv, NEW ch, ch = Chain(cwd)
  PROVE  /\ cwd \in Cluster /\ Pointed(cwd) /\ Path(cwd, ch)
         /\ \A k \in Numbers(ch) : k \in Nat /\ k >= 1 /\ k <= SlotsPerDir * Len(ch)
         /\ SlotsPerDir * Len(ch) \in Nat
<1>1. cwd \in Cluster /\ Pointed(cwd)
  BY DEF IInv, TypeOK, Pointed
<1>2. Path(cwd, ch)
  BY <1>1, ChainEnds DEF IInv, TreeInv
<1>3. SlotsPerDir * Len(ch) \in Nat
  <2>1. Len(ch) \in Nat
    BY <1>2 DEF Path
  <2> QED BY <2>1, DiskAssumption
<1> QED BY <1>1, <1>2, <1>3 DEF Numbers

(* What dir_scan reports as free has no end in front of it. *)
LEMMA RoomEnd ==
  ASSUME IInv, TreeInv, EndInv, NEW r \in Room(cwd)
  PROVE  \/ r.last = 0 /\ NoEndBefore(r.slot)
         \/ r.slot = NoPlace /\ NoEnd(r.last)
<1>1. PICK ch, free : ch = Chain(cwd) /\ free = FreeNumbers(ch)
  OBVIOUS
<1>2. /\ cwd \in Cluster /\ Pointed(cwd) /\ Path(cwd, ch)
      /\ \A k \in Numbers(ch) : k \in Nat
  BY <1>1, CwdChain
<1>3. \/ \E k : IsFirst(k, free) /\ r = [Idle EXCEPT !.slot = PlaceOf(ch, k)]
      \/ free = {} /\ r = [Idle EXCEPT !.last = ch[Len(ch)]]
  BY <1>1 DEF Room
<1>4. ASSUME NEW k, IsFirst(k, free), r = [Idle EXCEPT !.slot = PlaceOf(ch, k)]
      PROVE  r.last = 0 /\ NoEndBefore(r.slot)
  <2>1. k \in Numbers(ch) /\ \A j \in free : k <= j
    BY <1>1, <1>4 DEF IsFirst, FreeNumbers
  <2>2. ASSUME NEW j \in Numbers(ch), j < k PROVE Nth(ch, j).kind # "end"
    <3>1. j \notin free
      BY <1>2, <2>1, <2>2
    <3> QED BY <1>1, <3>1 DEF FreeNumbers
  <2>3. NoEndBefore(PlaceOf(ch, k))
    BY <1>2, <2>1, <2>2, FrontOfEnd DEF IInv, EndInv
  <2>4. PICK p : p = PlaceOf(ch, k)
    OBVIOUS
  <2>5. r = [Idle EXCEPT !.slot = p]
    BY <1>4, <2>4
  <2>6. r.last = Idle.last /\ r.slot = p
    BY <2>5, IdleFields DEF OpType
  <2> QED BY <2>3, <2>4, <2>6, IdleFields
<1>5. ASSUME free = {}, r = [Idle EXCEPT !.last = ch[Len(ch)]]
      PROVE  r.slot = NoPlace /\ NoEnd(r.last)
  <2>1. NoEnd(ch[Len(ch)])
    <3>1. \A j \in Numbers(ch) : Nth(ch, j).kind # "end"
      BY <1>1, <1>5 DEF FreeNumbers
    <3> QED BY <1>2, <3>1, LastNoEnd
  <2>2. PICK c : c = ch[Len(ch)]
    OBVIOUS
  <2>3. r = [Idle EXCEPT !.last = c]
    BY <1>5, <2>2
  <2>4. r.last = c /\ r.slot = Idle.slot
    BY <2>3, IdleFields DEF OpType
  <2> QED BY <2>1, <2>2, <2>4, IdleFields
<1> QED BY <1>3, <1>4, <1>5

(* What dir_find_or_grow_run returns: two slots in a row, the last slot of *)
(* the directory, or none, and no end in front of them.                    *)
LEMMA RunEnd ==
  ASSUME IInv, TreeInv, EndInv, NEW b \in OpType, NEW o \in Run(cwd, b), b.last = 0
  PROVE  \/ o.last = 0 /\ NoEndBefore(o.slot) /\ Follows(o.slot, o.next)
         \/ o.slot = NoPlace /\ NoEnd(o.last)
         \/ NoEndBefore(o.slot) /\ o.slot = <<o.last, SlotsPerDir>>
<1> DEFINE ch == Chain(cwd)
           free == FreeNumbers(ch)
           runs == {k \in free : k + 1 \in free}
           tail == SlotsPerDir * Len(ch)
<1>0. PICK A, B : /\ Run(cwd, b) = A \cup B
                  /\ A = {[b EXCEPT !.slot = w[1], !.next = w[2]] :
                         w \in {v \in {<<PlaceOf(ch, k), PlaceOf(ch, k + 1)>> : k \in {j \in runs : IsFirst(j, runs)}} :
                                  IsFreePlace(v[1]) /\ IsFreePlace(v[2])}}
                  /\ B = {[b EXCEPT !.slot = w[1], !.last = w[2]] :
                         w \in {v \in {<<IF tail \in free THEN PlaceOf(ch, tail) ELSE NoPlace, ch[Len(ch)]>>} :
                                  runs = {} /\ (v[1] = NoPlace \/ IsFreePlace(v[1])) /\ IsLast(v[2])}}
  BY Zenon DEF Run
<1>1. ch = Chain(cwd) /\ free = FreeNumbers(ch) /\ tail = SlotsPerDir * Len(ch)
  OBVIOUS
<1>2. runs = {k \in free : k + 1 \in free}
  OBVIOUS
<1> HIDE DEF ch, free, runs, tail
<1>3. /\ cwd \in Cluster /\ Pointed(cwd) /\ Path(cwd, ch)
      /\ \A k \in Numbers(ch) : k \in Nat /\ k >= 1 /\ k <= tail
      /\ tail \in Nat
  BY <1>1, CwdChain
<1>4. \/ \E k : IsFirst(k, runs) /\ o = [b EXCEPT !.slot = PlaceOf(ch, k), !.next = PlaceOf(ch, k + 1)]
      \/ runs = {} /\ o = [b EXCEPT !.slot = IF tail \in free THEN PlaceOf(ch, tail) ELSE NoPlace,
                                    !.last = ch[Len(ch)]]
  <2>2. ASSUME o \in A
        PROVE  \E k : IsFirst(k, runs) /\ o = [b EXCEPT !.slot = PlaceOf(ch, k), !.next = PlaceOf(ch, k + 1)]
    <3>1. PICK k, w : IsFirst(k, runs) /\ w = <<PlaceOf(ch, k), PlaceOf(ch, k + 1)>>
                      /\ o = [b EXCEPT !.slot = w[1], !.next = w[2]]
      BY <1>0, <2>2, Zenon
    <3>2. w[1] = PlaceOf(ch, k) /\ w[2] = PlaceOf(ch, k + 1)
      BY <3>1
    <3> QED BY <3>1, <3>2, Zenon
  <2>3. ASSUME o \in B
        PROVE  runs = {} /\ o = [b EXCEPT !.slot = IF tail \in free THEN PlaceOf(ch, tail) ELSE NoPlace,
                                         !.last = ch[Len(ch)]]
    <3>1. PICK p, w : /\ p = (IF tail \in free THEN PlaceOf(ch, tail) ELSE NoPlace)
                      /\ w = <<p, ch[Len(ch)]>> /\ runs = {} /\ o = [b EXCEPT !.slot = w[1], !.last = w[2]]
      BY <1>0, <2>3, Zenon
    <3>2. w[1] = p /\ w[2] = ch[Len(ch)]
      BY <3>1
    <3> QED BY <3>1, <3>2, Zenon
  <2> QED BY <1>0, <2>2, <2>3
<1>5. ASSUME NEW k, IsFirst(k, runs), o = [b EXCEPT !.slot = PlaceOf(ch, k), !.next = PlaceOf(ch, k + 1)]
      PROVE  o.last = 0 /\ NoEndBefore(o.slot) /\ Follows(o.slot, o.next)
  <2>1. k \in Numbers(ch) /\ k + 1 \in Numbers(ch) /\ \A j \in runs : k <= j
    BY <1>1, <1>2, <1>5 DEF IsFirst, FreeNumbers
  <2>2. ASSUME NEW j \in Numbers(ch), j < k, Nth(ch, j).kind = "end" PROVE FALSE
    <3>1. j + 1 \in Numbers(ch)
      BY <1>1, <1>3, <2>1, <2>2 DEF Numbers
    <3>2. j \in runs
      BY <1>1, <1>2, <1>3, <2>2, <3>1, EndRun DEF EndInv
    <3> QED BY <1>3, <2>1, <2>2, <3>2
  <2>3. NoEndBefore(PlaceOf(ch, k))
    BY <1>3, <2>1, <2>2, FrontOfEnd DEF IInv, EndInv
  <2>4. PICK e \in Nat, i \in SlotIdx :
           /\ e < Len(ch) /\ PlaceOf(ch, k) = <<ch[e + 1], i>> /\ ch[e + 1] \in Cluster
           /\ \/ i + 1 \in SlotIdx /\ PlaceOf(ch, k + 1) = <<ch[e + 1], i + 1>>
              \/ /\ i = SlotsPerDir /\ HasNext(fat[ch[e + 1]])
                 /\ PlaceOf(ch, k + 1) = <<fat[ch[e + 1]], 1>>
    BY <1>3, <2>1, NumberNext
  <2>5. PICK p, q : p = PlaceOf(ch, k) /\ q = PlaceOf(ch, k + 1)
    OBVIOUS
  <2>6. p[1] = ch[e + 1] /\ p[2] = i
    BY <2>4, <2>5
  <2>7. Follows(p, q)
    BY <2>4, <2>5, <2>6 DEF Follows
  <2>8. o = [b EXCEPT !.slot = p, !.next = q]
    BY <1>5, <2>5
  <2>9. o.last = b.last /\ o.slot = p /\ o.next = q
    BY <2>8 DEF OpType
  <2> QED BY <2>3, <2>5, <2>7, <2>9
<1>6. ASSUME runs = {}, o = [b EXCEPT !.slot = IF tail \in free THEN PlaceOf(ch, tail) ELSE NoPlace,
                                      !.last = ch[Len(ch)]]
      PROVE  \/ o.slot = NoPlace /\ NoEnd(o.last)
             \/ NoEndBefore(o.slot) /\ o.slot = <<o.last, SlotsPerDir>>
  <2>1. ASSUME NEW j \in Numbers(ch), j < tail, Nth(ch, j).kind = "end" PROVE FALSE
    <3>1. j + 1 \in Numbers(ch)
      BY <1>1, <1>3, <2>1 DEF Numbers
    <3> QED BY <1>1, <1>2, <1>3, <1>6, <2>1, <3>1, EndRun DEF EndInv
  <2>2. PICK p, c : p = (IF tail \in free THEN PlaceOf(ch, tail) ELSE NoPlace) /\ c = ch[Len(ch)]
    OBVIOUS
  <2>3. o = [b EXCEPT !.slot = p, !.last = c]
    BY <1>6, <2>2
  <2>4. o.slot = p /\ o.last = c
    BY <2>3 DEF OpType
  <2>5. tail \in Numbers(ch) /\ PlaceOf(ch, tail) = <<c, SlotsPerDir>>
    BY <1>1, <1>3, <2>2, TailPlace
  <2>6. CASE tail \in free
    <3>1. NoEndBefore(PlaceOf(ch, tail))
      BY <1>3, <2>1, <2>5, FrontOfEnd DEF IInv, EndInv
    <3> QED BY <2>2, <2>4, <2>5, <2>6, <3>1
  <2>7. CASE tail \notin free
    <3>1. ASSUME NEW j \in Numbers(ch) PROVE Nth(ch, j).kind # "end"
      <4>1. j = tail => Nth(ch, j).kind # "end"
        BY <1>1, <2>5, <2>7 DEF FreeNumbers
      <4>2. j # tail => j < tail
        BY <1>3
      <4> QED BY <2>1, <4>1, <4>2
    <3>2. NoEnd(c)
      BY <1>3, <2>2, <3>1, LastNoEnd
    <3> QED BY <2>2, <2>4, <2>7, <3>2
  <2> QED BY <2>6, <2>7
<1> QED BY <1>4, <1>5, <1>6

-----------------------------------------------------------------------------
(* What a write does to the ends of directories. *)

(* Everything about the end that a step leaves as it is. *)
SameEnds == \A c \in Cluster, i \in SlotIdx : End(c, i)' <=> End(c, i)


(* Writes that move no end. *)
LEMMA QuietEnds ==
  ASSUME EndsSound, fat' = fat, SameEnds
  PROVE  EndsSound' /\ \A p \in DirPlace : NoEndBefore(p) => NoEndBefore(p)'
<1>1. EndsSound'
  <2>1. ASSUME NEW c \in Cluster, NEW i \in SlotIdx, NEW j \in SlotIdx, i < j, End(c, i)' PROVE End(c, j)'
    BY <2>1 DEF EndsSound, SameEnds
  <2>2. ASSUME NEW c \in Cluster, HasNext(fat[c])' PROVE NoEnd(c)' \/ \A j \in SlotIdx : End(fat[c], j)'
    <3>1. HasNext(fat[c]) /\ fat[c] \in Cluster /\ fat'[c] = fat[c]
      BY <2>2 DEF HasNext
    <3>2. CASE NoEnd(c)
      BY <3>2 DEF NoEnd, SameEnds
    <3>3. CASE \A j \in SlotIdx : End(fat[c], j)
      <4>1. PICK d \in Cluster : d = fat[c]
        BY <3>1
      <4>2. \A j \in SlotIdx : End(d, j)'
        BY <3>3, <4>1 DEF SameEnds
      <4>3. \A j \in SlotIdx : End(fat[c], j)'
        BY <3>1, <4>1, <4>2 DEF End
      <4> QED BY <4>3
    <3> QED BY <3>1, <3>2, <3>3 DEF EndsSound
  <2> QED BY <2>1, <2>2 DEF EndsSound
<1>2. ASSUME NEW p \in DirPlace, NoEndBefore(p) PROVE NoEndBefore(p)'
  <2>1. p[1] \in Cluster
    BY Places
  <2>2. \A j \in SlotIdx : j < p[2] => ~End(p[1], j)'
    BY <1>2, <2>1 DEF NoEndBefore, SameEnds
  <2>3. ASSUME NEW d \in Cluster, fat'[d] = p[1] PROVE NoEnd(d)'
    BY <1>2, <2>3 DEF NoEndBefore, NoEnd, SameEnds
  <2> QED BY <2>2, <2>3 DEF NoEndBefore
<1> QED BY <1>1, <1>2

(* A cluster that nothing links to gets other contents, and no link. *)
LEMMA ClusterEnds ==
  ASSUME EndsSound, NEW c \in Cluster, \A d \in Cluster : fat[d] # c, fat'[c] \notin Cluster,
         \A d \in Cluster : d # c => fat'[d] = fat[d] /\ data'[d] = data[d],
         \A i, j \in SlotIdx : i < j /\ End(c, i)' => End(c, j)'
  PROVE  /\ EndsSound'
         /\ \A p \in DirPlace : p[1] # c /\ NoEndBefore(p) => NoEndBefore(p)'
         /\ \A d \in Cluster : d # c /\ NoEnd(d) => NoEnd(d)'
<1>1. ASSUME NEW d \in Cluster, d # c PROVE \A i \in SlotIdx : End(d, i)' <=> End(d, i)
  BY <1>1 DEF End
<1>2. EndsSound'
  <2>1. ASSUME NEW d \in Cluster, NEW i \in SlotIdx, NEW j \in SlotIdx, i < j, End(d, i)' PROVE End(d, j)'
    <3>1. CASE d = c
      BY <2>1, <3>1
    <3>2. CASE d # c
      BY <1>1, <2>1, <3>2 DEF EndsSound
    <3> QED BY <3>1, <3>2
  <2>2. ASSUME NEW d \in Cluster, HasNext(fat[d])' PROVE NoEnd(d)' \/ \A j \in SlotIdx : End(fat[d], j)'
    <3>1. d # c /\ HasNext(fat[d]) /\ fat'[d] = fat[d] /\ fat[d] \in Cluster /\ fat[d] # c
      BY <2>2 DEF HasNext
    <3>2. CASE NoEnd(d)
      BY <1>1, <3>1, <3>2 DEF NoEnd
    <3>3. CASE \A j \in SlotIdx : End(fat[d], j)
      <4>1. PICK e \in Cluster : e = fat[d]
        BY <3>1
      <4>2. \A j \in SlotIdx : End(e, j)'
        BY <1>1, <3>1, <3>3, <4>1
      <4>3. \A j \in SlotIdx : End(fat[d], j)'
        BY <3>1, <4>1, <4>2 DEF End
      <4> QED BY <4>3
    <3> QED BY <3>1, <3>2, <3>3 DEF EndsSound
  <2> QED BY <2>1, <2>2 DEF EndsSound
<1>3. ASSUME NEW p \in DirPlace, p[1] # c, NoEndBefore(p) PROVE NoEndBefore(p)'
  <2>1. p[1] \in Cluster
    BY Places
  <2>2. \A j \in SlotIdx : j < p[2] => ~End(p[1], j)'
    BY <1>1, <1>3, <2>1 DEF NoEndBefore
  <2>3. ASSUME NEW d \in Cluster, fat'[d] = p[1] PROVE NoEnd(d)'
    <3>1. d # c /\ fat[d] = p[1]
      BY <2>1, <2>3
    <3> QED BY <1>1, <1>3, <3>1 DEF NoEndBefore, NoEnd
  <2> QED BY <2>2, <2>3 DEF NoEndBefore
<1>4. ASSUME NEW d \in Cluster, d # c, NoEnd(d) PROVE NoEnd(d)'
  BY <1>1, <1>4 DEF NoEnd
<1> QED BY <1>2, <1>3, <1>4

(* Cluster n is linked behind a. *)
LEMMA LinkEnds ==
  ASSUME EndsSound, NEW a \in Cluster, NEW n \in Cluster, data' = data,
         fat'[a] = n, \A d \in Cluster : d # a => fat'[d] = fat[d],
         NoEnd(a) \/ \A j \in SlotIdx : End(n, j)
  PROVE  /\ EndsSound'
         /\ \A p \in DirPlace : (p[1] = n => NoEnd(a)) /\ NoEndBefore(p) => NoEndBefore(p)'
<1>1. \A d, i : End(d, i)' <=> End(d, i)
  BY DEF End
<1>2. EndsSound'
  <2>1. ASSUME NEW d \in Cluster, NEW i \in SlotIdx, NEW j \in SlotIdx, i < j, End(d, i)' PROVE End(d, j)'
    BY <1>1, <2>1 DEF EndsSound
  <2>2. ASSUME NEW d \in Cluster, HasNext(fat[d])' PROVE NoEnd(d)' \/ \A j \in SlotIdx : End(fat[d], j)'
    <3>1. PICK e : e = fat'[d]
      OBVIOUS
    <3>2. NoEnd(d) \/ \A j \in SlotIdx : End(e, j)
      <4>1. CASE d = a
        BY <3>1, <4>1
      <4>2. CASE d # a
        BY <2>2, <3>1, <4>2 DEF EndsSound
      <4> QED BY <4>1, <4>2
    <3>3. NoEnd(d) => NoEnd(d)'
      BY <1>1 DEF NoEnd
    <3>4. ASSUME \A j \in SlotIdx : End(e, j) PROVE \A j \in SlotIdx : End(fat[d], j)'
      BY <3>1, <3>4 DEF End
    <3> QED BY <3>2, <3>3, <3>4
  <2> QED BY <2>1, <2>2 DEF EndsSound
<1>3. ASSUME NEW p \in DirPlace, p[1] = n => NoEnd(a), NoEndBefore(p) PROVE NoEndBefore(p)'
  <2>2. \A j \in SlotIdx : j < p[2] => ~End(p[1], j)'
    BY <1>1, <1>3 DEF NoEndBefore
  <2>3. ASSUME NEW d \in Cluster, fat'[d] = p[1] PROVE NoEnd(d)'
    <3>1. NoEnd(d)
      BY <1>3, <2>3 DEF NoEndBefore
    <3> QED BY <1>1, <3>1 DEF NoEnd
  <2> QED BY <2>2, <2>3 DEF NoEndBefore
<1> QED BY <1>2, <1>3

(* A slot with no end in front of it is written. *)
LEMMA SlotEnds ==
  ASSUME EndsSound, fat' = fat, NEW q \in DirPlace, NoEndBefore(q), SlotAt(q)'.kind # "end",
         \A p \in DirPlace : p # q => SlotAt(p)' = SlotAt(p)
  PROVE  /\ EndsSound'
         /\ \A c \in Cluster, i \in SlotIdx : End(c, i)' => End(c, i) /\ <<c, i>> # q
<1>1. ASSUME NEW c \in Cluster, NEW i \in SlotIdx, <<c, i>> # q PROVE End(c, i)' <=> End(c, i)
  <2>1. PICK p \in DirPlace : p = <<c, i>>
    BY DEF DirPlace
  <2>2. SlotAt(p)' = SlotAt(p) /\ p[1] = c /\ p[2] = i
    BY <1>1, <2>1
  <2> QED BY <2>2 DEF SlotAt, End
<1>2. q[1] \in Cluster /\ q[2] \in SlotIdx /\ q = <<q[1], q[2]>> /\ ~End(q[1], q[2])'
  BY Places DEF SlotAt, End
<1>3. ASSUME NEW c \in Cluster, NEW i \in SlotIdx, End(c, i)' PROVE End(c, i) /\ <<c, i>> # q
  <2>1. <<c, i>> # q
    <3>1. ASSUME <<c, i>> = q PROVE c = q[1] /\ i = q[2]
      BY <3>1
    <3> QED BY <1>2, <1>3, <3>1
  <2> QED BY <1>1, <1>3, <2>1
<1>4. ASSUME NEW c \in Cluster, NEW i \in SlotIdx, NEW j \in SlotIdx, i < j, End(c, i)' PROVE End(c, j)'
  <2>1. End(c, i)
    BY <1>3, <1>4
  <2>2. <<c, j>> # q
    <3>1. ASSUME <<c, j>> = q PROVE c = q[1] /\ j = q[2]
      BY <3>1
    <3> QED BY <1>4, <2>1, <3>1 DEF NoEndBefore
  <2> QED BY <1>1, <1>4, <2>1, <2>2 DEF EndsSound
<1>5. ASSUME NEW c \in Cluster, HasNext(fat[c])' PROVE NoEnd(c)' \/ \A j \in SlotIdx : End(fat[c], j)'
  <2>1. PICK d \in Cluster : d = fat[c] /\ d = fat'[c] /\ HasNext(fat[c])
    BY <1>5 DEF HasNext
  <2>2. CASE NoEnd(c)
    BY <1>3, <2>2 DEF NoEnd
  <2>3. CASE ~NoEnd(c)
    <3>1. \A j \in SlotIdx : End(d, j)
      BY <2>1, <2>3 DEF EndsSound
    <3>2. d # q[1]
      BY <2>1, <2>3 DEF NoEndBefore
    <3>3. ASSUME NEW j \in SlotIdx PROVE End(d, j)'
      <4>1. <<d, j>> # q
        <5>1. <<d, j>>[1] = d
          OBVIOUS
        <5> QED BY <3>2, <5>1
      <4> QED BY <1>1, <3>1, <4>1
    <3>4. \A j \in SlotIdx : End(fat[c], j)'
      BY <2>1, <3>3 DEF End
    <3> QED BY <3>4
  <2> QED BY <2>2, <2>3
<1>6. EndsSound'
  BY <1>4, <1>5 DEF EndsSound
<1> QED BY <1>3, <1>6

(* The slot behind one that was written. *)
LEMMA BehindWritten ==
  ASSUME IInv, NEW q \in DirPlace, NoEndBefore(q), NEW r \in DirPlace, Follows(q, r), fat' = fat,
         \A c \in Cluster, i \in SlotIdx : End(c, i)' => End(c, i) /\ <<c, i>> # q
  PROVE  NoEndBefore(r)'
<1>1. q[1] \in Cluster /\ q[2] \in SlotIdx /\ q = <<q[1], q[2]>> /\ r[1] \in Cluster
  BY Places
<1>2. ASSUME NEW j \in SlotIdx, j <= q[2] PROVE ~End(q[1], j)'
  <2>1. CASE j = q[2]
    BY <1>1, <2>1
  <2>2. CASE j # q[2]
    <3>1. j < q[2]
      BY <1>1, <1>2, <2>2 DEF SlotIdx
    <3> QED BY <1>1, <3>1 DEF NoEndBefore
  <2> QED BY <2>1, <2>2
<1>3. CASE r = <<q[1], q[2] + 1>>
  <2>1. r[1] = q[1] /\ r[2] = q[2] + 1
    BY <1>3
  <2>2. \A j \in SlotIdx : j < r[2] => ~End(r[1], j)'
    <3>1. \A j \in SlotIdx : j < q[2] + 1 => j <= q[2]
      BY <1>1 DEF SlotIdx
    <3> QED BY <1>2, <2>1, <3>1
  <2>3. ASSUME NEW d \in Cluster, fat'[d] = r[1] PROVE NoEnd(d)'
    <3>1. NoEnd(d)
      BY <2>1, <2>3 DEF NoEndBefore
    <3> QED BY <3>1 DEF NoEnd
  <2> QED BY <2>2, <2>3 DEF NoEndBefore
<1>4. CASE q[2] = SlotsPerDir /\ r = <<fat[q[1]], 1>>
  <2>1. r[1] = fat[q[1]] /\ r[2] = 1 /\ HasNext(fat[q[1]])
    BY <1>1, <1>4 DEF HasNext
  <2>2. \A j \in SlotIdx : j < r[2] => ~End(r[1], j)'
    BY <2>1, DiskAssumption DEF SlotIdx
  <2>3. ASSUME NEW d \in Cluster, fat'[d] = r[1] PROVE NoEnd(d)'
    <3>1. d = q[1]
      BY <1>1, <2>1, <2>3, OneLink DEF IInv
    <3>2. \A j \in SlotIdx : j <= q[2]
      BY <1>4, DiskAssumption DEF SlotIdx
    <3> QED BY <1>2, <3>1, <3>2 DEF NoEnd
  <2> QED BY <2>2, <2>3 DEF NoEndBefore
<1> QED BY <1>3, <1>4 DEF Follows

(* Nothing links to the root directory. *)
LEMMA RootUnlinked ==
  ASSUME IInv PROVE \A d \in Cluster : fat[d] # Root
<1> SUFFICES ASSUME NEW d \in Cluster, fat[d] = Root PROVE FALSE
  OBVIOUS
<1>1. <<d, 0>> \in Place /\ Ref(<<d, 0>>) = fat[d]
  BY LinkRef, Numbering DEF HasNext
<1> QED BY <1>1 DEF IInv, NoSharedCluster

(* A step after which no slot leads to another directory. *)
LEMMA PointedKept ==
  ASSUME cwd' = cwd, \A p \in DirPlace : SlotAt(p)' = SlotAt(p) \/ SlotAt(p)'.dir = FALSE,
         NEW c, Pointed(c)'
  PROVE  Pointed(c)
BY DEF Pointed

(* Directories are still entered at their first clusters. *)
LEMMA HeadsKept ==
  ASSUME HeadsSound,
         \A c \in Cluster : Pointed(c)' => Pointed(c) \/ \A d \in Cluster : fat'[d] # c,
         \A c, d \in Cluster : Pointed(c)' /\ fat'[d] = c => fat[d] = c
  PROVE  HeadsSound'
BY DEF HeadsSound

(* ... when the contents of a cluster are replaced by slots that lead      *)
(* nowhere.                                                                *)
LEMMA ClusterHeads ==
  ASSUME HeadsSound, cwd' = cwd, NEW c \in Cluster, fat'[c] \notin Cluster,
         \A i \in SlotIdx : data'[c][i].dir = FALSE,
         \A d \in Cluster : d # c => fat'[d] = fat[d] /\ data'[d] = data[d]
  PROVE  HeadsSound' /\ \A d \in Cluster : Pointed(d)' => Pointed(d)
<1>1. ASSUME NEW p \in DirPlace PROVE SlotAt(p)' = SlotAt(p) \/ SlotAt(p)'.dir = FALSE
  BY Places DEF SlotAt
<1>2. \A d : Pointed(d)' => Pointed(d)
  BY <1>1, PointedKept
<1> QED BY <1>2, HeadsKept

(* ... when cluster n is linked behind another and nothing leads to it. *)
LEMMA LinkHeads ==
  ASSUME HeadsSound, cwd' = cwd, data' = data, NEW a \in Cluster, NEW n \in Cluster, ~Pointed(n),
         fat'[a] = n, \A d \in Cluster : d # a => fat'[d] = fat[d]
  PROVE  HeadsSound'
<1>1. \A d : Pointed(d)' => Pointed(d)
  BY DEF Pointed, SlotAt
<1> QED BY <1>1, HeadsKept

(* The contents a cluster gets: their end, and where they lead. *)
LEMMA NewContents ==
  /\ \A i \in SlotIdx : Blank[i].kind = "end" /\ Blank[i].dir = FALSE
  /\ \A i \in SlotIdx : NoDir[i].kind = "data" /\ NoDir[i].dir = FALSE
BY DEF Blank, NoDir, Plain

(* What is no directory has no end. *)
LEMMA FileNoEnd ==
  ASSUME NEW c, ~IsDir(c) PROVE NoEnd(c)
BY NewContents DEF IsDir, NoEnd, End

(* A cluster is taken or freed: what becomes of the ends. *)
LEMMA ReplaceEnds ==
  ASSUME EndsSound, HeadsSound, cwd' = cwd, NEW c \in Cluster, \A d \in Cluster : fat[d] # c,
         fat'[c] \notin Cluster, data'[c] = Blank \/ data'[c] = NoDir,
         \A d \in Cluster : d # c => fat'[d] = fat[d] /\ data'[d] = data[d]
  PROVE  /\ EndsSound' /\ HeadsSound'
         /\ \A p \in DirPlace : p[1] # c /\ NoEndBefore(p) => NoEndBefore(p)'
         /\ \A d \in Cluster : d # c /\ NoEnd(d) => NoEnd(d)'
<1>1. \A i, j \in SlotIdx : i < j /\ End(c, i)' => End(c, j)'
  <2>1. CASE data'[c] = Blank
    BY <2>1, NewContents DEF End
  <2>2. CASE data'[c] = NoDir
    BY <2>2, NewContents DEF End
  <2> QED BY <2>1, <2>2
<1>2. /\ EndsSound'
      /\ \A p \in DirPlace : p[1] # c /\ NoEndBefore(p) => NoEndBefore(p)'
      /\ \A d \in Cluster : d # c /\ NoEnd(d) => NoEnd(d)'
  BY <1>1, ClusterEnds
<1>3. \A i \in SlotIdx : data'[c][i].dir = FALSE
  BY NewContents
<1>4. HeadsSound'
  BY <1>3, ClusterHeads
<1> QED BY <1>2, <1>4

(* One stage at a time. *)
LEMMA OneStageEnd ==
  /\ op'.at \in {"idle", "run"} => StageEnd'
  /\ op'.at = "grow" /\ GrowEnd' => StageEnd'
  /\ op'.at \in {"free", "alloc", "entry"} /\ op'.cmd = "delete" => StageEnd'
  /\ op'.at \in {"free", "alloc", "entry"} /\ NoEndBefore(op.slot)' => StageEnd'
  /\ op'.at = "mark" /\ SlotAt(op.slot)'.kind # "end" => StageEnd'
  /\ op'.at = "lfn" /\ NoEndBefore(op.slot)' /\ Follows(op.slot, op.next)' => StageEnd'
  /\ op'.at = "dots" /\ DotsEnd' => StageEnd'
  /\ op' = Idle => StageEnd'
<1>1. op' = Idle => op'.at = "idle"
  BY IdleFields
<1> QED BY <1>1 DEF StageEnd

(* The same, with names for the places. *)
LEMMA SlotStageEnd ==
  ASSUME NEW p, op'.slot = p, NoEndBefore(p)'
  PROVE  /\ op'.at \in {"free", "alloc", "entry"} => StageEnd'
         /\ op'.at = "lfn" /\ Follows(op.slot, op.next)' => StageEnd'
<1>1. NoEndBefore(op.slot)'
  BY DEF NoEndBefore, NoEnd, End
<1> QED BY <1>1, OneStageEnd

(* A command that gives up leaves the ends where they are. *)
LEMMA GaveUpEnd ==
  ASSUME IInv, EndInv, UNCHANGED <<fat, data>>, cwd' = cwd \/ cwd' = Root, op' = Idle
  PROVE  EndInv'
<1>1. EndsSound'
  <2>1. SameEnds
    BY DEF SameEnds, End
  <2> QED BY <2>1, QuietEnds DEF EndInv
<1>2. HeadsSound'
  <2>1. ASSUME NEW c \in Cluster, Pointed(c)' PROVE Pointed(c) \/ c = Root
    BY <2>1 DEF Pointed, SlotAt
  <2>2. \A d \in Cluster : fat'[d] # Root
    BY RootUnlinked
  <2> QED BY <2>1, <2>2, HeadsKept DEF EndInv
<1> QED BY <1>1, <1>2, OneStageEnd DEF EndInv

-----------------------------------------------------------------------------
(* Every step keeps the ends where they belong. *)

(* dir_grow takes a cluster, which nothing leads to. *)
LEMMA GrowAllocEnd ==
  ASSUME IInv, TreeInv, EndInv, GrowAlloc PROVE EndInv'
<1>1. op.at = "grow" /\ op.new = 0 /\ op \in OpType /\ cwd' = cwd /\ GrowSound /\ GrowEnd
  BY DEF GrowAlloc, At, IInv, TypeOK, TreeInv, StageSound, EndInv, StageEnd
<1>2. CASE GiveUp /\ UNCHANGED <<fat, data>>
  BY <1>1, <1>2, GaveUpEnd DEF GiveUp
<1>3. ASSUME NEW c \in Cluster, fat[c] = Free, fat' = [fat EXCEPT ![c] = EOC],
             data' = [data EXCEPT ![c] = Blank], op' = [op EXCEPT !.new = c], torn' = torn
      PROVE  EndInv'
  <2>1. op'.at = "grow" /\ op'.new = c /\ op'.slot = op.slot /\ op'.last = op.last /\ op'.over = op.over
    BY <1>1, <1>3 DEF OpType
  <2>2. Suspended' = Suspended
    BY <1>3, <2>1 DEF Suspended
  <2>3. /\ fat'[c] = EOC /\ data'[c] = Blank /\ ~Pointed(c)'
        /\ \A d \in Cluster : d # c => fat'[d] = fat[d] /\ data'[d] = data[d]
    BY <1>1, <1>3, <2>2, TakeTree DEF TreeInv
  <2>4. fat'[c] \notin Cluster /\ \A d \in Cluster : fat[d] # c
    BY <1>3, <2>3, Numbering, FreeUnref
  <2>5. /\ EndsSound' /\ HeadsSound'
        /\ \A p \in DirPlace : p[1] # c /\ NoEndBefore(p) => NoEndBefore(p)'
        /\ \A d \in Cluster : d # c /\ NoEnd(d) => NoEnd(d)'
    BY <1>1, <2>3, <2>4, ReplaceEnds DEF EndInv
  <2>6. PICK l \in Cluster, q \in DirPlace \cup {NoPlace} : l = op.last /\ q = op.slot
    BY <1>1 DEF OpType, IInv, LocalsSound
  <2>7. l # c
    BY <1>1, <1>3, <2>6, Numbering DEF GrowSound
  <2>8. q = NoPlace => NoEnd(l)'
    BY <1>1, <2>5, <2>6, <2>7 DEF GrowEnd
  <2>9. q # NoPlace => NoEndBefore(q)' /\ q = <<l, SlotsPerDir>>
    <3> SUFFICES ASSUME q # NoPlace PROVE NoEndBefore(q)' /\ q = <<l, SlotsPerDir>>
      OBVIOUS
    <3>1. NoEndBefore(q) /\ q = <<l, SlotsPerDir>> /\ q \in DirPlace
      BY <1>1, <2>6 DEF GrowEnd
    <3>2. q[1] = l
      BY <3>1
    <3> QED BY <2>5, <2>7, <3>1, <3>2
  <2>10. GrowEnd'
    <3>1. op'.slot = NoPlace => NoEnd(op.last)'
      BY <2>1, <2>6, <2>8 DEF NoEnd, End
    <3>2. op'.slot # NoPlace => NoEndBefore(op.slot)' /\ op'.slot = <<op'.last, SlotsPerDir>>
      BY <2>1, <2>6, <2>9 DEF NoEndBefore, NoEnd, End
    <3>3. ~Pointed(op.new)'
      BY <2>1, <2>3 DEF Pointed, SlotAt
    <3> QED BY <3>1, <3>2, <3>3 DEF GrowEnd
  <2> QED BY <2>1, <2>5, <2>10, OneStageEnd DEF EndInv
<1> QED BY <1>2, <1>3 DEF GrowAlloc, IsFirst, FreeClusters, SetFat, Stay

(* What the command goes on with when the directory has grown. *)
LEMMA Grown ==
  ASSUME IInv, GrowLink, NEW q, NEW n, q = op.slot, n = op.new
  PROVE  /\ \/ op'.at \in {"alloc", "entry"} /\ q = NoPlace
            \/ op'.at = "lfn"
         /\ op'.slot = IF q = NoPlace THEN <<n, 1>> ELSE q
         /\ op'.next = IF q = NoPlace THEN <<n, 2>> ELSE <<n, 1>>
<1>1. /\ op.at = "grow" /\ op.new # 0 /\ op \in OpType /\ op.cmd \in {"write", "mkdir", "rename"}
      /\ n \in Cluster /\ (op.cmd # "rename" => op.slot = NoPlace)
  BY DEF GrowLink, At, IInv, TypeOK, StagesSound, LocalsSound, OpType
<1>2. PICK r, s : /\ r = (IF q = NoPlace THEN <<n, 1>> ELSE q)
                  /\ s = (IF q = NoPlace THEN <<n, 2>> ELSE <<n, 1>>)
  OBVIOUS
<1>3. r \in DirPlace \cup {NoPlace} /\ s \in DirPlace \cup {NoPlace}
  BY <1>1, <1>2, Numbering DEF OpType, DirPlace
<1>4. PICK o : o = [op EXCEPT !.new = 0, !.slot = r, !.next = s]
  OBVIOUS
<1>5. o \in OpType /\ o.cmd = op.cmd /\ o.slot = r /\ o.next = s
  BY <1>1, <1>3, <1>4 DEF OpType
<1>6. Go("grow", o)
  <2>1. CASE q = NoPlace
    BY <1>2, <1>4, <2>1 DEF GrowLink
  <2>2. CASE q # NoPlace
    <3>1. o = [op EXCEPT !.new = 0, !.next = <<op.new, 1>>]
      BY <1>1, <1>2, <1>3, <1>4, <2>2 DEF OpType
    <3> QED BY <2>2, <3>1 DEF GrowLink
  <2> QED BY <2>1, <2>2
<1>7. PICK t \in {"alloc", "entry", "lfn"} : t = After("grow", o) /\ (t # "lfn" => op.cmd # "rename")
  BY <1>1, <1>5, AfterStage
<1>8. op'.at = t /\ op'.slot = r /\ op'.next = s
  BY <1>5, <1>6, <1>7, GoEffect DEF Stage, SameLocals
<1> QED BY <1>1, <1>2, <1>7, <1>8

(* dir_grow links a zeroed cluster behind the last one. *)
LEMMA GrowLinkEnd ==
  ASSUME IInv, TreeInv, EndInv, GrowLink PROVE EndInv'
<1>1. /\ op.at = "grow" /\ op.new # 0 /\ op \in OpType /\ cwd' = cwd /\ data' = data /\ GrowSound /\ GrowEnd
      /\ op.last # 0 /\ InFlight(op.new) /\ fat \in [Cluster -> Cluster \cup {Free, EOC}]
  BY DEF GrowLink, At, IInv, TypeOK, TreeInv, StageSound, EndInv, StageEnd, LocalsSound, Hands
<1>2. PICK a \in Cluster, n \in Cluster, q \in DirPlace \cup {NoPlace} : a = op.last /\ n = op.new /\ q = op.slot
  BY <1>1 DEF OpType
<1>3. fat'[a] = n /\ (\A d \in Cluster : d # a => fat'[d] = fat[d]) /\ a # n
  BY <1>1, <1>2 DEF GrowLink, SetFat, GrowSound
<1>4. \A j \in SlotIdx : End(n, j)
  BY <1>1, <1>2, NewContents DEF GrowSound, End
<1>5. ~Pointed(n) /\ \A d \in Cluster : fat[d] # n
  BY <1>1, <1>2, UnrefNoLink DEF GrowEnd, InFlight
<1>6. /\ EndsSound'
      /\ \A p \in DirPlace : (p[1] = n => NoEnd(a)) /\ NoEndBefore(p) => NoEndBefore(p)'
  BY <1>1, <1>3, <1>4, LinkEnds DEF EndInv
<1>7. HeadsSound'
  BY <1>1, <1>3, <1>5, LinkHeads DEF EndInv
<1>8. /\ \/ op'.at \in {"alloc", "entry"} /\ q = NoPlace
         \/ op'.at = "lfn"
      /\ op'.slot = IF q = NoPlace THEN <<n, 1>> ELSE q
      /\ op'.next = IF q = NoPlace THEN <<n, 2>> ELSE <<n, 1>>
  BY <1>2, Grown
<1>9. CASE q = NoPlace
  <2>1. NoEnd(a)
    BY <1>1, <1>2, <1>9 DEF GrowEnd
  <2>2. PICK p : p = <<n, 1>>
    OBVIOUS
  <2>3. p[1] = n /\ p[2] = 1 /\ op'.slot = p /\ op'.next = <<p[1], p[2] + 1>>
    BY <1>8, <1>9, <2>2
  <2>4. NoEndBefore(p)'
    <3>1. \A j \in SlotIdx : ~(j < 1)
      BY DEF SlotIdx
    <3>2. ASSUME NEW d \in Cluster, fat'[d] = n PROVE NoEnd(d)'
      <4>1. d = a
        BY <1>3, <1>5, <3>2
      <4> QED BY <1>1, <2>1, <4>1 DEF NoEnd, End
    <3> QED BY <2>3, <3>1, <3>2 DEF NoEndBefore
  <2>5. Follows(op.slot, op.next)'
    BY <2>3 DEF Follows
  <2>6. StageEnd'
    BY <1>8, <2>3, <2>4, <2>5, SlotStageEnd
  <2> QED BY <1>6, <1>7, <2>6 DEF EndInv
<1>10. CASE q # NoPlace
  <2>1. q \in DirPlace /\ NoEndBefore(q) /\ q = <<a, SlotsPerDir>>
    BY <1>1, <1>2, <1>10 DEF GrowEnd
  <2>2. q[1] = a /\ q[2] = SlotsPerDir /\ op'.slot = q /\ op'.next = <<n, 1>> /\ op'.at = "lfn"
    BY <1>8, <1>10, <2>1
  <2>3. NoEndBefore(q)'
    BY <1>3, <1>6, <2>1, <2>2
  <2>4. Follows(op.slot, op.next)'
    BY <1>3, <2>2 DEF Follows
  <2>5. StageEnd'
    BY <2>2, <2>3, <2>4, SlotStageEnd
  <2> QED BY <1>6, <1>7, <2>5 DEF EndInv
<1> QED BY <1>9, <1>10

(* fat_free_chain frees clusters of files. *)
LEMMA FreeStepEnd ==
  ASSUME IInv, TreeInv, EndInv, FreeStep PROVE EndInv'
<1>1. /\ op.at = "free" /\ op \in OpType /\ TypeOK /\ cwd' = cwd /\ FreeSound /\ InFlight(op.cl)
      /\ op.cmd \in {"write", "delete"} /\ (op.cmd # "delete" => NoEndBefore(op.slot))
      /\ (op.cmd = "write" => op.slot \in DirPlace)
  BY DEF FreeStep, At, IInv, TypeOK, TreeInv, StageSound, EndInv, StageEnd, LocalsSound, Hands, StagesSound
<1>2. PICK c, q : c \in Cluster /\ c = op.cl /\ q = op.slot
  BY <1>1 DEF InFlight
<1>3. /\ fat'[c] = Free /\ data'[c] = NoDir
      /\ \A d \in Cluster : d # c => fat'[d] = fat[d] /\ data'[d] = data[d]
  BY <1>1, <1>2, ClusterWrite DEF FreeStep, SetFat
<1>4. \A d \in Cluster : fat[d] # c
  BY <1>1, <1>2, UnrefNoLink DEF InFlight
<1>5. /\ EndsSound' /\ HeadsSound'
      /\ \A p \in DirPlace : p[1] # c /\ NoEndBefore(p) => NoEndBefore(p)'
  <2>1. fat'[c] \notin Cluster /\ EndsSound /\ HeadsSound /\ cwd' = cwd
    BY <1>1, <1>3, Numbering DEF EndInv
  <2> QED BY <1>2, <1>3, <1>4, <2>1, ReplaceEnds
<1>6. op.cmd = "write" => NoEndBefore(q)'
  <2> SUFFICES ASSUME op.cmd = "write" PROVE NoEndBefore(q)'
    OBVIOUS
  <2>1. q \in DirPlace /\ NoEndBefore(q) /\ IsDir(q[1]) /\ ~IsDir(c)
    BY <1>1, <1>2 DEF FreeSound, Vacant
  <2>2. q[1] # c
    BY <2>1
  <2> QED BY <1>5, <2>1, <2>2
<1>7. \/ op' = Idle
      \/ op'.at \in {"free", "alloc", "entry"} /\ op'.slot = q /\ op'.cmd = op.cmd
  <2>1. CASE HasNext(fat[c])
    <3>1. PICK v \in Cluster : v = fat[c]
      BY <2>1 DEF HasNext
    <3>2. op' = [op EXCEPT !.cl = v]
      BY <1>2, <2>1, <3>1 DEF FreeStep, Stay
    <3> QED BY <1>1, <1>2, <3>2, FreeFields
  <2>2. CASE ~HasNext(fat[c])
    <3>1. PICK v, o : v = 0 /\ o = [op EXCEPT !.cl = v]
      OBVIOUS
    <3>2. Go("free", o)
      BY <1>2, <2>2, <3>1 DEF FreeStep
    <3>3. o \in OpType /\ o.cmd = op.cmd /\ o.slot = op.slot
      BY <1>1, <3>1, FreeFields
    <3>4. PICK t \in {"idle", "alloc", "entry"} : t = After("free", o)
      BY <1>1, <3>3, AfterStage
    <3>5. t = "idle" => op' = Idle
      BY <3>2, <3>3, <3>4, GoEffect DEF Stage
    <3>6. t # "idle" => op'.at = t /\ SameLocals(o, op')
      BY <3>2, <3>3, <3>4, GoEffect DEF Stage
    <3> QED BY <1>2, <3>3, <3>4, <3>5, <3>6 DEF SameLocals
  <2> QED BY <2>1, <2>2
<1>8. StageEnd'
  <2>1. CASE op' = Idle
    BY <2>1, OneStageEnd
  <2>2. CASE op'.at \in {"free", "alloc", "entry"} /\ op'.slot = q /\ op'.cmd = op.cmd
    <3>1. CASE op.cmd = "delete"
      BY <2>2, <3>1, OneStageEnd
    <3>2. CASE op.cmd = "write"
      BY <1>6, <2>2, <3>2, SlotStageEnd
    <3> QED BY <1>1, <3>1, <3>2
  <2> QED BY <1>7, <2>1, <2>2
<1> QED BY <1>5, <1>8 DEF EndInv

(* A step that leaves the disk and the working directory as they are. *)
LEMMA StillEnd ==
  ASSUME EndInv, UNCHANGED <<fat, data, cwd>>
  PROVE  /\ EndsSound' /\ HeadsSound'
         /\ \A p : NoEndBefore(p) => NoEndBefore(p)'
         /\ \A c : NoEnd(c) => NoEnd(c)'
         /\ \A p, q : Follows(p, q) => Follows(p, q)'
<1>1. EndsSound'
  <2>1. SameEnds
    BY DEF SameEnds, End
  <2> QED BY <2>1, QuietEnds DEF EndInv
<1>2. HeadsSound'
  BY DEF EndInv, HeadsSound, Pointed, SlotAt
<1>3. \A c : NoEnd(c) => NoEnd(c)'
  BY DEF NoEnd, End
<1>4. \A p : NoEndBefore(p) => NoEndBefore(p)'
  BY DEF NoEndBefore, NoEnd, End
<1>5. \A p, q : Follows(p, q) => Follows(p, q)'
  BY DEF Follows
<1> QED BY <1>1, <1>2, <1>3, <1>4, <1>5

(* Where fat_alloc_chain goes on, the slot is the same. *)
LEMMA AllocTakeNext ==
  ASSUME IInv, op.at = "alloc", op.new = 0, NEW c \in Cluster,
         IF op.prev # 0 THEN Stay([op EXCEPT !.new = c])
         ELSE Go("alloc", [op EXCEPT !.first = c, !.prev = c, !.need = @ - 1])
  PROVE  op'.at \in {"alloc", "entry"} /\ op'.slot = op.slot
<1>1. op \in OpType
  BY DEF IInv, TypeOK
<1>2. CASE op.prev # 0
  <2>1. op' = [op EXCEPT !.new = c]
    BY <1>2 DEF Stay
  <2> QED BY <1>1, <2>1 DEF OpType
<1>3. CASE op.prev = 0
  <2> DEFINE k == op.need - 1
             e == [op EXCEPT !.new = 0]
  <2>1. e = op
    BY <1>1 DEF OpType
  <2> HIDE DEF e
  <2>2. [e EXCEPT !.first = c, !.prev = c, !.need = k] = [op EXCEPT !.first = c, !.prev = c, !.need = k]
    BY <2>1
  <2>3. [e EXCEPT !.first = c, !.prev = c, !.need = k]
         = [op EXCEPT !.new = 0, !.first = c, !.prev = c, !.need = k]
    BY DEF e
  <2>4. Go("alloc", [op EXCEPT !.new = 0, !.first = c, !.prev = c, !.need = @ - 1])
    BY <1>3, <2>2, <2>3 DEF k
  <2> QED BY <2>4, AllocGoesOn
<1> QED BY <1>2, <1>3

(* fat_alloc_chain takes a cluster, for a file or for a directory nobody   *)
(* can see yet.                                                            *)
LEMMA AllocTakeEnd ==
  ASSUME IInv, TreeInv, EndInv, AllocTake PROVE EndInv'
<1>1. /\ op.at = "alloc" /\ op.new = 0 /\ op \in OpType /\ TypeOK /\ cwd' = cwd /\ AllocSound
      /\ op.slot \in DirPlace /\ op.cmd # "delete" /\ NoEndBefore(op.slot)
  BY DEF AllocTake, At, IInv, TypeOK, TreeInv, StageSound, StagesSound, LocalsSound, EndInv, StageEnd
<1>2. CASE FreeClusters = {} /\ AllocFails /\ UNCHANGED <<fat, data>>
  <2>1. CASE op.first = 0
    BY <1>1, <1>2, <2>1, GaveUpEnd DEF AllocFails, GiveUp
  <2>2. CASE op.first # 0
    <3>1. op' = [Idle EXCEPT !.cmd = "delete", !.at = "free", !.cl = op.first]
      BY <1>2, <2>2 DEF AllocFails, Stay
    <3>2. op'.at = "free" /\ op'.cmd = "delete"
      BY <3>1 DEF Idle
    <3>3. EndsSound' /\ HeadsSound'
      BY <1>1, <1>2, StillEnd
    <3> QED BY <3>2, <3>3, OneStageEnd DEF EndInv
  <2> QED BY <2>1, <2>2
<1>3. ASSUME NEW c \in Cluster, fat[c] = Free, fat' = [fat EXCEPT ![c] = EOC],
             data' = [data EXCEPT ![c] = Zeroed(op)],
             IF op.prev # 0 THEN Stay([op EXCEPT !.new = c])
             ELSE Go("alloc", [op EXCEPT !.first = c, !.prev = c, !.need = @ - 1])
      PROVE  EndInv'
  <2>1. /\ fat'[c] = EOC /\ data'[c] = Zeroed(op)
        /\ \A d \in Cluster : d # c => fat'[d] = fat[d] /\ data'[d] = data[d]
    BY <1>1, <1>3, ClusterWrite
  <2>2. Zeroed(op) = Blank \/ Zeroed(op) = NoDir
    BY DEF Zeroed
  <2>3. fat'[c] \notin Cluster /\ \A d \in Cluster : fat[d] # c
    BY <1>3, <2>1, Numbering, FreeUnref
  <2>4. /\ EndsSound' /\ HeadsSound'
        /\ \A p \in DirPlace : p[1] # c /\ NoEndBefore(p) => NoEndBefore(p)'
    BY <1>1, <2>1, <2>2, <2>3, ReplaceEnds DEF EndInv
  <2>5. PICK q \in DirPlace : q = op.slot
    BY <1>1
  <2>6. q[1] \in Cluster /\ IsDir(q[1]) /\ NoEndBefore(q)
    BY <1>1, <2>5, Places DEF AllocSound, Vacant
  <2>7. q[1] # c
    BY <1>3, <2>6 DEF TreeInv, DirsSound
  <2>8. NoEndBefore(q)'
    BY <2>4, <2>6, <2>7
  <2>9. op'.at \in {"alloc", "entry"} /\ op'.slot = q
    BY <1>1, <1>3, <2>5, AllocTakeNext
  <2> QED BY <2>4, <2>8, <2>9, SlotStageEnd DEF EndInv
<1> QED BY <1>2, <1>3 DEF AllocTake, IsFirst, FreeClusters, SetFat

(* The cluster is linked behind another one of the file. *)
LEMMA AllocLinkEnd ==
  ASSUME IInv, TreeInv, EndInv, AllocLink PROVE EndInv'
<1>1. /\ op.at = "alloc" /\ op.new # 0 /\ op.prev # 0 /\ op \in OpType /\ TypeOK /\ cwd' = cwd /\ data' = data
      /\ AllocSound /\ op.slot \in DirPlace /\ op.cmd # "delete" /\ NoEndBefore(op.slot)
      /\ fat' = [fat EXCEPT ![op.prev] = op.new]
  BY DEF AllocLink, At, IInv, TypeOK, TreeInv, StageSound, StagesSound, LocalsSound, EndInv, StageEnd, SetFat
<1>2. PICK a \in Cluster, n \in Cluster, q \in DirPlace, f \in Cluster \cup {0} :
         a = op.prev /\ n = op.new /\ q = op.slot /\ f = op.first
  BY <1>1 DEF OpType
<1>3. ~IsDir(a) /\ ~IsDir(n) /\ IsDir(q[1]) /\ NoEndBefore(q)
  BY <1>1, <1>2 DEF AllocSound, Vacant
<1>4. fat'[a] = n /\ \A d \in Cluster : d # a => fat'[d] = fat[d]
  BY <1>1, <1>2 DEF TypeOK
<1>5. NoEnd(a) /\ ~Pointed(n)
  BY <1>3, FileNoEnd, NotEntered DEF TreeInv
<1>6. /\ EndsSound'
      /\ \A p \in DirPlace : (p[1] = n => NoEnd(a)) /\ NoEndBefore(p) => NoEndBefore(p)'
  BY <1>1, <1>4, <1>5, LinkEnds DEF EndInv
<1>7. HeadsSound'
  BY <1>1, <1>4, <1>5, LinkHeads DEF EndInv
<1>8. NoEndBefore(q)'
  BY <1>3, <1>5, <1>6
<1>9. op'.at \in {"alloc", "entry"} /\ op'.slot = q
  <2>1. Go("alloc", [op EXCEPT !.new = 0, !.first = f, !.prev = n, !.need = @ - 1])
    <3> DEFINE k == op.need - 1
               e == [op EXCEPT !.first = f]
    <3>1. e = op
      BY <1>1, <1>2 DEF OpType
    <3> HIDE DEF e
    <3>2. [e EXCEPT !.new = 0, !.prev = n, !.need = k] = [op EXCEPT !.new = 0, !.prev = n, !.need = k]
      BY <3>1
    <3>3. [e EXCEPT !.new = 0, !.prev = n, !.need = k]
           = [op EXCEPT !.new = 0, !.first = f, !.prev = n, !.need = k]
      BY DEF e
    <3>4. Go("alloc", [op EXCEPT !.new = 0, !.prev = n, !.need = k])
      BY <1>2 DEF AllocLink, k
    <3> QED BY <3>2, <3>3, <3>4 DEF k
  <2> QED BY <1>1, <1>2, <2>1, AllocGoesOn
<1> QED BY <1>6, <1>7, <1>8, <1>9, SlotStageEnd DEF EndInv

(* An entry is marked: it is not the end, before and after. *)
LEMMA MarkEnd ==
  ASSUME IInv, TreeInv, EndInv, Mark PROVE EndInv'
<1>1. /\ op.at = "mark" /\ Go("mark", op) /\ UNCHANGED <<fat, cwd>> /\ op \in OpType /\ op.slot \in DirPlace
      /\ op.cmd \in {"delete", "rename"} /\ SlotAt(op.slot).kind # "end"
  BY DEF Mark, At, IInv, TypeOK, LocalsSound, StagesSound, OpType, EndInv, StageEnd
<1>2. PICK q \in DirPlace : q = op.slot
  BY <1>1
<1>3. /\ SlotAt(q)' = Plain("del")
      /\ \A p \in DirPlace : p # q => SlotAt(p)' = SlotAt(p) \/
            (SlotAt(p).kind = "lfn" /\ SlotAt(p)' = Plain("del"))
  BY <1>2, MarkSlots
<1>4. Plain("del").kind = "del" /\ Plain("del").dir = FALSE
  BY DEF Plain
<1> HIDE DEF Plain
<1>5. SlotAt(q).kind # "end"
  BY <1>1, <1>2
<1>6. ASSUME NEW c \in Cluster, NEW i \in SlotIdx PROVE End(c, i)' <=> End(c, i)
  <2>1. PICK p \in DirPlace : p = <<c, i>>
    BY DEF DirPlace
  <2>2. p[1] = c /\ p[2] = i
    BY <2>1
  <2>3. (SlotAt(p).kind = "end") <=> (SlotAt(p)'.kind = "end")
    BY <1>3, <1>4, <1>5
  <2> QED BY <2>2, <2>3 DEF End, SlotAt
<1>7. EndsSound'
  <2>1. SameEnds
    BY <1>6 DEF SameEnds
  <2> QED BY <1>1, <2>1, QuietEnds DEF EndInv
<1>8. HeadsSound'
  <2>1. \A p \in DirPlace : SlotAt(p)' = SlotAt(p) \/ SlotAt(p)'.dir = FALSE
    BY <1>3, <1>4
  <2>2. \A c : Pointed(c)' => Pointed(c)
    BY <1>1, <2>1, PointedKept
  <2> QED BY <1>1, <2>2, HeadsKept DEF EndInv
<1>9. \/ op'.at = "run"
      \/ op'.at = "free" /\ op'.cmd = "delete"
      \/ op' = Idle
  BY <1>1, AfterStage, GoEffect DEF Stage, SameLocals
<1>10. StageEnd'
  BY <1>9, OneStageEnd
<1> QED BY <1>7, <1>8, <1>10 DEF EndInv

(* mv looks for slots: they have no end in front of them. *)
LEMMA FindRunEnd ==
  ASSUME IInv, TreeInv, EndInv, FindRun PROVE EndInv'
<1> DEFINE b == [op EXCEPT !.slot = NoPlace]
<1>1. /\ op.at = "run" /\ UNCHANGED <<fat, data, cwd>> /\ op \in OpType /\ op.new = 0
      /\ op.cmd = "rename" /\ RunSound
  BY DEF FindRun, At, IInv, TypeOK, StagesSound, OpType, TreeInv, StageSound, Hands
<1>2. PICK o \in Run(cwd, b) : Go("run", o)
  BY DEF FindRun
<1>3. b \in OpType /\ b.slot = NoPlace /\ b.cmd = "rename" /\ b.last = 0 /\ b.new = 0
  <2> HIDE DEF NoPlace
  <2>1. b \in OpType
    BY <1>1 DEF OpType
  <2> QED BY <1>1, <2>1 DEF OpType, RunSound
<1> HIDE DEF b
<1>4. o \in OpType /\ o.cmd = "rename" /\ o.new = 0
  BY <1>2, <1>3, RunFields
<1>5. \/ o.last = 0 /\ NoEndBefore(o.slot) /\ Follows(o.slot, o.next)
      \/ o.slot = NoPlace /\ NoEnd(o.last) /\ o.last # 0
      \/ NoEndBefore(o.slot) /\ o.slot = <<o.last, SlotsPerDir>> /\ o.slot # NoPlace /\ o.last # 0
  <2>1. \/ o.last = 0 /\ NoEndBefore(o.slot) /\ Follows(o.slot, o.next)
        \/ o.slot = NoPlace /\ NoEnd(o.last)
        \/ NoEndBefore(o.slot) /\ o.slot = <<o.last, SlotsPerDir>>
    BY <1>2, <1>3, RunEnd
  <2>2. \/ o.last = 0 /\ IsFreePlace(o.slot) /\ IsFreePlace(o.next)
        \/ IsLast(o.last) /\ (o.slot = NoPlace \/ IsFreePlace(o.slot))
    BY <1>2, <1>3, RunPlaces
  <2>3. ASSUME IsFreePlace(o.slot) PROVE o.slot # NoPlace /\ (o.slot = <<o.last, SlotsPerDir>> => o.last # 0)
    <3>1. o.slot \in DirPlace
      BY <2>3 DEF IsFreePlace
    <3>2. o.slot[1] \in Cluster
      BY <3>1, Places
    <3>3. o.slot = <<o.last, SlotsPerDir>> => o.slot[1] = o.last
      OBVIOUS
    <3> QED BY <3>1, <3>2, <3>3, Places, Numbering
  <2>4. ASSUME IsLast(o.last) PROVE o.last # 0
    BY <2>4, Numbering DEF IsLast
  <2>5. SlotsPerDir # 0
    BY DiskAssumption
  <2>6. ASSUME o.slot = NoPlace PROVE o.slot # <<o.last, SlotsPerDir>>
    BY <2>5, <2>6 DEF NoPlace
  <2> QED BY <2>1, <2>2, <2>3, <2>4, <2>6
<1>6. /\ op' \in OpType /\ SameLocals(o, op')
      /\ op'.at = IF o.last # 0 THEN "grow" ELSE "lfn"
  BY <1>2, <1>4, AfterStage, GoEffect DEF Stage
<1>7. op'.last = o.last /\ op'.slot = o.slot /\ op'.next = o.next /\ op'.new = 0
  BY <1>4, <1>6 DEF SameLocals
<1>8. PICK p, q, l : p = o.slot /\ q = o.next /\ l = o.last
  OBVIOUS
<1>9. /\ EndsSound' /\ HeadsSound'
      /\ NoEndBefore(p) => NoEndBefore(p)'
      /\ NoEnd(l) => NoEnd(l)'
      /\ Follows(p, q) => Follows(p, q)'
  BY <1>1, StillEnd
<1>10. StageEnd'
  <2>1. CASE o.last = 0 /\ NoEndBefore(o.slot) /\ Follows(o.slot, o.next)
    <3>1. NoEndBefore(p)' /\ Follows(p, q)'
      BY <1>8, <1>9, <2>1
    <3>2. Follows(op.slot, op.next)'
      BY <1>7, <1>8, <3>1 DEF Follows
    <3> QED BY <1>6, <1>7, <1>8, <2>1, <3>1, <3>2, SlotStageEnd
  <2>2. CASE o.slot = NoPlace /\ NoEnd(o.last) /\ o.last # 0
    <3>1. NoEnd(op.last)'
      BY <1>7, <1>8, <1>9, <2>2 DEF NoEnd, End
    <3>2. GrowEnd'
      BY <1>7, <2>2, <3>1 DEF GrowEnd
    <3> QED BY <1>6, <2>2, <3>2, OneStageEnd
  <2>3. CASE NoEndBefore(o.slot) /\ o.slot = <<o.last, SlotsPerDir>> /\ o.slot # NoPlace /\ o.last # 0
    <3>1. NoEndBefore(op.slot)'
      BY <1>7, <1>8, <1>9, <2>3 DEF NoEndBefore, NoEnd, End
    <3>2. GrowEnd'
      BY <1>7, <2>3, <3>1 DEF GrowEnd
    <3> QED BY <1>6, <2>3, <3>2, OneStageEnd
  <2> QED BY <1>5, <2>1, <2>2, <2>3
<1> QED BY <1>9, <1>10 DEF EndInv

(* The long name is written, and the entry goes behind it. *)
LEMMA WriteLfnEnd ==
  ASSUME IInv, TreeInv, EndInv, WriteLfn PROVE EndInv'
<1> DEFINE o == [op EXCEPT !.slot = op.next]
<1>1. /\ op.at = "lfn" /\ Go("lfn", o) /\ UNCHANGED <<fat, cwd>>
      /\ op \in OpType /\ op.slot \in DirPlace /\ op.next \in DirPlace
      /\ op.cmd = "rename" /\ NoEndBefore(op.slot) /\ Follows(op.slot, op.next)
  BY DEF WriteLfn, At, IInv, TypeOK, StagesSound, LocalsSound, EndInv, StageEnd
<1>2. PICK q \in DirPlace, r \in DirPlace : q = op.slot /\ r = op.next
  BY <1>1
<1>3. PICK v \in SlotVal : v = Lfn(op.long) /\ v.kind = "lfn" /\ v.dir = FALSE
  <2>1. op.long \in Text
    BY <1>1 DEF OpType
  <2>2. Lfn(op.long) \in SlotVal /\ Lfn(op.long).kind = "lfn" /\ Lfn(op.long).dir = FALSE
    BY <2>1 DEF Lfn, SlotVal, Kind
  <2> QED BY <2>2
<1>4. /\ SlotAt(q)' = v
      /\ \A p \in DirPlace : p # q => SlotAt(p)' = SlotAt(p)
  <2>1. TypeOK /\ SetSlot(q, v)
    BY <1>2, <1>3 DEF WriteLfn, IInv
  <2> QED BY <2>1, SetSlotEffect
<1>5. o \in OpType /\ o.cmd = "rename" /\ o.slot = op.next
  <2>1. o \in OpType
    BY <1>1 DEF OpType
  <2> QED BY <1>1, <2>1 DEF OpType
<1> HIDE DEF o
<1>6. op'.at = "entry" /\ op'.slot = r
  <2>1. op' \in OpType /\ op'.at = "entry" /\ SameLocals(o, op')
    BY <1>1, <1>5, AfterStage, GoEffect DEF Stage
  <2> QED BY <1>2, <1>5, <2>1 DEF SameLocals
<1>7. NoEndBefore(q) /\ Follows(q, r) /\ SlotAt(q)'.kind # "end"
  BY <1>1, <1>2, <1>3, <1>4
<1>8. /\ EndsSound'
      /\ \A c \in Cluster, i \in SlotIdx : End(c, i)' => End(c, i) /\ <<c, i>> # q
  BY <1>1, <1>4, <1>7, SlotEnds DEF EndInv
<1>9. NoEndBefore(r)'
  BY <1>1, <1>7, <1>8, BehindWritten
<1>10. HeadsSound'
  <2>1. \A p \in DirPlace : SlotAt(p)' = SlotAt(p) \/ SlotAt(p)'.dir = FALSE
    BY <1>3, <1>4
  <2>2. \A c : Pointed(c)' => Pointed(c)
    BY <1>1, <2>1, PointedKept
  <2> QED BY <1>1, <2>2, HeadsKept DEF EndInv
<1> QED BY <1>6, <1>8, <1>9, <1>10, SlotStageEnd DEF EndInv

(* The entry is written; a directory that it leads to starts there. *)
LEMMA WriteEntryEnd ==
  ASSUME IInv, TreeInv, EndInv, WriteEntry PROVE EndInv'
<1>z. PICK b \in BOOLEAN : b = FALSE
  OBVIOUS
<1>1. /\ op.at = "entry" /\ Go("entry", [op EXCEPT !.over = b]) /\ UNCHANGED <<fat, cwd>>
      /\ op \in OpType /\ op.slot \in DirPlace /\ NoEndBefore(op.slot)
      /\ op.cmd \in {"write", "mkdir", "rename"} /\ EntrySound /\ (op.first # 0 => InFlight(op.first))
  BY <1>z DEF WriteEntry, At, IInv, TypeOK, StagesSound, Hands, TreeInv, StageSound, EndInv, StageEnd
<1>2. PICK q \in DirPlace, f \in Cluster \cup {0} : q = op.slot /\ f = op.first
  BY <1>1 DEF OpType
<1>3. f # 0 => f \in Cluster /\ \A d \in Cluster : fat[d] # f
  <2> SUFFICES ASSUME f # 0 PROVE f \in Cluster /\ \A d \in Cluster : fat[d] # f
    OBVIOUS
  <2>1. f \in Cluster /\ Unref(f)
    BY <1>1, <1>2 DEF InFlight
  <2> QED BY <2>1, UnrefNoLink
<1>4. PICK v \in SlotVal : v = Ent(op.name, op.first, op.dir) /\ v.clus = f /\ v.kind = "ent"
  <2>1. op.name \in Text /\ op.first \in Cluster \cup {0} /\ op.dir \in BOOLEAN
    BY <1>1 DEF OpType
  <2>2. Ent(op.name, op.first, op.dir) \in SlotVal
    BY <2>1 DEF Ent, SlotVal, Kind
  <2>3. Ent(op.name, op.first, op.dir).clus = f /\ Ent(op.name, op.first, op.dir).kind = "ent"
    BY <1>2 DEF Ent
  <2> QED BY <2>2, <2>3
<1>5. /\ SlotAt(q)' = v
      /\ \A p \in DirPlace : p # q => SlotAt(p)' = SlotAt(p)
  <2>1. TypeOK /\ SetSlot(q, v)
    BY <1>2, <1>4 DEF WriteEntry, IInv
  <2> QED BY <2>1, SetSlotEffect
<1>6. EndsSound'
  <2>1. NoEndBefore(q) /\ SlotAt(q)'.kind # "end"
    BY <1>1, <1>2, <1>4, <1>5
  <2> QED BY <1>1, <1>5, <2>1, SlotEnds DEF EndInv
<1>7. HeadsSound'
  <2>1. ASSUME NEW c \in Cluster, Pointed(c)' PROVE Pointed(c) \/ c = f
    <3>1. CASE cwd = c
      BY <3>1 DEF Pointed
    <3>2. CASE cwd # c
      <4>1. PICK p \in DirPlace : SlotAt(p)'.dir /\ SlotAt(p)'.clus = c
        BY <1>1, <2>1, <3>2 DEF Pointed
      <4>2. CASE p = q
        BY <1>4, <1>5, <4>1, <4>2
      <4>3. CASE p # q
        BY <1>5, <4>1, <4>3 DEF Pointed
      <4> QED BY <4>2, <4>3
    <3> QED BY <3>1, <3>2
  <2>2. \A c \in Cluster : Pointed(c)' => Pointed(c) \/ \A d \in Cluster : fat'[d] # c
    BY <1>1, <1>3, <2>1, Numbering
  <2> QED BY <1>1, <2>2, HeadsKept DEF EndInv
<1>8. PICK o : o = [op EXCEPT !.over = b]
  OBVIOUS
<1>9. o \in OpType /\ o.cmd = op.cmd /\ o.first = op.first
  BY <1>1, <1>8 DEF OpType
<1>10. /\ op.cmd \in {"write", "rename"} => op' = Idle
       /\ op.cmd = "mkdir" => op'.at = "dots" /\ op'.first = f
  <2>1. Go("entry", o)
    BY <1>1, <1>8
  <2>2. op.cmd = "mkdir" => op'.at = "dots" /\ SameLocals(o, op')
    BY <1>1, <1>9, <2>1, AfterStage, GoEffect DEF Stage
  <2>3. op.cmd \in {"write", "rename"} => op' = Idle
    BY <1>1, <1>9, <2>1, AfterStage, GoEffect DEF Stage
  <2> QED BY <1>2, <1>9, <2>2, <2>3 DEF SameLocals
<1>11. StageEnd'
  <2>1. CASE op.cmd = "mkdir"
    <3>1. f # 0 /\ fat[f] = EOC
      BY <1>1, <1>2, <2>1 DEF EntrySound
    <3>2. DotsEnd'
      BY <1>1, <1>3, <1>10, <2>1, <3>1 DEF DotsEnd
    <3> QED BY <1>10, <2>1, <3>2, OneStageEnd
  <2>2. CASE op.cmd # "mkdir"
    BY <1>1, <1>10, <2>2, OneStageEnd
  <2> QED BY <2>1, <2>2
<1> QED BY <1>6, <1>7, <1>11 DEF EndInv

(* "." and ".." are written in front of the end. *)
LEMMA WriteDotsEnd ==
  ASSUME IInv, TreeInv, EndInv, WriteDots PROVE EndInv'
<1>1. /\ op.at = "dots" /\ Go("dots", op) /\ UNCHANGED <<fat, cwd>> /\ op \in OpType
      /\ op.cmd \in {"write", "mkdir"} /\ DotsSound /\ DotsEnd
  BY DEF WriteDots, At, IInv, TypeOK, StagesSound, TreeInv, StageSound, EndInv, StageEnd
<1>2. op' = Idle
  BY <1>1, AfterStage, GoEffect DEF Stage
<1>3. PICK f \in Cluster : f = op.first
  BY <1>1 DEF OpType, DotsSound
<1>4. fat[f] = EOC /\ (\A d \in Cluster : fat[d] # f) /\ fat'[f] \notin Cluster
  BY <1>1, <1>3, Numbering DEF DotsEnd
<1>5. PICK B : B = [i \in SlotIdx |-> IF i = 1 THEN Dot(".", f)
                                     ELSE IF i = 2 THEN Dot("..", cwd) ELSE Plain("end")]
  OBVIOUS
<1>6. data'[f] = B /\ \A d \in Cluster : d # f => data'[d] = data[d]
  BY <1>3, <1>5 DEF WriteDots, IInv, TypeOK
<1>7. \A i \in SlotIdx : /\ B[i].kind = "end" <=> i \notin {1, 2}
                         /\ B[i].dir => B[i].clus \in {f, cwd}
  <2>1. /\ Dot(".", f).kind = "dot" /\ Dot("..", cwd).kind = "dot" /\ Plain("end").kind = "end"
        /\ Dot(".", f).clus = f /\ Dot("..", cwd).clus = cwd /\ Plain("end").dir = FALSE
    BY DEF Dot, Plain
  <2> HIDE DEF Dot, Plain
  <2> QED BY <1>5, <2>1
<1>8. EndsSound'
  <2>1. \A i \in SlotIdx : End(f, i)' <=> i \notin {1, 2}
    BY <1>6, <1>7 DEF End
  <2>2. \A i, j \in SlotIdx : i < j /\ End(f, i)' => End(f, j)'
    BY <2>1, DiskAssumption DEF SlotIdx
  <2>3. \A d \in Cluster : d # f => fat'[d] = fat[d] /\ data'[d] = data[d]
    BY <1>1, <1>6
  <2> QED BY <1>4, <2>2, <2>3, ClusterEnds DEF EndInv
<1>9. HeadsSound'
  <2>1. ASSUME NEW c \in Cluster, Pointed(c)' PROVE Pointed(c) \/ c = f
    <3>1. CASE cwd = c
      BY <3>1 DEF Pointed
    <3>2. CASE cwd # c
      <4>1. PICK p \in DirPlace : SlotAt(p)'.dir /\ SlotAt(p)'.clus = c
        BY <1>1, <2>1, <3>2 DEF Pointed
      <4>2. CASE p[1] = f
        <5>1. SlotAt(p)' = B[p[2]] /\ p[2] \in SlotIdx
          BY <1>6, <4>2, Places DEF SlotAt
        <5> QED BY <1>7, <3>2, <4>1, <5>1
      <4>3. CASE p[1] # f
        <5>1. SlotAt(p)' = SlotAt(p)
          BY <1>6, <4>3, Places DEF SlotAt
        <5> QED BY <4>1, <5>1 DEF Pointed
      <4> QED BY <4>2, <4>3
    <3> QED BY <3>1, <3>2
  <2>2. \A c \in Cluster : Pointed(c)' => Pointed(c) \/ \A d \in Cluster : fat'[d] # c
    BY <1>1, <1>4, <2>1
  <2> QED BY <1>1, <2>2, HeadsKept DEF EndInv
<1> QED BY <1>2, <1>8, <1>9, OneStageEnd DEF EndInv

(* A write fails: the command gives up, and mkdir frees its cluster. *)
LEMMA WriteFailsEnd ==
  ASSUME IInv, TreeInv, EndInv, WriteFails PROVE EndInv'
<1>1. cwd' = cwd
  BY DEF WriteFails
<1>2. CASE GiveUp /\ UNCHANGED <<fat, data>>
  BY <1>1, <1>2, GaveUpEnd DEF GiveUp
<1>3. CASE /\ op.at = "entry" /\ op.cmd = "mkdir" /\ SetFat(op.first, Free)
           /\ data' = [data EXCEPT ![op.first] = NoDir] /\ op' = Idle
  <2>1. op.first # 0 /\ InFlight(op.first) /\ TypeOK
    BY <1>3 DEF TreeInv, StageSound, EntrySound, IInv, Hands
  <2>2. PICK f \in Cluster : f = op.first
    BY <2>1 DEF InFlight
  <2>3. /\ fat'[f] = Free /\ data'[f] = NoDir
        /\ \A d \in Cluster : d # f => fat'[d] = fat[d] /\ data'[d] = data[d]
    BY <1>3, <2>1, <2>2, ClusterWrite DEF SetFat
  <2>4. fat'[f] \notin Cluster /\ \A d \in Cluster : fat[d] # f
    BY <2>1, <2>2, <2>3, Numbering, UnrefNoLink DEF InFlight
  <2>5. EndsSound' /\ HeadsSound'
    BY <1>1, <2>3, <2>4, ReplaceEnds DEF EndInv
  <2> QED BY <1>3, <2>5, OneStageEnd DEF EndInv
<1> QED BY <1>2, <1>3 DEF WriteFails, At

(* The driver dies: the next one starts in the root directory. *)
LEMMA CrashEnd ==
  ASSUME IInv, EndInv, Crash PROVE EndInv'
BY GaveUpEnd DEF Crash, GiveUp

(* A command that writes an entry starts: it has a slot with no end in     *)
(* front of it, or a directory without end that must grow.                 *)
LEMMA StartWriteEnd ==
  ASSUME EndInv, op = Idle, NEW o \in OpType, Start(o), o.cmd \in {"write", "mkdir"}, o.new = 0,
         \/ o.last = 0 /\ NoEndBefore(o.slot)
         \/ o.last # 0 /\ o.slot = NoPlace /\ NoEnd(o.last)
  PROVE  EndInv'
<1>1. Go("start", o) /\ UNCHANGED <<fat, data, cwd>>
  BY DEF Start
<1>2. PICK s \in {"grow", "free", "alloc", "entry"} : s = After("start", o) /\ (s = "grow" <=> o.last # 0)
  BY AfterStage
<1>3. op'.at = s /\ op'.new = 0 /\ op'.slot = o.slot /\ op'.last = o.last
  <2>1. op' \in OpType /\ op'.at = s /\ SameLocals(o, op')
    BY <1>1, <1>2, GoEffect DEF Stage
  <2> QED BY <2>1 DEF SameLocals
<1>4. PICK p, l : p = o.slot /\ l = o.last
  OBVIOUS
<1>5. /\ EndsSound' /\ HeadsSound'
      /\ NoEndBefore(p) => NoEndBefore(p)'
      /\ NoEnd(l) => NoEnd(l)'
  BY <1>1, StillEnd
<1>6. CASE o.last = 0 /\ NoEndBefore(o.slot)
  BY <1>2, <1>3, <1>4, <1>5, <1>6, SlotStageEnd DEF EndInv
<1>7. CASE o.last # 0 /\ o.slot = NoPlace /\ NoEnd(o.last)
  <2>1. NoEnd(op.last)'
    BY <1>3, <1>4, <1>5, <1>7 DEF NoEnd, End
  <2>2. GrowEnd'
    BY <1>3, <1>7, <2>1 DEF GrowEnd
  <2> QED BY <1>2, <1>3, <1>5, <1>7, <2>2, OneStageEnd DEF EndInv
<1> QED BY <1>6, <1>7

(* A command that marks an entry starts. *)
LEMMA StartMarkEnd ==
  ASSUME EndInv, op = Idle, NEW o \in OpType, Start(o), o.cmd \in {"delete", "rename"},
         NEW p \in DirPlace, o.slot = p, SlotAt(p).kind = "ent"
  PROVE  EndInv'
<1>1. Go("start", o) /\ UNCHANGED <<fat, data, cwd>>
  BY DEF Start
<1>2. op'.at = "mark" /\ op'.slot = p
  <2>1. op' \in OpType /\ op'.at = "mark" /\ SameLocals(o, op')
    BY <1>1, AfterStage, GoEffect DEF Stage
  <2> QED BY <2>1 DEF SameLocals
<1>3. EndsSound' /\ HeadsSound'
  BY <1>1, StillEnd
<1>4. SlotAt(op.slot)'.kind # "end"
  BY <1>1, <1>2 DEF SlotAt
<1> QED BY <1>2, <1>3, <1>4, OneStageEnd DEF EndInv

(* A command that makes a new entry, where dir_scan found room. *)
LEMMA OpeningEnd ==
  ASSUME IInv, TreeInv, EndInv, op = Idle, NEW r \in Room(cwd), NEW o, Opening(o), Start(o),
         o.slot = r.slot, o.last = r.last
  PROVE  EndInv'
<1>1. o \in OpType /\ o.cmd \in {"write", "mkdir"} /\ o.new = 0
  BY DEF Opening
<1>2. \/ r.last = 0 /\ NoEndBefore(r.slot)
      \/ r.slot = NoPlace /\ NoEnd(r.last)
  BY RoomEnd
<1>3. \/ r.last # 0 /\ r.slot = NoPlace
      \/ r.last = 0 /\ r.slot # NoPlace
  BY RoomFields, Places
<1> QED BY <1>1, <1>2, <1>3, StartWriteEnd

(* The locals that the user has no say in. *)
LEMMA NewFilePlaces ==
  ASSUME NEW r \in OpType, NEW c \in {"write", "mkdir"}, NEW k \in 0 .. MaxLen + 1,
         NEW t \in Text, NEW b \in BOOLEAN, NEW o, o = NewFile(r, c, k, t, b)
  PROVE  o.slot = r.slot /\ o.last = r.last
BY DEF OpType, NewFile

(* touch *)
LEMMA CreateEnd ==
  ASSUME IInv, TreeInv, EndInv, NEW n \in Name, fat32_create_file(n)
  PROVE  EndInv'
<1>1. op = Idle
  BY DEF fat32_create_file, Ready
<1>2. PICK r \in Room(cwd) : Start([r EXCEPT !.cmd = "write", !.name = Fmt[n]])
  BY DEF fat32_create_file
<1>3. r.need = 0 /\ r.dir = FALSE /\ r \in OpType
  BY RoomRest
<1>4. PICK k, b, t, w : k = r.need /\ b = r.dir /\ t = Fmt[n] /\ w = "write"
  OBVIOUS
<1>5. k \in 0 .. MaxLen + 1 /\ b \in BOOLEAN /\ t \in Text /\ w \in {"write", "mkdir"} /\ ~b /\ w # "mkdir"
  <2>1. k \in 0 .. MaxLen + 1
    BY <1>3, <1>4, DiskAssumption
  <2>2. b \in BOOLEAN /\ ~b
    BY <1>3, <1>4
  <2>3. t \in Text /\ w \in {"write", "mkdir"} /\ w # "mkdir"
    BY <1>4, Texts
  <2> QED BY <2>1, <2>2, <2>3
<1>6. PICK o : o = NewFile(r, w, k, t, b)
  OBVIOUS
<1>7. [r EXCEPT !.cmd = w, !.name = t] = o
  BY <1>3, <1>4, <1>6 DEF OpType, NewFile
<1>8. Start(o)
  BY <1>2, <1>4, <1>7
<1>9. Opening(o)
  BY <1>5, <1>6, NewOpening
<1>10. o.slot = r.slot /\ o.last = r.last
  BY <1>3, <1>5, <1>6, NewFilePlaces
<1> QED BY <1>1, <1>8, <1>9, <1>10, OpeningEnd

(* mkdir *)
LEMMA MkdirEnd ==
  ASSUME IInv, TreeInv, EndInv, NEW n \in Name, fat32_mkdir(n)
  PROVE  EndInv'
<1>1. op = Idle
  BY DEF fat32_mkdir, Ready
<1>2. PICK r \in Room(cwd) :
         Start([r EXCEPT !.cmd = "mkdir", !.need = 1, !.name = Fmt[n], !.dir = TRUE])
  BY DEF fat32_mkdir
<1>3. PICK k, b, t, w : k = 1 /\ b = TRUE /\ t = Fmt[n] /\ w = "mkdir"
  OBVIOUS
<1>4. k \in 0 .. MaxLen + 1 /\ b \in BOOLEAN /\ t \in Text /\ w \in {"write", "mkdir"}
      /\ k = 1 /\ b /\ w # "write"
  <2>1. k \in 0 .. MaxLen + 1 /\ k = 1
    BY <1>3, DiskAssumption
  <2>2. b \in BOOLEAN /\ b
    BY <1>3
  <2>3. t \in Text /\ w \in {"write", "mkdir"} /\ w # "write"
    BY <1>3, Texts
  <2> QED BY <2>1, <2>2, <2>3
<1>5. PICK o : o = NewFile(r, w, k, t, b)
  OBVIOUS
<1>6. o = [r EXCEPT !.cmd = "mkdir", !.need = 1, !.name = Fmt[n], !.dir = TRUE]
  BY <1>3, <1>5, Zenon DEF NewFile
<1>7. Start(o)
  BY <1>2, <1>6
<1>8. Opening(o)
  BY <1>4, <1>5, NewOpening
<1>9. o.slot = r.slot /\ o.last = r.last
  <2>1. r \in OpType
    BY RoomRest
  <2>2. w \in {"write", "mkdir"} /\ k \in 0 .. MaxLen + 1 /\ t \in Text /\ b \in BOOLEAN
    BY <1>4
  <2> QED BY <1>5, <2>1, <2>2 DEF OpType, NewFile
<1> QED BY <1>1, <1>7, <1>8, <1>9, OpeningEnd

(* An entry has no end in front of it. *)
LEMMA EntryInFront ==
  ASSUME EndsSound, NEW p \in DirPlace, SlotAt(p).kind = "ent"
  PROVE  NoEndBefore(p)
<1>1. p[1] \in Cluster /\ p[2] \in SlotIdx /\ ~End(p[1], p[2])
  BY Places DEF SlotAt, End
<1>2. \A j \in SlotIdx : j < p[2] => ~End(p[1], j)
  BY <1>1 DEF EndsSound
<1>3. ASSUME NEW d \in Cluster, fat[d] = p[1] PROVE NoEnd(d)
  BY <1>1, <1>3 DEF EndsSound, HasNext
<1> QED BY <1>2, <1>3 DEF NoEndBefore

(* echo > *)
LEMMA WriteFileEnd ==
  ASSUME IInv, TreeInv, EndInv, NEW n \in Name, NEW len \in 0 .. MaxLen, fat32_write_file(n, len)
  PROVE  EndInv'
<1>1. op = Idle
  BY DEF fat32_write_file, Ready
<1>2. CASE \E r \in Room(cwd) : Start([r EXCEPT !.cmd = "write", !.need = len, !.name = Fmt[n]])
  <2>1. PICK r \in Room(cwd) : Start([r EXCEPT !.cmd = "write", !.need = len, !.name = Fmt[n]])
    BY <1>2
  <2>2. r.dir = FALSE /\ r \in OpType
    BY RoomRest
  <2>3. PICK b, t, w : b = r.dir /\ t = Fmt[n] /\ w = "write"
    OBVIOUS
  <2>4. len \in 0 .. MaxLen + 1 /\ b \in BOOLEAN /\ t \in Text /\ w \in {"write", "mkdir"}
        /\ ~b /\ w # "mkdir"
    <3>1. len \in 0 .. MaxLen + 1
      BY DiskAssumption
    <3>2. b \in BOOLEAN /\ ~b
      BY <2>2, <2>3
    <3>3. t \in Text /\ w \in {"write", "mkdir"} /\ w # "mkdir"
      BY <2>3, Texts
    <3> QED BY <3>1, <3>2, <3>3
  <2>5. PICK o : o = NewFile(r, w, len, t, b)
    OBVIOUS
  <2>6. [r EXCEPT !.cmd = w, !.need = len, !.name = t] = o
    BY <2>2, <2>3, <2>5 DEF OpType, NewFile
  <2>7. Start(o)
    BY <2>1, <2>3, <2>6
  <2>8. Opening(o)
    BY <2>4, <2>5, NewOpening
  <2>9. o.slot = r.slot /\ o.last = r.last
    BY <2>2, <2>4, <2>5, NewFilePlaces
  <2> QED BY <1>1, <2>7, <2>8, <2>9, OpeningEnd
<1>3. ASSUME NEW p \in DirPlace, Found(cwd, n, p),
             Start([Idle EXCEPT !.cmd = "write", !.slot = p, !.cl = SlotAt(p).clus, !.need = len,
                                !.name = SlotAt(p).name, !.dir = SlotAt(p).dir,
                                !.over = SlotAt(p).clus # 0])
      PROVE  EndInv'
  <2>1. NoEndBefore(p)
    BY <1>3, EntryInFront DEF Found, EndInv
  <2>2. /\ len \in 0 .. MaxLen + 1 /\ SlotAt(p).clus \in Cluster \cup {0}
        /\ SlotAt(p).name \in Text /\ SlotAt(p).dir \in BOOLEAN
    BY SlotFields, DiskAssumption DEF IInv
  <2>3. PICK c \in Cluster \cup {0}, t \in Text, d \in BOOLEAN, b \in BOOLEAN, k \in 0 .. MaxLen + 1 :
           /\ c = SlotAt(p).clus /\ t = SlotAt(p).name /\ d = SlotAt(p).dir
           /\ b = (SlotAt(p).clus # 0) /\ k = len
    BY <2>2
  <2>4. PICK o : o = OldFile(p, c, k, t, d, b)
    OBVIOUS
  <2>5. Start(o)
    BY <1>3, <2>3, <2>4 DEF OldFile
  <2>6. o \in OpType /\ o.cmd = "write" /\ o.slot = p /\ o.new = 0 /\ o.last = 0
    BY <2>4, OldEntry
  <2> QED BY <1>1, <2>1, <2>5, <2>6, StartWriteEnd
<1> QED BY <1>2, <1>3 DEF fat32_write_file

(* rm *)
LEMMA DeleteEnd ==
  ASSUME IInv, TreeInv, EndInv, NEW n \in Name, fat32_delete_file(n)
  PROVE  EndInv'
<1>1. op = Idle
  BY DEF fat32_delete_file, Ready
<1>2. PICK p \in DirPlace :
         /\ SlotAt(p).kind = "ent" /\ Start([Idle EXCEPT !.cmd = "delete", !.slot = p, !.cl = SlotAt(p).clus])
  BY DEF fat32_delete_file, Found
<1>3. PICK c \in Cluster \cup {0} : c = SlotAt(p).clus
  BY SlotFields DEF IInv
<1>4. PICK o : o = [Idle EXCEPT !.cmd = "delete", !.slot = p, !.cl = c]
  OBVIOUS
<1>5. Start(o)
  BY <1>2, <1>3, <1>4
<1>6. o \in OpType
  BY <1>4, IdleFields DEF OpType
<1>7. o.cmd = "delete" /\ o.slot = p
  BY <1>4, IdleFields DEF OpType
<1> QED BY <1>1, <1>2, <1>5, <1>6, <1>7, StartMarkEnd

(* cd leads to the first cluster of a directory. *)
LEMMA CdEnd ==
  ASSUME IInv, TreeInv, EndInv, Careful, NEW c \in Cluster, fat32_cd(c)
  PROVE  EndInv'
<1>1. op = Idle /\ cwd' = c /\ UNCHANGED <<fat, data, op>>
  BY DEF fat32_cd
<1>2. Pointed(c) \/ c = Root
  <2>1. CASE \E n \in Name, p \in DirPlace :
               /\ Found(cwd, n, p) /\ Enterable(p)
               /\ c = IF SlotAt(p).clus = 0 THEN Root ELSE SlotAt(p).clus
    BY <2>1 DEF Enterable, Pointed
  <2>2. CASE \E p \in DirPlace : SlotAt(p).kind = "dot" /\ c = SlotAt(p).clus
    BY <2>2 DEF TreeInv, DirsSound, Pointed
  <2> QED BY <2>1, <2>2 DEF fat32_cd
<1>3. EndsSound'
  <2>1. SameEnds
    BY <1>1 DEF SameEnds, End
  <2> QED BY <1>1, <2>1, QuietEnds DEF EndInv
<1>4. HeadsSound'
  <2>1. ASSUME NEW d \in Cluster, Pointed(d)' PROVE Pointed(d) \/ d = Root
    BY <1>1, <1>2, <2>1 DEF Pointed, SlotAt
  <2>2. \A d \in Cluster : fat'[d] # Root
    BY <1>1, RootUnlinked
  <2> QED BY <1>1, <2>1, <2>2, HeadsKept DEF EndInv
<1> QED BY <1>1, <1>3, <1>4, OneStageEnd DEF EndInv

(* mv: the old entry is to be marked, or renamed where it is. *)
LEMMA RenameEnd ==
  ASSUME IInv, TreeInv, EndInv, NEW n \in Name, NEW m \in Name, fat32_rename_file(n, m)
  PROVE  EndInv'
<1>1. op = Idle
  BY DEF fat32_rename_file, Ready
<1>2. PICK p \in DirPlace :
        /\ SlotAt(p).kind = "ent"
        /\ IF m \in LongName
           THEN Start([Idle EXCEPT !.cmd = "rename", !.slot = p, !.first = SlotAt(p).clus,
                                   !.dir = SlotAt(p).dir, !.name = Alias, !.long = m])
           ELSE /\ data' = [data EXCEPT ![p[1]][p[2]].name = Fmt[m]]
                /\ UNCHANGED <<fat, cwd, op, torn, leaky, faults>>
  BY DEF fat32_rename_file, Found
<1>3. CASE m \in LongName
  <2>1. PICK c, d : c = SlotAt(p).clus /\ d = SlotAt(p).dir
    OBVIOUS
  <2>2. c \in Cluster \cup {0} /\ d \in BOOLEAN /\ m \in Text /\ Alias \in Text
    BY <2>1, SlotFields, Texts DEF IInv
  <2>3. PICK o : o = [Idle EXCEPT !.cmd = "rename", !.slot = p, !.first = c, !.dir = d,
                                  !.name = Alias, !.long = m]
    OBVIOUS
  <2>4. Start(o)
    BY <1>2, <1>3, <2>1, <2>3, Zenon
  <2>5. o \in OpType
    BY <2>2, <2>3, IdleFields DEF OpType
  <2>6. o.cmd = "rename" /\ o.slot = p
    BY <2>3, IdleFields DEF OpType
  <2> QED BY <1>1, <1>2, <2>4, <2>5, <2>6, StartMarkEnd
<1>4. CASE m \notin LongName
  <2>1. /\ data' = [data EXCEPT ![p[1]][p[2]].name = Fmt[m]] /\ UNCHANGED <<fat, cwd, op>>
        /\ TypeOK /\ data \in [Cluster -> [SlotIdx -> SlotVal]] /\ p[1] \in Cluster /\ p[2] \in SlotIdx
        /\ Fmt[m] \in Text
    BY <1>2, <1>4, Places, Texts DEF IInv, TypeOK
  <2>2. PICK v : v = [SlotAt(p) EXCEPT !.name = Fmt[m]]
    OBVIOUS
  <2>3. SlotAt(p) \in SlotVal
    BY <2>1 DEF SlotAt
  <2>4. v \in SlotVal /\ v.kind = SlotAt(p).kind /\ v.clus = SlotAt(p).clus /\ v.dir = SlotAt(p).dir
    BY <2>1, <2>2, <2>3 DEF SlotVal
  <2>5. SetSlot(p, v)
    BY <2>1, <2>2 DEF SetSlot, SlotAt
  <2>6. /\ SlotAt(p)' = v
        /\ \A q \in DirPlace : q # p => SlotAt(q)' = SlotAt(q)
    BY <2>1, <2>4, <2>5, SetSlotEffect
  <2>7. \A q \in DirPlace : /\ SlotAt(q)'.kind = SlotAt(q).kind /\ SlotAt(q)'.clus = SlotAt(q).clus
                            /\ SlotAt(q)'.dir = SlotAt(q).dir
    BY <2>4, <2>6
  <2>8. ASSUME NEW c \in Cluster, NEW i \in SlotIdx PROVE End(c, i)' <=> End(c, i)
    <3>1. PICK q \in DirPlace : q = <<c, i>>
      BY DEF DirPlace
    <3>2. q[1] = c /\ q[2] = i
      BY <3>1
    <3> QED BY <2>7, <3>2 DEF End, SlotAt
  <2>9. EndsSound'
    <3>1. SameEnds
      BY <2>8 DEF SameEnds
    <3> QED BY <2>1, <3>1, QuietEnds DEF EndInv
  <2>10. HeadsSound'
    <3>1. \A c \in Cluster : Pointed(c)' => Pointed(c)
      BY <2>1, <2>7 DEF Pointed
    <3> QED BY <2>1, <3>1, HeadsKept DEF EndInv
  <2> QED BY <1>1, <2>1, <2>9, <2>10, OneStageEnd DEF EndInv
<1> QED BY <1>3, <1>4

(* A new disk has an empty root directory. *)
LEMMA InitEnd == Init => EndInv
<1> SUFFICES ASSUME Init PROVE EndInv
  OBVIOUS
<1>1. /\ fat = [c \in Cluster |-> IF c = Root THEN EOC ELSE Free]
      /\ data = [c \in Cluster |-> IF c = Root THEN Blank ELSE NoDir]
      /\ op = Idle
  BY DEF Init
<1>2. \A c \in Cluster : fat[c] \notin Cluster
  BY <1>1, Numbering
<1>3. \A c \in Cluster, i \in SlotIdx : End(c, i) <=> c = Root
  <2>1. \A c \in Cluster : data[c] = IF c = Root THEN Blank ELSE NoDir
    BY <1>1
  <2> QED BY <2>1, NewContents DEF End
<1>4. EndsSound
  BY <1>2, <1>3 DEF EndsSound, HasNext
<1>5. HeadsSound
  BY <1>2 DEF HeadsSound
<1>6. StageEnd
  BY <1>1, IdleFields DEF StageEnd
<1> QED BY <1>4, <1>5, <1>6 DEF EndInv

(* Nothing changes. *)
LEMMA StutterEnd ==
  ASSUME EndInv, UNCHANGED vars PROVE EndInv'
<1>1. UNCHANGED <<fat, data, cwd, op>>
  BY DEF vars
<1>2. EndsSound' /\ HeadsSound'
  BY <1>1, StillEnd
<1>3. StageEnd'
  BY <1>1 DEF EndInv, StageEnd, GrowEnd, DotsEnd, NoEndBefore, NoEnd, End, Follows, Pointed, SlotAt
<1> QED BY <1>2, <1>3 DEF EndInv

(* Every step keeps what is behind the end of a directory empty. *)
LEMMA NextEnd ==
  ASSUME IInv, TreeInv, EndInv, Careful, [Next]_vars PROVE EndInv'
<1>1. CASE Command
  BY <1>1, CreateEnd, WriteFileEnd, DeleteEnd, RenameEnd, MkdirEnd, CdEnd DEF Command
<1>2. CASE Step
  BY <1>2, GrowAllocEnd, GrowLinkEnd, FreeStepEnd, AllocTakeEnd, AllocLinkEnd, MarkEnd,
     FindRunEnd, WriteLfnEnd, WriteEntryEnd, WriteDotsEnd DEF Step
<1>3. CASE WriteFails
  BY <1>3, WriteFailsEnd
<1>4. CASE Crash
  BY <1>4, CrashEnd
<1>5. CASE UNCHANGED vars
  BY <1>5, StutterEnd
<1> QED BY <1>1, <1>2, <1>3, <1>4, <1>5 DEF Next

(* Behind the end of a directory there is nothing but the end, in every    *)
(* state, and the command in progress does not write there.                *)
THEOREM EndInvariance ==
  ASSUME Careful PROVE Spec => []EndInv
<1>1. Init => EndInv
  BY InitEnd
<1>2. IInv /\ TreeInv /\ EndInv /\ [Next]_vars => EndInv'
  BY NextEnd
<1> QED BY <1>1, <1>2, TreeInvariance, PTL DEF Spec

(* Every entry of a directory is in front of its end, where dir_scan finds *)
(* it: no file becomes invisible, whenever the driver was killed.          *)
THEOREM NothingIsHidden ==
  ASSUME Careful PROVE Spec => []NothingBehindEnd
<1>1. IInv /\ TreeInv /\ EndInv => NothingBehindEnd
  <2> SUFFICES ASSUME IInv, TreeInv, EndInv, NEW d \in Cluster, NEW ch, ch = Chain(d),
                      NEW k \in Numbers(ch), Nth(ch, k).kind = "ent", NEW j \in 1 .. k
               PROVE  Nth(ch, j).kind # "end"
    BY Zenon DEF NothingBehindEnd, InUse
  <2>1. Path(d, ch)
    BY ChainEnds DEF IInv, TreeInv
  <2> QED BY <2>1, EndStays DEF EndInv
<1> QED BY <1>1, TreeInvariance, EndInvariance, PTL

-----------------------------------------------------------------------------
(* The tortoise and the hare (fat_chain_has_cycle) never meet. *)

(* One turn, and the function of the turns up to the m-th. *)
Turn(t) ==
  IF t.met \/ t.ended THEN t
  ELSE IF ~HasNext(fat[t.fast]) \/ ~HasNext(fat[fat[t.fast]])
  THEN [t EXCEPT !.ended = TRUE]
  ELSE [t EXCEPT !.slow = fat[t.slow], !.fast = fat[fat[t.fast]],
                 !.met = fat[t.slow] = fat[fat[t.fast]]]
StartLine(c) == [slow |-> c, fast |-> c, met |-> FALSE, ended |-> FALSE]
Turns(c, m, w) == w = [n \in 0 .. m |-> IF n = 0 THEN StartLine(c) ELSE Turn(w[n - 1])]

TurnType == [slow : Cluster, fast : Cluster, met : BOOLEAN, ended : BOOLEAN]

(* They run along a path; the hare is twice as far. *)
Apart(c, t, m, ch) ==
  /\ m \in Nat /\ Path(c, ch) /\ Len(ch) = 2 * m + 1
  /\ t.slow = ch[m + 1] /\ t.fast = ch[2 * m + 1]
Running(c, t) ==
  /\ t \in TurnType /\ t.met = FALSE
  /\ t.ended \/ \E m, ch : Apart(c, t, m, ch)

(* There is such a function. *)
LEMMA TurnsExist ==
  ASSUME NEW c, NEW N \in Nat PROVE \E w : Turns(c, N, w)
<1> DEFINE S == {m \in Nat : \E w : Turns(c, m, w)}
<1>1. 0 \in S
  <2>1. PICK y : y = [k \in 0 .. 0 |-> StartLine(c)]
    OBVIOUS
  <2>2. y = [k \in 0 .. 0 |-> IF k = 0 THEN StartLine(c) ELSE Turn(y[k - 1])]
    BY <2>1
  <2>3. Turns(c, 0, y)
    BY <2>2 DEF Turns
  <2> QED BY <2>3
<1>2. ASSUME NEW n \in 0 .. (N - 1), n \in S PROVE n + 1 \in S
  <2>1. PICK w : Turns(c, n, w)
    BY <1>2
  <2> DEFINE x == [k \in 0 .. (n + 1) |-> IF k = 0 THEN StartLine(c) ELSE Turn(w[k - 1])]
  <2>2. ASSUME NEW k \in 0 .. n PROVE x[k] = w[k]
    <3>1. k \in 0 .. (n + 1)
      OBVIOUS
    <3>2. x[k] = IF k = 0 THEN StartLine(c) ELSE Turn(w[k - 1])
      BY <3>1
    <3>3. w[k] = IF k = 0 THEN StartLine(c) ELSE Turn(w[k - 1])
      BY <2>1 DEF Turns
    <3> QED BY <3>2, <3>3
  <2>3. \A k \in 0 .. (n + 1) : k # 0 => k - 1 \in 0 .. n
    OBVIOUS
  <2>4. \A k \in 0 .. (n + 1) : k # 0 => x[k - 1] = w[k - 1]
    <3> HIDE DEF x
    <3> QED BY <2>2, <2>3
  <2>5. PICK y : y = x
    OBVIOUS
  <2>6. \A k \in 0 .. (n + 1) : k # 0 => y[k - 1] = w[k - 1]
    BY <2>4, <2>5
  <2>7. y = [k \in 0 .. (n + 1) |-> IF k = 0 THEN StartLine(c) ELSE Turn(y[k - 1])]
    BY <2>5, <2>6
  <2>8. Turns(c, n + 1, y)
    BY <2>7 DEF Turns
  <2> QED BY <2>8
<1> HIDE DEF S
<1>3. N \in S
  BY <1>1, <1>2, Induction
<1> USE DEF S
<1> QED BY <1>3

(* What fat_chain_has_cycle is the last value of. *)
LEMMA CycleTurns ==
  ASSUME NEW c
  PROVE  \E w : Turns(c, MaxCluster, w) /\ fat_chain_has_cycle(fat, c) = w[MaxCluster].met
<1> DEFINE w == CHOOSE w : w = [n \in 0 .. MaxCluster |->
                  IF n = 0 THEN [slow |-> c, fast |-> c, met |-> FALSE, ended |-> FALSE]
                  ELSE LET t == w[n - 1] IN
                       IF t.met \/ t.ended THEN t
                       ELSE IF ~HasNext(fat[t.fast]) \/ ~HasNext(fat[fat[t.fast]])
                       THEN [t EXCEPT !.ended = TRUE]
                       ELSE [t EXCEPT !.slow = fat[t.slow], !.fast = fat[fat[t.fast]],
                                      !.met = fat[t.slow] = fat[fat[t.fast]]]]
<1>1. fat_chain_has_cycle(fat, c) = w[MaxCluster].met
  BY DEF fat_chain_has_cycle
<1>2. \E x : Turns(c, MaxCluster, x)
  BY TurnsExist, DiskAssumption
<1>3. Turns(c, MaxCluster, w)
  BY <1>2, Zenon DEF Turns, Turn, StartLine
<1> QED BY <1>1, <1>3

(* The path that the hare takes in a turn. *)
LEMMA HarePath ==
  ASSUME TypeOK, NEW c \in Cluster, NEW ch, Path(c, ch), NEW l \in Nat, l = Len(ch),
         NEW x \in Cluster, x = ch[l], HasNext(fat[x])
  PROVE  \E v : /\ Path(c, v) /\ Len(v) = l + 1 /\ v[l + 1] = fat[x]
                /\ \A i \in 1 .. l : v[i] = ch[i]
<1>1. Path(c, Extend(ch)) /\ Len(Extend(ch)) = l + 1
  BY ExtendPath
<1>2. Extend(ch) = Append(ch, fat[x])
  BY DEF Extend
<1>3. ch \in Seq(Cluster) /\ fat[x] \in Cluster
  BY DEF Path, HasNext
<1>4. Append(ch, fat[x])[l + 1] = fat[x] /\ \A i \in 1 .. l : Append(ch, fat[x])[i] = ch[i]
  BY <1>3
<1> QED BY <1>1, <1>2, <1>4

(* A turn keeps them apart, since no chain comes back to a cluster. *)
LEMMA TurnRunning ==
  ASSUME TypeOK, Acyclic, NEW c \in Cluster, NEW t, Running(c, t)
  PROVE  Running(c, Turn(t))
<1>1. t \in TurnType /\ t.met = FALSE
  BY DEF Running
<1>2. CASE t.ended
  BY <1>2 DEF Turn
<1>3. CASE ~t.ended /\ (~HasNext(fat[t.fast]) \/ ~HasNext(fat[fat[t.fast]]))
  <2>1. Turn(t) = [t EXCEPT !.ended = TRUE]
    BY <1>1, <1>3 DEF Turn
  <2>2. Turn(t) \in TurnType /\ Turn(t).met = FALSE /\ Turn(t).ended
    BY <1>1, <2>1 DEF TurnType
  <2> QED BY <2>2 DEF Running
<1>4. CASE ~t.ended /\ HasNext(fat[t.fast]) /\ HasNext(fat[fat[t.fast]])
  <2>1. PICK m, ch : Apart(c, t, m, ch)
    BY <1>4 DEF Running
  <2>2. PICK s \in Cluster, x \in Cluster : s = t.slow /\ x = t.fast
    BY <1>1 DEF TurnType
  <2>3. m \in Nat /\ Path(c, ch) /\ Len(ch) = 2 * m + 1 /\ s = ch[m + 1] /\ x = ch[2 * m + 1]
    BY <2>1, <2>2 DEF Apart
  <2>4. PICK l \in Nat : l = 2 * m + 1
    BY <2>3
  <2>5. PICK y \in Cluster : y = fat[x] /\ HasNext(fat[y])
    BY <1>4, <2>2 DEF HasNext
  <2>6. PICK v : /\ Path(c, v) /\ Len(v) = l + 1 /\ v[l + 1] = y
                 /\ \A i \in 1 .. l : v[i] = ch[i]
    BY <1>4, <2>2, <2>3, <2>4, <2>5, HarePath
  <2>7. PICK k \in Nat : k = l + 1
    OBVIOUS
  <2>8. PICK u : /\ Path(c, u) /\ Len(u) = k + 1 /\ u[k + 1] = fat[y]
                 /\ \A i \in 1 .. k : u[i] = v[i]
    BY <2>5, <2>6, <2>7, HarePath
  <2>9. u[m + 1] = s
    <3>1. m + 1 \in 1 .. l /\ m + 1 \in 1 .. k
      BY <2>3, <2>4, <2>7
    <3> QED BY <2>3, <2>6, <2>8, <3>1
  <2>10. u[m + 2] = fat[s]
    <3>1. PICK i : i = m + 1
      OBVIOUS
    <3>2. i \in 1 .. (Len(u) - 1)
      BY <2>3, <2>4, <2>7, <2>8, <3>1
    <3>3. u[i + 1] = fat[u[i]]
      BY <2>8, <3>2 DEF Path
    <3>4. i + 1 = m + 2
      BY <2>3, <3>1
    <3> QED BY <2>9, <3>1, <3>3, <3>4
  <2>11. fat[s] # fat[y] /\ fat[s] \in Cluster /\ fat[y] \in Cluster
    <3>1. m + 2 \in 1 .. Len(u) /\ k + 1 \in 1 .. Len(u) /\ m + 2 < k + 1
      BY <2>3, <2>4, <2>7, <2>8
    <3>2. u[m + 2] # u[k + 1]
      BY <2>8, <3>1, PathsDoNotMeet
    <3>3. u[m + 2] \in Cluster
      BY <2>8, <3>1 DEF Path
    <3> QED BY <2>5, <2>8, <2>10, <3>2, <3>3 DEF HasNext
  <2>12. PICK r : r = Turn(t)
    OBVIOUS
  <2>13. r = [t EXCEPT !.slow = fat[s], !.fast = fat[y], !.met = fat[s] = fat[y]]
    BY <1>1, <1>4, <2>2, <2>5, <2>12 DEF Turn
  <2>14. PICK a \in Cluster, b \in Cluster, f \in BOOLEAN : a = fat[s] /\ b = fat[y] /\ f = FALSE
    BY <2>11
  <2>15. r = [t EXCEPT !.slow = a, !.fast = b, !.met = f]
    <3>1. (fat[s] = fat[y]) = f
      BY <2>11, <2>14
    <3> QED BY <2>13, <2>14, <3>1
  <2>16. r \in TurnType /\ r.slow = a /\ r.fast = b /\ r.met = FALSE
    BY <1>1, <2>14, <2>15 DEF TurnType
  <2>17. PICK n \in Nat : n = m + 1
    BY <2>3
  <2>18. n + 1 = m + 2 /\ 2 * n + 1 = k + 1
    BY <2>3, <2>4, <2>7, <2>17
  <2>19. Apart(c, r, n, u)
    BY <2>8, <2>10, <2>14, <2>16, <2>18 DEF Apart
  <2> QED BY <2>12, <2>16, <2>19 DEF Running
<1> QED BY <1>2, <1>3, <1>4

(* They never meet. *)
LEMMA NeverMeet ==
  ASSUME TypeOK, Acyclic, NEW c \in Cluster
  PROVE  ~fat_chain_has_cycle(fat, c)
<1>1. PICK w : Turns(c, MaxCluster, w) /\ fat_chain_has_cycle(fat, c) = w[MaxCluster].met
  BY CycleTurns
<1> DEFINE S == {n \in Nat : Running(c, w[n])}
<1>2. MaxCluster \in Nat /\ 0 \in 0 .. MaxCluster
  BY DiskAssumption
<1>3. 0 \in S
  <2>1. w[0] = StartLine(c)
    BY <1>1, <1>2 DEF Turns
  <2>2. StartLine(c) \in TurnType /\ StartLine(c).met = FALSE
        /\ StartLine(c).slow = c /\ StartLine(c).fast = c
    BY DEF StartLine, TurnType
  <2>3. PICK ch : ch = <<c>>
    OBVIOUS
  <2>4. Path(c, ch) /\ Len(ch) = 1 /\ ch[1] = c
    BY <2>3 DEF Path
  <2>5. PICK m \in Nat : m = 0
    OBVIOUS
  <2>6. 2 * m + 1 = 1 /\ m + 1 = 1
    BY <2>5
  <2>7. Apart(c, StartLine(c), m, ch)
    BY <2>2, <2>4, <2>6 DEF Apart
  <2> QED BY <2>1, <2>2, <2>7 DEF Running
<1>4. ASSUME NEW n \in 0 .. (MaxCluster - 1), n \in S PROVE n + 1 \in S
  <2>1. n + 1 \in 0 .. MaxCluster /\ n + 1 # 0 /\ (n + 1) - 1 = n /\ n + 1 \in Nat
    BY <1>2
  <2>2. w[n + 1] = Turn(w[n])
    BY <1>1, <2>1 DEF Turns
  <2>3. Running(c, Turn(w[n]))
    BY <1>4, TurnRunning
  <2> QED BY <2>1, <2>2, <2>3
<1> HIDE DEF S
<1>5. \A n \in 0 .. MaxCluster : n \in S
  BY <1>2, <1>3, <1>4, Induction
<1>6. MaxCluster \in S
  BY <1>2, <1>5
<1>7. w[MaxCluster].met = FALSE
  BY <1>6 DEF S, Running
<1> QED BY <1>1, <1>7

(* Floyd's check never takes a chain for a cycle: no command is refused    *)
(* because of it.                                                          *)
NoFalseAlarm == \A c \in Cluster : ~fat_chain_has_cycle(fat, c)

(* ... in any state of a disk that this driver alone has written.          *)
THEOREM NeverRefused ==
  ASSUME Careful PROVE Spec => []NoFalseAlarm
<1>1. IInv /\ TreeInv => NoFalseAlarm
  BY NeverMeet DEF IInv, TreeInv, NoFalseAlarm
<1> QED BY <1>1, TreeInvariance, PTL
=============================================================================
