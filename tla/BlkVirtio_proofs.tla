-------------------------- MODULE BlkVirtio_proofs ---------------------------
(***************************************************************************)
(* The disk requests of the block driver, for any number of sectors,       *)
(* requests, time-outs and restarts and for a queue of any length: the     *)
(* rings stay consistent, a read that succeeds delivers its sector and a   *)
(* write that succeeds stores its data, in the cases ReadRight and         *)
(* WriteRight name.                                                        *)
(*                                                                         *)
(* The argument.  The driver returns only when the used index has reached  *)
(* what it posted, and then nothing is in flight: the last request posted  *)
(* was the last one taken.  It was taken after it was posted, since before *)
(* that the device had taken no more than was posted earlier; so what the  *)
(* device saw of it is the request the driver waits for (Awaited).  Had no *)
(* request timed out, it was alone (Alone); otherwise the order of the     *)
(* device makes it the last one completed.                                 *)
(***************************************************************************)
EXTENDS BlkVirtio, SequenceTheorems, TLAPS

-----------------------------------------------------------------------------
Entry == [type : Type, sector : Sector \cup {0}, write : BOOLEAN]

Pc == {"reset", "clear", "setup", "idle", "type", "sector", "status", "flags", "post", "wait"}

(* The records have exactly these fields. *)
Records ==
  /\ dev \in [on : BOOLEAN, taken : Nat, flight : Seq(Entry), used : Nat]
  /\ drv \in [pc : Pc, type : Type, sector : Sector \cup {0}, buffer : Data, idx : Nat]
  /\ done \in [type : Type, ok : BOOLEAN, right : BOOLEAN]

(* An instance that starts has seen no time-out yet, and between the reset *)
(* and the new queue the device is silent.                                 *)
Silent ==
  /\ drv.pc \in {"reset", "clear", "setup"} => late = {} /\ done = NothingDone
  /\ drv.pc \in {"clear", "setup"} => dev = DeviceReset

(* The header and the flag, as far as the driver has written them.  Only a *)
(* write that timed out leaves the flag of the data descriptor cleared.    *)
Prepared ==
  /\ drv.pc \in {"type", "sector", "status", "flags", "post", "wait"} => drv.sector \in Sector
  /\ drv.pc \in {"sector", "status", "flags", "post", "wait"} => ring.type = drv.type
  /\ drv.pc \in {"status", "flags", "post", "wait"} => ring.sector = drv.sector
  /\ drv.pc \in {"post", "wait"} /\ drv.type = "write" => ~ring.write
  /\ /\ drv.pc \notin {"reset", "clear", "setup"} /\ "write" \notin late
     /\ ~(drv.pc \in {"post", "wait"} /\ drv.type = "write")
     => ring.write

(* As long as nothing timed out, at most the current request is under way. *)
Alone ==
  late = {} /\ drv.pc \notin {"reset", "clear"} =>
    IF drv.pc = "wait" THEN drv.idx <= dev.used + 1 ELSE drv.idx = dev.used

(* The data of a write stay in the page. *)
Kept ==
  late = {} /\ drv.type = "write" /\ drv.pc \in {"type", "sector", "status", "flags", "post", "wait"}
  => page = drv.buffer

(* What the device has to see of the request the driver waits for. *)
Current == [type |-> drv.type, sector |-> drv.sector, write |-> drv.type = "read"]

(* Once the device has taken all that was posted, the request the driver   *)
(* waits for is the last one in flight, or it has been completed and the   *)
(* data are where they belong.                                             *)
Awaited ==
  /\ drv.pc = "wait" /\ dev.taken = drv.idx
  /\ "write" \notin late /\ (late = {} \/ inOrder)
  => /\ dev.flight # <<>> => dev.flight[Len(dev.flight)] = Current
     /\ dev.flight = <<>> /\ ring.status = 0 /\ drv.type = "read" =>
          page = disk[drv.sector]
     /\ dev.flight = <<>> /\ ring.status = 0 /\ drv.type = "write" /\ late = {} =>
          page = disk[drv.sector]

IInv ==
  /\ TypeOK /\ Records /\ Silent /\ Prepared /\ Alone /\ Kept /\ Awaited
  /\ ReadRight /\ WriteRight

-----------------------------------------------------------------------------
(* Taking an element out of a sequence: the rest keeps its order, so that  *)
(* the last element stays the last one unless it was taken itself.         *)
LEMMA Removed ==
  ASSUME NEW S, NEW q \in Seq(S), NEW i \in 1 .. Len(q)
  PROVE  /\ RemoveAt(q, i) \in Seq(S)
         /\ Len(RemoveAt(q, i)) = Len(q) - 1
         /\ i < Len(q) => RemoveAt(q, i)[Len(q) - 1] = q[Len(q)]
<1> DEFINE a == SubSeq(q, 1, i - 1)
           b == SubSeq(q, i + 1, Len(q))
<1>1. Len(q) \in Nat /\ i \in Nat
  OBVIOUS
<1>2. \A j \in 1 .. Len(q) : q[j] \in S
  OBVIOUS
<1>3. a \in Seq(S) /\ Len(a) = i - 1
  BY <1>1, <1>2, SubSeqProperties
<1>4. /\ b \in Seq(S) /\ Len(b) = Len(q) - i
      /\ \A j \in 1 .. Len(q) - i : b[j] = q[i + j]
  <2>1. \A j \in (i + 1) .. Len(q) : q[j] \in S
    BY <1>1, <1>2
  <2>2. /\ b \in Seq(S)
        /\ Len(b) = IF i + 1 <= Len(q) THEN Len(q) - (i + 1) + 1 ELSE 0
        /\ \A j \in 1 .. Len(q) - (i + 1) + 1 : b[j] = q[(i + 1) + j - 1]
    BY <1>1, <2>1, SubSeqProperties
  <2> QED
    BY <2>2, <1>1
<1>5. /\ a \o b \in Seq(S) /\ Len(a \o b) = Len(a) + Len(b)
      /\ \A j \in 1 .. Len(a) + Len(b) :
           (a \o b)[j] = IF j <= Len(a) THEN a[j] ELSE b[j - Len(a)]
  BY <1>3, <1>4, ConcatProperties
<1>6. RemoveAt(q, i) = a \o b
  BY DEF RemoveAt
<1> HIDE DEF a, b
<1>7. ASSUME i < Len(q) PROVE (a \o b)[Len(q) - 1] = q[Len(q)]
  <2>1. /\ Len(q) - 1 \in 1 .. Len(a) + Len(b) /\ ~(Len(q) - 1 <= Len(a))
        /\ Len(q) - 1 - Len(a) = Len(q) - i /\ Len(q) - i \in 1 .. Len(q) - i
        /\ i + (Len(q) - i) = Len(q)
    BY <1>1, <1>3, <1>4, <1>7
  <2>2. (a \o b)[Len(q) - 1] = b[Len(q) - i]
    BY <2>1, <1>5
  <2> QED
    BY <2>1, <2>2, <1>4
<1>8. Len(a \o b) = Len(q) - 1
  BY <1>1, <1>3, <1>4, <1>5
<1> QED
  BY <1>5, <1>6, <1>7, <1>8

(* The first state. *)
LEMMA InitIInv == Init => IInv
<1> SUFFICES ASSUME Init PROVE IInv
  OBVIOUS
<1>1. TypeOK
  BY DEF Init, TypeOK, Cleared, DeviceReset, Starting, Type, Status, Entry
<1>2. Records
  BY DEF Init, Records, DeviceReset, Starting, NothingDone, Type, Entry, Pc
<1> QED
  BY <1>1, <1>2 DEF Init, IInv, Silent, Prepared, Alone, Kept, Awaited, ReadRight,
     WriteRight, Starting, NothingDone

-----------------------------------------------------------------------------
(* The rings, seen from the driver, once it works. *)
LEMMA Rings ==
  ASSUME IInv
  PROVE  /\ Len(dev.flight) \in Nat
         /\ dev.used \in Nat /\ dev.taken \in Nat /\ drv.idx \in Nat
         /\ drv.pc \notin {"reset", "clear"} =>
              /\ dev.used + Len(dev.flight) = dev.taken
              /\ dev.taken <= drv.idx
         /\ dev.flight = <<>> <=> Len(dev.flight) = 0
BY DEF IInv, Records, TypeOK

(* The device's record after a request was taken or completed. *)
LEMMA DeviceFields ==
  ASSUME Records, NEW t \in Nat, NEW f \in Seq(Entry), NEW u \in Nat,
         dev' = [dev EXCEPT !.taken = t, !.flight = f, !.used = u]
  PROVE  /\ dev'.on = dev.on /\ dev'.taken = t /\ dev'.flight = f /\ dev'.used = u
         /\ dev' \in [on : BOOLEAN, taken : Nat, flight : Seq(Entry), used : Nat]
BY DEF Records

(* main(): the reset, the cleared queue page, the new queue. *)
LEMMA StartIInv ==
  ASSUME IInv, ResetDevice \/ ClearQueue \/ SetUpQueue
  PROVE  IInv'
<1>1. CASE ResetDevice
  <2> USE DEF ResetDevice
  <2>1. TypeOK' /\ Records'
    BY <1>1 DEF IInv, TypeOK, Records, DeviceReset, Pc
  <2> QED
    BY <1>1, <2>1 DEF IInv, Records, Silent, Prepared, Alone, Kept, Awaited, ReadRight, WriteRight
<1>2. CASE ClearQueue
  <2>1. dev = DeviceReset /\ late = {}
    BY <1>2 DEF IInv, Silent, ClearQueue
  <2>3. /\ drv'.pc = "setup" /\ drv'.idx = 0
        /\ drv' \in [pc : Pc, type : Type, sector : Sector \cup {0}, buffer : Data, idx : Nat]
    BY <1>2 DEF IInv, Records, ClearQueue, Pc
  <2>5. /\ ring' \in [type : Type, sector : Sector \cup {0}, status : Status, write : BOOLEAN,
                      avail : Nat, used : Nat]
        /\ ring'.avail = 0 /\ ring'.used = 0
    BY <1>2 DEF ClearQueue, Cleared, Type, Status
  <2>6. /\ dev' = dev /\ dev.used = 0 /\ Len(dev.flight) = 0 /\ dev.taken = 0
        /\ UNCHANGED <<disk, page, inOrder, late, done>>
    BY <1>2, <2>1 DEF ClearQueue, DeviceReset
  <2>2. TypeOK' /\ Records'
    BY <2>3, <2>5, <2>6 DEF IInv, TypeOK, Records, Pc
  <2>4. Silent' /\ Alone'
    BY <1>2, <2>1, <2>3 DEF IInv, Silent, Alone, ClearQueue, DeviceReset
  <2> QED
    BY <1>2, <2>2, <2>3, <2>4 DEF IInv, Prepared, Kept, Awaited, ReadRight, WriteRight, ClearQueue
<1>3. CASE SetUpQueue
  <2>1. dev = DeviceReset /\ late = {}
    BY <1>3 DEF IInv, Silent, SetUpQueue
  <2>2. TypeOK' /\ Records'
    BY <1>3, <2>1 DEF IInv, TypeOK, Records, DeviceReset, Pc, SetUpQueue
  <2> QED
    BY <1>3, <2>1, <2>2 DEF IInv, TypeOK, Records, Silent, Prepared, Alone, Kept, Awaited, ReadRight,
       WriteRight, SetUpQueue, DeviceReset
<1> QED
  BY <1>1, <1>2, <1>3

(* fat32.cpp asks for a sector. *)
LEMMA RequestIInv ==
  ASSUME IInv, NEW t \in Type, NEW s \in Sector, NEW v \in Data, Request(t, s, v)
  PROVE  IInv'
<1> USE DEF Request
<1>1. TypeOK' /\ Records'
  BY DEF IInv, TypeOK, Records, Pc
<1> QED
  BY <1>1 DEF IInv, Records, Silent, Prepared, Alone, Kept, Awaited, ReadRight, WriteRight, Type

(* The stores to the header, the status and the flags. *)
LEMMA StoreIInv ==
  ASSUME IInv, SetType \/ SetSector \/ SetStatus \/ SetFlags
  PROVE  IInv'
<1>1. CASE SetType
  <2> USE <1>1 DEF SetType, Store
  <2>1. TypeOK' /\ Records'
    BY DEF IInv, TypeOK, Records, Pc
  <2> QED
    BY <2>1 DEF IInv, TypeOK, Records, Silent, Prepared, Alone, Kept, Awaited, ReadRight, WriteRight
<1>2. CASE SetSector
  <2> USE <1>2 DEF SetSector, Store
  <2>1. TypeOK' /\ Records'
    BY DEF IInv, TypeOK, Records, Pc
  <2> QED
    BY <2>1 DEF IInv, TypeOK, Records, Silent, Prepared, Alone, Kept, Awaited, ReadRight, WriteRight
<1>3. CASE SetStatus
  <2> USE <1>3 DEF SetStatus, Store
  <2>1. TypeOK' /\ Records'
    BY DEF IInv, TypeOK, Records, Pc, Status
  <2> QED
    BY <2>1 DEF IInv, TypeOK, Records, Silent, Prepared, Alone, Kept, Awaited, ReadRight, WriteRight
<1>4. CASE SetFlags
  <2> USE <1>4 DEF SetFlags, Store
  <2>1. TypeOK' /\ Records'
    BY DEF IInv, TypeOK, Records, Pc
  <2> QED
    BY <2>1 DEF IInv, TypeOK, Records, Silent, Prepared, Alone, Kept, Awaited, ReadRight, WriteRight
<1> QED
  BY <1>1, <1>2, <1>3, <1>4

(* The request is posted: the device cannot have taken it yet. *)
LEMMA PostIInv ==
  ASSUME IInv, Post
  PROVE  IInv'
<1> USE DEF Post
<1>0. /\ drv' \in [pc : Pc, type : Type, sector : Sector \cup {0}, buffer : Data, idx : Nat]
      /\ drv'.idx = drv.idx + 1
      /\ ring' \in [type : Type, sector : Sector \cup {0}, status : Status, write : BOOLEAN,
                    avail : Nat, used : Nat]
      /\ ring'.avail = drv.idx + 1 /\ ring'.used = ring.used
  <2>1. /\ drv \in [pc : Pc, type : Type, sector : Sector \cup {0}, buffer : Data, idx : Nat]
        /\ drv' = [drv EXCEPT !.pc = "wait", !.idx = @ + 1]
    BY DEF IInv, Records
  <2>2. /\ ring \in [type : Type, sector : Sector \cup {0}, status : Status, write : BOOLEAN,
                     avail : Nat, used : Nat]
        /\ drv.idx + 1 \in Nat
        /\ ring' = [ring EXCEPT !.avail = drv.idx + 1]
    BY Rings DEF IInv, TypeOK
  <2>3. "wait" \in Pc
    BY DEF Pc
  <2> HIDE DEF Post
  <2> QED
    BY <2>1, <2>2, <2>3
<1>1. TypeOK' /\ Records'
  BY <1>0, Rings DEF IInv, TypeOK, Records, Pc
<1>2. dev'.taken # drv'.idx
  BY Rings DEF IInv, Records
<1>3. Alone'
  BY Rings DEF IInv, Records, Alone
<1>4. Awaited'
  BY <1>2 DEF Awaited
<1>5. Prepared'
  BY DEF IInv, TypeOK, Records, Prepared
<1> QED
  BY <1>1, <1>3, <1>4, <1>5 DEF IInv, Records, Silent, Kept, ReadRight, WriteRight

(* A request that was answered: everything posted has been completed.      *)
LEMMA ReturnIInv ==
  ASSUME IInv, Return
  PROVE  IInv'
<1> USE DEF Return
<1>1. dev.taken = drv.idx /\ dev.flight = <<>> /\ drv.idx = dev.used
  <2>1. dev.used = drv.idx
    BY DEF IInv, TypeOK, Answered
  <2> QED
    BY <2>1, Rings
<1>2. TypeOK' /\ Records'
  BY DEF IInv, TypeOK, Records, Pc
<1>3. ReadRight'
  BY <1>1 DEF IInv, Records, Awaited, ReadRight, Type
<1>4. WriteRight'
  BY <1>1 DEF IInv, Records, Awaited, Kept, WriteRight, Type
<1> QED
  BY <1>1, <1>2, <1>3, <1>4 DEF IInv, TypeOK, Records, Silent, Prepared, Alone, Kept, Awaited

(* A time-out. *)
LEMMA TimeOutIInv ==
  ASSUME IInv, TimeOut
  PROVE  IInv'
<1> USE DEF TimeOut
<1>1. TypeOK' /\ Records'
  BY DEF IInv, TypeOK, Records, Pc
<1> QED
  BY <1>1 DEF IInv, Records, Silent, Prepared, Alone, Kept, Awaited, ReadRight, WriteRight, Type

(* The driver is killed. *)
LEMMA RestartIInv ==
  ASSUME IInv, Restart
  PROVE  IInv'
<1> USE DEF Restart, Starting, NothingDone
<1>1. TypeOK' /\ Records'
  BY DEF IInv, TypeOK, Records, Pc, Type
<1> QED
  BY <1>1 DEF IInv, Records, Silent, Prepared, Alone, Kept, Awaited, ReadRight, WriteRight

(* The device takes a request.  When it has now taken all that was posted, *)
(* it is the one the driver waits for.                                     *)
LEMMA TakeIInv ==
  ASSUME IInv, Take
  PROVE  IInv'
<1> DEFINE e == [type |-> ring.type, sector |-> ring.sector, write |-> ring.write]
<1>1. e \in Entry /\ dev.flight \in Seq(Entry)
  BY DEF IInv, TypeOK, Records, Entry
<1>2. /\ Append(dev.flight, e) \in Seq(Entry)
      /\ Len(Append(dev.flight, e)) = Len(dev.flight) + 1
      /\ Append(dev.flight, e)[Len(dev.flight) + 1] = e
      /\ Append(dev.flight, e) # <<>>
  BY <1>1
<1>3. /\ dev'.on = dev.on /\ dev'.taken = dev.taken + 1 /\ dev'.used = dev.used
      /\ dev'.flight = Append(dev.flight, e)
      /\ dev' \in [on : BOOLEAN, taken : Nat, flight : Seq(Entry), used : Nat]
  <2>1. dev' = [dev EXCEPT !.taken = dev.taken + 1, !.flight = Append(dev.flight, e),
                           !.used = dev.used]
    BY DEF IInv, Records, Take
  <2>2. Records /\ dev.taken + 1 \in Nat /\ dev.used \in Nat
    BY Rings DEF IInv
  <2> QED
    BY <1>2, <2>1, <2>2, DeviceFields
<1>4. UNCHANGED <<disk, page, ring, drv, inOrder, late, done>> /\ dev.taken # ring.avail /\ dev.on
  BY DEF Take
<1> HIDE DEF e
<1>5. TypeOK'
  <2>1. drv.pc \notin {"reset", "clear"} =>
          /\ dev'.used + Len(dev'.flight) = dev'.taken
          /\ dev'.taken <= ring.avail
    BY <1>2, <1>3, <1>4, Rings DEF IInv, TypeOK
  <2> QED
    BY <1>3, <1>4, <2>1 DEF IInv, TypeOK, Entry
<1>6. Records' /\ Silent'
  BY <1>3, <1>4 DEF IInv, Records, Silent, DeviceReset
<1>7. Awaited'
  <2>1. ASSUME drv.pc = "wait", "write" \notin late PROVE e = Current
    BY <2>1 DEF e, Current, IInv, Prepared, TypeOK, Type, Records
  <2> QED
    BY <1>2, <1>3, <1>4, <2>1 DEF Awaited, Current
<1> QED
  BY <1>3, <1>4, <1>5, <1>6, <1>7 DEF IInv, Prepared, Alone, Kept, ReadRight, WriteRight

(* The device completes a request.  The one the driver waits for is the    *)
(* last to be completed, and then page and disk agree on its sector.       *)
LEMMA CompleteIInv ==
  ASSUME IInv, NEW i \in 1 .. Len(dev.flight), Complete(i)
  PROVE  IInv'
<1> DEFINE q == dev.flight[i]
<1>1. PICK st \in {0, 1} :
        /\ page' = IF st = 0 /\ q.sector \in Sector /\ q.type = "read" /\ q.write
                   THEN disk[q.sector] ELSE page
        /\ disk' = IF st = 0 /\ q.sector \in Sector /\ q.type = "write" /\ ~q.write
                   THEN [disk EXCEPT ![q.sector] = page] ELSE disk
        /\ ring' = [ring EXCEPT !.status = st, !.used = dev.used + 1]
  BY DEF Complete
<1>2. /\ inOrder => i = 1
      /\ UNCHANGED <<drv, inOrder, late, done>>
  BY DEF Complete
<1>3. /\ dev.flight \in Seq(Entry) /\ q \in Entry
      /\ Len(dev.flight) \in Nat
  BY DEF IInv, Records
<1>4. /\ RemoveAt(dev.flight, i) \in Seq(Entry)
      /\ Len(RemoveAt(dev.flight, i)) = Len(dev.flight) - 1
      /\ i < Len(dev.flight) =>
           RemoveAt(dev.flight, i)[Len(dev.flight) - 1] = dev.flight[Len(dev.flight)]
  BY <1>3, Removed
<1>5. /\ dev'.on = dev.on /\ dev'.taken = dev.taken /\ dev'.used = dev.used + 1
      /\ dev'.flight = RemoveAt(dev.flight, i)
      /\ dev' \in [on : BOOLEAN, taken : Nat, flight : Seq(Entry), used : Nat]
  <2>1. dev' = [dev EXCEPT !.taken = dev.taken, !.flight = RemoveAt(dev.flight, i),
                           !.used = dev.used + 1]
    BY DEF IInv, Records, Complete
  <2>2. Records /\ dev.taken \in Nat /\ dev.used + 1 \in Nat
    BY Rings DEF IInv
  <2> QED
    BY <1>4, <2>1, <2>2, DeviceFields
<1>6. /\ ring'.type = ring.type /\ ring'.sector = ring.sector /\ ring'.write = ring.write
      /\ ring'.avail = ring.avail /\ ring'.status = st /\ ring'.used = dev.used + 1
      /\ ring' \in [type : Type, sector : Sector \cup {0}, status : Status, write : BOOLEAN,
                    avail : Nat, used : Nat]
  <2>1. /\ ring \in [type : Type, sector : Sector \cup {0}, status : Status, write : BOOLEAN,
                     avail : Nat, used : Nat]
        /\ dev.used + 1 \in Nat /\ st \in Status
        /\ ring' = [ring EXCEPT !.status = st, !.used = dev.used + 1]
    BY <1>1, Rings DEF IInv, TypeOK, Status
  <2> QED
    BY <2>1
<1>7. page' \in Data /\ disk' \in [Sector -> Data]
  BY <1>1 DEF IInv, TypeOK
<1> HIDE DEF q
<1>8. drv.pc \notin {"clear", "setup"}
  BY <1>3 DEF IInv, Silent, DeviceReset
<1>9. TypeOK'
  <2>1. drv.pc \notin {"reset", "clear"} => dev'.used + Len(dev'.flight) = dev'.taken
    <3>1. Len(dev'.flight) = Len(dev.flight) - 1 /\ dev'.used = dev.used + 1 /\ dev'.taken = dev.taken
      BY <1>4, <1>5
    <3> QED
      BY <1>3, <3>1, Rings
  <2> QED
    BY <1>2, <1>5, <1>6, <1>7, <2>1 DEF IInv, TypeOK, Entry
<1>10. Records' /\ Silent' /\ Prepared' /\ ReadRight' /\ WriteRight'
  BY <1>2, <1>5, <1>6, <1>8 DEF IInv, Records, Silent, Prepared, ReadRight, WriteRight
(* With no time-out so far, only the request the driver waits for can be   *)
(* in flight.                                                              *)
<1>11. ASSUME late = {}, drv.pc \notin {"reset", "clear"}
       PROVE  drv.pc = "wait" /\ dev.taken = drv.idx /\ Len(dev.flight) = 1 /\ dev.used + 1 = drv.idx
  <2>1. Len(dev.flight) \in Nat /\ Len(dev.flight) # 0
    BY <1>3
  <2>2. IF drv.pc = "wait" THEN drv.idx <= dev.used + 1 ELSE drv.idx = dev.used
    BY <1>11 DEF IInv, Alone
  <2>3. /\ dev.used + Len(dev.flight) = dev.taken /\ dev.taken <= drv.idx
        /\ dev.used \in Nat /\ dev.taken \in Nat /\ drv.idx \in Nat
    BY <1>11, Rings
  <2>4. drv.pc = "wait"
    BY <2>1, <2>2, <2>3
  <2>5. drv.idx <= dev.used + 1
    BY <2>2, <2>4
  <2> DEFINE u == dev.used
             f == Len(dev.flight)
             t == dev.taken
             n == drv.idx
  <2>6. /\ u \in Nat /\ f \in Nat /\ t \in Nat /\ n \in Nat /\ f # 0
        /\ u + f = t /\ t <= n /\ n <= u + 1
    BY <2>1, <2>3, <2>5
  <2> HIDE DEF u, f, t, n
  <2>7. t = n /\ f = 1 /\ u + 1 = n
    BY <2>6
  <2> QED
    BY <2>4, <2>7 DEF u, f, t, n
<1>12. Alone'
  BY <1>2, <1>5, <1>11, Rings DEF Alone
<1>13. ASSUME late = {}, drv.pc \notin {"reset", "clear"} PROVE q = Current
  BY <1>3, <1>11, <1>13 DEF q, IInv, Awaited
<1>14. Kept'
  BY <1>1, <1>2, <1>13 DEF IInv, Kept, Current
<1>15. Awaited'
  <2> SUFFICES ASSUME drv.pc = "wait", dev.taken = drv.idx,
                      "write" \notin late, late = {} \/ inOrder
               PROVE  /\ dev'.flight # <<>> => dev'.flight[Len(dev'.flight)] = Current
                      /\ dev'.flight = <<>> => q = Current
    <3>1. ASSUME q = Current, st = 0, drv.pc = "wait"
          PROVE  page' = disk'[drv.sector]
      BY <1>1, <3>1 DEF IInv, Prepared, TypeOK, Records, Current, Type
    <3> QED
      BY <1>2, <1>5, <1>6, <3>1 DEF Awaited, Current
  <2>1. dev.flight # <<>> /\ dev.flight[Len(dev.flight)] = Current
    BY <1>3, Rings DEF IInv, Awaited
  <2>2. CASE i = Len(dev.flight)
    <3>1. Len(dev.flight) = 1
      BY <1>2, <1>11, <2>2
    <3> QED
      BY <1>4, <1>5, <2>1, <2>2, <3>1 DEF q
  <2>3. CASE i < Len(dev.flight)
    BY <1>3, <1>4, <1>5, <2>1, <2>3
  <2> QED
    BY <1>3, <2>2, <2>3
<1> QED
  BY <1>9, <1>10, <1>12, <1>14, <1>15 DEF IInv

-----------------------------------------------------------------------------
(* The invariant is inductive. *)
LEMMA NextIInv == IInv /\ [Next]_vars => IInv'
<1> SUFFICES ASSUME IInv, [Next]_vars PROVE IInv'
  OBVIOUS
<1>1. ASSUME Driver PROVE IInv'
  BY <1>1, StartIInv, StoreIInv, PostIInv, ReturnIInv, TimeOutIInv DEF Driver
<1>2. ASSUME NEW s \in Sector, NEW v \in Data, Request("read", s, v) \/ Request("write", s, v)
      PROVE  IInv'
  BY <1>2, RequestIInv DEF Type
<1>3. ASSUME Device PROVE IInv'
  BY <1>3, TakeIInv, CompleteIInv DEF Device
<1>4. CASE UNCHANGED vars
  BY <1>4 DEF vars, IInv, TypeOK, Records, Silent, Prepared, Alone, Kept, Awaited, Current,
     ReadRight, WriteRight
<1> QED
  BY <1>1, <1>2, <1>3, <1>4, RestartIInv DEF Next

(* The inductive invariant holds in every reachable state. *)
THEOREM InductiveInvariant == Spec => []IInv
  BY InitIInv, NextIInv, PTL DEF Spec

(* The rings of the driver and of the device agree, however often requests *)
(* time out and the driver is killed.                                      *)
THEOREM TypeCorrect == Spec => []TypeOK
  BY InductiveInvariant, PTL DEF IInv

(* hardware_virtio_read: a read that returns true delivers the sector that *)
(* was asked for, also next to late answers of earlier reads and after a   *)
(* restart in the middle of a request.                                     *)
THEOREM ReadsAreRight == Spec => []ReadRight
  BY InductiveInvariant, PTL DEF IInv

(* hardware_virtio_write: a write that returns true has put the caller's   *)
(* data on the disk, also after a restart in the middle of a request.      *)
THEOREM WritesAreRight == Spec => []WriteRight
  BY InductiveInvariant, PTL DEF IInv
=============================================================================
