----------------------------- MODULE BlkVirtio ------------------------------
(***************************************************************************)
(* The disk requests of the block driver (blk_driver.cpp) and the virtio   *)
(* device that serves them.  There is one request header, one data page,   *)
(* one status byte and one chain of descriptors, used again for every      *)
(* request.  The driver waits for the device with a time-out; the device   *)
(* may take and complete a request long after that, while the driver       *)
(* prepares the next one, so the driver's stores to shared memory are      *)
(* steps of their own.  The driver can be killed at any point and is       *)
(* started again (rootserver, SYS_RECOVER); the device goes on until the   *)
(* new instance resets it.                                                 *)
(*                                                                         *)
(* A request is for one sector.  The indices of the rings are not wrapped: *)
(* both sides count modulo 2^16.                                           *)
(***************************************************************************)
EXTENDS Naturals, Sequences, SequencesExt

CONSTANTS
  Sector,
  Data,          \* what a sector may contain
  QueueSize,     \* queue_num: 16
  MaxRequests,   \* how many requests fat32.cpp makes
  MaxRestarts    \* how often the driver is killed

ASSUME BlkAssumption ==
  QueueSize \in Nat \ {0} /\ MaxRequests \in Nat /\ MaxRestarts \in Nat

VARIABLES
  disk,      \* what the disk holds
  page,      \* page 0 of the shared memory: the data of a request
  ring,      \* page 1: header, status, data descriptor and the two indices
  dev,       \* the device: has it a queue, requests taken so far, those not
             \* completed, its used index
  drv,       \* the driver: where it is, its request and g_vq_avail_idx
  inOrder,   \* does this device complete requests in order?
  late,      \* history: kinds of requests that timed out since the driver started
  done,      \* history: what the last request returned
  requests, restarts   \* history: how many there were

vars == <<disk, page, ring, dev, drv, inOrder, late, done, requests, restarts>>

-----------------------------------------------------------------------------
Type == {"read", "write"}

(* VIRTIO_BLK_S_OK, _IOERR and the driver's 0xFF. *)
Status == {0, 1, 255}

(* blk_req, *blk_status, the WRITE flag of vq_desc[1], vq_avail->idx and   *)
(* vq_used->idx; sector 0 stands for the cleared header.                   *)
Cleared ==
  [type |-> "read", sector |-> 0, status |-> 0, write |-> FALSE, avail |-> 0, used |-> 0]

(* A device that was reset looks at no queue until it is given one. *)
DeviceReset == [on |-> FALSE, taken |-> 0, flight |-> <<>>, used |-> 0]

Starting == [pc |-> "reset", type |-> "read", sector |-> 0, buffer |-> page, idx |-> 0]

NothingDone == [type |-> "read", ok |-> FALSE, right |-> TRUE]

Init ==
  /\ disk \in [Sector -> Data] /\ page \in Data
  /\ ring = Cleared
  /\ dev = DeviceReset
  /\ drv = Starting
  /\ inOrder \in BOOLEAN
  /\ late = {}
  /\ done = NothingDone
  /\ requests = 0 /\ restarts = 0

-----------------------------------------------------------------------------
(* main(): the "watchdog-safe reset". *)

(* Mutant of ResetDevice: the status register is not written. *)
ResetDevice_Not ==
  /\ drv.pc = "reset"
  /\ drv' = [drv EXCEPT !.pc = "clear"]
  /\ UNCHANGED <<disk, page, ring, dev, inOrder, late, done, requests, restarts>>

(* status = 0: the device forgets its requests. *)
ResetDevice ==
  /\ drv.pc = "reset"
  /\ dev' = DeviceReset
  /\ drv' = [drv EXCEPT !.pc = "clear"]
  /\ UNCHANGED <<disk, page, ring, inOrder, late, done, requests, restarts>>

(* Mutant of ClearQueue: the page keeps what the last instance left. *)
ClearQueue_Not ==
  /\ drv.pc = "clear"
  /\ drv' = [drv EXCEPT !.pc = "setup", !.idx = 0]
  /\ UNCHANGED <<disk, page, ring, dev, inOrder, late, done, requests, restarts>>

(* The page of the queue and g_vq_avail_idx become 0. *)
ClearQueue ==
  /\ drv.pc = "clear"
  /\ ring' = Cleared
  /\ drv' = [drv EXCEPT !.pc = "setup", !.idx = 0]
  /\ UNCHANGED <<disk, page, dev, inOrder, late, done, requests, restarts>>

(* Handshake, address of the queue, descriptors. *)
SetUpQueue ==
  /\ drv.pc = "setup"
  /\ ring' = [ring EXCEPT !.write = TRUE]
  /\ dev' = [dev EXCEPT !.on = TRUE]
  /\ drv' = [drv EXCEPT !.pc = "idle"]
  /\ UNCHANGED <<disk, page, inOrder, late, done, requests, restarts>>

-----------------------------------------------------------------------------
(* hardware_virtio_read and hardware_virtio_write. *)

(* fat32.cpp asks for a sector.  A write first copies its data.            *)
Request(t, s, v) ==
  /\ drv.pc = "idle" /\ requests < MaxRequests
  /\ requests' = requests + 1
  /\ drv' = [drv EXCEPT !.pc = "type", !.type = t, !.sector = s,
                        !.buffer = IF t = "write" THEN v ELSE @]
  /\ page' = IF t = "write" THEN v ELSE page
  /\ UNCHANGED <<disk, ring, dev, inOrder, late, done, restarts>>

(* The stores that prepare a request, one after the other. *)
Store(pc, next, r) ==
  /\ drv.pc = pc
  /\ ring' = r
  /\ drv' = [drv EXCEPT !.pc = next]
  /\ UNCHANGED <<disk, page, dev, inOrder, late, done, requests, restarts>>

SetType   == Store("type", "sector", [ring EXCEPT !.type = drv.type])
SetSector == Store("sector", "status", [ring EXCEPT !.sector = drv.sector])
SetStatus == Store("status", "flags", [ring EXCEPT !.status = 255])
(* Only a write changes the flags of the data descriptor. *)
SetFlags  == Store("flags", "post", [ring EXCEPT !.write = IF drv.type = "write" THEN FALSE ELSE @])

(* The chain is made available: the index, and queue_notify. *)
Post ==
  /\ drv.pc = "post"
  /\ ring' = [ring EXCEPT !.avail = drv.idx + 1]
  /\ drv' = [drv EXCEPT !.pc = "wait", !.idx = @ + 1]
  /\ UNCHANGED <<disk, page, dev, inOrder, late, done, requests, restarts>>

(* Mutant of Answered: the status byte is looked at instead of the index. *)
Answered_Status == ring.status # 255

(* Everything that was ever asked is answered. *)
Answered == ring.used = drv.idx

(* A read copies the data page to the caller. *)
Return ==
  /\ drv.pc = "wait" /\ Answered
  /\ ring' = [ring EXCEPT !.write = IF drv.type = "write" THEN TRUE ELSE @]
  /\ drv' = [drv EXCEPT !.pc = "idle",
                        !.buffer = IF drv.type = "read" /\ ring.status = 0 THEN page ELSE @]
  /\ done' = [type |-> drv.type, ok |-> ring.status = 0, right |-> disk[drv.sector] = drv'.buffer]
  /\ UNCHANGED <<disk, page, dev, inOrder, late, requests, restarts>>

(* Mutant of TimeOut: the turns are counted from the start again. *)
TimeOut_Never == drv.pc = "wait" /\ ~Answered /\ UNCHANGED vars

(* After so many turns of the loop the request returns false. *)
TimeOut ==
  /\ drv.pc = "wait" /\ ~Answered
  /\ drv' = [drv EXCEPT !.pc = "idle"]
  /\ late' = late \cup {drv.type}
  /\ UNCHANGED <<disk, page, ring, dev, inOrder, done, requests, restarts>>

-----------------------------------------------------------------------------
(* The device. *)

(* It takes the next request, unless the queue is longer than agreed: it   *)
(* then regards the driver as broken.                                      *)
Take ==
  /\ dev.on /\ dev.taken # ring.avail
  /\ ring.avail - dev.taken <= QueueSize /\ Len(dev.flight) < QueueSize
  /\ dev' = [dev EXCEPT !.taken = @ + 1,
               !.flight = Append(@, [type |-> ring.type, sector |-> ring.sector, write |-> ring.write])]
  /\ UNCHANGED <<disk, page, ring, drv, inOrder, late, done, requests, restarts>>

(* It completes one: well (it moves data only where the descriptor's flag  *)
(* fits the request), or with an error.                                    *)
Complete(i) ==
  /\ inOrder => i = 1
  /\ \E st \in {0, 1} :
       LET q == dev.flight[i]
           moves == st = 0 /\ q.sector \in Sector
       IN /\ page' = IF moves /\ q.type = "read" /\ q.write THEN disk[q.sector] ELSE page
          /\ disk' = IF moves /\ q.type = "write" /\ ~q.write
                     THEN [disk EXCEPT ![q.sector] = page] ELSE disk
          /\ ring' = [ring EXCEPT !.status = st, !.used = dev.used + 1]
  /\ dev' = [dev EXCEPT !.flight = RemoveAt(@, i), !.used = @ + 1]
  /\ UNCHANGED <<drv, inOrder, late, done, requests, restarts>>

Device == Take \/ \E i \in 1 .. Len(dev.flight) : Complete(i)

-----------------------------------------------------------------------------
(* The driver is killed and started again. *)
Restart ==
  /\ restarts < MaxRestarts /\ restarts' = restarts + 1
  /\ drv' = Starting
  /\ late' = {} /\ done' = NothingDone
  /\ UNCHANGED <<disk, page, ring, dev, inOrder, requests>>

(* What the driver does once it was started or asked. *)
Driver ==
  \/ ResetDevice \/ ClearQueue \/ SetUpQueue
  \/ SetType \/ SetSector \/ SetStatus \/ SetFlags \/ Post
  \/ Return \/ TimeOut

Next ==
  \/ Driver
  \/ \E s \in Sector, v \in Data : Request("read", s, v) \/ Request("write", s, v)
  \/ Device
  \/ Restart

(* The driver's thread runs.  Nothing is assumed of the device. *)
Spec == Init /\ [][Next]_vars /\ WF_vars(Driver)

-----------------------------------------------------------------------------
(* The shared memory and both sides are well-formed: the device has        *)
(* answered no more than it took and has taken no more than was posted     *)
(* once a new instance works, whatever the last one left behind.           *)
TypeOK ==
  /\ disk \in [Sector -> Data] /\ page \in Data
  /\ ring \in [type : Type, sector : Sector \cup {0}, status : Status, write : BOOLEAN,
               avail : Nat, used : Nat]
  /\ dev.on \in BOOLEAN /\ dev.taken \in Nat /\ dev.used \in Nat
  /\ dev.flight \in Seq([type : Type, sector : Sector \cup {0}, write : BOOLEAN])
  /\ drv.pc \in {"reset", "clear", "setup", "idle", "type", "sector", "status", "flags", "post", "wait"}
  /\ drv.type \in Type /\ drv.sector \in Sector \cup {0} /\ drv.buffer \in Data
  /\ drv.pc \notin {"reset", "clear"} =>
       /\ dev.used + Len(dev.flight) = dev.taken
       /\ dev.taken <= ring.avail /\ ring.avail = drv.idx
       /\ ring.used = dev.used
  /\ inOrder \in BOOLEAN
  /\ late \subseteq Type

(* A read that returns true delivers the sector that was asked for: also   *)
(* when an earlier read timed out and is completed late, as long as the    *)
(* device works in order, and whatever a killed instance had asked for.    *)
(* (After a write that timed out the data descriptor has the wrong flag,   *)
(* and a read moves no data; a device that does not work in order may put  *)
(* a late answer on top of the one awaited.)                               *)
ReadRight ==
  done.type = "read" /\ done.ok =>
    done.right \/ "write" \in late \/ (late # {} /\ ~inOrder)

(* A write that returns true put the caller's data on the disk, also while *)
(* requests of a killed instance were under way.  (A late read would       *)
(* overwrite the data page.)                                               *)
WriteRight == done.type = "write" /\ done.ok => done.right \/ late # {}

(* Every request returns, also when the device is silent: it never blocks  *)
(* the driver, and with it the shell.                                      *)
RequestReturns == (drv.pc = "wait") ~> (drv.pc # "wait")
=============================================================================
