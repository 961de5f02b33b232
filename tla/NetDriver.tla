----------------------------- MODULE NetDriver ------------------------------
(***************************************************************************)
(* The network driver (net_driver.cpp) with the parts it works with: the   *)
(* clock of the time driver (timer_driver.cpp), the shell's network        *)
(* commands (shell.cpp) and the mailbox word in shared memory with which   *)
(* the driver tells the shell that a command is finished.                  *)
(*                                                                         *)
(* The driver is one loop that polls: received packets, the shell's        *)
(* endpoint, and several deadlines.  Each of these is an action.  Their    *)
(* order within one turn of the loop makes no difference here, since a     *)
(* packet, a command or a tick that comes just after its test is seen one  *)
(* turn later.                                                             *)
(*                                                                         *)
(* The network may delay, reorder, duplicate and lose packets: a packet is *)
(* received any number of times until it is lost, and at most MaxWire are  *)
(* under way (more are lost).  The virtio queues are not modelled, nor are *)
(* the datagrams kept for the command recv, which are only printed.        *)
(***************************************************************************)
EXTENDS Integers, FiniteSets

CONSTANTS
  Skew,                    \* true time minus PL031, in seconds
  NTP_BOOT_TIMEOUT,        \* NTP_BOOT_TIMEOUT_MS
  NTP_RESYNC_INTERVAL,     \* NTP_RESYNC_INTERVAL_MS
  SeqMod,                  \* ping numbers are counted modulo SeqMod (2^16)
  Typed,                   \* the commands a user gives
  PingCounts,              \* how many pings a command may ask for (1 .. 16)
  MaxCommands,             \* how many commands a user gives
  MaxWire,                 \* packets on the network at a time
  MaxTime                  \* how long the clock runs

ASSUME NetAssumption ==
  /\ Skew \in Int
  /\ NTP_BOOT_TIMEOUT \in Nat /\ NTP_RESYNC_INTERVAL \in Nat
  /\ SeqMod \in Nat /\ SeqMod >= 2
  /\ PingCounts \subseteq (Nat \ {0}) /\ MaxCommands \in Nat
  /\ MaxWire \in Nat /\ MaxTime \in Nat

ASSUME TypedAssumption ==
  Typed \subseteq {"ping", "name", "send", "query", "ntp"}

VARIABLES
  now,       \* the PL031's seconds since the boot: what SYS_GET_UPTIME returns
  offset,    \* ntp_offset_seconds of the time driver
  drv,       \* the driver's variables
  wire,      \* the packets on the network
  mailbox,   \* the word at 4060 of the shared memory
  addr,      \* the word at 4064: the address DNS found, 0 for none
  shell,     \* where the shell is
  commands,  \* history: commands given so far
  signals,   \* history: readiness reports of this instance of the driver
  sync       \* history: was the clock set never, once or more often (0, 1, 2),
             \* and rightly the last time?

vars == <<now, offset, drv, wire, mailbox, addr, shell, commands, signals, sync>>

-----------------------------------------------------------------------------
(* pending_cmd *)
Pending == {"none", "ping", "send", "resolve", "ntp"}

(* A packet: n is a ping's number or the time of an NTP answer, at the     *)
(* time when the NTP request was sent, ok whether an answer is usable.     *)
Request == {"arp?", "ping?", "dns?", "ntp?"}
Answer  == {"arp", "pong", "dns", "ntp"}
Packet  == [kind : Request \cup Answer, n : Nat, at : Nat, ok : BOOLEAN]
Pkt(k)  == [kind |-> k, n |-> 0, at |-> 0, ok |-> TRUE]

(* The variables of net_driver.cpp as main() leaves them when the loop     *)
(* starts: have_router_mac, pending_cmd, pending_ping_count,               *)
(* g_ntp_outstanding and g_ntp_t1, g_ntp_boot_sync_pending and its         *)
(* deadline, the next resynchronisation, the ping outstanding (0 if none), *)
(* g_ping_next_seq, g_ping_series_remaining and g_ping_next_send_ms.  (T1  *)
(* and the deadline are 0 when nobody reads them any more.)                *)
Started(t) ==
  [mac |-> FALSE, pending |-> "ntp", count |-> 1, ntpOut |-> FALSE, t1 |-> 0,
   boot |-> TRUE, deadline |-> t + NTP_BOOT_TIMEOUT, resync |-> t + NTP_RESYNC_INTERVAL,
   out |-> 0, seq |-> 0, left |-> 0, nextSend |-> 0]

(* The shell: direct is history, whether the router was known and the      *)
(* boot's synchronisation over when the driver received the command.       *)
ShellAt(pc) == [pc |-> pc, cmd |-> "none", count |-> 0, direct |-> FALSE]

Init ==
  /\ now = 0 /\ offset = 0
  /\ drv = Started(0)
  /\ wire = {Pkt("arp?")}
  /\ mailbox = 0 /\ addr = 0
  /\ shell = ShellAt("boot")
  /\ commands = 0
  /\ signals = 0
  /\ sync = [count |-> 0, right |-> TRUE]

-----------------------------------------------------------------------------
(* The time driver. *)

GetTime == now + offset                     \* SYS_GET_TIME
SetTimeOffset(s) == offset' = s             \* SYS_SET_TIME_OFFSET

(* The clock goes on.  A boot that is under way may exceed the bound.      *)
Tick ==
  /\ now < MaxTime \/ (drv.boot /\ now < drv.deadline)
  /\ now' = now + 1
  /\ UNCHANGED <<offset, drv, wire, mailbox, addr, shell, commands, signals, sync>>

-----------------------------------------------------------------------------
(* The network.  A peer answers a request, NTP well or badly, or it or the *)
(* network drops it.  (A DNS answer without an address is ignored: it      *)
(* might as well be lost.)                                                 *)

Answers(m) ==
  CASE m.kind = "arp?"  -> {Pkt("arp")}
    [] m.kind = "ping?" -> {[m EXCEPT !.kind = "pong"]}
    [] m.kind = "dns?"  -> {Pkt("dns")}
    [] m.kind = "ntp?"  -> {[m EXCEPT !.kind = "ntp", !.n = now, !.ok = b] : b \in BOOLEAN}
    [] OTHER            -> {}

Peer(m) ==
  /\ m.kind \in Request
  /\ \E a \in Answers(m) : wire' = (wire \ {m}) \cup {a}
  /\ UNCHANGED <<now, offset, drv, mailbox, addr, shell, commands, signals, sync>>

Lose(m) ==
  /\ wire' = wire \ {m}
  /\ UNCHANGED <<now, offset, drv, mailbox, addr, shell, commands, signals, sync>>

-----------------------------------------------------------------------------
(* Sending: net_send_packet. *)

Transmit(m) ==
  wire' = IF Cardinality(wire \cup {m}) <= MaxWire THEN wire \cup {m} ELSE wire

(* Mutant of NextSeq: number 0 is not left out. *)
NextSeq_Zero(s) == (s + 1) % SeqMod

(* net_send_ping: number 0 is left out. *)
NextSeq(s) == IF (s + 1) % SeqMod = 0 THEN 1 ELSE s + 1

(* net_send_next_ping *)
PingSent(d) == [d EXCEPT !.left = @ - 1, !.seq = NextSeq(@), !.out = NextSeq(d.seq), !.nextSend = 0]
PingPacket(d) == [Pkt("ping?") EXCEPT !.n = NextSeq(d.seq)]

(* net_send_ntp_request *)
NtpSent(d) == [d EXCEPT !.ntpOut = TRUE, !.t1 = GetTime]
NtpPacket == [kind |-> "ntp?", n |-> 0, at |-> now, ok |-> TRUE]

(* With the router known, a command is carried out: net_start_ping_series, *)
(* net_send_udp, net_send_dns_query or net_send_ntp_request.               *)
Launch(cmd, count, d) ==
  \/ /\ cmd = "none" /\ drv' = d
     /\ UNCHANGED <<wire, mailbox>>
  \/ /\ cmd = "ping" /\ drv' = PingSent([d EXCEPT !.left = count])
     /\ Transmit(PingPacket(d)) /\ UNCHANGED mailbox
  \/ /\ cmd = "send" /\ drv' = d
     /\ mailbox' = 0 /\ UNCHANGED wire
  \/ /\ cmd = "resolve" /\ drv' = d
     /\ Transmit(Pkt("dns?")) /\ UNCHANGED mailbox
  \/ /\ cmd = "ntp" /\ drv' = NtpSent(d)
     /\ Transmit(NtpPacket) /\ UNCHANGED mailbox

(* Otherwise it waits for the answer to an ARP request. *)
Postpone(cmd, count) ==
  /\ drv' = [drv EXCEPT !.pending = cmd, !.count = IF cmd = "ping" THEN count ELSE @]
  /\ Transmit(Pkt("arp?"))
  /\ UNCHANGED mailbox

LaunchOrPostpone(cmd, count) ==
  IF drv.mac THEN Launch(cmd, count, drv) ELSE Postpone(cmd, count)

(* Mutant of ScheduleNextPing: the mailbox stays locked. *)
ScheduleNextPing_NoUnlock(d) ==
  /\ drv' = IF d.left > 0 THEN [d EXCEPT !.nextSend = GetTime + 1] ELSE d
  /\ UNCHANGED mailbox

(* net_schedule_next_ping: the next one a second later by the clock, or    *)
(* the series is over and the shell goes on.                               *)
ScheduleNextPing(d) ==
  /\ drv' = IF d.left > 0 THEN [d EXCEPT !.nextSend = GetTime + 1] ELSE d
  /\ mailbox' = IF d.left > 0 THEN mailbox ELSE 0

(* Mutant of BootEnds: g_ntp_boot_sync_pending is not asked. *)
BootEnds_Always == signals' = signals + 1

(* signal_net_driver_ready, once the boot's synchronisation has ended.     *)
BootEnds == signals' = IF drv.boot THEN signals + 1 ELSE signals

-----------------------------------------------------------------------------
(* net_poll: one received packet. *)

(* Mutant of PollArp: pending_cmd is not reset. *)
PollArp_KeepsPending(m) ==
  /\ m.kind = "arp" /\ ~drv.mac
  /\ Launch(drv.pending, drv.count, [drv EXCEPT !.mac = TRUE])
  /\ UNCHANGED <<offset, addr, signals, sync>>

PollArp(m) ==
  /\ m.kind = "arp" /\ ~drv.mac
  /\ Launch(drv.pending, drv.count, [drv EXCEPT !.mac = TRUE, !.pending = "none"])
  /\ UNCHANGED <<offset, addr, signals, sync>>

(* An answer to another ping than the one outstanding is only printed. *)
PollPong(m) ==
  /\ m.kind = "pong" /\ drv.out # 0 /\ m.n = drv.out
  /\ ScheduleNextPing([drv EXCEPT !.out = 0])
  /\ UNCHANGED <<offset, wire, addr, signals, sync>>

(* Whether a question is outstanding is not asked. *)
PollDns(m) ==
  /\ m.kind = "dns"
  /\ addr' = 1 /\ mailbox' = 0
  /\ UNCHANGED <<offset, drv, wire, signals, sync>>

(* C's division by two. *)
Half(x) == IF x >= 0 THEN x \div 2 ELSE -((-x) \div 2)

(* Mutant of NtpOffset: T1 and T2 exchanged. *)
NtpOffset_Swapped(m) == Half((drv.t1 - (m.n + Skew)) + ((m.n + Skew) - GetTime))

(* ((T2 - T1) + (T3 - T4)) / 2 with the server's time T2 = T3; T1 and T4   *)
(* are readings of the corrected clock.                                    *)
NtpOffset(m) == Half(((m.n + Skew) - drv.t1) + ((m.n + Skew) - GetTime))

(* For the properties: the answer belongs to the request outstanding; an   *)
(* offset differs from the true one by no more than half the time between  *)
(* the two (and half a second of rounding).                                *)
Belongs(m) == m.at + offset = drv.t1
Right(s) ==
  LET e == s - Skew IN 2 * (IF e >= 0 THEN e ELSE -e) <= (GetTime - drv.t1) + 1

PollNtp(m) ==
  /\ m.kind = "ntp" /\ drv.ntpOut
  /\ drv' = [drv EXCEPT !.ntpOut = FALSE, !.t1 = 0, !.boot = FALSE, !.deadline = 0]
  /\ mailbox' = 0
  /\ BootEnds
  /\ IF m.ok
     THEN /\ SetTimeOffset(NtpOffset(m))
          /\ sync' = [count |-> IF sync.count = 0 THEN 1 ELSE 2,
                      right |-> Belongs(m) => Right(NtpOffset(m))]
     ELSE UNCHANGED <<offset, sync>>
  /\ UNCHANGED <<wire, addr>>

net_poll ==
  /\ \E m \in wire : PollArp(m) \/ PollPong(m) \/ PollDns(m) \/ PollNtp(m)
  /\ UNCHANGED <<now, shell, commands>>

-----------------------------------------------------------------------------
(* net_handle_command: the shell's message is received. *)

Taken == shell' = [shell EXCEPT !.pc = "wait", !.direct = drv.mac /\ ~drv.boot]

HandleSend ==
  shell.cmd \in {"ping", "send", "resolve"} /\ LaunchOrPostpone(shell.cmd, shell.count)

HandleNtp ==
  /\ shell.cmd = "ntp"
  /\ IF drv.ntpOut THEN mailbox' = 0 /\ UNCHANGED <<drv, wire>>
     ELSE LaunchOrPostpone("ntp", 0)

(* netstat and recv print something. *)
HandleQuery ==
  shell.cmd = "query" /\ mailbox' = 0 /\ UNCHANGED <<drv, wire>>

net_handle_command ==
  /\ shell.pc = "send"
  /\ HandleSend \/ HandleNtp \/ HandleQuery
  /\ Taken
  /\ UNCHANGED <<now, offset, addr, commands, signals, sync>>

-----------------------------------------------------------------------------
(* The deadlines of the loop. *)

(* The time-out of a ping is a number of turns of the loop, and may come   *)
(* at any time.                                                            *)
net_check_ping_timeout ==
  /\ drv.out # 0
  /\ ScheduleNextPing([drv EXCEPT !.out = 0])
  /\ UNCHANGED <<now, offset, wire, addr, shell, commands, signals, sync>>

net_check_ping_send ==
  /\ drv.out = 0 /\ drv.left > 0
  /\ drv.nextSend = 0 \/ GetTime >= drv.nextSend
  /\ drv' = PingSent(drv)
  /\ Transmit(PingPacket(drv))
  /\ UNCHANGED <<now, offset, mailbox, addr, shell, commands, signals, sync>>

net_check_ntp_resync ==
  /\ ~drv.ntpOut /\ drv.pending # "ntp"
  /\ now >= drv.resync
  /\ IF drv.mac THEN /\ drv' = [NtpSent(drv) EXCEPT !.resync = now + NTP_RESYNC_INTERVAL]
                     /\ Transmit(NtpPacket)
     ELSE /\ drv' = [drv EXCEPT !.pending = "ntp", !.resync = now + NTP_RESYNC_INTERVAL]
          /\ Transmit(Pkt("arp?"))
  /\ UNCHANGED <<now, offset, mailbox, addr, shell, commands, signals, sync>>

(* Mutant of net_check_boot_ntp_timeout: only if a request was sent. *)
net_check_boot_ntp_timeout_Sent ==
  /\ drv.boot /\ drv.ntpOut /\ now >= drv.deadline
  /\ drv' = [drv EXCEPT !.boot = FALSE, !.ntpOut = FALSE, !.t1 = 0, !.deadline = 0]
  /\ BootEnds
  /\ UNCHANGED <<now, offset, wire, mailbox, addr, shell, commands, sync>>

net_check_boot_ntp_timeout ==
  /\ drv.boot /\ now >= drv.deadline
  /\ drv' = [drv EXCEPT !.boot = FALSE, !.ntpOut = FALSE, !.t1 = 0, !.deadline = 0,
                        !.pending = IF @ = "ntp" THEN "none" ELSE @]
  /\ BootEnds
  /\ UNCHANGED <<now, offset, wire, mailbox, addr, shell, commands, sync>>

-----------------------------------------------------------------------------
(* The shell.  It locks the mailbox and sends the command (seL4_Send       *)
(* blocks until the driver receives it), then it looks at the mailbox.     *)

Send(cmd, count) ==
  /\ mailbox' = 1
  /\ shell' = [pc |-> "send", cmd |-> cmd, count |-> count, direct |-> FALSE]

(* At the boot it waits for the drivers (SYS_WAIT_ALL_DRIVERS_READY). *)
DriversReady ==
  /\ shell.pc = "boot" /\ signals > 0
  /\ shell' = ShellAt("prompt")
  /\ UNCHANGED <<now, offset, drv, wire, mailbox, addr, commands, signals, sync>>

(* ping with a name asks DNS first. *)
ShellCommand(c, count) ==
  /\ shell.pc = "prompt"
  /\ commands < MaxCommands /\ commands' = commands + 1
  /\ Send(IF c = "name" THEN "resolve" ELSE c, count)
  /\ UNCHANGED <<now, offset, drv, wire, addr, signals, sync>>

(* What the shell does after wait_for_net_mailbox(): after a DNS question  *)
(* it takes the address in shared memory, if there is one, and pings.      *)
GoesOn ==
  IF shell.cmd = "resolve" /\ addr # 0 THEN Send("ping", shell.count)
  ELSE shell' = ShellAt("prompt") /\ mailbox' = 0

wait_for_net_mailbox ==
  /\ shell.pc = "wait" /\ mailbox = 0
  /\ GoesOn
  /\ UNCHANGED <<now, offset, drv, wire, addr, commands, signals, sync>>

(* The wait ends: the mailbox is unlocked, and the driver restarted        *)
(* (SYS_RECOVER) with all its variables, but not the time driver's offset. *)
WaitTimesOut ==
  /\ shell.pc = "wait" /\ mailbox = 1
  /\ GoesOn
  /\ drv' = Started(now)
  /\ Transmit(Pkt("arp?"))
  /\ signals' = 0
  /\ UNCHANGED <<now, offset, addr, commands, sync>>

Shell == (\E c \in Typed, count \in PingCounts : ShellCommand(c, count))
         \/ DriversReady \/ wait_for_net_mailbox \/ WaitTimesOut

Driver ==
  \/ net_poll
  \/ net_handle_command
  \/ net_check_ping_timeout \/ net_check_ping_send
  \/ net_check_ntp_resync \/ net_check_boot_ntp_timeout

Network == \E m \in wire : Peer(m) \/ Lose(m)

Next == Tick \/ Network \/ Driver \/ Shell

(* Time passes and the driver's loop turns.  Nothing is assumed of the     *)
(* network, the shell or the user.                                         *)
Fairness == WF_vars(Tick) /\ WF_vars(net_check_boot_ntp_timeout)

Spec == Init /\ [][Next]_vars /\ Fairness

-----------------------------------------------------------------------------
DriverState ==
  [mac : BOOLEAN, pending : Pending, count : Nat, ntpOut : BOOLEAN, t1 : Int,
   boot : BOOLEAN, deadline : Nat, resync : Nat, out : Nat, seq : Nat, left : Nat,
   nextSend : Int]

(* The driver's, the shell's and the network's state are well-formed: the  *)
(* number of pings left never becomes negative (it is unsigned), and no    *)
(* ping has the number 0 or one of more than 16 bits.                      *)
TypeOK ==
  /\ now \in Nat /\ offset \in Int
  /\ drv \in DriverState /\ drv.seq < SeqMod /\ drv.out < SeqMod
  /\ wire \subseteq Packet
  /\ \A m \in wire : m.kind \in {"ping?", "pong"} => m.n \in 1 .. (SeqMod - 1)
  /\ mailbox \in {0, 1} /\ addr \in {0, 1}
  /\ shell \in [pc : {"boot", "prompt", "send", "wait"}, count : Nat, direct : BOOLEAN,
                cmd : {"none", "ping", "send", "resolve", "ntp", "query"}]
  /\ commands \in 0 .. MaxCommands
  /\ signals \in Nat
  /\ sync \in [count : 0 .. 2, right : BOOLEAN]

(* Every instance of the driver reports its readiness exactly once, when   *)
(* the fate of the boot's synchronisation is known: neither a late answer  *)
(* after the time-out nor an answer to a later request reports it again.   *)
ReadyOnce == signals = IF drv.boot THEN 0 ELSE 1

(* No command is left behind: with the router known nothing waits for ARP  *)
(* any more (an ARP answer is only looked at while the router is unknown), *)
(* and no NTP answer is awaited that was never asked for.                  *)
PendingServed ==
  /\ drv.mac => drv.pending = "none"
  /\ drv.ntpOut => drv.mac

(* Is the shell's command still under way?  A DNS question may stay        *)
(* without a usable answer.                                                *)
UnderWay ==
  \/ shell.cmd = "resolve"
  \/ shell.cmd = "ping" /\ (drv.out # 0 \/ drv.left > 0)
  \/ shell.cmd = "ntp" /\ drv.ntpOut

(* The shell finds the mailbox locked only as long as the driver works on  *)
(* its command; otherwise it would wait in vain and then restart a driver  *)
(* that is well.  Commands that had to wait for ARP are left out (another  *)
(* command or the periodic resynchronisation may take their place), and so *)
(* are those given while a restarted driver still synchronises (the boot's *)
(* time-out also forgets a request of the shell).                          *)
NoLostWake == shell.pc = "wait" /\ mailbox = 1 /\ shell.direct => UnderWay

(* The first synchronisation sets the clock right, if the answer belongs   *)
(* to the request; packets may be late in both directions.                 *)
FirstSyncRight == sync.count = 1 => sync.right

(* So does every other one: the comment on ntp_offset_seconds says it is   *)
(* the correction between the local PL031 and the NTP server, and the      *)
(* README that the synchronisation is repeated every half an hour.  It     *)
(* does not hold: the driver computes the correction of the clock that is  *)
(* already corrected, and the time driver puts it in the old one's place.  *)
EverySyncRight == sync.count > 0 => sync.right

(* The boot does not wait for a network that is silent. *)
BootCompletes == drv.boot ~> ~drv.boot
=============================================================================
