-------------------------- MODULE NetDriver_proofs --------------------------
(***************************************************************************)
(* The network driver's invariants, for every clock skew, every time-out,  *)
(* every number of commands, pings and packets: it reports its readiness   *)
(* once, leaves no command behind, does not let the shell wait in vain,    *)
(* and its first synchronisation sets the clock right.                     *)
(***************************************************************************)
EXTENDS NetDriver, TLAPS

-----------------------------------------------------------------------------
(* The inductive invariant. *)

(* A series of pings has at least one: otherwise the first ping would make *)
(* the number of those left negative.                                      *)
Counted ==
  /\ drv.count > 0
  /\ shell.pc \in {"send", "wait"} => shell.count > 0

(* A command that was carried out directly finds the router still known    *)
(* and the boot over as long as the shell waits: only a restart changes    *)
(* that, and the shell then waits no longer.                               *)
DirectKnown == shell.pc = "wait" /\ shell.direct => drv.mac /\ ~drv.boot

(* Nothing comes from the future: requests were sent and answers given     *)
(* before now, and before the first synchronisation the clock is the       *)
(* PL031 itself.                                                           *)
PacketInPast(m) ==
  /\ m.kind \in {"ntp?", "ntp"} => m.at <= now
  /\ m.kind = "ntp" => m.at <= m.n /\ m.n <= now

TimesSound ==
  /\ \A m \in wire : PacketInPast(m)
  /\ sync.count = 0 => offset = 0 /\ (drv.ntpOut => drv.t1 <= now)

IInv ==
  TypeOK /\ Counted /\ ReadyOnce /\ PendingServed /\ DirectKnown /\ NoLostWake
  /\ TimesSound /\ FirstSyncRight

-----------------------------------------------------------------------------
(* Helpers. *)

(* A number divides itself. *)
LEMMA SelfModulo == \A n \in Nat \ {0} : n % n = 0
  BY Z3

(* The next ping's number has 16 bits and is not 0. *)
LEMMA NextSeqRange ==
  ASSUME NEW s \in Nat, s < SeqMod
  PROVE  NextSeq(s) \in 1 .. (SeqMod - 1)
<1>1. CASE (s + 1) % SeqMod = 0
  BY <1>1, NetAssumption DEF NextSeq
<1>2. CASE (s + 1) % SeqMod # 0
  <2>1. s + 1 # SeqMod
    BY <1>2, SelfModulo, NetAssumption
  <2> QED BY <1>2, <2>1, NetAssumption DEF NextSeq
<1> QED BY <1>1, <1>2

(* C's division by two is off by at most a half. *)
LEMMA HalfRange ==
  ASSUME NEW x \in Int
  PROVE  Half(x) \in Int /\ 2 * Half(x) <= x + 1 /\ x <= 2 * Half(x) + 1
  BY DEF Half

-----------------------------------------------------------------------------
(* The network carries well-formed packets from the past, and sending one  *)
(* more, or losing it at once, keeps it so.                                *)

WireGood(w) ==
  /\ w \subseteq Packet
  /\ \A m \in w : m.kind \in {"ping?", "pong"} => m.n \in 1 .. (SeqMod - 1)
  /\ \A m \in w : PacketInPast(m)

(* The packets on the wire are well formed. *)
LEMMA WireIsGood ==
  ASSUME IInv PROVE WireGood(wire)
  BY DEF IInv, TypeOK, TimesSound, WireGood

(* Sending a well-formed packet keeps the wire well formed. *)
LEMMA TransmitGood ==
  ASSUME IInv, NEW m \in Packet, PacketInPast(m),
         m.kind \in {"ping?", "pong"} => m.n \in 1 .. (SeqMod - 1),
         Transmit(m)
  PROVE  WireGood(wire')
<1>1. WireGood(wire) /\ WireGood(wire \cup {m})
  BY WireIsGood DEF WireGood
<1>2. wire' = wire \/ wire' = wire \cup {m}
  BY DEF Transmit
<1> QED BY <1>1, <1>2

(* The packets the driver sends. *)
LEMMA RequestsGood ==
  ASSUME IInv
  PROVE  /\ \A k \in {"arp?", "dns?"} : Pkt(k) \in Packet /\ PacketInPast(Pkt(k))
                                       /\ Pkt(k).kind = k
         /\ NtpPacket \in Packet /\ PacketInPast(NtpPacket) /\ NtpPacket.kind = "ntp?"
<1>1. now \in Nat
  BY DEF IInv, TypeOK
<1>2. \A k \in {"arp?", "dns?"} : Pkt(k) \in Packet /\ PacketInPast(Pkt(k)) /\ Pkt(k).kind = k
  BY DEF Pkt, Packet, Request, PacketInPast
<1> QED BY <1>1, <1>2 DEF NtpPacket, Packet, Request, PacketInPast

(* The packet that ping sends is well formed. *)
LEMMA PingPacketGood ==
  ASSUME NEW d \in DriverState, d.seq < SeqMod
  PROVE  /\ PingPacket(d) \in Packet /\ PacketInPast(PingPacket(d))
         /\ PingPacket(d).n \in 1 .. (SeqMod - 1)
<1>1. NextSeq(d.seq) \in 1 .. (SeqMod - 1) /\ NextSeq(d.seq) \in Nat
  BY NextSeqRange, NetAssumption DEF DriverState
<1> HIDE DEF NextSeq
<1> QED BY <1>1 DEF PingPacket, Pkt, Packet, Request, PacketInPast

(* What sending leaves alone. *)
SameMain(d, e) ==
  /\ e.mac = d.mac /\ e.pending = d.pending /\ e.count = d.count
  /\ e.boot = d.boot /\ e.deadline = d.deadline /\ e.resync = d.resync
SameNtp(d, e) == e.ntpOut = d.ntpOut /\ e.t1 = d.t1

(* A ping is sent while some are left. *)
LEMMA PingSentGood ==
  ASSUME NEW d \in DriverState, d.seq < SeqMod, d.left > 0
  PROVE  /\ PingSent(d) \in DriverState
         /\ PingSent(d).seq < SeqMod /\ PingSent(d).out < SeqMod /\ PingSent(d).out # 0
         /\ SameMain(d, PingSent(d)) /\ SameNtp(d, PingSent(d))
<1>1. NextSeq(d.seq) \in 1 .. (SeqMod - 1) /\ NextSeq(d.seq) \in Nat
  BY NextSeqRange, NetAssumption DEF DriverState
<1> DEFINE s == NextSeq(d.seq)
           z == 0
           e == [d EXCEPT !.left = d.left - 1, !.seq = s, !.out = s, !.nextSend = z]
<1>2. PingSent(d) = e
  BY DEF PingSent
<1>3. d.left - 1 \in Nat /\ s \in Nat /\ s # 0 /\ s < SeqMod /\ z \in Int
  BY <1>1, NetAssumption DEF DriverState
<1> HIDE DEF s, z
<1>4. e \in DriverState
  BY <1>3 DEF DriverState
<1>5. e.seq = s /\ e.out = s
  BY DEF DriverState
<1>6. SameMain(d, e) /\ SameNtp(d, e)
  BY DEF DriverState, SameMain, SameNtp
<1> QED BY <1>2, <1>3, <1>4, <1>5, <1>6

(* An NTP request is sent. *)
LEMMA NtpSentGood ==
  ASSUME IInv, NEW d \in DriverState
  PROVE  /\ NtpSent(d) \in DriverState
         /\ SameMain(d, NtpSent(d)) /\ NtpSent(d).ntpOut /\ NtpSent(d).t1 = now + offset
         /\ NtpSent(d).seq = d.seq /\ NtpSent(d).out = d.out /\ NtpSent(d).left = d.left
<1> DEFINE t == now + offset
           e == [d EXCEPT !.ntpOut = TRUE, !.t1 = t]
<1>1. t \in Int
  BY DEF IInv, TypeOK
<1>2. NtpSent(d) = e
  BY DEF NtpSent, GetTime
<1> HIDE DEF t
<1>3. e \in DriverState
  BY <1>1 DEF DriverState
<1>4. e.t1 = t /\ e.seq = d.seq /\ e.out = d.out /\ e.left = d.left /\ SameMain(d, e)
  BY DEF DriverState, SameMain
<1>5. e.ntpOut = TRUE
  BY DEF DriverState
<1> HIDE DEF e
<1> QED BY <1>2, <1>3, <1>4, <1>5 DEF t

(* A command that is carried out leaves the driver well-formed, and the    *)
(* shell's command under way or its mailbox unlocked.                      *)
LEMMA LaunchGood ==
  ASSUME IInv, NEW d \in DriverState, d.seq < SeqMod, d.out < SeqMod,
         NEW cmd \in Pending, NEW count \in Nat \ {0},
         Launch(cmd, count, d)
  PROVE  /\ drv' \in DriverState /\ drv'.seq < SeqMod /\ drv'.out < SeqMod
         /\ SameMain(d, drv')
         /\ cmd = "ntp" => drv'.ntpOut /\ drv'.t1 = now + offset
         /\ cmd # "ntp" => SameNtp(d, drv')
         /\ d.out # 0 \/ d.left > 0 => drv'.out # 0 \/ drv'.left > 0
         /\ cmd = "ping" => drv'.out # 0
         /\ mailbox' = IF cmd = "send" THEN 0 ELSE mailbox
         /\ WireGood(wire')
<1> DEFINE d2 == [d EXCEPT !.left = count]
<1>1. d2 \in DriverState /\ d2.seq < SeqMod /\ d2.left > 0
      /\ SameMain(d, d2) /\ SameNtp(d, d2)
  BY DEF DriverState, SameMain, SameNtp
<1>2. CASE cmd = "none" /\ drv' = d /\ UNCHANGED <<wire, mailbox>>
  BY <1>2, WireIsGood DEF SameMain, SameNtp, DriverState
<1>3. CASE cmd = "ping" /\ drv' = PingSent(d2) /\ Transmit(PingPacket(d)) /\ UNCHANGED mailbox
  <2>1. WireGood(wire')
    BY <1>3, PingPacketGood, TransmitGood
  <2> HIDE DEF d2
  <2> QED BY <1>1, <1>3, <2>1, PingSentGood DEF SameMain, SameNtp, DriverState
<1>4. CASE cmd = "send" /\ drv' = d /\ mailbox' = 0 /\ UNCHANGED wire
  BY <1>4, WireIsGood DEF SameMain, SameNtp, DriverState
<1>5. CASE cmd = "resolve" /\ drv' = d /\ Transmit(Pkt("dns?")) /\ UNCHANGED mailbox
  BY <1>5, RequestsGood, TransmitGood DEF SameMain, SameNtp, DriverState
<1>6. CASE cmd = "ntp" /\ drv' = NtpSent(d) /\ Transmit(NtpPacket) /\ UNCHANGED mailbox
  <2>1. WireGood(wire')
    BY <1>6, RequestsGood, TransmitGood
  <2> QED BY <1>6, <2>1, NtpSentGood
<1> QED BY <1>2, <1>3, <1>4, <1>5, <1>6 DEF Launch

-----------------------------------------------------------------------------
(* What the steps of the driver have in common. *)

DriverGood(d) == d \in DriverState /\ d.seq < SeqMod /\ d.out < SeqMod /\ d.count > 0

(* The variables of the driver are well formed. *)
LEMMA DriverIsGood ==
  ASSUME IInv PROVE DriverGood(drv)
  BY DEF IInv, TypeOK, Counted, DriverGood

(* A step that leaves the shell and the clock alone keeps the invariant if *)
(* the driver and the packets stay well-formed, and so on.                 *)
LEMMA DriverStep ==
  ASSUME IInv, UNCHANGED <<now, offset, addr, shell, commands, signals, sync>>,
         DriverGood(drv'), WireGood(wire'), mailbox' \in {0, mailbox},
         drv'.boot = drv.boot,
         drv.mac => drv'.mac,
         drv'.mac => drv'.pending = "none",
         drv'.ntpOut => drv'.mac,
         drv'.ntpOut /\ ~drv.ntpOut => drv'.t1 = now + offset,
         drv'.ntpOut /\ drv.ntpOut => drv'.t1 = drv.t1 \/ drv'.t1 = now + offset,
         mailbox' = 0 \/ ((drv.ntpOut => drv'.ntpOut)
                          /\ (drv.out # 0 \/ drv.left > 0 => drv'.out # 0 \/ drv'.left > 0))
  PROVE  IInv'
<1>1. TypeOK'
  BY DEF IInv, TypeOK, DriverGood, WireGood
<1>2. Counted'
  BY DEF IInv, Counted, DriverGood
<1>3. ReadyOnce'
  BY DEF IInv, ReadyOnce
<1>4. PendingServed'
  BY DEF PendingServed
<1>5. DirectKnown'
  BY DEF IInv, DirectKnown
<1>6. NoLostWake'
  BY DEF IInv, NoLostWake, UnderWay
<1>7. TimesSound'
  <2>1. \A m \in wire' : PacketInPast(m)'
    BY DEF WireGood, PacketInPast
  <2>2. now \in Nat /\ now + 0 = now
    BY DEF IInv, TypeOK
  <2> QED BY <2>1, <2>2 DEF IInv, TimesSound
<1>8. FirstSyncRight'
  BY DEF IInv, FirstSyncRight
<1> QED BY <1>1, <1>2, <1>3, <1>4, <1>5, <1>6, <1>7, <1>8 DEF IInv

(* ScheduleNextPing ends the ping outstanding. *)
LEMMA ScheduleGood ==
  ASSUME IInv, ScheduleNextPing([drv EXCEPT !.out = 0])
  PROVE  /\ DriverGood(drv')
         /\ SameMain(drv, drv') /\ SameNtp(drv, drv')
         /\ mailbox' \in {0, mailbox}
         /\ mailbox' = 0 \/ drv'.left > 0
<1> DEFINE z == 0
           d == [drv EXCEPT !.out = z]
           t == GetTime + 1
<1>1. t \in Int /\ z \in Nat /\ z < SeqMod
  BY NetAssumption DEF IInv, TypeOK, GetTime
<1>2. ScheduleNextPing(d)
  OBVIOUS
<1> HIDE DEF z, t
<1>3. d \in DriverState /\ d.seq = drv.seq /\ d.out = z /\ d.count = drv.count
      /\ SameMain(drv, d) /\ SameNtp(drv, d)
  BY <1>1, DriverIsGood DEF DriverGood, DriverState, SameMain, SameNtp
<1> HIDE DEF d
<1>4. /\ drv' = IF d.left > 0 THEN [d EXCEPT !.nextSend = t] ELSE d
      /\ mailbox' = IF d.left > 0 THEN mailbox ELSE 0
  BY <1>2 DEF ScheduleNextPing, t
<1>5. CASE d.left > 0
  <2>1. drv' = [d EXCEPT !.nextSend = t] /\ mailbox' = mailbox
    BY <1>4, <1>5
  <2>2. drv' \in DriverState /\ drv'.seq = d.seq /\ drv'.out = d.out /\ drv'.left = d.left
        /\ SameMain(d, drv') /\ SameNtp(d, drv')
    BY <1>1, <1>3, <2>1 DEF DriverState, SameMain, SameNtp
  <2> QED BY <1>1, <1>3, <1>5, <2>1, <2>2, DriverIsGood DEF DriverGood, SameMain, SameNtp
<1>6. CASE ~(d.left > 0)
  BY <1>1, <1>3, <1>4, <1>6, DriverIsGood DEF DriverGood, SameMain, SameNtp
<1> QED BY <1>5, <1>6

-----------------------------------------------------------------------------
(* The steps of the driver. *)

(* An ARP packet from the network. *)
LEMMA PollArpIInv ==
  ASSUME IInv, NEW m \in wire, PollArp(m), UNCHANGED <<now, shell, commands>>
  PROVE  IInv'
<1> DEFINE d == [drv EXCEPT !.mac = TRUE, !.pending = "none"]
<1>1. ~drv.mac /\ Launch(drv.pending, drv.count, d)
      /\ UNCHANGED <<now, offset, addr, shell, commands, signals, sync>>
  BY DEF PollArp
<1>2. /\ d \in DriverState /\ d.seq = drv.seq /\ d.out = drv.out /\ d.left = drv.left
      /\ d.count = drv.count /\ d.pending = "none" /\ d.boot = drv.boot /\ SameNtp(drv, d)
  BY DriverIsGood DEF DriverGood, DriverState, SameNtp, Pending
<1>3. d.mac = TRUE
  BY DriverIsGood DEF DriverGood, DriverState
<1> HIDE DEF d
<1>4. /\ d.seq < SeqMod /\ d.out < SeqMod
      /\ drv.pending \in Pending /\ drv.count \in Nat \ {0}
  BY <1>2, DriverIsGood DEF DriverGood, DriverState
<1>5. /\ drv' \in DriverState /\ drv'.seq < SeqMod /\ drv'.out < SeqMod
      /\ SameMain(d, drv')
      /\ drv.pending = "ntp" => drv'.ntpOut /\ drv'.t1 = now + offset
      /\ drv.pending # "ntp" => SameNtp(d, drv')
      /\ d.out # 0 \/ d.left > 0 => drv'.out # 0 \/ drv'.left > 0
      /\ mailbox' = IF drv.pending = "send" THEN 0 ELSE mailbox
      /\ WireGood(wire')
  BY <1>1, <1>2, <1>4, LaunchGood
<1>6. DriverGood(drv')
  BY <1>2, <1>4, <1>5 DEF DriverGood, SameMain
<1>7. drv'.mac /\ drv'.pending = "none" /\ drv'.boot = drv.boot
  BY <1>2, <1>3, <1>5 DEF SameMain
<1>8. ~drv.ntpOut
  BY <1>1 DEF IInv, PendingServed
<1>9. drv'.ntpOut => drv'.t1 = now + offset
  BY <1>2, <1>5, <1>8 DEF SameNtp
<1> QED BY <1>1, <1>2, <1>5, <1>6, <1>7, <1>8, <1>9, DriverStep

(* An echo reply from the network. *)
LEMMA PollPongIInv ==
  ASSUME IInv, NEW m \in wire, PollPong(m), UNCHANGED <<now, shell, commands>>
  PROVE  IInv'
<1>1. ScheduleNextPing([drv EXCEPT !.out = 0])
      /\ UNCHANGED <<now, offset, wire, addr, shell, commands, signals, sync>>
  BY DEF PollPong
<1> QED BY <1>1, ScheduleGood, WireIsGood, DriverStep DEF SameMain, SameNtp, IInv, PendingServed

(* ping gives up waiting for a reply. *)
LEMMA PingTimeoutIInv ==
  ASSUME IInv, net_check_ping_timeout PROVE IInv'
<1>1. ScheduleNextPing([drv EXCEPT !.out = 0])
      /\ UNCHANGED <<now, offset, wire, addr, shell, commands, signals, sync>>
  BY DEF net_check_ping_timeout
<1> QED BY <1>1, ScheduleGood, WireIsGood, DriverStep DEF SameMain, SameNtp, IInv, PendingServed

(* ping sends its request. *)
LEMMA PingSendIInv ==
  ASSUME IInv, net_check_ping_send PROVE IInv'
<1>1. drv.left > 0 /\ drv' = PingSent(drv) /\ Transmit(PingPacket(drv))
      /\ UNCHANGED <<now, offset, mailbox, addr, shell, commands, signals, sync>>
  BY DEF net_check_ping_send
<1>2. WireGood(wire')
  BY <1>1, DriverIsGood, PingPacketGood, TransmitGood DEF DriverGood
<1>3. DriverGood(drv') /\ drv'.out # 0 /\ SameMain(drv, drv') /\ SameNtp(drv, drv')
  BY <1>1, DriverIsGood, PingSentGood DEF DriverGood, SameMain
<1> QED BY <1>1, <1>2, <1>3, DriverStep DEF SameMain, SameNtp, IInv, PendingServed

(* The clock is to be set again: a new request to the time server. *)
LEMMA ResyncIInv ==
  ASSUME IInv, net_check_ntp_resync PROVE IInv'
<1> DEFINE r == now + NTP_RESYNC_INTERVAL
<1>1. r \in Nat
  BY NetAssumption DEF IInv, TypeOK
<1>2. ~drv.ntpOut /\ UNCHANGED <<now, offset, mailbox, addr, shell, commands, signals, sync>>
  BY DEF net_check_ntp_resync
<1>3. CASE drv.mac
  <2>1. drv' = [NtpSent(drv) EXCEPT !.resync = r] /\ Transmit(NtpPacket)
    BY <1>3 DEF net_check_ntp_resync
  <2>2. WireGood(wire')
    BY <2>1, RequestsGood, TransmitGood
  <2> HIDE DEF r
  <2> DEFINE d == NtpSent(drv)
  <2>3. /\ d \in DriverState /\ SameMain(drv, d) /\ d.ntpOut /\ d.t1 = now + offset
        /\ d.seq = drv.seq /\ d.out = drv.out /\ d.left = drv.left
    BY NtpSentGood, DriverIsGood DEF DriverGood
  <2>4. drv' = [d EXCEPT !.resync = r]
    BY <2>1
  <2> HIDE DEF d
  <2>5. drv' \in DriverState
    BY <1>1, <2>3, <2>4 DEF DriverState
  <2>6. /\ drv'.mac = d.mac /\ drv'.pending = d.pending /\ drv'.count = d.count
        /\ drv'.boot = d.boot /\ drv'.t1 = d.t1
        /\ drv'.seq = d.seq /\ drv'.out = d.out /\ drv'.left = d.left
    BY <2>3, <2>4 DEF DriverState
  <2>7. drv'.ntpOut = d.ntpOut
    BY <2>3, <2>4 DEF DriverState
  <2>8. DriverGood(drv')
    BY <2>3, <2>5, <2>6, DriverIsGood DEF DriverGood, SameMain
  <2> QED BY <1>2, <1>3, <2>2, <2>3, <2>6, <2>7, <2>8, DriverStep DEF SameMain, IInv, PendingServed
<1>4. CASE ~drv.mac
  <2>1. drv' = [drv EXCEPT !.pending = "ntp", !.resync = r] /\ Transmit(Pkt("arp?"))
    BY <1>4 DEF net_check_ntp_resync
  <2>2. WireGood(wire')
    BY <2>1, RequestsGood, TransmitGood
  <2> HIDE DEF r
  <2>3. drv' \in DriverState
    BY <1>1, <2>1, DriverIsGood DEF DriverState, DriverGood, Pending
  <2>4. /\ drv'.mac = drv.mac /\ drv'.count = drv.count
        /\ drv'.boot = drv.boot /\ drv'.t1 = drv.t1 /\ drv'.ntpOut = drv.ntpOut
        /\ drv'.seq = drv.seq /\ drv'.out = drv.out /\ drv'.left = drv.left
    BY <2>1, DriverIsGood DEF DriverState, DriverGood
  <2>5. DriverGood(drv')
    BY <2>3, <2>4, DriverIsGood DEF DriverGood
  <2> QED BY <1>2, <1>4, <2>2, <2>4, <2>5, DriverStep
<1> QED BY <1>3, <1>4

(* An answer from the name server. *)
LEMMA PollDnsIInv ==
  ASSUME IInv, NEW m \in wire, PollDns(m), UNCHANGED <<now, shell, commands>>
  PROVE  IInv'
<1> USE DEF PollDns, IInv
<1>1. TypeOK'
  BY DEF TypeOK
<1>2. Counted' /\ ReadyOnce' /\ PendingServed' /\ DirectKnown' /\ NoLostWake'
  BY DEF Counted, ReadyOnce, PendingServed, DirectKnown, NoLostWake, TypeOK
<1>3. TimesSound' /\ FirstSyncRight'
  BY DEF TimesSound, PacketInPast, FirstSyncRight
<1> QED BY <1>1, <1>2, <1>3

(* The first synchronisation: the error is at most half of the time        *)
(* between T1 and T4, and half a second of rounding.                       *)
LEMMA FirstOffsetRight ==
  ASSUME IInv, NEW m \in wire, m.kind = "ntp", drv.ntpOut, sync.count = 0, Belongs(m)
  PROVE  Right(NtpOffset(m))
<1> DEFINE x == ((m.n + Skew) - drv.t1) + ((m.n + Skew) - now)
<1>1. offset = 0 /\ m.at = drv.t1 /\ m.at <= m.n /\ m.n <= now
      /\ m.n \in Nat /\ m.at \in Nat /\ now \in Nat /\ Skew \in Int
  BY NetAssumption DEF IInv, TypeOK, TimesSound, PacketInPast, Belongs, Packet, DriverState
<1>2. x \in Int
  BY <1>1
<1>3. NtpOffset(m) = Half(x) /\ GetTime = now
  BY <1>1 DEF NtpOffset, GetTime
<1> DEFINE h == Half(x)
<1>4. h \in Int /\ 2 * h <= x + 1 /\ x <= 2 * h + 1
  BY <1>2, HalfRange
<1> HIDE DEF h
<1>5. /\ 2 * (h - Skew) <= (now - drv.t1) + 1
      /\ -(2 * (h - Skew)) <= (now - drv.t1) + 1
  BY <1>1, <1>4
<1>6. Right(h)
  BY <1>1, <1>3, <1>4, <1>5 DEF Right
<1> QED BY <1>3, <1>6 DEF h

(* An answer from the time server. *)
LEMMA PollNtpIInv ==
  ASSUME IInv, NEW m \in wire, PollNtp(m), UNCHANGED <<now, shell, commands>>
  PROVE  IInv'
<1> DEFINE z == 0
<1>1. /\ m.kind = "ntp" /\ drv.ntpOut
      /\ drv' = [drv EXCEPT !.ntpOut = FALSE, !.t1 = z, !.boot = FALSE, !.deadline = z]
      /\ mailbox' = 0 /\ signals' = (IF drv.boot THEN signals + 1 ELSE signals)
      /\ UNCHANGED <<now, shell, commands, wire, addr>>
  BY DEF PollNtp, BootEnds
<1>2. z \in Nat /\ z \in Int
  OBVIOUS
<1> HIDE DEF z
<1>3. drv' \in DriverState
  BY <1>1, <1>2, DriverIsGood DEF DriverGood, DriverState
<1>4. /\ drv'.mac = drv.mac /\ drv'.pending = drv.pending /\ drv'.count = drv.count
      /\ drv'.seq = drv.seq /\ drv'.out = drv.out /\ drv'.left = drv.left
  BY <1>1, DriverIsGood DEF DriverGood, DriverState
<1>5. drv'.boot = FALSE /\ drv'.ntpOut = FALSE
  BY <1>1, DriverIsGood DEF DriverGood, DriverState
<1>6. NtpOffset(m) \in Int
  <2>1. ((m.n + Skew) - drv.t1) + ((m.n + Skew) - GetTime) \in Int
    BY NetAssumption DEF IInv, TypeOK, Packet, DriverState, GetTime
  <2> QED BY <2>1, HalfRange DEF NtpOffset
<1>7. /\ offset' \in Int /\ sync' \in [count : 0 .. 2, right : BOOLEAN]
      /\ sync'.count = 1 => sync'.right
      /\ sync'.count = 0 => offset' = offset /\ sync' = sync
  <2>1. CASE m.ok
    <3>1. /\ offset' = NtpOffset(m)
          /\ sync' = [count |-> IF sync.count = 0 THEN 1 ELSE 2,
                      right |-> Belongs(m) => Right(NtpOffset(m))]
      BY <2>1 DEF PollNtp, SetTimeOffset
    <3> DEFINE b == Belongs(m) => Right(NtpOffset(m))
               k == IF sync.count = 0 THEN 1 ELSE 2
    <3>2. sync.count = 0 => b
      BY <1>1, FirstOffsetRight
    <3>3. sync' = [count |-> k, right |-> b] /\ b \in BOOLEAN
      BY <3>1
    <3>4. k \in 1 .. 2 /\ (k = 1 => sync.count = 0)
      OBVIOUS
    <3> HIDE DEF b, k
    <3>5. sync' \in [count : 0 .. 2, right : BOOLEAN] /\ sync'.count = k
      BY <3>3, <3>4
    <3>6. sync'.right = b
      BY <3>3
    <3> QED BY <1>6, <3>1, <3>2, <3>4, <3>5, <3>6
  <2>2. CASE ~m.ok
    BY <2>2 DEF PollNtp, IInv, TypeOK, FirstSyncRight
  <2> QED BY <2>1, <2>2
<1>8. TypeOK'
  BY <1>1, <1>3, <1>4, <1>7 DEF IInv, TypeOK
<1>9. Counted' /\ ReadyOnce' /\ PendingServed' /\ DirectKnown' /\ NoLostWake'
  BY <1>1, <1>4, <1>5 DEF IInv, TypeOK, Counted, ReadyOnce, PendingServed, DirectKnown, NoLostWake
<1>10. TimesSound' /\ FirstSyncRight'
  BY <1>1, <1>5, <1>7 DEF IInv, TimesSound, PacketInPast, FirstSyncRight
<1> QED BY <1>8, <1>9, <1>10 DEF IInv

(* The first synchronisation gives up waiting. *)
LEMMA BootTimeoutIInv ==
  ASSUME IInv, net_check_boot_ntp_timeout PROVE IInv'
<1> DEFINE z == 0
           p == IF drv.pending = "ntp" THEN "none" ELSE drv.pending
<1>1. /\ drv.boot
      /\ drv' = [drv EXCEPT !.boot = FALSE, !.ntpOut = FALSE, !.t1 = z, !.deadline = z,
                            !.pending = p]
      /\ signals' = (IF drv.boot THEN signals + 1 ELSE signals)
      /\ UNCHANGED <<now, offset, wire, mailbox, addr, shell, commands, sync>>
  BY DEF net_check_boot_ntp_timeout, BootEnds
<1>2. z \in Nat /\ z \in Int /\ p \in Pending /\ (drv.pending = "none" => p = "none")
  BY DriverIsGood DEF DriverGood, DriverState, Pending
<1> HIDE DEF z, p
<1>3. drv' \in DriverState
  BY <1>1, <1>2, DriverIsGood DEF DriverGood, DriverState
<1>4. /\ drv'.mac = drv.mac /\ drv'.pending = p /\ drv'.count = drv.count
      /\ drv'.seq = drv.seq /\ drv'.out = drv.out /\ drv'.left = drv.left
  BY <1>1, DriverIsGood DEF DriverGood, DriverState
<1>5. drv'.boot = FALSE /\ drv'.ntpOut = FALSE
  BY <1>1, DriverIsGood DEF DriverGood, DriverState
<1>6. TypeOK'
  BY <1>1, <1>3, <1>4 DEF IInv, TypeOK
<1>7. Counted' /\ ReadyOnce' /\ PendingServed' /\ DirectKnown' /\ NoLostWake'
  BY <1>1, <1>2, <1>4, <1>5
  DEF IInv, TypeOK, Counted, ReadyOnce, PendingServed, DirectKnown, NoLostWake
<1>8. TimesSound' /\ FirstSyncRight'
  BY <1>1, <1>5 DEF IInv, TimesSound, PacketInPast, FirstSyncRight
<1> QED BY <1>6, <1>7, <1>8 DEF IInv

(* A command is carried out or waits for ARP. *)
LEMMA LaunchOrPostponeGood ==
  ASSUME IInv, NEW cmd \in Pending, NEW count \in Nat \ {0}, cmd # "none",
         LaunchOrPostpone(cmd, count)
  PROVE  /\ DriverGood(drv') /\ WireGood(wire') /\ mailbox' \in {0, mailbox}
         /\ drv'.mac = drv.mac /\ drv'.boot = drv.boot
         /\ drv'.mac => drv'.pending = "none"
         /\ drv'.ntpOut => drv.ntpOut \/ (drv.mac /\ drv'.t1 = now + offset)
         /\ drv'.ntpOut /\ drv.ntpOut => drv'.t1 = drv.t1 \/ drv'.t1 = now + offset
         /\ drv.mac => \/ mailbox' = 0
                       \/ cmd = "resolve"
                       \/ cmd = "ping" /\ drv'.out # 0
                       \/ cmd = "ntp" /\ drv'.ntpOut
<1>1. CASE drv.mac
  <2>1. Launch(cmd, count, drv)
    BY <1>1 DEF LaunchOrPostpone
  <2>2. drv \in DriverState /\ drv.seq < SeqMod /\ drv.out < SeqMod /\ drv.count > 0
    BY DriverIsGood DEF DriverGood
  <2>3. /\ drv' \in DriverState /\ drv'.seq < SeqMod /\ drv'.out < SeqMod
        /\ SameMain(drv, drv')
        /\ cmd = "ntp" => drv'.ntpOut /\ drv'.t1 = now + offset
        /\ cmd # "ntp" => SameNtp(drv, drv')
        /\ cmd = "ping" => drv'.out # 0
        /\ mailbox' = IF cmd = "send" THEN 0 ELSE mailbox
        /\ WireGood(wire')
    BY <2>1, <2>2, LaunchGood
  <2>4. DriverGood(drv')
    BY <2>2, <2>3 DEF DriverGood, SameMain
  <2> QED BY <1>1, <2>3, <2>4 DEF SameMain, SameNtp, IInv, PendingServed, Pending
<1>2. CASE ~drv.mac
  <2> DEFINE n == IF cmd = "ping" THEN count ELSE drv.count
  <2>1. drv' = [drv EXCEPT !.pending = cmd, !.count = n] /\ Transmit(Pkt("arp?"))
        /\ mailbox' = mailbox
    BY <1>2 DEF LaunchOrPostpone, Postpone
  <2>2. n \in Nat /\ n > 0
    BY DriverIsGood DEF DriverGood, DriverState
  <2> HIDE DEF n
  <2>3. WireGood(wire')
    BY <2>1, RequestsGood, TransmitGood
  <2>4. drv' \in DriverState
    BY <2>1, <2>2, DriverIsGood DEF DriverState, DriverGood
  <2>5. /\ drv'.mac = drv.mac /\ drv'.count = n /\ drv'.boot = drv.boot
        /\ drv'.t1 = drv.t1 /\ drv'.ntpOut = drv.ntpOut
        /\ drv'.seq = drv.seq /\ drv'.out = drv.out
    BY <2>1, DriverIsGood DEF DriverState, DriverGood
  <2>6. DriverGood(drv')
    BY <2>2, <2>4, <2>5, DriverIsGood DEF DriverGood
  <2> QED BY <1>2, <2>1, <2>3, <2>5, <2>6
<1> QED BY <1>1, <1>2

(* The shell's message is received: the shell waits from now on. *)
LEMMA CommandTaken ==
  ASSUME IInv, net_handle_command,
         DriverGood(drv'), WireGood(wire'), mailbox' \in {0, mailbox},
         drv'.mac = drv.mac, drv'.boot = drv.boot,
         drv'.mac => drv'.pending = "none",
         drv'.ntpOut => drv.ntpOut \/ (drv.mac /\ drv'.t1 = now + offset),
         drv'.ntpOut /\ drv.ntpOut => drv'.t1 = drv.t1 \/ drv'.t1 = now + offset,
         drv.mac => \/ mailbox' = 0
                    \/ shell.cmd = "resolve"
                    \/ shell.cmd = "ping" /\ drv'.out # 0
                    \/ shell.cmd = "ntp" /\ drv'.ntpOut
  PROVE  IInv'
<1> DEFINE b == drv.mac /\ ~drv.boot
<1>1. /\ shell.pc = "send" /\ shell' = [shell EXCEPT !.pc = "wait", !.direct = b]
      /\ UNCHANGED <<now, offset, addr, commands, signals, sync>>
  BY DEF net_handle_command, Taken
<1>2. b \in BOOLEAN /\ (b => drv.mac /\ ~drv.boot)
  BY DriverIsGood DEF DriverGood, DriverState
<1> HIDE DEF b
<1>3. shell \in [pc : {"boot", "prompt", "send", "wait"}, count : Nat, direct : BOOLEAN,
                 cmd : {"none", "ping", "send", "resolve", "ntp", "query"}]
  BY DEF IInv, TypeOK
<1>4. /\ shell' \in [pc : {"boot", "prompt", "send", "wait"}, count : Nat, direct : BOOLEAN,
                     cmd : {"none", "ping", "send", "resolve", "ntp", "query"}]
      /\ shell'.pc = "wait" /\ shell'.count = shell.count /\ shell'.cmd = shell.cmd
  BY <1>1, <1>2, <1>3
<1>5. shell'.direct = b
  BY <1>1, <1>3
<1>6. TypeOK'
  BY <1>1, <1>4 DEF IInv, TypeOK, DriverGood, WireGood
<1>7. Counted' /\ ReadyOnce' /\ PendingServed' /\ DirectKnown'
  BY <1>1, <1>2, <1>4, <1>5 DEF IInv, Counted, DriverGood, ReadyOnce, PendingServed, DirectKnown
<1>8. NoLostWake'
  BY <1>2, <1>4, <1>5 DEF NoLostWake, UnderWay
<1>9. TimesSound'
  <2>1. \A m \in wire' : PacketInPast(m)'
    BY <1>1 DEF WireGood, PacketInPast
  <2>2. now \in Nat /\ now + 0 = now
    BY DEF IInv, TypeOK
  <2> QED BY <1>1, <2>1, <2>2 DEF IInv, TimesSound
<1>10. FirstSyncRight'
  BY <1>1 DEF IInv, FirstSyncRight
<1> QED BY <1>6, <1>7, <1>8, <1>9, <1>10 DEF IInv

(* The driver takes a command from the mailbox. *)
LEMMA HandleCommandIInv ==
  ASSUME IInv, net_handle_command PROVE IInv'
<1>1. shell.count \in Nat \ {0}
  BY DEF net_handle_command, IInv, Counted, TypeOK
<1>2. CASE HandleSend
  <2>1. shell.cmd \in Pending /\ shell.cmd # "none" /\ LaunchOrPostpone(shell.cmd, shell.count)
        /\ shell.cmd # "ntp"
    BY <1>2 DEF HandleSend, Pending
  <2> QED BY <1>1, <2>1, LaunchOrPostponeGood, CommandTaken
<1>3. CASE HandleNtp /\ ~drv.ntpOut
  <2>1. shell.cmd = "ntp" /\ LaunchOrPostpone("ntp", 0)
    BY <1>3 DEF HandleNtp
  <2>2. LaunchOrPostpone("ntp", 1)
    BY <2>1 DEF LaunchOrPostpone, Launch, Postpone
  <2> QED BY <2>1, <2>2, LaunchOrPostponeGood, CommandTaken DEF Pending
<1>4. CASE mailbox' = 0 /\ UNCHANGED <<drv, wire>>
  BY <1>4, DriverIsGood, WireIsGood, CommandTaken DEF IInv, PendingServed
<1>5. HandleNtp /\ drv.ntpOut => mailbox' = 0 /\ UNCHANGED <<drv, wire>>
  BY DEF HandleNtp
<1>6. HandleQuery => mailbox' = 0 /\ UNCHANGED <<drv, wire>>
  BY DEF HandleQuery
<1> QED BY <1>2, <1>3, <1>4, <1>5, <1>6 DEF net_handle_command

-----------------------------------------------------------------------------
(* The clock, the network and the shell. *)

(* The invariant holds at the start. *)
LEMMA InitIInv == Init => IInv
<1> SUFFICES ASSUME Init PROVE IInv
  OBVIOUS
<1> USE DEF Init
<1>1. TypeOK
  BY NetAssumption DEF TypeOK, DriverState, Started, Pending, Packet, Pkt, Request, ShellAt
<1>2. Counted /\ ReadyOnce /\ PendingServed /\ DirectKnown /\ NoLostWake
  BY DEF Counted, ReadyOnce, PendingServed, DirectKnown, NoLostWake, Started, ShellAt
<1>3. TimesSound /\ FirstSyncRight
  BY DEF TimesSound, PacketInPast, FirstSyncRight, Started, Pkt
<1> QED BY <1>1, <1>2, <1>3 DEF IInv

(* Time passes. *)
LEMMA TickIInv ==
  ASSUME IInv, Tick PROVE IInv'
<1> USE DEF IInv, Tick
<1>1. TypeOK' /\ now' = now + 1 /\ now \in Nat
  BY DEF TypeOK
<1>2. Counted' /\ ReadyOnce' /\ PendingServed' /\ DirectKnown' /\ FirstSyncRight'
  BY DEF Counted, ReadyOnce, PendingServed, DirectKnown, FirstSyncRight
<1>3. NoLostWake'
  BY DEF NoLostWake, UnderWay
<1>4. TimesSound'
  <2>1. \A m \in wire : m.at \in Nat /\ m.n \in Nat
    BY DEF TypeOK, Packet
  <2>2. drv.t1 \in Int
    BY DEF TypeOK, DriverState
  <2> QED BY <1>1, <2>1, <2>2 DEF TimesSound, PacketInPast
<1> QED BY <1>1, <1>2, <1>3, <1>4

(* A step of the network alone. *)
LEMMA NetworkStep ==
  ASSUME IInv, WireGood(wire'),
         UNCHANGED <<now, offset, drv, mailbox, addr, shell, commands, signals, sync>>
  PROVE  IInv'
<1>1. TypeOK'
  BY DEF IInv, TypeOK, WireGood
<1>2. Counted' /\ ReadyOnce' /\ PendingServed' /\ DirectKnown' /\ FirstSyncRight'
  BY DEF IInv, Counted, ReadyOnce, PendingServed, DirectKnown, FirstSyncRight
<1>3. NoLostWake'
  BY DEF IInv, NoLostWake, UnderWay
<1>4. TimesSound'
  BY DEF IInv, TimesSound, WireGood, PacketInPast
<1> QED BY <1>1, <1>2, <1>3, <1>4 DEF IInv

(* An answer is well-formed and given now. *)
LEMMA AnswerGood ==
  ASSUME IInv, NEW m \in wire, NEW a \in Answers(m), m.kind \in Request
  PROVE  /\ a \in Packet /\ PacketInPast(a)
         /\ a.kind \in {"ping?", "pong"} => a.n \in 1 .. (SeqMod - 1)
<1>1. /\ m \in Packet /\ PacketInPast(m) /\ now \in Nat
      /\ m.kind \in {"ping?", "pong"} => m.n \in 1 .. (SeqMod - 1)
  BY DEF IInv, TypeOK, TimesSound
<1>2. CASE m.kind = "arp?" \/ m.kind = "dns?"
  <2>1. a = Pkt("arp") \/ a = Pkt("dns")
    BY <1>2 DEF Answers
  <2>2. \A k \in {"arp", "dns"} : Pkt(k) \in Packet /\ PacketInPast(Pkt(k)) /\ Pkt(k).kind = k
    BY DEF Pkt, Packet, Answer, PacketInPast
  <2> QED BY <2>1, <2>2
<1>3. CASE m.kind = "ping?"
  <2>1. a = [m EXCEPT !.kind = "pong"]
    BY <1>3 DEF Answers
  <2> QED BY <1>1, <1>3, <2>1 DEF Packet, Answer, PacketInPast
<1>4. CASE m.kind = "ntp?"
  <2>1. PICK b \in BOOLEAN : a = [m EXCEPT !.kind = "ntp", !.n = now, !.ok = b]
    BY <1>4 DEF Answers
  <2>2. a \in Packet
    BY <1>1, <2>1 DEF Packet, Answer
  <2>3. a.kind = "ntp" /\ a.n = now /\ a.at = m.at
    BY <1>1, <2>1 DEF Packet
  <2> QED BY <1>1, <1>4, <2>2, <2>3 DEF PacketInPast, Packet
<1> QED BY <1>2, <1>3, <1>4 DEF Request

(* A peer answers a packet, or the packet is lost. *)
LEMMA NetworkIInv ==
  ASSUME IInv, Network PROVE IInv'
<1>1. PICK m \in wire : Peer(m) \/ Lose(m)
  BY DEF Network
<1>2. CASE Peer(m)
  <2>1. PICK a \in Answers(m) : wire' = (wire \ {m}) \cup {a}
    BY <1>2 DEF Peer
  <2>2. m.kind \in Request
    BY <1>2 DEF Peer
  <2>3. WireGood(wire')
    BY <2>1, <2>2, AnswerGood, WireIsGood DEF WireGood
  <2> QED BY <1>2, <2>3, NetworkStep DEF Peer
<1>3. CASE Lose(m)
  BY <1>3, WireIsGood, NetworkStep DEF Lose, WireGood
<1> QED BY <1>1, <1>2, <1>3

(* A step of the shell that sends or returns to the prompt, and leaves the *)
(* driver alone.                                                           *)
LEMMA ShellStep ==
  ASSUME IInv, mailbox' \in {0, 1}, commands' \in 0 .. MaxCommands,
         UNCHANGED <<now, offset, drv, wire, addr, signals, sync>>,
         NEW pc \in {"prompt", "send"}, NEW n \in Nat, pc = "send" => n > 0,
         NEW c \in {"none", "ping", "send", "resolve", "ntp", "query"},
         shell' = [pc |-> pc, cmd |-> c, count |-> n, direct |-> FALSE]
  PROVE  IInv'
<1>1. TypeOK'
  BY DEF IInv, TypeOK
<1>2. Counted' /\ ReadyOnce' /\ PendingServed' /\ DirectKnown' /\ FirstSyncRight' /\ NoLostWake'
  BY DEF IInv, Counted, ReadyOnce, PendingServed, DirectKnown, FirstSyncRight, NoLostWake
<1>3. TimesSound'
  BY DEF IInv, TimesSound, PacketInPast
<1> QED BY <1>1, <1>2, <1>3 DEF IInv

(* What Send makes of the shell. *)
LEMMA SendEffect ==
  ASSUME NEW c, NEW n, Send(c, n)
  PROVE  mailbox' = 1 /\ shell' = [pc |-> "send", cmd |-> c, count |-> n, direct |-> FALSE]
  BY DEF Send

(* How the shell goes on after it has waited for the driver. *)
LEMMA GoesOnEffect ==
  ASSUME IInv, GoesOn, shell.pc = "wait"
  PROVE  /\ mailbox' \in {0, 1}
         /\ \E pc \in {"prompt", "send"}, n \in Nat, c \in {"none", "ping"} :
               /\ pc = "send" => n > 0
               /\ shell' = [pc |-> pc, cmd |-> c, count |-> n, direct |-> FALSE]
<1>1. shell.count \in Nat /\ shell.count > 0
  BY DEF IInv, TypeOK, Counted
<1>2. CASE Send("ping", shell.count)
  BY <1>1, <1>2, SendEffect
<1>3. CASE shell' = ShellAt("prompt") /\ mailbox' = 0
  BY <1>3 DEF ShellAt
<1> QED BY <1>2, <1>3 DEF GoesOn

(* The answer in the mailbox ends the wait of the shell. *)
LEMMA MailboxIInv ==
  ASSUME IInv, wait_for_net_mailbox PROVE IInv'
<1>1. shell.pc = "wait" /\ GoesOn
      /\ UNCHANGED <<now, offset, drv, wire, addr, commands, signals, sync>>
  BY DEF wait_for_net_mailbox
<1>2. commands' \in 0 .. MaxCommands
  BY <1>1 DEF IInv, TypeOK
<1> QED BY <1>1, <1>2, GoesOnEffect, ShellStep

(* The shell has got past its wait for the drivers. *)
LEMMA DriversReadyIInv ==
  ASSUME IInv, DriversReady PROVE IInv'
<1>1. shell' = [pc |-> "prompt", cmd |-> "none", count |-> 0, direct |-> FALSE]
      /\ UNCHANGED <<now, offset, drv, wire, mailbox, addr, commands, signals, sync>>
  BY DEF DriversReady, ShellAt
<1>2. commands' \in 0 .. MaxCommands /\ mailbox' \in {0, 1}
  BY <1>1 DEF IInv, TypeOK
<1> QED BY <1>1, <1>2, ShellStep

(* The shell writes a command into the mailbox. *)
LEMMA ShellCommandIInv ==
  ASSUME IInv, NEW c \in Typed, NEW n \in PingCounts, ShellCommand(c, n) PROVE IInv'
<1> DEFINE k == IF c = "name" THEN "resolve" ELSE c
<1>1. k \in {"none", "ping", "send", "resolve", "ntp", "query"} /\ n \in Nat /\ n > 0
  BY NetAssumption, TypedAssumption
<1>2. Send(k, n) /\ UNCHANGED <<now, offset, drv, wire, addr, signals, sync>>
  BY DEF ShellCommand
<1>3. commands' \in 0 .. MaxCommands
  BY NetAssumption DEF ShellCommand, IInv, TypeOK
<1> HIDE DEF k
<1> QED BY <1>1, <1>2, <1>3, SendEffect, ShellStep

(* A new instance of the driver. *)
LEMMA StartedGood ==
  ASSUME NEW t \in Nat
  PROVE  /\ DriverGood(Started(t))
         /\ ~Started(t).mac /\ ~Started(t).ntpOut /\ Started(t).boot
  BY NetAssumption DEF DriverGood, DriverState, Started, Pending

(* The shell gives up waiting for an answer. *)
LEMMA WaitTimesOutIInv ==
  ASSUME IInv, WaitTimesOut PROVE IInv'
<1>1. shell.pc = "wait" /\ GoesOn /\ drv' = Started(now) /\ Transmit(Pkt("arp?"))
      /\ signals' = 0 /\ UNCHANGED <<now, offset, addr, commands, sync>>
  BY DEF WaitTimesOut
<1>2. DriverGood(drv') /\ ~drv'.mac /\ ~drv'.ntpOut /\ drv'.boot
  BY <1>1, StartedGood DEF IInv, TypeOK
<1>3. WireGood(wire')
  BY <1>1, RequestsGood, TransmitGood
<1>4. mailbox' \in {0, 1}
  BY <1>1, GoesOnEffect
<1>5. PICK pc \in {"prompt", "send"}, n \in Nat, c \in {"none", "ping"} :
        /\ pc = "send" => n > 0
        /\ shell' = [pc |-> pc, cmd |-> c, count |-> n, direct |-> FALSE]
  BY <1>1, GoesOnEffect
<1>6. TypeOK'
  BY <1>1, <1>2, <1>3, <1>4, <1>5 DEF IInv, TypeOK, DriverGood, WireGood
<1>7. Counted' /\ ReadyOnce' /\ PendingServed' /\ DirectKnown' /\ FirstSyncRight' /\ NoLostWake'
  BY <1>1, <1>2, <1>5
  DEF IInv, Counted, DriverGood, ReadyOnce, PendingServed, DirectKnown, FirstSyncRight, NoLostWake
<1>8. TimesSound'
  BY <1>1, <1>2, <1>3 DEF IInv, TimesSound, WireGood, PacketInPast
<1> QED BY <1>6, <1>7, <1>8 DEF IInv

-----------------------------------------------------------------------------
(* Every step preserves the invariant. *)
LEMMA NextIInv == IInv /\ [Next]_vars => IInv'
<1> SUFFICES ASSUME IInv, [Next]_vars PROVE IInv'
  OBVIOUS
<1>1. CASE UNCHANGED vars
  <2>1. UNCHANGED <<now, offset, drv, mailbox, addr, shell, commands, signals, sync>> /\ wire' = wire
    BY <1>1 DEF vars
  <2> QED BY <2>1, WireIsGood, NetworkStep
<1>2. CASE net_poll
  BY <1>2, PollArpIInv, PollPongIInv, PollDnsIInv, PollNtpIInv DEF net_poll
<1>3. CASE Driver
  BY <1>2, <1>3, HandleCommandIInv, PingTimeoutIInv, PingSendIInv, ResyncIInv, BootTimeoutIInv
  DEF Driver
<1>4. CASE Shell
  BY <1>4, ShellCommandIInv, DriversReadyIInv, MailboxIInv, WaitTimesOutIInv DEF Shell
<1> QED BY <1>1, <1>3, <1>4, TickIInv, NetworkIInv DEF Next

(* The inductive invariant: the five invariants of NetDriver together with *)
(* what ties the mailbox, the shell's command and the driver's variables   *)
(* to each other hold in every state of the loop of net_driver.cpp.        *)
THEOREM Invariance == Spec => []IInv
<1>1. Spec => Init /\ [][Next]_vars
  BY DEF Spec
<1> QED BY <1>1, InitIInv, NextIInv, PTL

(* The driver's and the shell's state stay well-formed; in particular the  *)
(* number of pings left never goes below zero and no ping has number 0,    *)
(* however often the 16-bit counter of net_send_ping() wraps.              *)
THEOREM TypeCorrect == Spec => []TypeOK
<1>1. IInv => TypeOK
  BY DEF IInv
<1> QED BY <1>1, Invariance, PTL

(* Each instance of the driver calls signal_net_driver_ready() exactly     *)
(* once, whatever packets are lost, late or duplicated.                    *)
THEOREM ReadyReportedOnce == Spec => []ReadyOnce
<1>1. IInv => ReadyOnce
  BY DEF IInv
<1> QED BY <1>1, Invariance, PTL

(* With the router known no command waits for ARP, and an NTP answer is    *)
(* awaited only by a driver that could send the request.                   *)
THEOREM NothingLeftBehind == Spec => []PendingServed
<1>1. IInv => PendingServed
  BY DEF IInv
<1> QED BY <1>1, Invariance, PTL

(* The mailbox the shell polls in wait_for_net_mailbox() is locked only    *)
(* while the driver works on the command.                                  *)
THEOREM ShellIsWoken == Spec => []NoLostWake
<1>1. IInv => NoLostWake
  BY DEF IInv
<1> QED BY <1>1, Invariance, PTL

(* For every skew of the PL031 and every delay of the packets, the first   *)
(* SYS_SET_TIME_OFFSET sets the clock right up to half of the round trip.  *)
THEOREM FirstSynchronisation == Spec => []FirstSyncRight
<1>1. IInv => FirstSyncRight
  BY DEF IInv
<1> QED BY <1>1, Invariance, PTL
=============================================================================
