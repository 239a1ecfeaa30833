-------------------------- MODULE Responder_proofs --------------------------
(***************************************************************************)
(* The types of Responder; that an answer is as long as it says, whatever  *)
(* the lengths of the frame it answers; and that a client of the chargen   *)
(* service gets what it asked for, and no more than it asked for.  The     *)
(* proofs go through one inductive invariant, RInv.                        *)
(***************************************************************************)
EXTENDS Responder, Headers_proofs, FiniteSetTheorems

(***************************************************************************)
(* Frames, by the fields they have.                                        *)
(***************************************************************************)
\* Which fields a frame has, by the headers it has.
HasLink(f) == {"dhost", "shost", "plain", "ether_type", "size"} \subseteq DOMAIN f
HasArp(f) == {"ar_op", "arp_sha", "arp_spa", "arp_tha", "arp_tpa"} \subseteq DOMAIN f
HasIp(f) == {"ip_dst", "ip_src", "ip_len", "ip_ttl", "ip_p"} \subseteq DOMAIN f
HasUdp(f) == {"uh_dport", "uh_sport", "uh_ulen", "data"} \subseteq DOMAIN f

ArpFrame(f) == HasArp(f) /\ f.ether_type = "ARP"

IpFrame(f) == HasIp(f) /\ f.ether_type = "IP" /\ f.ip_len \in Nat

IcmpFrame(f) == IpFrame(f) /\ f.ip_p = "ICMP" /\ "icmp_type" \in DOMAIN f

UdpFrame(f) == IpFrame(f) /\ f.ip_p = "UDP" /\ HasUdp(f) /\ f.uh_ulen \in Nat

Formed(f) ==
  /\ HasLink(f) /\ f.shost \in Stations /\ f.size \in Nat
  /\ ArpFrame(f) \/ IcmpFrame(f) \/ UdpFrame(f)

\* What the code's sizeofs and the lengths derived from them are.
LEMMA Sizes ==
  /\ sizeof_ether_header = 14 /\ sizeof_ip = 20 /\ sizeof_udphdr = 8
  /\ sizeof_ether_arp = 28 /\ ETHERMTU = 1500 /\ ETHERMTU_UDP = 1472
  /\ ETHER_MAX_LEN - ETHER_CRC_LEN = 1514
<1>1. /\ sizeof_ether_header = 14 /\ sizeof_ip = 20 /\ sizeof_udphdr = 8
      /\ sizeof_ether_arp = 28
  BY EtherHeaderLayout, IpLayout, UdphdrLayout, EtherArpLayout
     DEF sizeof_ether_header, sizeof_ip, sizeof_udphdr, sizeof_ether_arp
<1>2. ETHERMTU = 1500
  BY EtherHeaderLayout DEF ETHERMTU, ETHER_MAX_LEN, ETHER_CRC_LEN
<1> QED BY <1>1, <1>2 DEF ETHERMTU_UDP, ETHER_MAX_LEN, ETHER_CRC_LEN

(***************************************************************************)
(* The answers, field by field.                                            *)
(***************************************************************************)
\* Turned changes the link addresses and the size.
LEMMA TurnedFields ==
  ASSUME NEW f, NEW d, NEW n, HasLink(f), NEW t, t = Turned(d, f, n)
  PROVE  /\ DOMAIN t = DOMAIN f
         /\ t.dhost = f.shost /\ t.shost = d /\ t.size = sizeof_ether_header + n
         /\ \A x \in DOMAIN f \ {"dhost", "shost", "size"} : t[x] = f[x]
  BY DEF Turned, HasLink

\* Enqueued changes the size, which it keeps to 13 bits.
LEMMA EnqueuedFields ==
  ASSUME NEW f, HasLink(f), NEW t, t = Enqueued(f)
  PROVE  /\ DOMAIN t = DOMAIN f
         /\ t.size = f.size % 8192
         /\ \A x \in DOMAIN f \ {"size"} : t[x] = f[x]
<1>1. ETH_DMATxDesc_TBS1 + 1 = 8192
  BY DEF ETH_DMATxDesc_TBS1
<1> QED BY <1>1 DEF Enqueued, HasLink

\* An echo takes its length from its request.
LEMMA EchoFields ==
  ASSUME NEW f, NEW d, HasLink(f), IcmpFrame(f),
         NEW r, r = Enqueued(EchoReply(d, f))
  PROVE  /\ DOMAIN r = DOMAIN f
         /\ r.dhost = f.shost /\ r.shost = d
         /\ r.ether_type = f.ether_type /\ r.ip_p = f.ip_p /\ r.ip_len = f.ip_len
         /\ r.size = (sizeof_ether_header + f.ip_len) % 8192
<1> DEFINE t == Turned(d, f, f.ip_len)
           a == EchoReply(d, f)
<1>1. /\ DOMAIN t = DOMAIN f
      /\ t.dhost = f.shost /\ t.shost = d
      /\ t.size = sizeof_ether_header + f.ip_len
      /\ \A x \in DOMAIN f \ {"dhost", "shost", "size"} : t[x] = f[x]
  BY TurnedFields
<1>2. a = [t EXCEPT !.icmp_type = "ECHOREPLY", !.ip_ttl = IPDEFTTL,
                    !.ip_dst = f.ip_src, !.ip_src = kIPv4Net]
  BY DEF EchoReply
<1> HIDE DEF t, a
<1>3. /\ DOMAIN a = DOMAIN f
      /\ \A x \in DOMAIN f \ {"icmp_type", "ip_ttl", "ip_dst", "ip_src"} : a[x] = t[x]
  BY <1>1, <1>2
<1>4. /\ DOMAIN r = DOMAIN a /\ r.size = a.size % 8192
      /\ \A x \in DOMAIN a \ {"size"} : r[x] = a[x]
  BY <1>3, EnqueuedFields DEF a, HasLink
<1> QED BY <1>1, <1>3, <1>4 DEF HasLink, HasIp, IcmpFrame, IpFrame

\* A chargen answer has lengths of its own.
LEMMA ChargenFields ==
  ASSUME NEW f, NEW d, HasLink(f), UdpFrame(f),
         NEW r, r = Enqueued(ChargenReply(d, f))
  PROVE  /\ DOMAIN r = DOMAIN f
         /\ r.dhost = f.shost /\ r.shost = d
         /\ r.ether_type = f.ether_type /\ r.ip_p = f.ip_p
         /\ r.ip_dst = f.ip_src /\ r.ip_src = kIPv4Net
         /\ r.uh_dport = f.uh_sport /\ r.uh_sport = SVC_CHARGEN
         /\ r.ip_len = ETHERMTU /\ r.uh_ulen = ETHERMTU - sizeof_ip
         /\ r.size = (sizeof_ether_header + ETHERMTU) % 8192
         /\ r.data = IF f.data \in Kinds THEN Random(f.data) ELSE f.data
<1> DEFINE t == Turned(d, f, ETHERMTU)
           a == ChargenReply(d, f)
           n == ETHERMTU - sizeof_ip
           Written == {"ip_ttl", "ip_len", "uh_ulen", "ip_dst", "ip_src",
                       "uh_dport", "uh_sport", "data"}
<1>1. /\ DOMAIN t = DOMAIN f
      /\ t.dhost = f.shost /\ t.shost = d
      /\ t.size = sizeof_ether_header + ETHERMTU
      /\ \A x \in DOMAIN f \ {"dhost", "shost", "size"} : t[x] = f[x]
  BY TurnedFields
<1>2. a = [t EXCEPT !.ip_ttl = 1, !.ip_len = ETHERMTU, !.uh_ulen = n,
                    !.ip_dst = f.ip_src, !.ip_src = kIPv4Net,
                    !.uh_dport = f.uh_sport, !.uh_sport = SVC_CHARGEN,
                    !.data = IF @ \in Kinds THEN Random(@) ELSE @]
  BY DEF ChargenReply
<1>3. Written \subseteq DOMAIN f
  BY DEF UdpFrame, IpFrame, HasIp, HasUdp
<1> HIDE DEF t, a, n
<1>4. /\ DOMAIN a = DOMAIN f
      /\ \A x \in DOMAIN f \ Written : a[x] = t[x]
  BY <1>1, <1>2
<1>5. /\ a.ip_len = ETHERMTU /\ a.uh_ulen = n
      /\ a.ip_dst = f.ip_src /\ a.ip_src = kIPv4Net
  BY <1>1, <1>2, <1>3
<1>6. /\ a.uh_dport = f.uh_sport /\ a.uh_sport = SVC_CHARGEN
      /\ a.data = IF t.data \in Kinds THEN Random(t.data) ELSE t.data
  BY <1>1, <1>2, <1>3
<1>7. t.data = f.data
  BY <1>1, <1>3
<1>8. /\ DOMAIN r = DOMAIN a /\ r.size = a.size % 8192
      /\ \A x \in DOMAIN a \ {"size"} : r[x] = a[x]
  BY <1>4, EnqueuedFields DEF a, HasLink
<1> QED BY <1>1, <1>3, <1>4, <1>5, <1>6, <1>7, <1>8
       DEF HasLink, HasIp, UdpFrame, IpFrame, n

\* An ARP answer names the board that gives it.
LEMMA ArpFields ==
  ASSUME NEW f, NEW d, HasLink(f), ArpFrame(f),
         NEW r, r = Enqueued(ArpReply(d, f))
  PROVE  /\ DOMAIN r = DOMAIN f
         /\ r.dhost = f.shost /\ r.shost = d
         /\ r.ether_type = f.ether_type /\ r.arp_sha = d
         /\ r.size = (sizeof_ether_header + sizeof_ether_arp) % 8192
<1> DEFINE t == Turned(d, f, sizeof_ether_arp)
           a == ArpReply(d, f)
           Written == {"ar_op", "arp_tha", "arp_tpa", "arp_sha", "arp_spa"}
<1>1. /\ DOMAIN t = DOMAIN f
      /\ t.dhost = f.shost /\ t.shost = d
      /\ t.size = sizeof_ether_header + sizeof_ether_arp
      /\ \A x \in DOMAIN f \ {"dhost", "shost", "size"} : t[x] = f[x]
  BY TurnedFields
<1>2. a = [t EXCEPT !.ar_op = "REPLY", !.arp_tha = f.arp_sha, !.arp_tpa = f.arp_spa,
                    !.arp_sha = d, !.arp_spa = kIPv4Net]
  BY DEF ArpReply
<1>3. Written \subseteq DOMAIN f
  BY DEF ArpFrame, HasArp
<1> HIDE DEF t, a
<1>4. /\ DOMAIN a = DOMAIN f /\ a.arp_sha = d
      /\ \A x \in DOMAIN f \ Written : a[x] = t[x]
  BY <1>1, <1>2, <1>3
<1>5. /\ DOMAIN r = DOMAIN a /\ r.size = a.size % 8192
      /\ \A x \in DOMAIN a \ {"size"} : r[x] = a[x]
  BY <1>4, EnqueuedFields DEF a, HasLink
<1> QED BY <1>1, <1>3, <1>4, <1>5 DEF HasLink

\* What is answered to a frame is a frame.
LEMMA AnswersFormed ==
  ASSUME NEW f, NEW d \in Stations, Formed(f), NEW a \in PacketRxInterrupt(d, f)
  PROVE  Formed(Enqueued(a))
<1> DEFINE r == Enqueued(a)
<1>1. CASE IsEcho(f) /\ a = EchoReply(d, f)
  <2>1. IcmpFrame(f) /\ HasLink(f)
    BY <1>1 DEF Formed, IsEcho, IsMine, ArpFrame, UdpFrame, IpFrame
  <2>2. /\ DOMAIN r = DOMAIN f
        /\ r.shost = d
        /\ r.ether_type = f.ether_type /\ r.ip_p = f.ip_p /\ r.ip_len = f.ip_len
        /\ r.size = (sizeof_ether_header + f.ip_len) % 8192
    BY <1>1, <2>1, EchoFields
  <2>3. r.size \in Nat
    BY <2>1, <2>2, Sizes DEF IcmpFrame, IpFrame
  <2> HIDE DEF r
  <2> QED BY <2>1, <2>2, <2>3 DEF Formed, IcmpFrame, IpFrame, HasLink, HasIp, r
<1>2. CASE IsChargen(f) /\ a = ChargenReply(d, f)
  <2>1. UdpFrame(f) /\ HasLink(f)
    BY <1>2 DEF Formed, IsChargen, IsMine, ArpFrame, IcmpFrame, IpFrame
  <2>2. /\ DOMAIN r = DOMAIN f
        /\ r.shost = d
        /\ r.ether_type = f.ether_type /\ r.ip_p = f.ip_p
        /\ r.ip_len = ETHERMTU /\ r.uh_ulen = ETHERMTU - sizeof_ip
        /\ r.size = (sizeof_ether_header + ETHERMTU) % 8192
    BY <1>2, <2>1, ChargenFields
  <2> HIDE DEF r
  <2> QED BY <2>1, <2>2, Sizes DEF Formed, UdpFrame, IpFrame, HasLink, HasIp, HasUdp, r
<1>3. CASE IsArpRequest(f) /\ a = ArpReply(d, f)
  <2>1. ArpFrame(f) /\ HasLink(f)
    BY <1>3 DEF Formed, IsArpRequest, UdpFrame, IcmpFrame, IpFrame
  <2>2. /\ DOMAIN r = DOMAIN f
        /\ r.shost = d
        /\ r.ether_type = f.ether_type
        /\ r.size = (sizeof_ether_header + sizeof_ether_arp) % 8192
    BY <1>3, <2>1, ArpFields
  <2> HIDE DEF r
  <2> QED BY <2>1, <2>2, Sizes DEF Formed, ArpFrame, HasLink, HasArp, r
<1> QED BY <1>1, <1>2, <1>3 DEF PacketRxInterrupt

\* An answer is exact, but for an echo of a frame that is not whole.
LEMMA AnswersExact ==
  ASSUME NEW f, NEW d \in Stations, Formed(f), NEW a \in PacketRxInterrupt(d, f),
         NEW r, r = Enqueued(a)
  PROVE  /\ Exact(r) \/ (IsEcho(f) /\ ~Whole(f))
         /\ IsEcho(f) /\ Whole(f) => r.size <= f.size
<1>1. CASE IsEcho(f) /\ a = EchoReply(d, f)
  <2>1. IcmpFrame(f) /\ HasLink(f)
    BY <1>1 DEF Formed, IsEcho, IsMine, ArpFrame, UdpFrame, IpFrame
  <2>2. /\ r.ether_type = f.ether_type /\ r.ip_p = f.ip_p /\ r.ip_len = f.ip_len
        /\ r.size = (sizeof_ether_header + f.ip_len) % 8192
    BY <1>1, <2>1, EchoFields
  <2> SUFFICES ASSUME Whole(f)
               PROVE  Exact(r) /\ r.size <= f.size
    BY <1>1
  <2>3. /\ f.ip_len \in Nat /\ f.size \in Nat /\ f.ether_type = "IP" /\ f.ip_p = "ICMP"
        /\ f.ip_len >= 20 /\ f.size >= 14 + f.ip_len /\ f.size <= 1514
    BY <2>1, Sizes DEF Whole, Formed, IcmpFrame, IpFrame
  <2>4. r.size = 14 + f.ip_len
    BY <2>2, <2>3, Sizes
  <2> QED BY <2>2, <2>3, <2>4, Sizes DEF Exact, Whole
<1>2. CASE IsChargen(f) /\ a = ChargenReply(d, f)
  <2>1. UdpFrame(f) /\ HasLink(f)
    BY <1>2 DEF Formed, IsChargen, IsMine, ArpFrame, IcmpFrame, IpFrame
  <2>2. /\ r.ether_type = f.ether_type /\ r.ip_p = f.ip_p
        /\ r.ip_len = ETHERMTU /\ r.uh_ulen = ETHERMTU - sizeof_ip
        /\ r.size = (sizeof_ether_header + ETHERMTU) % 8192
    BY <1>2, <2>1, ChargenFields
  <2>3. ~IsEcho(f) /\ f.ether_type = "IP" /\ f.ip_p = "UDP"
    BY <1>2 DEF IsEcho, IsChargen, IsMine
  <2> QED BY <2>2, <2>3, Sizes DEF Exact, Whole
<1>3. CASE IsArpRequest(f) /\ a = ArpReply(d, f)
  <2>1. ArpFrame(f) /\ HasLink(f)
    BY <1>3 DEF Formed, IsArpRequest, UdpFrame, IcmpFrame, IpFrame
  <2>2. /\ r.ether_type = f.ether_type
        /\ r.size = (sizeof_ether_header + sizeof_ether_arp) % 8192
    BY <1>3, <2>1, ArpFields
  <2>3. ~IsEcho(f) /\ f.ether_type = "ARP"
    BY <2>1 DEF IsEcho, IsMine, ArpFrame
  <2> QED BY <2>2, <2>3, Sizes DEF Exact, Whole
<1> QED BY <1>1, <1>2, <1>3 DEF PacketRxInterrupt

(***************************************************************************)
(* The frames that are not answers.                                        *)
(***************************************************************************)
\* f has the fields of a and those of b, and no others.
Joins(f, a, b) ==
  /\ DOMAIN f = DOMAIN a \cup DOMAIN b
  /\ \A x \in DOMAIN a : f[x] = a[x]
  /\ \A x \in DOMAIN b \ DOMAIN a : f[x] = b[x]

\* A record of two halves has the fields of either.
LEMMA BothFields ==
  ASSUME NEW s, NEW t, NEW f \in Both(s, t)
  PROVE  \E a \in s, b \in t : Joins(f, a, b)
<1>1. PICK a \in s, b \in t :
        f = [x \in DOMAIN a \cup DOMAIN b |-> IF x \in DOMAIN a THEN a[x] ELSE b[x]]
  BY DEF Both
<1>2. Joins(f, a, b)
  BY <1>1 DEF Joins
<1> QED BY <1>2

\* The lengths of a frame from anywhere are numbers.
LEMMA LengthsAreNumbers ==
  ASSUME NEW k \in Lengths
  PROVE  k.size \in Nat /\ k.ip_len \in Nat /\ k.uh_ulen \in Nat
<1>1. k.size \in FrameSize /\ k.ip_len \in HalfWord /\ k.uh_ulen \in HalfWord
  BY LengthsAssumption
<1>2. \A j \in HalfWord : j \in Nat
  BY SMT DEF HalfWord
<1>3. \A j \in FrameSize : j \in Nat
  <2> DEFINE last == ETHER_MAX_LEN - ETHER_CRC_LEN
  <2> HIDE DEF last
  <2>1. \A j \in 14 .. last : j \in Nat
    BY SMT
  <2>2. FrameSize = 14 .. last
    BY Sizes DEF FrameSize, last
  <2> QED BY <2>1, <2>2
<1> QED BY <1>1, <1>2, <1>3

\* The frames of Anything have their fields, and lengths.
LEMMA AnythingFormed ==
  ASSUME NEW f \in Both(Link, ArpBodies \cup IpBodies)
  PROVE  Formed(f)
<1>a. PICK l \in Link, b \in ArpBodies \cup IpBodies : Joins(f, l, b)
  BY BothFields
<1>1. /\ DOMAIN f = DOMAIN l \cup DOMAIN b
      /\ \A x \in DOMAIN l : f[x] = l[x]
      /\ \A x \in DOMAIN b \ DOMAIN l : f[x] = b[x]
  BY <1>a DEF Joins
<1>2. DOMAIN l = {"dhost", "shost", "plain"} /\ l.shost \in Stations
  BY DEF Link
<1>3. f.shost \in Stations
  BY <1>1, <1>2
<1>4. \A k \in Lengths : k.size \in Nat /\ k.ip_len \in Nat /\ k.uh_ulen \in Nat
  BY LengthsAreNumbers
<1>5. CASE b \in ArpBodies
  <2>1. /\ DOMAIN b = {"ether_type", "size", "ar_op", "arp_sha", "arp_spa", "arp_tha",
                       "arp_tpa"}
        /\ b.ether_type = "ARP" /\ b.size \in {k.size : k \in Lengths}
    BY <1>5 DEF ArpBodies
  <2>2. HasLink(f) /\ HasArp(f)
    BY <1>1, <1>2, <2>1 DEF HasLink, HasArp
  <2>3. f.ether_type = "ARP" /\ f.size \in Nat
    BY <1>1, <1>2, <1>4, <2>1
  <2> QED BY <1>3, <2>2, <2>3 DEF Formed, ArpFrame
<1>6. CASE b \in IpBodies
  <2> DEFINE IpDomain == {"ether_type", "size", "ip_len", "ip_dst", "ip_src", "ip_ttl",
                          "ip_id"}
  <2>1. PICK k \in Lengths : b \in Both(IpHeader(k), IpRest(k))
    BY <1>6 DEF IpBodies
  <2>a. PICK c \in IpHeader(k), e \in IpRest(k) : Joins(b, c, e)
    BY <2>1, BothFields
  <2>2. /\ DOMAIN b = DOMAIN c \cup DOMAIN e
        /\ \A x \in DOMAIN c : b[x] = c[x]
        /\ \A x \in DOMAIN e \ DOMAIN c : b[x] = e[x]
    BY <2>a DEF Joins
  <2>3. /\ DOMAIN c = IpDomain
        /\ c.ether_type = "IP" /\ c.ip_len = k.ip_len /\ c.size = k.size
    BY DEF IpHeader
  <2>4. \/ DOMAIN e = {"ip_p", "icmp_type"} /\ e.ip_p = "ICMP"
        \/ /\ DOMAIN e = {"ip_p", "uh_dport", "uh_sport", "uh_ulen", "data"}
           /\ e.ip_p = "UDP" /\ e.uh_ulen = k.uh_ulen
    BY DEF IpRest, IcmpBody, UdpBody
  <2>5. IpDomain \cap DOMAIN l = {} /\ IpDomain \cap DOMAIN e = {}
    BY <1>2, <2>4
  <2>6. /\ f.ether_type = "IP" /\ f.ip_len = k.ip_len /\ f.size = k.size
        /\ HasLink(f) /\ HasIp(f) /\ f.ip_p = e.ip_p
    BY <1>1, <1>2, <2>2, <2>3, <2>4, <2>5 DEF HasLink, HasIp
  <2>7. CASE DOMAIN e = {"ip_p", "icmp_type"} /\ e.ip_p = "ICMP"
    <3>1. "icmp_type" \in DOMAIN f
      BY <1>1, <2>2, <2>7
    <3> QED BY <1>3, <1>4, <2>6, <2>7, <3>1 DEF Formed, IcmpFrame, IpFrame
  <2>8. CASE /\ DOMAIN e = {"ip_p", "uh_dport", "uh_sport", "uh_ulen", "data"}
             /\ e.ip_p = "UDP" /\ e.uh_ulen = k.uh_ulen
    <3>1. HasUdp(f) /\ f.uh_ulen = k.uh_ulen
      BY <1>1, <1>2, <2>2, <2>3, <2>8 DEF HasUdp
    <3> QED BY <1>3, <1>4, <2>6, <2>8, <3>1 DEF Formed, UdpFrame, IpFrame
  <2> QED BY <2>4, <2>7, <2>8
<1> QED BY <1>1, <1>5, <1>6

\* The copies of a frame, and that a frame to one station has at most one.
LEMMA CopiesAre ==
  ASSUME NEW f, NEW x \in Copies(f)
  PROVE  /\ x = <<x[1], f>> /\ x[2] = f
         /\ x[1] \in boards \cup Hosts
         /\ f.dhost # Broadcast => x[1] = f.dhost
  BY DEF Copies

(***************************************************************************)
(* The invariant.  When clients run, the only datagrams are theirs, on the *)
(* way to a board, and the answers to them, on the way back; each is       *)
(* counted in the `due` of its client, and only of that client.            *)
(***************************************************************************)
\* A datagram of the client of h.
Query(h, f) ==
  /\ f.plain /\ f.shost = h
  /\ f.ip_dst = kIPv4Net /\ f.ip_src = h /\ f.ip_ttl = MAXTTL /\ f.ip_p = "UDP"
  /\ f.uh_dport = SVC_CHARGEN /\ f.uh_sport = ClientPort
  /\ f.uh_ulen = sizeof_udphdr + 1 /\ f.data = kind[h]

\* A datagram of the service, for the client of h.
AnswerTo(h, f) ==
  /\ f.shost \in boards
  /\ f.ip_dst = h /\ f.ip_src = kIPv4Net /\ f.ip_p = "UDP"
  /\ f.uh_dport = ClientPort /\ f.uh_sport = SVC_CHARGEN
  /\ f.uh_ulen = ETHERMTU - sizeof_ip /\ f.data = Random(kind[h])

StateInv ==
  /\ boards \subseteq Devices
  /\ kind \in [Hosts -> Kinds] \cup {[h \in Hosts |-> NoEntry]}
  /\ lost \in 0 .. Losses
  /\ arp \in [Hosts -> boards \cup {NoEntry}]
  /\ \A h \in Hosts : kind[h] = NoEntry => arp[h] = NoEntry
  /\ due \in [Hosts -> 0 .. Pipe] /\ sock \in [Hosts -> 0 .. Pipe]

WireInv == \A x \in wire : x[1] \in boards \cup Hosts /\ Formed(x[2])

\* What an element of the wire is when clients run.
Known(x) ==
  /\ x[2].ether_type = "ARP" => (x[2].ar_op = "REPLY" => x[2].arp_sha \in boards)
  /\ x[2].ether_type = "IP" =>
       \E h \in Hosts : \/ x[1] \in boards /\ Query(h, x[2])
                        \/ x[1] = h /\ AnswerTo(h, x[2])

KnownInv == ~Quiet => \A x \in wire : Known(x)

CountInv ==
  \A h \in Hosts : kind[h] # NoEntry =>
    /\ IsFiniteSet(UnderWay(h))
    /\ Cardinality(UnderWay(h)) + sock[h] <= due[h]

RInv == StateInv /\ WireInv /\ KnownInv /\ CountInv

\* Either no client runs, or one on every host.
LEMMA ClientsRun ==
  ASSUME StateInv, ~Quiet
  PROVE  kind \in [Hosts -> Kinds] /\ \A h \in Hosts : kind[h] # NoEntry
  BY ResponderAssumption DEF StateInv, Quiet, NoEntry

\* A client's datagram is answered, and to that client.
LEMMA QueryAnswered ==
  ASSUME StateInv, NEW h \in Hosts, NEW d \in boards, NEW f, Formed(f),
         f.ether_type = "IP", Query(h, f), kind[h] \in Kinds,
         NEW r, r = Enqueued(ChargenReply(d, f))
  PROVE  /\ PacketRxInterrupt(d, f) = {ChargenReply(d, f)}
         /\ Copies(r) = {<<h, r>>}
         /\ r.ether_type = "IP" /\ AnswerTo(h, r)
<1>1. UdpFrame(f) /\ HasLink(f)
  BY DEF Formed, Query, ArpFrame, IcmpFrame
<1>2. IsChargen(f) /\ ~IsEcho(f) /\ ~IsArpRequest(f)
  BY Sizes DEF Query, IsChargen, IsMine, IsEcho, IsArpRequest
<1>3. PacketRxInterrupt(d, f) = {ChargenReply(d, f)}
  BY <1>2 DEF PacketRxInterrupt
<1>4. /\ r.dhost = f.shost /\ r.shost = d
      /\ r.ether_type = f.ether_type /\ r.ip_p = f.ip_p
      /\ r.ip_dst = f.ip_src /\ r.ip_src = kIPv4Net
      /\ r.uh_dport = f.uh_sport /\ r.uh_sport = SVC_CHARGEN
      /\ r.uh_ulen = ETHERMTU - sizeof_ip
      /\ r.data = IF f.data \in Kinds THEN Random(f.data) ELSE f.data
  BY <1>1, ChargenFields
<1>5. h # Broadcast /\ h # d
  BY AddressAssumption DEF StateInv
<1>6. Copies(r) = {<<h, r>>}
  BY <1>4, <1>5 DEF Copies, Query
<1>7. r.ether_type = "IP" /\ AnswerTo(h, r)
  BY <1>4 DEF AnswerTo, Query
<1> QED BY <1>3, <1>6, <1>7

\* What a board answers when clients run.
LEMMA BoardAnswers ==
  ASSUME RInv, ~Quiet, NEW x \in wire, NEW d \in boards, x = <<d, x[2]>>,
         NEW a \in PacketRxInterrupt(d, x[2]), NEW y \in Copies(Enqueued(a))
  PROVE  /\ Known(y)
         /\ y[2].ether_type = x[2].ether_type
         /\ y[2].ether_type = "IP" =>
              \E h \in Hosts : Query(h, x[2]) /\ y[1] = h /\ y[2].shost = d
<1> DEFINE f == x[2]
           r == Enqueued(a)
<1>1. Formed(f) /\ Known(x) /\ x[1] = d
  BY DEF RInv, WireInv, KnownInv
<1>2. y[2] = r
  BY CopiesAre
<1>3. CASE f.ether_type = "ARP"
  <2>1. ArpFrame(f) /\ HasLink(f)
    BY <1>1, <1>3 DEF Formed, IcmpFrame, UdpFrame, IpFrame
  <2>2. a = ArpReply(d, f)
    BY <1>3 DEF PacketRxInterrupt, IsEcho, IsChargen, IsMine
  <2>3. r.ether_type = f.ether_type /\ r.arp_sha = d
    BY <2>1, <2>2, ArpFields
  <2> HIDE DEF f, r
  <2> QED BY <2>3, <1>2, <1>3 DEF Known, f
<1>4. CASE f.ether_type = "IP"
  <2>1. PICK h \in Hosts : Query(h, f)
    BY <1>1, <1>4, AddressAssumption DEF Known, RInv, StateInv
  <2>2. StateInv /\ kind[h] \in Kinds
    BY ClientsRun DEF RInv
  <2>3. a = ChargenReply(d, f) /\ Copies(r) = {<<h, r>>}
        /\ r.ether_type = "IP" /\ AnswerTo(h, r)
    BY <1>1, <1>4, <2>1, <2>2, QueryAnswered
  <2>4. UdpFrame(f) /\ HasLink(f)
    BY <1>1, <1>4, <2>1 DEF Formed, Query, ArpFrame, IcmpFrame
  <2>5. r.shost = d
    BY <2>3, <2>4, ChargenFields
  <2> HIDE DEF f, r
  <2> QED BY <2>1, <2>3, <2>5, <1>2, <1>4 DEF Known, f, r
<1> QED BY <1>1, <1>3, <1>4 DEF Formed, ArpFrame, IcmpFrame, UdpFrame, IpFrame

(***************************************************************************)
(* Counting datagrams.                                                     *)
(***************************************************************************)
\* A part of a finite set has no more elements than it.
LEMMA FewerOrSame ==
  ASSUME NEW S, IsFiniteSet(S), NEW T, T \subseteq S
  PROVE  /\ IsFiniteSet(T)
         /\ Cardinality(T) \in Nat /\ Cardinality(S) \in Nat
         /\ Cardinality(T) <= Cardinality(S)
  BY FS_Subset, FS_CardinalityType

\* Nor has one that lacks an element, plus one.
LEMMA OneLess ==
  ASSUME NEW S, IsFiniteSet(S), NEW a \in S, NEW T, T \subseteq S \ {a}
  PROVE  /\ IsFiniteSet(T)
         /\ Cardinality(T) \in Nat /\ Cardinality(S) \in Nat
         /\ Cardinality(T) + 1 <= Cardinality(S)
<1>1. /\ IsFiniteSet(S \ {a}) /\ Cardinality(S \ {a}) = Cardinality(S) - 1
      /\ Cardinality(S) \in Nat
  BY FS_RemoveElement, FS_CardinalityType
<1>2. /\ IsFiniteSet(T) /\ Cardinality(T) \in Nat
      /\ Cardinality(T) <= Cardinality(S \ {a})
  BY <1>1, FewerOrSame
<1> QED BY <1>1, <1>2

\* One element more adds one at most.
LEMMA OneMore ==
  ASSUME NEW S, IsFiniteSet(S), NEW b, NEW T, T \subseteq S \cup {b}
  PROVE  /\ IsFiniteSet(T)
         /\ Cardinality(T) \in Nat /\ Cardinality(S) \in Nat
         /\ Cardinality(T) <= Cardinality(S) + 1
<1>1. /\ IsFiniteSet(S \cup {b}) /\ Cardinality(S \cup {b}) <= Cardinality(S) + 1
      /\ Cardinality(S) \in Nat /\ Cardinality(S \cup {b}) \in Nat
  BY FS_AddElement, FS_CardinalityType
<1>2. /\ IsFiniteSet(T) /\ Cardinality(T) \in Nat
      /\ Cardinality(T) <= Cardinality(S \cup {b})
  BY <1>1, FewerOrSame
<1> QED BY <1>1, <1>2

\* One in the place of another adds none.
LEMMA Exchanged ==
  ASSUME NEW S, IsFiniteSet(S), NEW a \in S, NEW b, NEW T, T \subseteq (S \ {a}) \cup {b}
  PROVE  /\ IsFiniteSet(T)
         /\ Cardinality(T) \in Nat /\ Cardinality(S) \in Nat
         /\ Cardinality(T) <= Cardinality(S)
<1>1. /\ IsFiniteSet(S \ {a}) /\ Cardinality(S \ {a}) + 1 <= Cardinality(S)
      /\ Cardinality(S) \in Nat /\ Cardinality(S \ {a}) \in Nat
  BY OneLess
<1>2. /\ IsFiniteSet(T) /\ Cardinality(T) \in Nat
      /\ Cardinality(T) <= Cardinality(S \ {a}) + 1
  BY <1>1, OneMore
<1> QED BY <1>1, <1>2

(***************************************************************************)
(* The actions keep the invariant.                                         *)
(***************************************************************************)

\* Fewer frames on the wire, and clients that do not move.
LEMMA WireShrinks ==
  ASSUME RInv, wire' \subseteq wire, lost' \in 0 .. Losses,
         UNCHANGED <<boards, kind, arp, due, sock>>
  PROVE  RInv'
<1>1. StateInv'
  BY DEF RInv, StateInv
<1>2. WireInv'
  BY DEF RInv, WireInv
<1>3. KnownInv'
  BY DEF RInv, KnownInv, Known, Query, AnswerTo, Quiet
<1>4. CountInv'
  <2> SUFFICES ASSUME NEW h \in Hosts, kind[h] # NoEntry
               PROVE  /\ IsFiniteSet(UnderWay(h)')
                      /\ Cardinality(UnderWay(h)') + sock[h] <= due[h]
    BY DEF CountInv, UnderWay
  <2>1. UnderWay(h)' \subseteq UnderWay(h)
    BY DEF UnderWay
  <2>2. /\ IsFiniteSet(UnderWay(h)) /\ Cardinality(UnderWay(h)) + sock[h] <= due[h]
        /\ sock[h] \in Nat /\ due[h] \in Nat
    BY DEF RInv, CountInv, StateInv
  <2> QED BY <2>1, <2>2, FewerOrSame
<1> QED BY <1>1, <1>2, <1>3, <1>4 DEF RInv

\* A board that answers takes a frame off the wire for each that it sends.
LEMMA DeviceKeeps ==
  ASSUME RInv, NEW x \in wire, x[1] \in boards, DeviceReceive(x[1], x[2])
  PROVE  RInv'
<1> DEFINE d == x[1]
           f == x[2]
           New == UNION {Copies(Enqueued(r)) : r \in PacketRxInterrupt(d, f)}
<1>1. /\ <<d, f>> \in wire /\ wire' = (wire \ {<<d, f>>}) \cup New
      /\ UNCHANGED <<boards, kind, lost, arp, due, sock>>
  BY DEF DeviceReceive, setup
<1>2. ASSUME NEW y \in New
      PROVE  \E a \in PacketRxInterrupt(d, f) : y \in Copies(Enqueued(a))
  BY <1>2
<1>3. Formed(f) /\ d \in Stations
  BY DEF RInv, WireInv, StateInv, Stations
<1> HIDE DEF New
<1>4. StateInv'
  BY <1>1 DEF RInv, StateInv
<1>5. WireInv'
  <2>1. ASSUME NEW y \in New
        PROVE  y[1] \in boards \cup Hosts /\ Formed(y[2])
    <3>1. PICK a \in PacketRxInterrupt(d, f) : y \in Copies(Enqueued(a))
      BY <1>2, <2>1
    <3> HIDE DEF d, f
    <3> QED BY <1>3, <3>1, AnswersFormed, CopiesAre
  <2> QED BY <1>1, <2>1 DEF RInv, WireInv
<1>6. ASSUME ~Quiet, NEW y \in New
      PROVE  /\ Known(y) /\ y[2].ether_type = f.ether_type
             /\ y[2].ether_type = "IP" =>
                   \E h \in Hosts : Query(h, f) /\ y[1] = h /\ y[2].shost = d
  <2>1. PICK a \in PacketRxInterrupt(d, f) : y \in Copies(Enqueued(a))
    BY <1>2, <1>6
  <2> DEFINE z == <<d, f>>
  <2>2. z \in wire /\ d \in boards /\ z = <<d, z[2]>> /\ z[2] = f
    BY <1>1
  <2> HIDE DEF z, d, f
  <2> QED BY <1>6, <2>1, <2>2, BoardAnswers
<1>7. KnownInv'
  <2>1. ASSUME ~Quiet, NEW y \in wire'
        PROVE  Known(y)
    BY <1>1, <1>6, <2>1 DEF RInv, KnownInv
  <2> QED BY <1>1, <2>1 DEF KnownInv, Known, Query, AnswerTo, Quiet
<1>8. CountInv'
  <2> SUFFICES ASSUME NEW h \in Hosts, kind[h] # NoEntry
               PROVE  /\ IsFiniteSet(UnderWay(h)')
                      /\ Cardinality(UnderWay(h)') + sock[h] <= due[h]
    BY <1>1 DEF CountInv, UnderWay
  <2>1. ~Quiet
    BY DEF Quiet
  <2>2. /\ IsFiniteSet(UnderWay(h)) /\ Cardinality(UnderWay(h)) + sock[h] <= due[h]
        /\ sock[h] \in Nat /\ due[h] \in Nat
    BY DEF RInv, CountInv, StateInv
  <2>3. h \notin boards
    BY AddressAssumption DEF RInv, StateInv
  \* A new datagram of h is its answer: its query is the one received.
  <2>4. ASSUME NEW y \in New, y[2].ether_type = "IP", h \in {y[1], y[2].shost}
        PROVE  <<d, f>> \in UnderWay(h) /\ PacketRxInterrupt(d, f) = {ChargenReply(d, f)}
               /\ y = <<h, Enqueued(ChargenReply(d, f))>>
    <3>1. PICK g \in Hosts : Query(g, f) /\ y[1] = g /\ y[2].shost = d
      BY <2>1, <2>4, <1>6
    <3>2. g = h
      BY <3>1, <2>3, <2>4
    <3>3. f.ether_type = "IP" /\ f.shost = h
      BY <2>1, <2>4, <1>6, <3>1, <3>2 DEF Query
    <3>4. <<d, f>> \in UnderWay(h)
      BY <1>1, <3>3 DEF UnderWay
    <3>5. kind[h] \in Kinds /\ StateInv
      BY <2>1, ClientsRun DEF RInv
    <3>6. /\ PacketRxInterrupt(d, f) = {ChargenReply(d, f)}
          /\ Copies(Enqueued(ChargenReply(d, f))) = {<<h, Enqueued(ChargenReply(d, f))>>}
      BY <1>3, <3>1, <3>2, <3>3, <3>5, QueryAnswered
    <3>7. PICK a \in PacketRxInterrupt(d, f) : y \in Copies(Enqueued(a))
      BY <1>2, <2>4
    <3> QED BY <3>4, <3>6, <3>7
  <2> DEFINE b == <<h, Enqueued(ChargenReply(d, f))>>
  <2>5. CASE \E y \in New : y[2].ether_type = "IP" /\ h \in {y[1], y[2].shost}
    <3>1. <<d, f>> \in UnderWay(h)
      BY <2>4, <2>5
    <3>2. UnderWay(h)' \subseteq (UnderWay(h) \ {<<d, f>>}) \cup {b}
      BY <1>1, <2>4 DEF UnderWay
    <3>3. /\ IsFiniteSet(UnderWay(h)')
          /\ Cardinality(UnderWay(h)') \in Nat /\ Cardinality(UnderWay(h)) \in Nat
          /\ Cardinality(UnderWay(h)') <= Cardinality(UnderWay(h))
      <4> HIDE DEF d, f, b
      <4> QED BY <3>1, <3>2, <2>2, Exchanged
    <3> QED BY <3>3, <2>2
  <2>6. CASE ~\E y \in New : y[2].ether_type = "IP" /\ h \in {y[1], y[2].shost}
    <3>1. UnderWay(h)' \subseteq UnderWay(h)
      BY <1>1, <2>6 DEF UnderWay
    <3> QED BY <3>1, <2>2, FewerOrSame
  <2> QED BY <2>5, <2>6
<1> QED BY <1>4, <1>5, <1>7, <1>8 DEF RInv

\* A host takes a frame off the wire; its socket may get it.
LEMMA HostKeeps ==
  ASSUME RInv, NEW x \in wire, x[1] \in Hosts, HostReceive(x[1], x[2])
  PROVE  RInv'
<1> DEFINE h == x[1]
           f == x[2]
           z == <<h, f>>
<1>1. /\ h \in Hosts /\ z \in wire /\ wire' = wire \ {z}
      /\ arp' = IF kind[h] # NoEntry /\ IsArpAnswer(h, f)
                THEN [arp EXCEPT ![h] = f.arp_sha] ELSE arp
      /\ sock' = IF kind[h] # NoEntry /\ IsDatagram(h, f) /\ sock[h] < Pipe
                 THEN [sock EXCEPT ![h] = @ + 1] ELSE sock
      /\ UNCHANGED <<boards, kind, lost, due>>
  BY DEF HostReceive, setup
<1>2. z[1] = h /\ z[2] = f
  OBVIOUS
<1>3. ASSUME kind[h] # NoEntry
      PROVE  Known(z)
  BY <1>1, <1>3 DEF RInv, KnownInv, Quiet
<1> HIDE DEF h, f, z
<1>4. StateInv'
  <2>1. arp' \in [Hosts -> boards \cup {NoEntry}]
    <3>1. CASE kind[h] # NoEntry /\ IsArpAnswer(h, f)
      <4>1. f.arp_sha \in boards
        BY <1>2, <1>3, <3>1 DEF Known, IsArpAnswer
      <4> QED BY <1>1, <3>1, <4>1 DEF RInv, StateInv
    <3>2. CASE ~(kind[h] # NoEntry /\ IsArpAnswer(h, f))
      BY <1>1, <3>2 DEF RInv, StateInv
    <3> QED BY <3>1, <3>2
  <2>2. sock' \in [Hosts -> 0 .. Pipe]
    BY <1>1, ResponderAssumption DEF RInv, StateInv
  <2>3. \A g \in Hosts : kind[g] = NoEntry => arp'[g] = NoEntry
    BY <1>1 DEF RInv, StateInv
  <2> QED BY <1>1, <2>1, <2>2, <2>3 DEF RInv, StateInv
<1>5. WireInv'
  BY <1>1 DEF RInv, WireInv
<1>6. KnownInv'
  BY <1>1 DEF RInv, KnownInv, Known, Query, AnswerTo, Quiet
<1>7. CountInv'
  <2> SUFFICES ASSUME NEW g \in Hosts, kind[g] # NoEntry
               PROVE  /\ IsFiniteSet(UnderWay(g)')
                      /\ Cardinality(UnderWay(g)') + sock'[g] <= due[g]
    BY <1>1 DEF CountInv, UnderWay
  <2>1. /\ IsFiniteSet(UnderWay(g)) /\ Cardinality(UnderWay(g)) + sock[g] <= due[g]
        /\ sock[g] \in Nat /\ due[g] \in Nat /\ sock \in [Hosts -> 0 .. Pipe]
    BY DEF RInv, CountInv, StateInv
  <2>2. UnderWay(g)' \subseteq UnderWay(g) \ {z}
    BY <1>1 DEF UnderWay
  <2>3. CASE g = h /\ IsDatagram(h, f)
    <3>1. z \in UnderWay(g)
      BY <1>1, <1>2, <2>3 DEF UnderWay, IsDatagram
    <3>2. /\ IsFiniteSet(UnderWay(g)')
          /\ Cardinality(UnderWay(g)') \in Nat /\ Cardinality(UnderWay(g)) \in Nat
          /\ Cardinality(UnderWay(g)') + 1 <= Cardinality(UnderWay(g))
      BY <3>1, <2>1, <2>2, OneLess
    <3>3. sock'[g] = sock[g] \/ sock'[g] = sock[g] + 1
      BY <1>1, <2>1, <2>3
    <3> QED BY <3>2, <3>3, <2>1
  <2>4. CASE ~(g = h /\ IsDatagram(h, f))
    <3>1. sock'[g] = sock[g]
      BY <1>1, <2>1, <2>4
    <3>2. /\ IsFiniteSet(UnderWay(g)')
          /\ Cardinality(UnderWay(g)') \in Nat /\ Cardinality(UnderWay(g)) \in Nat
          /\ Cardinality(UnderWay(g)') <= Cardinality(UnderWay(g))
      BY <2>1, <2>2, FewerOrSame
    <3> QED BY <3>1, <3>2, <2>1
  <2> QED BY <2>3, <2>4
<1> QED BY <1>4, <1>5, <1>6, <1>7 DEF RInv

\* An ARP request is no datagram.
LEMMA ResolveKeeps ==
  ASSUME RInv, NEW h \in Hosts, Resolve(h)
  PROVE  RInv'
<1> DEFINE ask == [dhost |-> Broadcast, shost |-> h, ether_type |-> "ARP",
              plain |-> TRUE, size |-> sizeof_ether_header + sizeof_ether_arp,
              ar_op |-> "REQUEST", arp_sha |-> h, arp_spa |-> h,
              arp_tha |-> NoEntry, arp_tpa |-> kIPv4Net]
<1>1. /\ wire' = wire \cup Copies(ask)
      /\ UNCHANGED <<boards, kind, lost, arp, due, sock>>
  BY DEF Resolve, setup
<1>2. ask.ether_type = "ARP" /\ ask.ar_op = "REQUEST" /\ Formed(ask)
  BY Sizes DEF Formed, HasLink, ArpFrame, HasArp, Stations
<1> HIDE DEF ask
<1>3. \A y \in Copies(ask) : y[1] \in boards \cup Hosts /\ y[2] = ask
  BY CopiesAre
<1>4. StateInv'
  BY <1>1 DEF RInv, StateInv
<1>5. WireInv'
  BY <1>1, <1>2, <1>3 DEF RInv, WireInv
<1>6. KnownInv'
  BY <1>1, <1>2, <1>3 DEF RInv, KnownInv, Known, Query, AnswerTo, Quiet
<1>7. \A g : UnderWay(g)' = UnderWay(g)
  BY <1>1, <1>2, <1>3 DEF UnderWay
<1>8. CountInv'
  BY <1>1, <1>7 DEF RInv, CountInv
<1> QED BY <1>4, <1>5, <1>6, <1>8 DEF RInv

\* A client that sends counts what it sends.
LEMMA SendKeeps ==
  ASSUME RInv, NEW h \in Hosts, ClientSend(h)
  PROVE  RInv'
<1>1. PICK id \in 1 .. Pipe : wire' = wire \cup Copies(Request(h, id))
  BY DEF ClientSend
<1>2. /\ arp[h] # NoEntry /\ due[h] < Pipe /\ due' = [due EXCEPT ![h] = @ + 1]
      /\ UNCHANGED <<boards, kind, lost, arp, sock>>
  BY DEF ClientSend, setup
<1> DEFINE q == Request(h, id)
           b == <<arp[h], q>>
<1>3. /\ q.ether_type = "IP" /\ q.dhost = arp[h] /\ q.shost = h
      /\ Query(h, q) /\ Formed(q)
  <2>1. q.dhost = arp[h] /\ q.shost = h /\ q.ether_type = "IP" /\ Query(h, q)
    BY DEF Request, Query
  <2>2. HasLink(q) /\ HasIp(q) /\ HasUdp(q)
    BY DEF Request, HasLink, HasIp, HasUdp
  <2>3. /\ q.ip_len = 29 /\ q.uh_ulen = 9 /\ q.size = 43
        /\ q.ip_p = "UDP"
    BY Sizes DEF Request
  <2> QED BY <2>1, <2>2, <2>3, Sizes DEF Formed, UdpFrame, IpFrame, Stations
<1>4. arp[h] \in boards /\ arp[h] # Broadcast /\ kind[h] # NoEntry
  BY <1>2, AddressAssumption DEF RInv, StateInv
<1> HIDE DEF q
<1>5. \A y \in Copies(q) : y = b
  BY <1>3, <1>4, CopiesAre
<1>6. StateInv'
  BY <1>2, ResponderAssumption DEF RInv, StateInv
<1>7. WireInv'
  BY <1>1, <1>2, <1>3, <1>4, <1>5 DEF RInv, WireInv, q
<1>8. KnownInv'
  <2>1. Known(b)
    <3>1. b[1] = arp[h] /\ b[2] = q
      OBVIOUS
    <3>2. b[1] \in boards /\ b[2].ether_type = "IP" /\ b[2].shost = h
      BY <3>1, <1>3, <1>4
    <3>3. kind[h] # NoEntry /\ Query(h, b[2])
      BY <3>1, <1>3, <1>4
    <3>4. b[2].ether_type # "ARP"
      BY <3>2
    <3> HIDE DEF b
    <3>5. \E g \in Hosts : b[1] \in boards /\ Query(g, b[2])
      BY <3>2, <3>3
    <3> QED BY <3>4, <3>5 DEF Known
  <2>2. ASSUME ~Quiet, NEW y \in wire'
        PROVE  Known(y)
    BY <1>1, <1>5, <2>1, <2>2 DEF RInv, KnownInv, q
  <2> QED BY <1>2, <2>2 DEF KnownInv, Known, Query, AnswerTo, Quiet
<1>9. CountInv'
  <2> SUFFICES ASSUME NEW g \in Hosts, kind[g] # NoEntry
               PROVE  /\ IsFiniteSet(UnderWay(g)')
                      /\ Cardinality(UnderWay(g)') + sock[g] <= due'[g]
    BY <1>2 DEF CountInv, UnderWay
  <2>1. /\ IsFiniteSet(UnderWay(g)) /\ Cardinality(UnderWay(g)) + sock[g] <= due[g]
        /\ sock[g] \in Nat /\ due[g] \in Nat /\ due \in [Hosts -> 0 .. Pipe]
    BY DEF RInv, CountInv, StateInv
  <2>2. CASE g = h
    <3>1. UnderWay(g)' \subseteq UnderWay(g) \cup {b}
      BY <1>1, <1>5 DEF UnderWay, q
    <3>2. /\ IsFiniteSet(UnderWay(g)')
          /\ Cardinality(UnderWay(g)') \in Nat /\ Cardinality(UnderWay(g)) \in Nat
          /\ Cardinality(UnderWay(g)') <= Cardinality(UnderWay(g)) + 1
      <4> HIDE DEF b
      <4> QED BY <3>1, <2>1, OneMore
    <3>3. due'[g] = due[g] + 1
      BY <1>2, <2>1, <2>2
    <3> QED BY <3>2, <3>3, <2>1
  <2>3. CASE g # h
    <3>1. g # arp[h]
      BY <1>4, AddressAssumption DEF RInv, StateInv
    <3>2. UnderWay(g)' \subseteq UnderWay(g)
      BY <1>1, <1>3, <1>5, <2>3, <3>1 DEF UnderWay, q
    <3>3. /\ IsFiniteSet(UnderWay(g)')
          /\ Cardinality(UnderWay(g)') \in Nat /\ Cardinality(UnderWay(g)) \in Nat
          /\ Cardinality(UnderWay(g)') <= Cardinality(UnderWay(g))
      BY <3>2, <2>1, FewerOrSame
    <3>4. due'[g] = due[g]
      BY <1>2, <2>1, <2>3
    <3> QED BY <3>3, <3>4, <2>1
  <2> QED BY <2>2, <2>3
<1> QED BY <1>6, <1>7, <1>8, <1>9 DEF RInv

\* A client that receives takes from its socket what it counts.
LEMMA ClientReceiveKeeps ==
  ASSUME RInv, NEW h \in Hosts, ClientReceive(h)
  PROVE  RInv'
<1>1. /\ due[h] = Pipe /\ sock[h] > 0
      /\ due' = [due EXCEPT ![h] = @ - 1] /\ sock' = [sock EXCEPT ![h] = @ - 1]
      /\ UNCHANGED <<boards, kind, lost, arp, wire>>
  BY DEF ClientReceive, setup
<1>2. StateInv'
  BY <1>1, ResponderAssumption DEF RInv, StateInv
<1>3. WireInv'
  BY <1>1 DEF RInv, WireInv
<1>4. KnownInv'
  BY <1>1 DEF RInv, KnownInv, Known, Query, AnswerTo, Quiet
<1>5. CountInv'
  <2> SUFFICES ASSUME NEW g \in Hosts, kind[g] # NoEntry
               PROVE  /\ IsFiniteSet(UnderWay(g))
                      /\ Cardinality(UnderWay(g)) + sock'[g] <= due'[g]
    BY <1>1 DEF CountInv, UnderWay
  <2>1. /\ IsFiniteSet(UnderWay(g)) /\ Cardinality(UnderWay(g)) + sock[g] <= due[g]
        /\ sock[g] \in Nat /\ due[g] \in Nat
        /\ due \in [Hosts -> 0 .. Pipe] /\ sock \in [Hosts -> 0 .. Pipe]
    BY DEF RInv, CountInv, StateInv
  <2>2. Cardinality(UnderWay(g)) \in Nat
    BY <2>1, FewerOrSame
  <2>3. \/ due'[g] = due[g] /\ sock'[g] = sock[g]
        \/ due'[g] = due[g] - 1 /\ sock'[g] = sock[g] - 1
    BY <1>1, <2>1
  <2> QED BY <2>1, <2>2, <2>3
<1> QED BY <1>2, <1>3, <1>4, <1>5 DEF RInv

\* Frames from anywhere come where no client runs.
LEMMA AnythingKeeps ==
  ASSUME RInv, Anything
  PROVE  RInv'
<1>1. PICK f \in Both(Link, ArpBodies \cup IpBodies) : wire' = Copies(f)
  BY DEF Anything
<1>2. Quiet /\ UNCHANGED <<boards, kind, lost, arp, due, sock>>
  BY DEF Anything, setup
<1>3. StateInv'
  BY <1>2 DEF RInv, StateInv
<1>4. WireInv'
  BY <1>1, <1>2, AnythingFormed, CopiesAre DEF WireInv
<1>5. KnownInv' /\ CountInv'
  BY <1>2 DEF KnownInv, CountInv, Quiet
<1> QED BY <1>3, <1>4, <1>5 DEF RInv

\* Every step keeps the invariant.
LEMMA ResponderKeeps ==
  ASSUME RInv, [Next]_vars
  PROVE  RInv'
<1>1. CASE Receive
  BY <1>1, DeviceKeeps, HostKeeps DEF Receive
<1>2. CASE Lose
  <2>1. lost' \in 0 .. Losses
    BY <1>2, ResponderAssumption DEF Lose, RInv, StateInv
  <2> QED BY <1>2, <2>1, WireShrinks DEF Lose, setup
<1>3. CASE Anything
  BY <1>3, AnythingKeeps
<1>4. ASSUME NEW h \in Hosts, Client(h)
      PROVE  RInv'
  BY <1>4, ResolveKeeps, SendKeeps, ClientReceiveKeeps DEF Client
<1>5. CASE UNCHANGED vars
  <2>1. lost' \in 0 .. Losses
    BY <1>5 DEF vars, RInv, StateInv
  <2> QED BY <1>5, <2>1, WireShrinks DEF vars, setup
<1> QED BY <1>1, <1>2, <1>3, <1>4, <1>5 DEF Next

\* The invariant holds at first.
LEMMA ResponderStarts ==
  ASSUME Init
  PROVE  RInv
<1>1. boards \subseteq Devices
  BY DEF Init
<1>2. StateInv
  BY <1>1, ResponderAssumption DEF Init, StateInv
<1>3. WireInv /\ KnownInv
  BY DEF Init, WireInv, KnownInv
<1>4. \A h : UnderWay(h) = {}
  BY DEF Init, UnderWay
<1>5. CountInv
  BY <1>4, FS_EmptySet DEF Init, CountInv
<1> QED BY <1>2, <1>3, <1>5 DEF RInv

(***************************************************************************)
(* What follows for the services.                                          *)
(***************************************************************************)

\* The invariant holds in all states.
THEOREM Invariance == FairSpec => []RInv
<1>1. Init => RInv
  BY ResponderStarts
<1>2. RInv /\ [Next]_vars => RInv'
  BY ResponderKeeps
<1> QED BY <1>1, <1>2, PTL DEF FairSpec

\* All variables have their types.
THEOREM TypesHold == FairSpec => []TypeOK
<1>1. RInv => TypeOK
  BY DEF RInv, StateInv, WireInv, TypeOK, Formed, Stations
<1> QED BY <1>1, Invariance, PTL

\* Whatever lengths a frame has and names, agreeing or not, what a board sends in
\* its place is as long as it says and fits the network, but for an echo of a frame
\* that is not whole; and an echo of a whole frame is no longer than that.
THEOREM LengthsDoAgree == FairSpec => LengthsAgree
<1>1. ASSUME RInv, Next, NEW x \in wire \ wire', NEW y \in wire' \ wire
      PROVE  /\ Exact(y[2]) \/ (IsEcho(x[2]) /\ ~Whole(x[2]))
             /\ IsEcho(x[2]) /\ Whole(x[2]) => y[2].size <= x[2].size
  <2>1. PICK z \in wire : z[1] \in boards /\ DeviceReceive(z[1], z[2])
    <3>1. CASE Receive
      BY <1>1, <3>1 DEF Receive, HostReceive
    <3>2. CASE Lose \/ Anything
      BY <1>1, <3>2 DEF Lose, Anything
    <3>3. CASE \E h \in Hosts : Client(h)
      BY <1>1, <3>3 DEF Client, Resolve, ClientSend, ClientReceive
    <3> QED BY <1>1, <3>1, <3>2, <3>3 DEF Next
  <2> DEFINE d == z[1]
             f == z[2]
             New == UNION {Copies(Enqueued(r)) : r \in PacketRxInterrupt(d, f)}
  <2>2. <<d, f>> \in wire /\ wire' = (wire \ {<<d, f>>}) \cup New
    BY <2>1 DEF DeviceReceive
  <2>3. x = <<d, f>> /\ y \in New
    BY <1>1, <2>2
  <2>4. PICK a \in PacketRxInterrupt(d, f) : y \in Copies(Enqueued(a))
    BY <2>3
  <2>5. d \in Stations /\ Formed(f)
    BY <1>1, <2>1 DEF RInv, WireInv, StateInv, Stations
  <2> HIDE DEF d, f, New
  <2>6. y[2] = Enqueued(a)
    BY <2>4, CopiesAre
  <2>7. x[2] = f
    BY <2>3
  <2> QED BY <2>4, <2>5, <2>6, <2>7, AnswersExact
<1>2. RInv /\ [Next]_vars =>
        [\A x \in wire \ wire', y \in wire' \ wire :
           /\ Exact(y[2]) \/ (IsEcho(x[2]) /\ ~Whole(x[2]))
           /\ IsEcho(x[2]) /\ Whole(x[2]) => y[2].size <= x[2].size]_vars
  BY <1>1
<1> QED BY <1>2, Invariance, PTL DEF FairSpec, LengthsAgree

\* No client gets more datagrams than it sent, one of another host, one of a
\* generator it did not ask for, or a shorter one than it asks of its socket.
THEOREM AnswersAreAsAsked == FairSpec => []AnswersAsAsked
<1>1. ASSUME RInv, NEW h \in Hosts, kind[h] # NoEntry, NEW x \in UnderWay(h), x[1] = h
      PROVE  /\ IsDatagram(h, x[2]) /\ x[2].data = Random(kind[h])
             /\ x[2].uh_ulen - sizeof_udphdr = ETHERMTU_UDP
  <2>1. x \in wire /\ x[2].ether_type = "IP"
    BY DEF UnderWay
  <2>2. Known(x) /\ h \notin boards
    BY <1>1, <2>1, AddressAssumption DEF RInv, KnownInv, StateInv, Quiet
  <2>3. AnswerTo(h, x[2])
    BY <1>1, <2>1, <2>2 DEF Known
  <2> QED BY <2>1, <2>3, Sizes DEF AnswerTo, IsDatagram
<1>2. RInv => AnswersAsAsked
  BY <1>1 DEF AnswersAsAsked, RInv, CountInv
<1> QED BY <1>2, Invariance, PTL
=============================================================================
