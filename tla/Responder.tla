----------------------------- MODULE Responder -----------------------------
(***************************************************************************)
(* The services of the device on its network: PacketRxInterrupt            *)
(* (src/src/prdk.c), which answers ARP requests, ICMP echo requests and    *)
(* chargen datagrams by rewriting the frame in place, and the client of    *)
(* the chargen service (src/bin/chargen), over a network that may lose and *)
(* reorder frames.  The rings in between are those of PacketRings: they    *)
(* serve one frame at a time (FrameService), so a device here takes a      *)
(* frame and sends its answer in one step.                                 *)
(*                                                                         *)
(* Data abstraction.  A station's MAC address is the station.  A frame has *)
(* the fields PacketRxInterrupt reads or writes; `plain` stands for all    *)
(* tests of constant header fields (version, header length, ICMP code, ARP *)
(* hardware, protocol and lengths).  `size` is the bytes handed over by    *)
(* the receive engine or to the transmit engine, which pads short frames   *)
(* and adds the CRC; fields beyond it are what the buffer held before.     *)
(* ip_id is untouched by the device and tells datagrams apart.             *)
(***************************************************************************)
EXTENDS Headers, FiniteSets

CONSTANTS
  Devices,   \* boards that run the firmware, all with the one kIPv4Net
  Hosts,     \* hosts that run src/bin/chargen; a host is its IP address too
  Pipe,      \* --pipe: datagrams the client keeps under way
  Losses,    \* frames the network may lose, all in all
  Kinds,     \* letters that ask for a generator, of those bin/chargen sends
  Lengths    \* lengths of frames from anywhere: records [size, ip_len, uh_ulen]

ASSUME ResponderAssumption ==
  /\ Pipe \in Nat \ {0} /\ Losses \in Nat
  /\ Kinds \subseteq {"T", "P", "p", "C"}   \* --trng, --pcg32, --pcg16, --chaskey

kIPv4Net == "us"
Broadcast == "broadcast"
NoEntry == "none"

\* No host has the address of a board, or the one that all boards have.
ASSUME AddressAssumption ==
  /\ Devices \cap Hosts = {}
  /\ {kIPv4Net, Broadcast, NoEntry} \cap (Devices \cup Hosts) = {}

SVC_CHARGEN == 19
ClientPort == 50000
MAXTTL == 255
IPDEFTTL == 64
ETH_DMATxDesc_TBS1 == 8191
sizeof_ether_header == SizeOf(ether_header)
sizeof_ip == SizeOf(ip)
sizeof_udphdr == SizeOf(udphdr)
sizeof_ether_arp == SizeOf(ether_arp)
ETHERMTU_UDP == ETHERMTU - sizeof_ip - sizeof_udphdr

\* A frame that is handed over has a header, and fits its buffer with the CRC;
\* what its own headers say of its length is any half-word.
FrameSize == sizeof_ether_header .. ETHER_MAX_LEN - ETHER_CRC_LEN
HalfWord == 0 .. 65535

ASSUME LengthsAssumption ==
  \A l \in Lengths : l.size \in FrameSize /\ l.ip_len \in HalfWord /\ l.uh_ulen \in HalfWord

Random(kind) == <<"random", kind>>

VARIABLES
  boards, \* the boards of this network: one, or several by mistake
  wire,   \* pairs <<s, f>>: frame f is on its way to station s
  lost,   \* frames lost so far
  arp,    \* arp[h]: the MAC address host h has for kIPv4Net
  kind,   \* kind[h]: the generator the client of h asks for, if it runs
  due,    \* due[h]: datagrams sent less datagrams received by the client
  sock    \* sock[h]: datagrams in the client's socket

setup == <<boards, kind>>
vars == <<setup, wire, lost, arp, due, sock>>

Init ==
  /\ wire = {} /\ lost = 0
  /\ arp = [h \in Hosts |-> NoEntry]
  /\ \/ kind \in [Hosts -> Kinds] /\ boards \in {{d} : d \in Devices}
     \/ kind = [h \in Hosts |-> NoEntry] /\ boards = Devices
  /\ due = [h \in Hosts |-> 0] /\ sock = [h \in Hosts |-> 0]

(***************************************************************************)
(* PacketRxInterrupt.                                                      *)
(***************************************************************************)

IsMine(f) == f.ether_type = "IP" /\ f.plain /\ f.ip_dst = kIPv4Net

IsEcho(f) == IsMine(f) /\ f.ip_p = "ICMP" /\ f.icmp_type = "ECHO"

IsChargen(f) ==
  /\ IsMine(f) /\ f.ip_p = "UDP" /\ f.uh_dport = SVC_CHARGEN /\ f.ip_ttl = MAXTTL
  /\ f.uh_ulen >= sizeof_udphdr + 1

IsArpRequest(f) ==
  f.ether_type = "ARP" /\ f.plain /\ f.ar_op = "REQUEST" /\ f.arp_tpa = kIPv4Net

\* Both addresses of the Ethernet header, as device d sends the frame back
\* with n bytes after that header.
Turned(d, f, n) ==
  [f EXCEPT !.dhost = f.shost, !.shost = d, !.size = sizeof_ether_header + n]

EchoReply(d, f) ==
  [Turned(d, f, f.ip_len)
     EXCEPT !.icmp_type = "ECHOREPLY", !.ip_ttl = IPDEFTTL,
            !.ip_dst = f.ip_src, !.ip_src = kIPv4Net]

\* Mutant of ChargenReply: the request's time to live stays.
ChargenKeepsTtl(d, f) ==
  [Turned(d, f, ETHERMTU)
     EXCEPT !.ip_len = ETHERMTU, !.uh_ulen = ETHERMTU - sizeof_ip,
            !.ip_dst = f.ip_src, !.ip_src = kIPv4Net,
            !.uh_dport = f.uh_sport, !.uh_sport = SVC_CHARGEN,
            !.data = IF @ \in Kinds THEN Random(@) ELSE @]

\* Mutant of ChargenReply: the UDP length is that of the request.
ChargenKeepsLength(d, f) ==
  [Turned(d, f, ETHERMTU)
     EXCEPT !.ip_ttl = 1, !.ip_len = ETHERMTU,
            !.ip_dst = f.ip_src, !.ip_src = kIPv4Net,
            !.uh_dport = f.uh_sport, !.uh_sport = SVC_CHARGEN,
            !.data = IF @ \in Kinds THEN Random(@) ELSE @]

\* Mutant of ChargenReply: the letter is looked at after the first word has
\* been overwritten.
ChargenReadsLate(d, f) ==
  [Turned(d, f, ETHERMTU)
     EXCEPT !.ip_ttl = 1, !.ip_len = ETHERMTU, !.uh_ulen = ETHERMTU - sizeof_ip,
            !.ip_dst = f.ip_src, !.ip_src = kIPv4Net,
            !.uh_dport = f.uh_sport, !.uh_sport = SVC_CHARGEN,
            !.data = IF @ \in Kinds THEN Random("p") ELSE @]

\* The one byte of the payload selects a generator; a byte that selects none
\* is sent back with what else the buffer holds.
ChargenReply(d, f) ==
  [Turned(d, f, ETHERMTU)
     EXCEPT !.ip_ttl = 1, !.ip_len = ETHERMTU, !.uh_ulen = ETHERMTU - sizeof_ip,
            !.ip_dst = f.ip_src, !.ip_src = kIPv4Net,
            !.uh_dport = f.uh_sport, !.uh_sport = SVC_CHARGEN,
            !.data = IF @ \in Kinds THEN Random(@) ELSE @]

\* Mutant of ArpReply: the sender's fields are overwritten before they are
\* copied to the target's.
ArpReplyTooEarly(d, f) ==
  [Turned(d, f, sizeof_ether_arp)
     EXCEPT !.ar_op = "REPLY", !.arp_tha = d, !.arp_tpa = kIPv4Net,
            !.arp_sha = d, !.arp_spa = kIPv4Net]

\* One memcpy moves both sender's fields to the target's.
ArpReply(d, f) ==
  [Turned(d, f, sizeof_ether_arp)
     EXCEPT !.ar_op = "REPLY", !.arp_tha = f.arp_sha, !.arp_tpa = f.arp_spa,
            !.arp_sha = d, !.arp_spa = kIPv4Net]

\* What device d answers to f: one frame, or none for PACKET_PROCESSED.
PacketRxInterrupt(d, f) ==
  CASE IsEcho(f)       -> {EchoReply(d, f)}
    [] IsChargen(f)    -> {ChargenReply(d, f)}
    [] IsArpRequest(f) -> {ArpReply(d, f)}
    [] OTHER           -> {}

(***************************************************************************)
(* The network.  A station takes the frames with its own or the broadcast  *)
(* address (EthernetInitialize sets the filters of the MAC that way).      *)
(***************************************************************************)
Copies(f) == {<<s, f>> : s \in {s \in boards \cup Hosts :
                                  /\ f.dhost \in {s, Broadcast}
                                  /\ f.shost # s}}

\* What EnqueueTxFromInterrupt makes of an answer: its descriptor has 13 bits
\* for the length.
Enqueued(r) == [r EXCEPT !.size = @ % (ETH_DMATxDesc_TBS1 + 1)]

DeviceReceive(d, f) ==
  /\ <<d, f>> \in wire
  /\ wire' = (wire \ {<<d, f>>})
              \cup UNION {Copies(Enqueued(r)) : r \in PacketRxInterrupt(d, f)}
  /\ UNCHANGED <<lost, arp, setup, due, sock>>

Lose ==
  /\ lost < Losses
  /\ \E x \in wire : wire' = wire \ {x}
  /\ lost' = lost + 1
  /\ UNCHANGED <<arp, setup, due, sock>>

(***************************************************************************)
(* A host: its kernel, and the client, which sends Pipe - 1 datagrams and  *)
(* then one for each that it receives, waiting without a timeout.          *)
(***************************************************************************)

IsArpAnswer(h, f) ==
  f.ether_type = "ARP" /\ f.ar_op = "REPLY" /\ f.arp_spa = kIPv4Net /\ f.arp_tpa = h

\* The socket is connected to the service: other datagrams are not for it.
IsDatagram(h, f) ==
  /\ f.ether_type = "IP" /\ f.ip_p = "UDP" /\ f.ip_dst = h /\ f.ip_src = kIPv4Net
  /\ f.uh_sport = SVC_CHARGEN /\ f.uh_dport = ClientPort

HostReceive(h, f) ==
  /\ <<h, f>> \in wire
  /\ wire' = wire \ {<<h, f>>}
  /\ arp' = IF kind[h] # NoEntry /\ IsArpAnswer(h, f)
            THEN [arp EXCEPT ![h] = f.arp_sha] ELSE arp
  /\ sock' = IF kind[h] # NoEntry /\ IsDatagram(h, f) /\ sock[h] < Pipe
             THEN [sock EXCEPT ![h] = @ + 1] ELSE sock
  /\ UNCHANGED <<lost, setup, due>>

Resolve(h) ==
  LET ask == [dhost |-> Broadcast, shost |-> h, ether_type |-> "ARP",
              plain |-> TRUE, size |-> sizeof_ether_header + sizeof_ether_arp,
              ar_op |-> "REQUEST", arp_sha |-> h, arp_spa |-> h,
              arp_tha |-> NoEntry, arp_tpa |-> kIPv4Net]
  IN  /\ kind[h] # NoEntry /\ arp[h] = NoEntry
      /\ \A x \in wire : x[2].ether_type = "ARP" => h \notin {x[1], x[2].shost}
      /\ wire' = wire \cup Copies(ask)
      /\ UNCHANGED <<lost, arp, setup, due, sock>>

Request(h, id) ==
  LET n == sizeof_udphdr + 1
  IN  [dhost |-> arp[h], shost |-> h, ether_type |-> "IP", plain |-> TRUE,
       size |-> sizeof_ether_header + sizeof_ip + n,
       ip_dst |-> kIPv4Net, ip_src |-> h, ip_len |-> sizeof_ip + n,
       ip_ttl |-> MAXTTL, ip_id |-> id, ip_p |-> "UDP",
       uh_dport |-> SVC_CHARGEN, uh_sport |-> ClientPort, uh_ulen |-> n,
       data |-> kind[h]]

\* Datagrams of the client of h, and those back to it, that are on their way.
UnderWay(h) == {x \in wire : x[2].ether_type = "IP" /\ h \in {x[1], x[2].shost}}

\* Mutant of ClientSend: one datagram too many.
ClientSendOneMore(h) ==
  /\ arp[h] # NoEntry /\ due[h] <= Pipe
  /\ \E id \in 0 .. Pipe :
       /\ id \notin {x[2].ip_id : x \in UnderWay(h)}
       /\ wire' = wire \cup Copies(Request(h, id))
  /\ due' = [due EXCEPT ![h] = @ + 1]
  /\ UNCHANGED <<lost, arp, setup, sock>>

ClientSend(h) ==
  /\ arp[h] # NoEntry /\ due[h] < Pipe
  /\ \E id \in 1 .. Pipe :
       /\ id \notin {x[2].ip_id : x \in UnderWay(h)}
       /\ wire' = wire \cup Copies(Request(h, id))
  /\ due' = [due EXCEPT ![h] = @ + 1]
  /\ UNCHANGED <<lost, arp, setup, sock>>

ClientReceive(h) ==
  /\ due[h] = Pipe /\ sock[h] > 0
  /\ due' = [due EXCEPT ![h] = @ - 1]
  /\ sock' = [sock EXCEPT ![h] = @ - 1]
  /\ UNCHANGED <<wire, lost, arp, setup>>

Receive == \E x \in wire :
             \/ x[1] \in boards /\ DeviceReceive(x[1], x[2])
             \/ x[1] \in Hosts /\ HostReceive(x[1], x[2])

Client(h) == Resolve(h) \/ ClientSend(h) \/ ClientReceive(h)

(***************************************************************************)
(* Any single frame, from anywhere, in a network without clients.  Nothing *)
(* makes its lengths agree, and PacketRxInterrupt does not compare them    *)
(* (the TODO of prdk.c:31).                                                *)
(***************************************************************************)
Stations == Devices \cup Hosts
Quiet == \A h \in Hosts : kind[h] = NoEntry

Link == [dhost : Stations \cup {Broadcast}, shost : Stations, plain : BOOLEAN]
Addresses == Hosts \cup {kIPv4Net}
Ports == {SVC_CHARGEN, ClientPort}

Both(s, t) == {[x \in DOMAIN a \cup DOMAIN b |-> IF x \in DOMAIN a THEN a[x] ELSE b[x]] :
                 a \in s, b \in t}

ArpBodies == [ether_type : {"ARP"}, size : {l.size : l \in Lengths},
              ar_op : {"REQUEST", "REPLY"},
              arp_sha : Stations, arp_spa : Addresses,
              arp_tha : {NoEntry}, arp_tpa : Addresses]

IpHeader(l) == [ether_type : {"IP"}, size : {l.size}, ip_len : {l.ip_len},
                ip_dst : Addresses, ip_src : Addresses,
                ip_ttl : {1, IPDEFTTL, MAXTTL}, ip_id : {1}]

IcmpBody == [ip_p : {"ICMP"}, icmp_type : {"ECHO", "ECHOREPLY"}]
UdpBody(l) == [ip_p : {"UDP"}, uh_dport : Ports, uh_sport : Ports,
               uh_ulen : {l.uh_ulen}, data : {"T", "?"}]
IpRest(l) == IcmpBody \cup UdpBody(l)

IpBodies == UNION {Both(IpHeader(l), IpRest(l)) : l \in Lengths}

Anything ==
  /\ Quiet /\ wire = {}
  /\ \E f \in Both(Link, ArpBodies \cup IpBodies) : wire' = Copies(f)
  /\ UNCHANGED <<lost, arp, setup, due, sock>>

Next == Receive \/ Lose \/ Anything \/ \E h \in Hosts : Client(h)

(***************************************************************************)
(* Fairness: clients and their kernels run on, and the frames of each host *)
(* and of the boards arrive unless they are lost.                          *)
(***************************************************************************)
Progress(h) == \E x \in wire :
                 /\ h \in {x[1], x[2].shost}
                 /\ \/ x[1] \in boards /\ DeviceReceive(x[1], x[2])
                    \/ x[1] \in Hosts /\ HostReceive(x[1], x[2])

FairSpec ==
  /\ Init /\ [][Next]_vars /\ WF_vars(Receive)
  /\ \A h \in Hosts : WF_vars(Client(h)) /\ WF_vars(Progress(h))

(***************************************************************************)
(* Properties.                                                             *)
(***************************************************************************)

\* The types of all variables; frames are typed by how they are made.
TypeOK ==
  /\ \A x \in wire : x[1] \in Stations /\ x[2].shost \in Stations
  /\ lost \in 0 .. Losses
  /\ arp \in [Hosts -> Devices \cup {NoEntry}]
  /\ kind \in [Hosts -> Kinds] \cup {[h \in Hosts |-> NoEntry]}
  /\ boards \subseteq Devices
  /\ due \in [Hosts -> 0 .. Pipe] /\ sock \in [Hosts -> 0 .. Pipe]

\* No exchange goes on by itself: devices do not answer each other's answers,
\* although all of them have the one kIPv4Net of the source, and whatever the
\* addresses and ports of the frame that started it.  For chargen this rests
\* on the time to live (prdk.c:51 and prdk.c:56).
ExchangesEnd == Quiet /\ wire # {} ~> wire = {}

\* A frame holds the packet that its headers speak of, perhaps with padding.
Whole(f) ==
  /\ f.size <= ETHER_MAX_LEN - ETHER_CRC_LEN
  /\ f.ether_type = "ARP" => f.size >= sizeof_ether_header + sizeof_ether_arp
  /\ f.ether_type = "IP" =>
       /\ f.ip_len >= sizeof_ip /\ f.size >= sizeof_ether_header + f.ip_len
       /\ f.ip_p = "UDP" => f.ip_len >= sizeof_ip + f.uh_ulen

\* And nothing else.
Exact(f) ==
  /\ Whole(f)
  /\ f.ether_type = "ARP" => f.size = sizeof_ether_header + sizeof_ether_arp
  /\ f.ether_type = "IP" =>
       /\ f.size = sizeof_ether_header + f.ip_len
       /\ f.ip_p = "UDP" => f.ip_len = sizeof_ip + f.uh_ulen

\* "TODO: check `len` here and there" (prdk.c:31): what goes out in the place of
\* a frame x is exact and fits the network, although no length in x is looked at
\* but uh_ulen, and whatever they say.  Only an echo takes its length from the
\* request: it is exact, and no longer than the request, if that was whole.
LengthsAgree ==
  [][\A x \in wire \ wire', y \in wire' \ wire :
       /\ Exact(y[2]) \/ (IsEcho(x[2]) /\ ~Whole(x[2]))
       /\ IsEcho(x[2]) /\ Whole(x[2]) => y[2].size <= x[2].size]_vars

\* A client gets at most one datagram for each that it has sent, and from the
\* generator that it asked for: the letter is read before it is overwritten,
\* and no other host's answer comes to it.  It is as long as the client asks of
\* its socket.
AnswersAsAsked ==
  \A h \in Hosts : kind[h] # NoEntry =>
    /\ Cardinality(UnderWay(h)) + sock[h] <= due[h]
    /\ \A x \in UnderWay(h) :
         x[1] = h => /\ IsDatagram(h, x[2]) /\ x[2].data = Random(kind[h])
                     /\ x[2].uh_ulen - sizeof_udphdr = ETHERMTU_UDP

\* "keep TxRx busy" (bin/chargen:17): the client never stops receiving.  It
\* holds while the network loses fewer frames than the client keeps under way.
DataKeepsComing ==
  \A h \in Hosts : kind[h] # NoEntry => []<><<ClientReceive(h)>>_vars
=============================================================================
