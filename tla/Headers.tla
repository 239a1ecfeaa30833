------------------------------ MODULE Headers ------------------------------
(***************************************************************************)
(* The headers of a frame, in memory.  The firmware declares them twice:   *)
(* the packed structures of src/src/packet.h, which write the frame of a   *)
(* DHCP discover (module Discover), and the naturally aligned BSD          *)
(* structures under src/include, by which prdk.c reads and answers frames  *)
(* (module Responder).  A structure is the sequence of its members, laid   *)
(* out as the compiler does.                                               *)
(***************************************************************************)
EXTENDS Naturals, Sequences

(***************************************************************************)
(* Layout.                                                                 *)
(***************************************************************************)
Octet(f) == [name |-> f, size |-> 1, align |-> 1]
Short(f) == [name |-> f, size |-> 2, align |-> 2]
Word(f) == [name |-> f, size |-> 4, align |-> 4]
Array(f, n) == [name |-> f, size |-> n, align |-> 1]

Packed(s) == [k \in DOMAIN s |-> [s[k] EXCEPT !.align = 1]]

AlignUp(x, a) == ((x + a - 1) \div a) * a

\* Where each member ends; the padding in front of it is as it asks for.
Ends(s) ==
  LET end[k \in 0 .. Len(s)] ==
        IF k = 0 THEN 0 ELSE AlignUp(end[k - 1], s[k].align) + s[k].size
  IN  end

SizeOf(s) ==
  LET widest == CHOOSE m \in DOMAIN s : \A k \in DOMAIN s : s[k].align <= s[m].align
  IN  AlignUp(Ends(s)[Len(s)], s[widest].align)

\* The offsets of member f.
Span(s, f) ==
  LET k == CHOOSE k \in DOMAIN s : s[k].name = f
  IN  Ends(s)[k] - s[k].size .. Ends(s)[k] - 1

(***************************************************************************)
(* The structures that read: BSD.                                          *)
(***************************************************************************)
ETHER_ADDR_LEN == 6
ETHER_MAX_LEN == 1518
ETHER_CRC_LEN == 4

ether_header == <<Array("ether_dhost", ETHER_ADDR_LEN),
                  Array("ether_shost", ETHER_ADDR_LEN), Short("ether_type")>>

\* ip_hl and ip_v are bit-fields of one u_int.
ip == <<[Octet("ip_v_hl") EXCEPT !.align = 4], Octet("ip_tos"), Short("ip_len"),
        Short("ip_id"), Short("ip_off"), Octet("ip_ttl"), Octet("ip_p"),
        Short("ip_sum"), Word("ip_src"), Word("ip_dst")>>

udphdr == <<Short("uh_sport"), Short("uh_dport"), Short("uh_ulen"), Short("uh_sum")>>

arphdr == <<Short("ar_hrd"), Short("ar_pro"), Octet("ar_hln"), Octet("ar_pln"),
            Short("ar_op")>>

ether_arp == arphdr \o
  <<Array("arp_sha", ETHER_ADDR_LEN), Array("arp_spa", 4),
    Array("arp_tha", ETHER_ADDR_LEN), Array("arp_tpa", 4)>>

ETHERMTU == ETHER_MAX_LEN - SizeOf(ether_header) - ETHER_CRC_LEN

(***************************************************************************)
(* The structures that write: packet.h, packed.                            *)
(***************************************************************************)
EthernetHeader == Packed(<<Array("destination", 6), Array("source", 6), Short("type")>>)

\* Mutant of IPv4Header: the identification is forgotten.
IPv4HeaderShort ==
  Packed(<<Octet("version_header_length"), Octet("type_of_service"),
           Short("total_length"), Short("flags"),
           Octet("ttl"), Octet("protocol"), Short("checksum"),
           Word("source"), Word("destination")>>)

IPv4Header ==
  Packed(<<Octet("version_header_length"), Octet("type_of_service"),
           Short("total_length"), Short("identification"), Short("flags"),
           Octet("ttl"), Octet("protocol"), Short("checksum"),
           Word("source"), Word("destination")>>)

UDPHeader == Packed(<<Short("source_port"), Short("destination_port"),
                      Short("length"), Short("checksum")>>)

IPV4_HEADER_OFFSET == SizeOf(EthernetHeader)
UDP_HEADER_OFFSET == IPV4_HEADER_OFFSET + SizeOf(IPv4Header)

\* Mutant of UDP_DATA_OFFSET: the UDP header has no room.
UDP_DATA_AT_HEADER == UDP_HEADER_OFFSET
UDP_DATA_OFFSET == UDP_HEADER_OFFSET + SizeOf(UDPHeader)
=============================================================================
