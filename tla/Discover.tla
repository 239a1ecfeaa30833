------------------------------ MODULE Discover ------------------------------
(***************************************************************************)
(* DHCPSendDiscover (src/src/dhcp.c) with the Fill functions of            *)
(* src/src/packet.c, store by store into a buffer of bytes, so that byte   *)
(* orders, offsets and lengths are what they are in memory.  A 32-bit      *)
(* number is its four bytes, the least significant first, as the           *)
(* little-endian CPU keeps it.                                             *)
(***************************************************************************)
EXTENDS Headers, FiniteSets

CONSTANTS
  Ids,    \* transaction ids RandomUInt32 may return: bytes, lowest first
  Macs    \* MAC addresses of boards: six bytes

Byte == 0 .. 255

ASSUME DiscoverAssumption == Ids \subseteq [1 .. 4 -> Byte] /\ Macs \subseteq [1 .. 6 -> Byte]

DHCPPacket ==
  Packed(<<Octet("message_type"), Octet("hardware_type"),
           Octet("hardware_address_length"), Octet("hops"),
           Word("transaction_id"), Short("seconds_elapsed"), Short("bootp_flags"),
           Word("client_address"), Word("your_client_address"),
           Word("next_server_address"), Word("relay_agent_address"),
           Array("client_hardware_address", 16), Array("server_host_name", 64),
           Array("boot_file_name", 128), Word("magic_cookie")>>)

DHCP_DISCOVER_PACKET_SIZE == ((SizeOf(DHCPPacket) + 3 + 6 + 1 + 15) \div 16) * 16
RawSize == UDP_DATA_OFFSET + DHCP_DISCOVER_PACKET_SIZE
OptionsOffset == UDP_DATA_OFFSET + SizeOf(DHCPPacket)

(***************************************************************************)
(* DHCPSendDiscover.                                                       *)
(***************************************************************************)
VARIABLES
  raw,   \* raw_packet, by offset
  id,    \* current_transaction_id
  mac,   \* the board's address
  pc

vars == <<raw, id, mac, pc>>

\* Numbers as they lie in memory after SWAP_BYTES_U16 and SWAP_BYTES_U32.

\* Mutant of SWAP_BYTES_U16: the low byte is not masked off the high one.
SWAP_BYTES_U16_Wide(x) == <<x \div 256, x>>
SWAP_BYTES_U16(x) == <<x \div 256, x % 256>>

\* Mutant of SWAP_BYTES_U32: the two bytes in the middle are masked crosswise.
SWAP_BYTES_U32_Cross(x) == <<x[4], x[2], x[3], x[1]>>
SWAP_BYTES_U32(x) == <<x[4], x[3], x[2], x[1]>>

\* The bytes that a store to member f of structure s at base leaves there.
Store(base, s, f, bytes) ==
  LET first == CHOOSE i \in Span(s, f) : \A j \in Span(s, f) : i <= j
  IN  [i \in base + first .. base + first + Len(bytes) - 1 |-> bytes[i - base - first + 1]]

\* Memory r after a store s.
r ++ s == [i \in DOMAIN r |-> IF i \in DOMAIN s THEN s[i] ELSE r[i]]

Init ==
  /\ raw = [i \in 0 .. RawSize - 1 |-> 0]
  /\ id = <<0, 0, 0, 0>> /\ mac \in Macs
  /\ pc = "idle"

\* A transaction id is drawn, and raw_packet is zeroed.
Begin ==
  /\ pc = "idle"
  /\ id' \in Ids
  /\ raw' = [i \in DOMAIN raw |-> 0]
  /\ pc' = "packet" /\ UNCHANGED mac

\* The fixed part: BOOTP request, Ethernet, the cookie 0x63538263.
FillDHCP ==
  /\ pc = "packet"
  /\ LET to(f, bytes) == Store(UDP_DATA_OFFSET, DHCPPacket, f, bytes)
     IN  raw' = raw ++ to("message_type", <<1>>) ++ to("hardware_type", <<1>>)
                  ++ to("hardware_address_length", <<6>>)
                  ++ to("transaction_id", SWAP_BYTES_U32(id))
                  ++ to("client_hardware_address", mac)
                  ++ to("magic_cookie", <<99, 130, 83, 99>>)
  /\ pc' = "options" /\ UNCHANGED <<id, mac>>

\* Message type discover, the four parameters asked for, and the end.
FillOptions ==
  /\ pc = "options"
  /\ LET options == <<53, 1, 1, 55, 4, 1, 3, 6, 42, 255>>
     IN  raw' = raw ++ [i \in OptionsOffset .. OptionsOffset + Len(options) - 1 |->
                          options[i - OptionsOffset + 1]]
  /\ pc' = "udp" /\ UNCHANGED <<id, mac>>

FillUDPHeader ==
  /\ pc = "udp"
  /\ LET to(f, x) == Store(UDP_HEADER_OFFSET, UDPHeader, f, SWAP_BYTES_U16(x))
     IN  raw' = raw ++ to("source_port", 67) ++ to("destination_port", 68)
                  ++ to("length", DHCP_DISCOVER_PACKET_SIZE + SizeOf(UDPHeader))
  /\ pc' = "ip" /\ UNCHANGED <<id, mac>>

FillIPv4Header ==
  /\ pc = "ip"
  /\ LET data_length == SizeOf(UDPHeader) + DHCP_DISCOVER_PACKET_SIZE
         to(f, bytes) == Store(IPV4_HEADER_OFFSET, IPv4Header, f, bytes)
     IN  raw' = raw ++ to("version_header_length", <<69>>) ++ to("type_of_service", <<0>>)
                  ++ to("total_length", SWAP_BYTES_U16(data_length + SizeOf(IPv4Header)))
                  ++ to("flags", <<0, 0>>) ++ to("ttl", <<128>>) ++ to("protocol", <<17>>)
                  ++ to("source", <<0, 0, 0, 0>>)
                  ++ to("destination", <<255, 255, 255, 255>>)
  /\ pc' = "ethernet" /\ UNCHANGED <<id, mac>>

FillEthernetHeader ==
  /\ pc = "ethernet"
  /\ LET to(f, bytes) == Store(0, EthernetHeader, f, bytes)
     IN  raw' = raw ++ to("source", mac) ++ to("destination", [i \in 1 .. 6 |-> 255])
                  ++ to("type", SWAP_BYTES_U16(2048))
  /\ pc' = "filled" /\ UNCHANGED <<id, mac>>

\* EthernetTransmit gets the frame, and raw_packet goes with the call.
Return ==
  /\ pc = "filled"
  /\ pc' = "idle" /\ UNCHANGED <<raw, id, mac>>

Next ==
  \/ Begin \/ FillDHCP \/ FillOptions
  \/ FillUDPHeader \/ FillIPv4Header \/ FillEthernetHeader \/ Return

Spec == Init /\ [][Next]_vars

(***************************************************************************)
(* What a reader makes of the bytes, with the other family of structures.  *)
(***************************************************************************)
Read(base, s, f) ==
  LET span == {base + i : i \in Span(s, f)}
      first == CHOOSE i \in span : \A j \in span : i <= j
  IN  [k \in 1 .. Cardinality(span) |-> raw[first + k - 1]]

ntoh16(b) == b[1] * 256 + b[2]

AtIp == SizeOf(ether_header)
AtUdp == AtIp + SizeOf(ip)
AtDhcp == AtUdp + SizeOf(udphdr)

\* The options from offset p on, as <<code, value>>; "overrun" if no end comes.
OptionsFrom ==
  LET at[p \in 0 .. RawSize] ==
        IF p >= RawSize THEN {"overrun"}
        ELSE IF raw[p] = 255 THEN {}
        ELSE IF p + 1 >= RawSize \/ p + 1 + raw[p + 1] >= RawSize THEN {"overrun"}
        ELSE {<<raw[p], [k \in 1 .. raw[p + 1] |-> raw[p + 1 + k]]>>} \cup at[p + 2 + raw[p + 1]]
  IN  at

(***************************************************************************)
(* Properties.                                                             *)
(***************************************************************************)

\* The types of all variables; every byte is one, however it was computed.
TypeOK ==
  /\ raw \in [0 .. RawSize - 1 -> Byte]
  /\ id \in Ids \cup {<<0, 0, 0, 0>>} /\ mac \in Macs
  /\ pc \in {"idle", "packet", "options", "udp", "ip", "ethernet", "filled"}

\* Read with the structures of prdk.c, the frame that packet.c and dhcp.c have
\* written with theirs is a UDP broadcast from the board: byte orders, offsets
\* and the three nested lengths agree.
HeadersAgree ==
  pc = "filled" =>
    /\ Read(0, ether_header, "ether_dhost") = [i \in 1 .. 6 |-> 255]
    /\ Read(0, ether_header, "ether_shost") = mac
    /\ ntoh16(Read(0, ether_header, "ether_type")) = 2048
    /\ Read(AtIp, ip, "ip_v_hl") = <<64 + SizeOf(ip) \div 4>>
    /\ AtIp + ntoh16(Read(AtIp, ip, "ip_len")) = RawSize
    /\ Read(AtIp, ip, "ip_p") = <<17>>
    /\ Read(AtIp, ip, "ip_src") = <<0, 0, 0, 0>>
    /\ Read(AtIp, ip, "ip_dst") = <<255, 255, 255, 255>>
    /\ AtUdp + ntoh16(Read(AtUdp, udphdr, "uh_ulen")) = RawSize

\* A server that walks the options finds a discover and what is asked for, and
\* the end of the options inside the datagram; the id and the address of the
\* board are where it echoes them from, the id in network byte order.
DiscoverParses ==
  pc = "filled" =>
    /\ OptionsFrom[AtDhcp + 240] = {<<53, <<1>>>>, <<55, <<1, 3, 6, 42>>>>}
    /\ [k \in 1 .. 4 |-> raw[AtDhcp + 4 + 4 - k]] = id
    /\ [k \in 1 .. 6 |-> raw[AtDhcp + 28 + k - 1]] = mac
    /\ [k \in 1 .. 4 |-> raw[AtDhcp + 236 + k - 1]] = <<99, 130, 83, 99>>

\* No part of the frame is written over another: a later store never changes
\* a byte that an earlier one has set, however the offsets are derived.
NothingOverwritten ==
  [][pc # "idle" => \A i \in DOMAIN raw : raw[i] # 0 => raw'[i] = raw[i]]_vars
=============================================================================
