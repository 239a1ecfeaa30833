--------------------------- MODULE Discover_proofs ---------------------------
(***************************************************************************)
(* What the steps of DHCPSendDiscover leave in raw_packet, byte by byte,   *)
(* and that a reader who uses the other structures finds in it what was    *)
(* meant.  The inductive invariant, DInv, says for each place in the code  *)
(* which bytes are as they will be and which are still zero.               *)
(***************************************************************************)
EXTENDS Discover, Headers_proofs, FiniteSetTheorems

(***************************************************************************)
(* Where things lie.                                                       *)
(***************************************************************************)

\* DHCPPacket.
LEMMA DHCPPacketLayout ==
  /\ SizeOf(DHCPPacket) = 240
  /\ Span(DHCPPacket, "message_type") = 0 .. 0
  /\ Span(DHCPPacket, "hardware_type") = 1 .. 1
  /\ Span(DHCPPacket, "hardware_address_length") = 2 .. 2
  /\ Span(DHCPPacket, "transaction_id") = 4 .. 7
  /\ Span(DHCPPacket, "client_hardware_address") = 28 .. 43
  /\ Span(DHCPPacket, "magic_cookie") = 236 .. 239
<1> DEFINE s == DHCPPacket
           e == [k \in 0 .. 15 |->
                   IF k = 0 THEN 0
                   ELSE <<1, 2, 3, 4, 8, 10, 12, 16, 20, 24, 28, 44, 108, 236, 240>>[k]]
           t == <<Octet("message_type"), Octet("hardware_type"),
                  Octet("hardware_address_length"), Octet("hops"),
                  Word("transaction_id"), Short("seconds_elapsed"),
                  Short("bootp_flags"), Word("client_address"),
                  Word("your_client_address"), Word("next_server_address"),
                  Word("relay_agent_address"),
                  Array("client_hardware_address", 16),
                  Array("server_host_name", 64), Array("boot_file_name", 128),
                  Word("magic_cookie")>>
<1>1. /\ Len(s) = 15 /\ DOMAIN s = 1 .. 15
      /\ \A k \in 1 .. 15 : /\ s[k].size = t[k].size /\ s[k].align = 1
                            /\ s[k].name = t[k].name
  <2>1. s = Packed(t)
    BY DEF DHCPPacket
  <2>2. DOMAIN t = 1 .. 15 /\ \A k \in 1 .. 15 : Member(t[k])
    BY DEF Member, Array, Octet, Short, Word
  <2> HIDE DEF s, t
  <2>3. 15 \in Nat
    OBVIOUS
  <2> QED BY <2>1, <2>2, <2>3, PackedIs
<1>2. /\ s[1].size = 1 /\ s[2].size = 1 /\ s[3].size = 1 /\ s[4].size = 1
      /\ s[5].size = 4 /\ s[6].size = 2 /\ s[7].size = 2 /\ s[8].size = 4
      /\ s[9].size = 4 /\ s[10].size = 4 /\ s[11].size = 4 /\ s[12].size = 16
      /\ s[13].size = 64 /\ s[14].size = 128 /\ s[15].size = 4
      /\ s[1].align = 1 /\ s[2].align = 1 /\ s[3].align = 1 /\ s[4].align = 1
      /\ s[5].align = 1 /\ s[6].align = 1 /\ s[7].align = 1 /\ s[8].align = 1
      /\ s[9].align = 1 /\ s[10].align = 1 /\ s[11].align = 1 /\ s[12].align = 1
      /\ s[13].align = 1 /\ s[14].align = 1 /\ s[15].align = 1
      /\ s[1].name = "message_type" /\ s[2].name = "hardware_type"
      /\ s[3].name = "hardware_address_length" /\ s[4].name = "hops"
      /\ s[5].name = "transaction_id" /\ s[6].name = "seconds_elapsed"
      /\ s[7].name = "bootp_flags" /\ s[8].name = "client_address"
      /\ s[9].name = "your_client_address" /\ s[10].name = "next_server_address"
      /\ s[11].name = "relay_agent_address" /\ s[12].name = "client_hardware_address"
      /\ s[13].name = "server_host_name" /\ s[14].name = "boot_file_name"
      /\ s[15].name = "magic_cookie"
  <2>1. /\ t[1].size = 1 /\ t[2].size = 1 /\ t[3].size = 1 /\ t[4].size = 1
        /\ t[5].size = 4 /\ t[6].size = 2 /\ t[7].size = 2 /\ t[8].size = 4
        /\ t[9].size = 4 /\ t[10].size = 4 /\ t[11].size = 4 /\ t[12].size = 16
        /\ t[13].size = 64 /\ t[14].size = 128 /\ t[15].size = 4
        /\ t[1].name = "message_type" /\ t[2].name = "hardware_type"
        /\ t[3].name = "hardware_address_length" /\ t[4].name = "hops"
        /\ t[5].name = "transaction_id" /\ t[6].name = "seconds_elapsed"
        /\ t[7].name = "bootp_flags" /\ t[8].name = "client_address"
        /\ t[9].name = "your_client_address" /\ t[10].name = "next_server_address"
        /\ t[11].name = "relay_agent_address"
        /\ t[12].name = "client_hardware_address" /\ t[13].name = "server_host_name"
        /\ t[14].name = "boot_file_name" /\ t[15].name = "magic_cookie"
    BY DEF Array, Octet, Short, Word
  <2> HIDE DEF s, t
  <2> QED BY <1>1, <2>1
<1> HIDE DEF s, t
<1>3. /\ e[0] = 0 /\ e[1] = 1 /\ e[2] = 2 /\ e[3] = 3 /\ e[4] = 4 /\ e[5] = 8
      /\ e[6] = 10 /\ e[7] = 12 /\ e[8] = 16 /\ e[9] = 20 /\ e[10] = 24 /\ e[11] = 28
      /\ e[12] = 44 /\ e[13] = 108 /\ e[14] = 236 /\ e[15] = 240
  OBVIOUS
<1> HIDE DEF e
<1>4. LaidOut(s, 15, 1, e)
  <2>1. /\ \A k \in 1 .. 15 : s[k].align \in Nat /\ s[k].align <= 1
        /\ \E k \in 1 .. 15 : s[k].align = 1
    BY <1>2
  <2>2. \A k \in 1 .. 15 : e[k] = AlignUp(e[k - 1], s[k].align) + s[k].size
    BY <1>2, <1>3 DEF AlignUp
  <2>3. \A k, j \in 1 .. 15 : s[k].name = s[j].name => k = j
    BY <1>2
  <2> QED BY <1>1, <1>3, <2>1, <2>2, <2>3 DEF LaidOut
<1>5. /\ SizeOf(s) = AlignUp(e[15], 1)
      /\ \A k \in 1 .. 15 : Span(s, s[k].name) = e[k] - s[k].size .. e[k] - 1
  BY <1>4, Layout
<1>6. SizeOf(s) = 240
  BY <1>3, <1>5 DEF AlignUp
<1>7. /\ Span(s, s[1].name) = e[1] - s[1].size .. e[1] - 1
      /\ Span(s, s[2].name) = e[2] - s[2].size .. e[2] - 1
      /\ Span(s, s[3].name) = e[3] - s[3].size .. e[3] - 1
      /\ Span(s, s[5].name) = e[5] - s[5].size .. e[5] - 1
      /\ Span(s, s[12].name) = e[12] - s[12].size .. e[12] - 1
      /\ Span(s, s[15].name) = e[15] - s[15].size .. e[15] - 1
  BY <1>5
<1>8. /\ Span(s, "message_type") = 0 .. 0 /\ Span(s, "hardware_type") = 1 .. 1
      /\ Span(s, "hardware_address_length") = 2 .. 2
      /\ Span(s, "transaction_id") = 4 .. 7
      /\ Span(s, "client_hardware_address") = 28 .. 43
      /\ Span(s, "magic_cookie") = 236 .. 239
  BY <1>2, <1>3, <1>7
<1> QED BY <1>6, <1>8 DEF s

\* The lengths of the frame, and of what it carries.
LEMMA FrameSizes ==
  /\ DHCP_DISCOVER_PACKET_SIZE = 256 /\ RawSize = 298 /\ OptionsOffset = 282
  /\ AtIp = 14 /\ AtUdp = 34 /\ AtDhcp = 42
<1>1. DHCP_DISCOVER_PACKET_SIZE = 256
  BY DHCPPacketLayout DEF DHCP_DISCOVER_PACKET_SIZE
<1>2. RawSize = 298 /\ OptionsOffset = 282
  BY <1>1, DHCPPacketLayout, Offsets DEF RawSize, OptionsOffset
<1>3. AtIp = 14 /\ AtUdp = 34 /\ AtDhcp = 42
  BY EtherHeaderLayout, IpLayout, UdphdrLayout DEF AtIp, AtUdp, AtDhcp
<1> QED BY <1>1, <1>2, <1>3

\* A store of n bytes at offset a.
IsStore(s, a, n, bytes) ==
  DOMAIN s = a .. a + n - 1 /\ \A i \in a .. a + n - 1 : s[i] = bytes[i - a + 1]

\* A store to a member goes to where it lies.
LEMMA StoreIs ==
  ASSUME NEW base \in Nat, NEW s, NEW f, NEW p \in Nat, NEW q \in Nat, p <= q,
         Span(s, f) = p .. q, NEW bytes, NEW n \in Nat, Len(bytes) = n
  PROVE  IsStore(Store(base, s, f, bytes), base + p, n, bytes)
<1> DEFINE first == CHOOSE i \in Span(s, f) : \A j \in Span(s, f) : i <= j
<1>1. first = p
  <2>1. p \in Span(s, f) /\ \A j \in Span(s, f) : p <= j
    OBVIOUS
  <2>2. first \in Span(s, f) /\ \A j \in Span(s, f) : first <= j
    BY <2>1
  <2> HIDE DEF first
  <2>3. first \in Nat /\ first <= p /\ p <= first
    BY <2>1, <2>2
  <2> QED BY <2>3
<1>2. Store(base, s, f, bytes) = [i \in base + first .. base + first + n - 1 |->
                                    bytes[i - base - first + 1]]
  BY DEF Store
<1> HIDE DEF first
<1>3. Store(base, s, f, bytes) = [i \in base + p .. base + p + n - 1 |->
                                    bytes[i - base - p + 1]]
  BY <1>1, <1>2
<1>4. \A i \in base + p .. base + p + n - 1 : i - base - p + 1 = i - (base + p) + 1
  OBVIOUS
<1> QED BY <1>3, <1>4 DEF IsStore

\* raw_packet, as memory.
Frame(r) == r = [i \in 0 .. 297 |-> r[i]]

\* Memory t is r after n bytes were stored at offset a.
Changed(r, t, a, n, bytes) ==
  /\ Frame(t)
  /\ \A i \in a .. a + n - 1 : t[i] = bytes[i - a + 1]
  /\ \A i \in (0 .. 297) \ (a .. a + n - 1) : t[i] = r[i]

\* What a store changes, and what it leaves.
LEMMA StoreChanges ==
  ASSUME NEW r, Frame(r), NEW a \in Nat, NEW n \in Nat, a + n <= 298,
         NEW bytes, NEW s, IsStore(s, a, n, bytes)
  PROVE  Changed(r, r ++ s, a, n, bytes)
<1>1. Frame(r ++ s)
  BY DEF ++, Frame
<1>2. ASSUME NEW i \in a .. a + n - 1
      PROVE  (r ++ s)[i] = bytes[i - a + 1]
  <2>1. i \in 0 .. 297
    OBVIOUS
  <2>2. DOMAIN r = 0 .. 297
    BY DEF Frame
  <2>3. i \in DOMAIN s /\ s[i] = bytes[i - a + 1]
    BY DEF IsStore
  <2> QED BY <2>1, <2>2, <2>3 DEF ++
<1>3. ASSUME NEW i \in (0 .. 297) \ (a .. a + n - 1)
      PROVE  (r ++ s)[i] = r[i]
  BY DEF ++, IsStore, Frame
<1> QED BY <1>1, <1>2, <1>3 DEF Changed

\* n bytes for member f of the structure s at base go to offset a.
Goes(base, s, f, a, n) ==
  /\ base \in Nat /\ n \in Nat /\ a + n <= 298
  /\ \E p, q \in Nat : p <= q /\ Span(s, f) = p .. q /\ a = base + p

\* The same for a store to a member of a structure in the frame.
LEMMA MemberChanges ==
  ASSUME NEW r, Frame(r), NEW base, NEW s, NEW f, NEW a, NEW n, Goes(base, s, f, a, n),
         NEW bytes, Len(bytes) = n, NEW t, t = r ++ Store(base, s, f, bytes)
  PROVE  Changed(r, t, a, n, bytes)
<1>1. PICK p, q \in Nat : p <= q /\ Span(s, f) = p .. q /\ a = base + p
  BY DEF Goes
<1>2. base \in Nat /\ n \in Nat /\ a \in Nat /\ a + n <= 298
  BY <1>1 DEF Goes
<1>3. IsStore(Store(base, s, f, bytes), a, n, bytes)
  BY <1>1, <1>2, StoreIs
<1> QED BY <1>2, <1>3, StoreChanges

\* Member f of the structure s at base lies from p to q in it.
Lies(base, s, f, p, q) ==
  base \in Nat /\ p \in Nat /\ q \in Nat /\ p <= q /\ Span(s, f) = p .. q

\* v is what lies there.
Found(v, base, p, q) == v = [k \in 1 .. q - p + 1 |-> raw[base + p + k - 1]]

\* What a reader finds in a member.
LEMMA ReadIs ==
  ASSUME NEW base, NEW s, NEW f, NEW p, NEW q, Lies(base, s, f, p, q)
  PROVE  Found(Read(base, s, f), base, p, q)
<1> USE DEF Lies, Found
<1> DEFINE span == {base + i : i \in Span(s, f)}
           first == CHOOSE i \in span : \A j \in span : i <= j
<1>1. span = base + p .. base + q
  <2>1. \A j \in base + p .. base + q : j = base + (j - base) /\ j - base \in Span(s, f)
    OBVIOUS
  <2>2. \A i \in Span(s, f) : base + i \in base + p .. base + q
    OBVIOUS
  <2>3. span \subseteq base + p .. base + q
    BY <2>2
  <2>4. base + p .. base + q \subseteq span
    BY <2>1
  <2> QED BY <2>3, <2>4
<1>2. Read(base, s, f) = [k \in 1 .. Cardinality(span) |-> raw[first + k - 1]]
  BY DEF Read
<1> HIDE DEF span
<1>3. first = base + p
  <2>1. base + p \in span /\ \A j \in span : base + p <= j
    BY <1>1
  <2>2. first \in span /\ \A j \in span : first <= j
    BY <2>1
  <2> HIDE DEF first
  <2>3. first \in Nat /\ first <= base + p /\ base + p <= first
    BY <1>1, <2>1, <2>2
  <2> QED BY <2>3
<1>4. Cardinality(span) = q - p + 1
  <2>1. base + p \in Int /\ base + q \in Int /\ ~(base + p > base + q)
    OBVIOUS
  <2>2. Cardinality(span) = (base + q) - (base + p) + 1
    BY <1>1, <2>1, FS_Interval
  <2> QED BY <2>2
<1> HIDE DEF first
<1> QED BY <1>2, <1>3, <1>4

(***************************************************************************)
(* The steps.                                                              *)
(***************************************************************************)

\* Where its stores go.
LEMMA DHCPPacketPlaces ==
  /\ Goes(42, DHCPPacket, "message_type", 42, 1)
  /\ Goes(42, DHCPPacket, "hardware_type", 43, 1)
  /\ Goes(42, DHCPPacket, "hardware_address_length", 44, 1)
  /\ Goes(42, DHCPPacket, "transaction_id", 46, 4)
  /\ Goes(42, DHCPPacket, "client_hardware_address", 70, 6)
  /\ Goes(42, DHCPPacket, "magic_cookie", 278, 4)
<1>1. Goes(42, DHCPPacket, "message_type", 42, 1)
  <2>1. Span(DHCPPacket, "message_type") = 0 .. 0
    BY DHCPPacketLayout
  <2>2. /\ 0 \in Nat /\ 0 \in Nat /\ 0 <= 0 /\ 42 = 42 + 0
        /\ 42 \in Nat /\ 1 \in Nat /\ 42 + 1 <= 298
    OBVIOUS
  <2> QED BY <2>1, <2>2, Zenon DEF Goes
<1>2. Goes(42, DHCPPacket, "hardware_type", 43, 1)
  <2>1. Span(DHCPPacket, "hardware_type") = 1 .. 1
    BY DHCPPacketLayout
  <2>2. /\ 1 \in Nat /\ 1 \in Nat /\ 1 <= 1 /\ 43 = 42 + 1
        /\ 42 \in Nat /\ 1 \in Nat /\ 43 + 1 <= 298
    OBVIOUS
  <2> QED BY <2>1, <2>2, Zenon DEF Goes
<1>3. Goes(42, DHCPPacket, "hardware_address_length", 44, 1)
  <2>1. Span(DHCPPacket, "hardware_address_length") = 2 .. 2
    BY DHCPPacketLayout
  <2>2. /\ 2 \in Nat /\ 2 \in Nat /\ 2 <= 2 /\ 44 = 42 + 2
        /\ 42 \in Nat /\ 1 \in Nat /\ 44 + 1 <= 298
    OBVIOUS
  <2> QED BY <2>1, <2>2, Zenon DEF Goes
<1>4. Goes(42, DHCPPacket, "transaction_id", 46, 4)
  <2>1. Span(DHCPPacket, "transaction_id") = 4 .. 7
    BY DHCPPacketLayout
  <2>2. /\ 4 \in Nat /\ 7 \in Nat /\ 4 <= 7 /\ 46 = 42 + 4
        /\ 42 \in Nat /\ 4 \in Nat /\ 46 + 4 <= 298
    OBVIOUS
  <2> QED BY <2>1, <2>2, Zenon DEF Goes
<1>5. Goes(42, DHCPPacket, "client_hardware_address", 70, 6)
  <2>1. Span(DHCPPacket, "client_hardware_address") = 28 .. 43
    BY DHCPPacketLayout
  <2>2. /\ 28 \in Nat /\ 43 \in Nat /\ 28 <= 43 /\ 70 = 42 + 28
        /\ 42 \in Nat /\ 6 \in Nat /\ 70 + 6 <= 298
    OBVIOUS
  <2> QED BY <2>1, <2>2, Zenon DEF Goes
<1>6. Goes(42, DHCPPacket, "magic_cookie", 278, 4)
  <2>1. Span(DHCPPacket, "magic_cookie") = 236 .. 239
    BY DHCPPacketLayout
  <2>2. /\ 236 \in Nat /\ 239 \in Nat /\ 236 <= 239 /\ 278 = 42 + 236
        /\ 42 \in Nat /\ 4 \in Nat /\ 278 + 4 <= 298
    OBVIOUS
  <2> QED BY <2>1, <2>2, Zenon DEF Goes
<1> QED BY <1>1, <1>2, <1>3, <1>4, <1>5, <1>6

\* What DHCPSendDiscover sets of its packet before the options.
LEMMA DHCPFilled ==
  ASSUME FillDHCP, Frame(raw), mac \in [1 .. 6 -> Byte]
  PROVE  /\ Frame(raw')
         /\ raw'[42] = 1
         /\ raw'[43] = 1
         /\ raw'[44] = 6
         /\ raw'[46] = id[4] /\ raw'[47] = id[3] /\ raw'[48] = id[2] /\ raw'[49] = id[1]
         /\ raw'[70] = mac[1] /\ raw'[71] = mac[2] /\ raw'[72] = mac[3]
         /\ raw'[73] = mac[4] /\ raw'[74] = mac[5] /\ raw'[75] = mac[6]
         /\ raw'[278] = 99 /\ raw'[279] = 130 /\ raw'[280] = 83 /\ raw'[281] = 99
         /\ \A i \in (0 .. 297) \ ((42 .. 44) \cup (46 .. 49) \cup (70 .. 75) \cup (278 .. 281)) :
              raw'[i] = raw[i]
<1> DEFINE to(f, bytes) == Store(42, DHCPPacket, f, bytes)
           r1 == raw ++ to("message_type", <<1>>)
           r2 == r1 ++ to("hardware_type", <<1>>)
           r3 == r2 ++ to("hardware_address_length", <<6>>)
           r4 == r3 ++ to("transaction_id", SWAP_BYTES_U32(id))
           r5 == r4 ++ to("client_hardware_address", mac)
           r6 == r5 ++ to("magic_cookie", <<99, 130, 83, 99>>)
           Set1(r) == r[42] = 1
           Set2(r) == Set1(r) /\ r[43] = 1
           Set3(r) == Set2(r) /\ r[44] = 6
           Set4(r) == /\ Set3(r) /\ r[46] = id[4] /\ r[47] = id[3] /\ r[48] = id[2]
                      /\ r[49] = id[1]
           Set5(r) == /\ Set4(r) /\ r[70] = mac[1] /\ r[71] = mac[2]
                      /\ r[72] = mac[3] /\ r[73] = mac[4] /\ r[74] = mac[5]
                      /\ r[75] = mac[6]
           Set6(r) == /\ Set5(r) /\ r[278] = 99 /\ r[279] = 130 /\ r[280] = 83
                      /\ r[281] = 99
<1>1. raw' = r6
  BY FrameSizes, Offsets, DHCPPacketLayout DEF FillDHCP
<1>2. /\ Frame(r1) /\ Set1(r1)
      /\ \A i \in (0 .. 297) \ (42 .. 42) :
           r1[i] = raw[i]
  <2> DEFINE bytes == <<1>>
  <2>1. r1 = raw ++ Store(42, DHCPPacket, "message_type", bytes)
    OBVIOUS
  <2>2. Len(bytes) = 1
    OBVIOUS
  <2> HIDE DEF r1, bytes
  <2>3. Frame(raw) /\ Goes(42, DHCPPacket, "message_type", 42, 1)
    BY DHCPPacketPlaces
  <2>4. Changed(raw, r1, 42, 1, bytes)
    BY <2>1, <2>2, <2>3, MemberChanges
  <2> QED BY <2>4 DEF Changed, bytes
<1> HIDE DEF r1
<1>3. /\ Frame(r2) /\ Set2(r2)
      /\ \A i \in (0 .. 297) \ (42 .. 43) :
           r2[i] = raw[i]
  <2> DEFINE bytes == <<1>>
  <2>1. r2 = r1 ++ Store(42, DHCPPacket, "hardware_type", bytes)
    OBVIOUS
  <2>2. Len(bytes) = 1
    OBVIOUS
  <2> HIDE DEF r2, bytes
  <2>3. Frame(r1) /\ Goes(42, DHCPPacket, "hardware_type", 43, 1)
    BY <1>2, DHCPPacketPlaces
  <2>4. Changed(r1, r2, 43, 1, bytes)
    BY <2>1, <2>2, <2>3, MemberChanges
  <2> QED BY <1>2, <2>4 DEF Changed, bytes
<1> HIDE DEF r2
<1>4. /\ Frame(r3) /\ Set3(r3)
      /\ \A i \in (0 .. 297) \ (42 .. 44) :
           r3[i] = raw[i]
  <2> DEFINE bytes == <<6>>
  <2>1. r3 = r2 ++ Store(42, DHCPPacket, "hardware_address_length", bytes)
    OBVIOUS
  <2>2. Len(bytes) = 1
    OBVIOUS
  <2> HIDE DEF r3, bytes
  <2>3. Frame(r2) /\ Goes(42, DHCPPacket, "hardware_address_length", 44, 1)
    BY <1>3, DHCPPacketPlaces
  <2>4. Changed(r2, r3, 44, 1, bytes)
    BY <2>1, <2>2, <2>3, MemberChanges
  <2> QED BY <1>3, <2>4 DEF Changed, bytes
<1> HIDE DEF r3
<1>5. /\ Frame(r4) /\ Set4(r4)
      /\ \A i \in (0 .. 297) \ ((42 .. 44) \cup (46 .. 49)) :
           r4[i] = raw[i]
  <2> DEFINE bytes == <<id[4], id[3], id[2], id[1]>>
  <2>1. r4 = r3 ++ Store(42, DHCPPacket, "transaction_id", bytes)
    BY DEF SWAP_BYTES_U32
  <2>2. Len(bytes) = 4
    OBVIOUS
  <2> HIDE DEF r4, bytes
  <2>3. Frame(r3) /\ Goes(42, DHCPPacket, "transaction_id", 46, 4)
    BY <1>4, DHCPPacketPlaces
  <2>4. Changed(r3, r4, 46, 4, bytes)
    BY <2>1, <2>2, <2>3, MemberChanges
  <2> QED BY <1>4, <2>4 DEF Changed, bytes
<1> HIDE DEF r4
<1>6. /\ Frame(r5) /\ Set5(r5)
      /\ \A i \in (0 .. 297) \ ((42 .. 44) \cup (46 .. 49) \cup (70 .. 75)) :
           r5[i] = raw[i]
  <2> DEFINE bytes == mac
  <2>1. r5 = r4 ++ Store(42, DHCPPacket, "client_hardware_address", bytes)
    OBVIOUS
  <2>2. Len(bytes) = 6
    OBVIOUS
  <2> HIDE DEF r5, bytes
  <2>3. Frame(r4) /\ Goes(42, DHCPPacket, "client_hardware_address", 70, 6)
    BY <1>5, DHCPPacketPlaces
  <2>4. Changed(r4, r5, 70, 6, bytes)
    BY <2>1, <2>2, <2>3, MemberChanges
  <2> QED BY <1>5, <2>4 DEF Changed, bytes
<1> HIDE DEF r5
<1>7. /\ Frame(r6) /\ Set6(r6)
      /\ \A i \in (0 .. 297) \ ((42 .. 44) \cup (46 .. 49) \cup (70 .. 75) \cup (278 .. 281)) :
           r6[i] = raw[i]
  <2> DEFINE bytes == <<99, 130, 83, 99>>
             at == 278
  <2>1. r6 = r5 ++ Store(42, DHCPPacket, "magic_cookie", bytes)
    OBVIOUS
  <2>2. Len(bytes) = 4
    OBVIOUS
  <2> HIDE DEF r6, bytes, at
  <2>3. Frame(r5) /\ Goes(42, DHCPPacket, "magic_cookie", at, 4)
    BY <1>6, DHCPPacketPlaces DEF at
  <2>4. Changed(r5, r6, at, 4, bytes)
    BY <2>1, <2>2, <2>3, MemberChanges
  <2> QED BY <1>6, <2>4 DEF Changed, bytes, at
<1> HIDE DEF r6
<1> QED BY <1>1, <1>7

\* The ten bytes of options.
LEMMA OptionsFilled ==
  ASSUME FillOptions, Frame(raw)
  PROVE  /\ Frame(raw')
         /\ raw'[282] = 53 /\ raw'[283] = 1 /\ raw'[284] = 1
         /\ raw'[285] = 55 /\ raw'[286] = 4
         /\ raw'[287] = 1 /\ raw'[288] = 3 /\ raw'[289] = 6 /\ raw'[290] = 42
         /\ raw'[291] = 255
         /\ \A i \in (0 .. 297) \ (282 .. 291) : raw'[i] = raw[i]
<1> DEFINE options == <<53, 1, 1, 55, 4, 1, 3, 6, 42, 255>>
           s == [i \in 282 .. 282 + Len(options) - 1 |-> options[i - 282 + 1]]
<1>1. raw' = raw ++ s
  BY FrameSizes DEF FillOptions
<1>2. IsStore(s, 282, 10, options)
  BY DEF IsStore
<1> HIDE DEF s
<1>3. Changed(raw, raw', 282, 10, options)
  <2>1. 282 \in Nat /\ 10 \in Nat /\ 282 + 10 <= 298
    OBVIOUS
  <2> HIDE DEF options
  <2> QED BY <1>1, <1>2, <2>1, StoreChanges
<1> QED BY <1>3 DEF Changed

\* Where its stores go.
LEMMA UDPHeaderPlaces ==
  /\ Goes(34, UDPHeader, "source_port", 34, 2)
  /\ Goes(34, UDPHeader, "destination_port", 36, 2)
  /\ Goes(34, UDPHeader, "length", 38, 2)
<1>1. Goes(34, UDPHeader, "source_port", 34, 2)
  <2>1. Span(UDPHeader, "source_port") = 0 .. 1
    BY UDPHeaderLayout
  <2>2. /\ 0 \in Nat /\ 1 \in Nat /\ 0 <= 1 /\ 34 = 34 + 0
        /\ 34 \in Nat /\ 2 \in Nat /\ 34 + 2 <= 298
    OBVIOUS
  <2> QED BY <2>1, <2>2, Zenon DEF Goes
<1>2. Goes(34, UDPHeader, "destination_port", 36, 2)
  <2>1. Span(UDPHeader, "destination_port") = 2 .. 3
    BY UDPHeaderLayout
  <2>2. /\ 2 \in Nat /\ 3 \in Nat /\ 2 <= 3 /\ 36 = 34 + 2
        /\ 34 \in Nat /\ 2 \in Nat /\ 36 + 2 <= 298
    OBVIOUS
  <2> QED BY <2>1, <2>2, Zenon DEF Goes
<1>3. Goes(34, UDPHeader, "length", 38, 2)
  <2>1. Span(UDPHeader, "length") = 4 .. 5
    BY UDPHeaderLayout
  <2>2. /\ 4 \in Nat /\ 5 \in Nat /\ 4 <= 5 /\ 38 = 34 + 4
        /\ 34 \in Nat /\ 2 \in Nat /\ 38 + 2 <= 298
    OBVIOUS
  <2> QED BY <2>1, <2>2, Zenon DEF Goes
<1> QED BY <1>1, <1>2, <1>3

\* FillUDPHeader sets six bytes; the checksum stays as it was.
LEMMA UDPFilled ==
  ASSUME FillUDPHeader, Frame(raw)
  PROVE  /\ Frame(raw')
         /\ raw'[34] = 0 /\ raw'[35] = 67
         /\ raw'[36] = 0 /\ raw'[37] = 68
         /\ raw'[38] = 1 /\ raw'[39] = 8
         /\ \A i \in (0 .. 297) \ (34 .. 39) :
              raw'[i] = raw[i]
<1> DEFINE to(f, bytes) == Store(34, UDPHeader, f, bytes)
           r1 == raw ++ to("source_port", SWAP_BYTES_U16(67))
           r2 == r1 ++ to("destination_port", SWAP_BYTES_U16(68))
           r3 == r2 ++ to("length", SWAP_BYTES_U16(264))
           Set1(r) == r[34] = 0 /\ r[35] = 67
           Set2(r) == Set1(r) /\ r[36] = 0 /\ r[37] = 68
           Set3(r) == Set2(r) /\ r[38] = 1 /\ r[39] = 8
<1>1. raw' = r3
  BY FrameSizes, Offsets, UDPHeaderLayout DEF FillUDPHeader
<1>2. /\ Frame(r1) /\ Set1(r1)
      /\ \A i \in (0 .. 297) \ (34 .. 35) :
           r1[i] = raw[i]
  <2> DEFINE bytes == <<0, 67>>
  <2>1. r1 = raw ++ Store(34, UDPHeader, "source_port", bytes)
    BY DEF SWAP_BYTES_U16
  <2>2. Len(bytes) = 2
    OBVIOUS
  <2> HIDE DEF r1, bytes
  <2>3. Frame(raw) /\ Goes(34, UDPHeader, "source_port", 34, 2)
    BY UDPHeaderPlaces
  <2>4. Changed(raw, r1, 34, 2, bytes)
    BY <2>1, <2>2, <2>3, MemberChanges
  <2> QED BY <2>4 DEF Changed, bytes
<1> HIDE DEF r1
<1>3. /\ Frame(r2) /\ Set2(r2)
      /\ \A i \in (0 .. 297) \ (34 .. 37) :
           r2[i] = raw[i]
  <2> DEFINE bytes == <<0, 68>>
  <2>1. r2 = r1 ++ Store(34, UDPHeader, "destination_port", bytes)
    BY DEF SWAP_BYTES_U16
  <2>2. Len(bytes) = 2
    OBVIOUS
  <2> HIDE DEF r2, bytes
  <2>3. Frame(r1) /\ Goes(34, UDPHeader, "destination_port", 36, 2)
    BY <1>2, UDPHeaderPlaces
  <2>4. Changed(r1, r2, 36, 2, bytes)
    BY <2>1, <2>2, <2>3, MemberChanges
  <2> QED BY <1>2, <2>4 DEF Changed, bytes
<1> HIDE DEF r2
<1>4. /\ Frame(r3) /\ Set3(r3)
      /\ \A i \in (0 .. 297) \ (34 .. 39) :
           r3[i] = raw[i]
  <2> DEFINE bytes == <<1, 8>>
  <2>1. r3 = r2 ++ Store(34, UDPHeader, "length", bytes)
    BY DEF SWAP_BYTES_U16
  <2>2. Len(bytes) = 2
    OBVIOUS
  <2> HIDE DEF r3, bytes
  <2>3. Frame(r2) /\ Goes(34, UDPHeader, "length", 38, 2)
    BY <1>3, UDPHeaderPlaces
  <2>4. Changed(r2, r3, 38, 2, bytes)
    BY <2>1, <2>2, <2>3, MemberChanges
  <2> QED BY <1>3, <2>4 DEF Changed, bytes
<1> HIDE DEF r3
<1> QED BY <1>1, <1>4

\* Where its stores go.
LEMMA IPv4HeaderPlaces ==
  /\ Goes(14, IPv4Header, "version_header_length", 14, 1)
  /\ Goes(14, IPv4Header, "type_of_service", 15, 1)
  /\ Goes(14, IPv4Header, "total_length", 16, 2)
  /\ Goes(14, IPv4Header, "flags", 20, 2)
  /\ Goes(14, IPv4Header, "ttl", 22, 1)
  /\ Goes(14, IPv4Header, "protocol", 23, 1)
  /\ Goes(14, IPv4Header, "source", 26, 4)
  /\ Goes(14, IPv4Header, "destination", 30, 4)
<1>1. Goes(14, IPv4Header, "version_header_length", 14, 1)
  <2>1. Span(IPv4Header, "version_header_length") = 0 .. 0
    BY IPv4HeaderLayout
  <2>2. /\ 0 \in Nat /\ 0 \in Nat /\ 0 <= 0 /\ 14 = 14 + 0
        /\ 14 \in Nat /\ 1 \in Nat /\ 14 + 1 <= 298
    OBVIOUS
  <2> QED BY <2>1, <2>2, Zenon DEF Goes
<1>2. Goes(14, IPv4Header, "type_of_service", 15, 1)
  <2>1. Span(IPv4Header, "type_of_service") = 1 .. 1
    BY IPv4HeaderLayout
  <2>2. /\ 1 \in Nat /\ 1 \in Nat /\ 1 <= 1 /\ 15 = 14 + 1
        /\ 14 \in Nat /\ 1 \in Nat /\ 15 + 1 <= 298
    OBVIOUS
  <2> QED BY <2>1, <2>2, Zenon DEF Goes
<1>3. Goes(14, IPv4Header, "total_length", 16, 2)
  <2>1. Span(IPv4Header, "total_length") = 2 .. 3
    BY IPv4HeaderLayout
  <2>2. /\ 2 \in Nat /\ 3 \in Nat /\ 2 <= 3 /\ 16 = 14 + 2
        /\ 14 \in Nat /\ 2 \in Nat /\ 16 + 2 <= 298
    OBVIOUS
  <2> QED BY <2>1, <2>2, Zenon DEF Goes
<1>4. Goes(14, IPv4Header, "flags", 20, 2)
  <2>1. Span(IPv4Header, "flags") = 6 .. 7
    BY IPv4HeaderLayout
  <2>2. /\ 6 \in Nat /\ 7 \in Nat /\ 6 <= 7 /\ 20 = 14 + 6
        /\ 14 \in Nat /\ 2 \in Nat /\ 20 + 2 <= 298
    OBVIOUS
  <2> QED BY <2>1, <2>2, Zenon DEF Goes
<1>5. Goes(14, IPv4Header, "ttl", 22, 1)
  <2>1. Span(IPv4Header, "ttl") = 8 .. 8
    BY IPv4HeaderLayout
  <2>2. /\ 8 \in Nat /\ 8 \in Nat /\ 8 <= 8 /\ 22 = 14 + 8
        /\ 14 \in Nat /\ 1 \in Nat /\ 22 + 1 <= 298
    OBVIOUS
  <2> QED BY <2>1, <2>2, Zenon DEF Goes
<1>6. Goes(14, IPv4Header, "protocol", 23, 1)
  <2>1. Span(IPv4Header, "protocol") = 9 .. 9
    BY IPv4HeaderLayout
  <2>2. /\ 9 \in Nat /\ 9 \in Nat /\ 9 <= 9 /\ 23 = 14 + 9
        /\ 14 \in Nat /\ 1 \in Nat /\ 23 + 1 <= 298
    OBVIOUS
  <2> QED BY <2>1, <2>2, Zenon DEF Goes
<1>7. Goes(14, IPv4Header, "source", 26, 4)
  <2>1. Span(IPv4Header, "source") = 12 .. 15
    BY IPv4HeaderLayout
  <2>2. /\ 12 \in Nat /\ 15 \in Nat /\ 12 <= 15 /\ 26 = 14 + 12
        /\ 14 \in Nat /\ 4 \in Nat /\ 26 + 4 <= 298
    OBVIOUS
  <2> QED BY <2>1, <2>2, Zenon DEF Goes
<1>8. Goes(14, IPv4Header, "destination", 30, 4)
  <2>1. Span(IPv4Header, "destination") = 16 .. 19
    BY IPv4HeaderLayout
  <2>2. /\ 16 \in Nat /\ 19 \in Nat /\ 16 <= 19 /\ 30 = 14 + 16
        /\ 14 \in Nat /\ 4 \in Nat /\ 30 + 4 <= 298
    OBVIOUS
  <2> QED BY <2>1, <2>2, Zenon DEF Goes
<1> QED BY <1>1, <1>2, <1>3, <1>4, <1>5, <1>6, <1>7, <1>8

\* FillIPv4Header leaves the identification and the checksum.
LEMMA IPv4Filled ==
  ASSUME FillIPv4Header, Frame(raw)
  PROVE  /\ Frame(raw')
         /\ raw'[14] = 69
         /\ raw'[15] = 0
         /\ raw'[16] = 1 /\ raw'[17] = 28
         /\ raw'[20] = 0 /\ raw'[21] = 0
         /\ raw'[22] = 128
         /\ raw'[23] = 17
         /\ raw'[26] = 0 /\ raw'[27] = 0 /\ raw'[28] = 0 /\ raw'[29] = 0
         /\ raw'[30] = 255 /\ raw'[31] = 255 /\ raw'[32] = 255 /\ raw'[33] = 255
         /\ \A i \in (0 .. 297) \ ((14 .. 17) \cup (20 .. 23) \cup (26 .. 33)) :
              raw'[i] = raw[i]
<1> DEFINE to(f, bytes) == Store(14, IPv4Header, f, bytes)
           r1 == raw ++ to("version_header_length", <<69>>)
           r2 == r1 ++ to("type_of_service", <<0>>)
           r3 == r2 ++ to("total_length", SWAP_BYTES_U16(284))
           r4 == r3 ++ to("flags", <<0, 0>>)
           r5 == r4 ++ to("ttl", <<128>>)
           r6 == r5 ++ to("protocol", <<17>>)
           r7 == r6 ++ to("source", <<0, 0, 0, 0>>)
           r8 == r7 ++ to("destination", <<255, 255, 255, 255>>)
           Set1(r) == r[14] = 69
           Set2(r) == Set1(r) /\ r[15] = 0
           Set3(r) == Set2(r) /\ r[16] = 1 /\ r[17] = 28
           Set4(r) == Set3(r) /\ r[20] = 0 /\ r[21] = 0
           Set5(r) == Set4(r) /\ r[22] = 128
           Set6(r) == Set5(r) /\ r[23] = 17
           Set7(r) == Set6(r) /\ r[26] = 0 /\ r[27] = 0 /\ r[28] = 0 /\ r[29] = 0
           Set8(r) == /\ Set7(r) /\ r[30] = 255 /\ r[31] = 255 /\ r[32] = 255
                      /\ r[33] = 255
<1>1. raw' = r8
  BY FrameSizes, Offsets, IPv4HeaderLayout, UDPHeaderLayout DEF FillIPv4Header
<1>2. /\ Frame(r1) /\ Set1(r1)
      /\ \A i \in (0 .. 297) \ (14 .. 14) :
           r1[i] = raw[i]
  <2> DEFINE bytes == <<69>>
  <2>1. r1 = raw ++ Store(14, IPv4Header, "version_header_length", bytes)
    OBVIOUS
  <2>2. Len(bytes) = 1
    OBVIOUS
  <2> HIDE DEF r1, bytes
  <2>3. Frame(raw) /\ Goes(14, IPv4Header, "version_header_length", 14, 1)
    BY IPv4HeaderPlaces
  <2>4. Changed(raw, r1, 14, 1, bytes)
    BY <2>1, <2>2, <2>3, MemberChanges
  <2> QED BY <2>4 DEF Changed, bytes
<1> HIDE DEF r1
<1>3. /\ Frame(r2) /\ Set2(r2)
      /\ \A i \in (0 .. 297) \ (14 .. 15) :
           r2[i] = raw[i]
  <2> DEFINE bytes == <<0>>
  <2>1. r2 = r1 ++ Store(14, IPv4Header, "type_of_service", bytes)
    OBVIOUS
  <2>2. Len(bytes) = 1
    OBVIOUS
  <2> HIDE DEF r2, bytes
  <2>3. Frame(r1) /\ Goes(14, IPv4Header, "type_of_service", 15, 1)
    BY <1>2, IPv4HeaderPlaces
  <2>4. Changed(r1, r2, 15, 1, bytes)
    BY <2>1, <2>2, <2>3, MemberChanges
  <2> QED BY <1>2, <2>4 DEF Changed, bytes
<1> HIDE DEF r2
<1>4. /\ Frame(r3) /\ Set3(r3)
      /\ \A i \in (0 .. 297) \ (14 .. 17) :
           r3[i] = raw[i]
  <2> DEFINE bytes == <<1, 28>>
  <2>1. r3 = r2 ++ Store(14, IPv4Header, "total_length", bytes)
    BY DEF SWAP_BYTES_U16
  <2>2. Len(bytes) = 2
    OBVIOUS
  <2> HIDE DEF r3, bytes
  <2>3. Frame(r2) /\ Goes(14, IPv4Header, "total_length", 16, 2)
    BY <1>3, IPv4HeaderPlaces
  <2>4. Changed(r2, r3, 16, 2, bytes)
    BY <2>1, <2>2, <2>3, MemberChanges
  <2> QED BY <1>3, <2>4 DEF Changed, bytes
<1> HIDE DEF r3
<1>5. /\ Frame(r4) /\ Set4(r4)
      /\ \A i \in (0 .. 297) \ ((14 .. 17) \cup (20 .. 21)) :
           r4[i] = raw[i]
  <2> DEFINE bytes == <<0, 0>>
  <2>1. r4 = r3 ++ Store(14, IPv4Header, "flags", bytes)
    OBVIOUS
  <2>2. Len(bytes) = 2
    OBVIOUS
  <2> HIDE DEF r4, bytes
  <2>3. Frame(r3) /\ Goes(14, IPv4Header, "flags", 20, 2)
    BY <1>4, IPv4HeaderPlaces
  <2>4. Changed(r3, r4, 20, 2, bytes)
    BY <2>1, <2>2, <2>3, MemberChanges
  <2> QED BY <1>4, <2>4 DEF Changed, bytes
<1> HIDE DEF r4
<1>6. /\ Frame(r5) /\ Set5(r5)
      /\ \A i \in (0 .. 297) \ ((14 .. 17) \cup (20 .. 22)) :
           r5[i] = raw[i]
  <2> DEFINE bytes == <<128>>
  <2>1. r5 = r4 ++ Store(14, IPv4Header, "ttl", bytes)
    OBVIOUS
  <2>2. Len(bytes) = 1
    OBVIOUS
  <2> HIDE DEF r5, bytes
  <2>3. Frame(r4) /\ Goes(14, IPv4Header, "ttl", 22, 1)
    BY <1>5, IPv4HeaderPlaces
  <2>4. Changed(r4, r5, 22, 1, bytes)
    BY <2>1, <2>2, <2>3, MemberChanges
  <2> QED BY <1>5, <2>4 DEF Changed, bytes
<1> HIDE DEF r5
<1>7. /\ Frame(r6) /\ Set6(r6)
      /\ \A i \in (0 .. 297) \ ((14 .. 17) \cup (20 .. 23)) :
           r6[i] = raw[i]
  <2> DEFINE bytes == <<17>>
  <2>1. r6 = r5 ++ Store(14, IPv4Header, "protocol", bytes)
    OBVIOUS
  <2>2. Len(bytes) = 1
    OBVIOUS
  <2> HIDE DEF r6, bytes
  <2>3. Frame(r5) /\ Goes(14, IPv4Header, "protocol", 23, 1)
    BY <1>6, IPv4HeaderPlaces
  <2>4. Changed(r5, r6, 23, 1, bytes)
    BY <2>1, <2>2, <2>3, MemberChanges
  <2> QED BY <1>6, <2>4 DEF Changed, bytes
<1> HIDE DEF r6
<1>8. /\ Frame(r7) /\ Set7(r7)
      /\ \A i \in (0 .. 297) \ ((14 .. 17) \cup (20 .. 23) \cup (26 .. 29)) :
           r7[i] = raw[i]
  <2> DEFINE bytes == <<0, 0, 0, 0>>
  <2>1. r7 = r6 ++ Store(14, IPv4Header, "source", bytes)
    OBVIOUS
  <2>2. Len(bytes) = 4
    OBVIOUS
  <2> HIDE DEF r7, bytes
  <2>3. Frame(r6) /\ Goes(14, IPv4Header, "source", 26, 4)
    BY <1>7, IPv4HeaderPlaces
  <2>4. Changed(r6, r7, 26, 4, bytes)
    BY <2>1, <2>2, <2>3, MemberChanges
  <2> QED BY <1>7, <2>4 DEF Changed, bytes
<1> HIDE DEF r7
<1>9. /\ Frame(r8) /\ Set8(r8)
      /\ \A i \in (0 .. 297) \ ((14 .. 17) \cup (20 .. 23) \cup (26 .. 33)) :
           r8[i] = raw[i]
  <2> DEFINE bytes == <<255, 255, 255, 255>>
  <2>1. r8 = r7 ++ Store(14, IPv4Header, "destination", bytes)
    OBVIOUS
  <2>2. Len(bytes) = 4
    OBVIOUS
  <2> HIDE DEF r8, bytes
  <2>3. Frame(r7) /\ Goes(14, IPv4Header, "destination", 30, 4)
    BY <1>8, IPv4HeaderPlaces
  <2>4. Changed(r7, r8, 30, 4, bytes)
    BY <2>1, <2>2, <2>3, MemberChanges
  <2> QED BY <1>8, <2>4 DEF Changed, bytes
<1> HIDE DEF r8
<1> QED BY <1>1, <1>9

\* Where its stores go.
LEMMA EthernetHeaderPlaces ==
  /\ Goes(0, EthernetHeader, "source", 6, 6)
  /\ Goes(0, EthernetHeader, "destination", 0, 6)
  /\ Goes(0, EthernetHeader, "type", 12, 2)
<1>1. Goes(0, EthernetHeader, "source", 6, 6)
  <2>1. Span(EthernetHeader, "source") = 6 .. 11
    BY EthernetHeaderLayout
  <2>2. /\ 6 \in Nat /\ 11 \in Nat /\ 6 <= 11 /\ 6 = 0 + 6
        /\ 0 \in Nat /\ 6 \in Nat /\ 6 + 6 <= 298
    OBVIOUS
  <2> QED BY <2>1, <2>2, Zenon DEF Goes
<1>2. Goes(0, EthernetHeader, "destination", 0, 6)
  <2>1. Span(EthernetHeader, "destination") = 0 .. 5
    BY EthernetHeaderLayout
  <2>2. /\ 0 \in Nat /\ 5 \in Nat /\ 0 <= 5 /\ 0 = 0 + 0
        /\ 0 \in Nat /\ 6 \in Nat /\ 0 + 6 <= 298
    OBVIOUS
  <2> QED BY <2>1, <2>2, Zenon DEF Goes
<1>3. Goes(0, EthernetHeader, "type", 12, 2)
  <2>1. Span(EthernetHeader, "type") = 12 .. 13
    BY EthernetHeaderLayout
  <2>2. /\ 12 \in Nat /\ 13 \in Nat /\ 12 <= 13 /\ 12 = 0 + 12
        /\ 0 \in Nat /\ 2 \in Nat /\ 12 + 2 <= 298
    OBVIOUS
  <2> QED BY <2>1, <2>2, Zenon DEF Goes
<1> QED BY <1>1, <1>2, <1>3

\* FillEthernetHeader sets all of its header.
LEMMA EthernetFilled ==
  ASSUME FillEthernetHeader, Frame(raw), mac \in [1 .. 6 -> Byte]
  PROVE  /\ Frame(raw')
         /\ raw'[0] = 255 /\ raw'[1] = 255 /\ raw'[2] = 255
         /\ raw'[3] = 255 /\ raw'[4] = 255 /\ raw'[5] = 255
         /\ raw'[6] = mac[1] /\ raw'[7] = mac[2] /\ raw'[8] = mac[3]
         /\ raw'[9] = mac[4] /\ raw'[10] = mac[5] /\ raw'[11] = mac[6]
         /\ raw'[12] = 8 /\ raw'[13] = 0
         /\ \A i \in (0 .. 297) \ (0 .. 13) :
              raw'[i] = raw[i]
<1> DEFINE to(f, bytes) == Store(0, EthernetHeader, f, bytes)
           r1 == raw ++ to("source", mac)
           r2 == r1 ++ to("destination", [i \in 1 .. 6 |-> 255])
           r3 == r2 ++ to("type", SWAP_BYTES_U16(2048))
           Set1(r) == /\ r[6] = mac[1] /\ r[7] = mac[2] /\ r[8] = mac[3]
                      /\ r[9] = mac[4] /\ r[10] = mac[5] /\ r[11] = mac[6]
           Set2(r) == /\ Set1(r) /\ r[0] = 255 /\ r[1] = 255 /\ r[2] = 255
                      /\ r[3] = 255 /\ r[4] = 255 /\ r[5] = 255
           Set3(r) == Set2(r) /\ r[12] = 8 /\ r[13] = 0
<1>1. raw' = r3
  BY FrameSizes, Offsets, EthernetHeaderLayout DEF FillEthernetHeader
<1>2. /\ Frame(r1) /\ Set1(r1)
      /\ \A i \in (0 .. 297) \ (6 .. 11) :
           r1[i] = raw[i]
  <2> DEFINE bytes == mac
  <2>1. r1 = raw ++ Store(0, EthernetHeader, "source", bytes)
    OBVIOUS
  <2>2. Len(bytes) = 6
    OBVIOUS
  <2> HIDE DEF r1, bytes
  <2>3. Frame(raw) /\ Goes(0, EthernetHeader, "source", 6, 6)
    BY EthernetHeaderPlaces
  <2>4. Changed(raw, r1, 6, 6, bytes)
    BY <2>1, <2>2, <2>3, MemberChanges
  <2> QED BY <2>4 DEF Changed, bytes
<1> HIDE DEF r1
<1>3. /\ Frame(r2) /\ Set2(r2)
      /\ \A i \in (0 .. 297) \ (0 .. 11) :
           r2[i] = raw[i]
  <2> DEFINE bytes == [i \in 1 .. 6 |-> 255]
  <2>1. r2 = r1 ++ Store(0, EthernetHeader, "destination", bytes)
    OBVIOUS
  <2>2. Len(bytes) = 6
    OBVIOUS
  <2> HIDE DEF r2, bytes
  <2>3. Frame(r1) /\ Goes(0, EthernetHeader, "destination", 0, 6)
    BY <1>2, EthernetHeaderPlaces
  <2>4. Changed(r1, r2, 0, 6, bytes)
    BY <2>1, <2>2, <2>3, MemberChanges
  <2> QED BY <1>2, <2>4 DEF Changed, bytes
<1> HIDE DEF r2
<1>4. /\ Frame(r3) /\ Set3(r3)
      /\ \A i \in (0 .. 297) \ (0 .. 13) :
           r3[i] = raw[i]
  <2> DEFINE bytes == <<8, 0>>
  <2>1. r3 = r2 ++ Store(0, EthernetHeader, "type", bytes)
    BY DEF SWAP_BYTES_U16
  <2>2. Len(bytes) = 2
    OBVIOUS
  <2> HIDE DEF r3, bytes
  <2>3. Frame(r2) /\ Goes(0, EthernetHeader, "type", 12, 2)
    BY <1>3, EthernetHeaderPlaces
  <2>4. Changed(r2, r3, 12, 2, bytes)
    BY <2>1, <2>2, <2>3, MemberChanges
  <2> QED BY <1>3, <2>4 DEF Changed, bytes
<1> HIDE DEF r3
<1> QED BY <1>1, <1>4

(***************************************************************************)
(* The invariant: at each place in the code, which bytes are zero and what *)
(* the others are, as far as a reader cares.                               *)
(***************************************************************************)
\* What FillDHCP leaves where a server looks.
DHCPSet ==
  /\ raw[46] = id[4] /\ raw[47] = id[3] /\ raw[48] = id[2] /\ raw[49] = id[1]
  /\ raw[70] = mac[1] /\ raw[71] = mac[2] /\ raw[72] = mac[3]
  /\ raw[73] = mac[4] /\ raw[74] = mac[5] /\ raw[75] = mac[6]
  /\ raw[278] = 99 /\ raw[279] = 130 /\ raw[280] = 83 /\ raw[281] = 99

\* What FillOptions leaves.
OptionsSet ==
  /\ raw[282] = 53 /\ raw[283] = 1 /\ raw[284] = 1 /\ raw[285] = 55 /\ raw[286] = 4
  /\ raw[287] = 1 /\ raw[288] = 3 /\ raw[289] = 6 /\ raw[290] = 42 /\ raw[291] = 255

\* The length, as FillUDPHeader leaves it.
UDPSet == raw[38] = 1 /\ raw[39] = 8

\* What FillIPv4Header leaves where the other structure is read.
IPv4Set ==
  /\ raw[14] = 69 /\ raw[16] = 1 /\ raw[17] = 28 /\ raw[23] = 17
  /\ raw[26] = 0 /\ raw[27] = 0 /\ raw[28] = 0 /\ raw[29] = 0
  /\ raw[30] = 255 /\ raw[31] = 255 /\ raw[32] = 255 /\ raw[33] = 255

\* What FillEthernetHeader leaves.
EthernetSet ==
  /\ raw[0] = 255 /\ raw[1] = 255 /\ raw[2] = 255
  /\ raw[3] = 255 /\ raw[4] = 255 /\ raw[5] = 255
  /\ raw[6] = mac[1] /\ raw[7] = mac[2] /\ raw[8] = mac[3]
  /\ raw[9] = mac[4] /\ raw[10] = mac[5] /\ raw[11] = mac[6]
  /\ raw[12] = 8 /\ raw[13] = 0

\* The bytes of S are still zero.
Zero(S) == \A i \in S : raw[i] = 0

\* Memory r holds bytes.
Bytes(r) == \A i \in 0 .. 297 : r[i] \in Byte

\* The types of the other variables.
OthersInv ==
  /\ id \in Ids \cup {<<0, 0, 0, 0>>} /\ mac \in Macs
  /\ pc \in {"idle", "packet", "options", "udp", "ip", "ethernet", "filled"}

\* The types of all variables.
TypeInv == Frame(raw) /\ Bytes(raw) /\ OthersInv

\* What is set and what is zero, at each place.
PlaceInv ==
  /\ pc = "packet" => Zero(0 .. 297)
  /\ pc = "options" => Zero(0 .. 41) /\ Zero(282 .. 297) /\ DHCPSet
  /\ pc = "udp" => Zero(0 .. 41) /\ DHCPSet /\ OptionsSet
  /\ pc = "ip" => Zero(0 .. 33) /\ DHCPSet /\ OptionsSet /\ UDPSet
  /\ pc = "ethernet" => Zero(0 .. 13) /\ DHCPSet /\ OptionsSet /\ UDPSet /\ IPv4Set
  /\ pc = "filled" => DHCPSet /\ OptionsSet /\ UDPSet /\ IPv4Set /\ EthernetSet

\* The inductive invariant.
DInv == TypeInv /\ PlaceInv

\* No byte that has been set changes.
Kept == \A i \in 0 .. 297 : raw[i] # 0 => raw'[i] = raw[i]

\* Addresses and transaction ids are bytes.
LEMMA Numbers ==
  ASSUME TypeInv
  PROVE  /\ mac \in [1 .. 6 -> Byte] /\ \A k \in 1 .. 4 : id[k] \in Byte
         /\ id = [k \in 1 .. 4 |-> id[k]]
<1>1. mac \in Macs /\ (id \in Ids \/ id = <<0, 0, 0, 0>>)
  BY DEF TypeInv, OthersInv
<1>2. mac \in [1 .. 6 -> Byte]
  BY <1>1, DiscoverAssumption
<1>3. CASE id \in Ids
  <2>1. id \in [1 .. 4 -> Byte]
    BY <1>3, DiscoverAssumption
  <2> QED BY <1>2, <2>1
<1>4. CASE id = <<0, 0, 0, 0>>
  BY <1>2, <1>4 DEF Byte
<1> QED BY <1>1, <1>3, <1>4

\* A new packet is all zero.
LEMMA BeginKeeps ==
  ASSUME DInv, Begin
  PROVE  DInv'
<1>1. raw' = [i \in 0 .. 297 |-> 0]
  <2>1. DOMAIN raw = 0 .. 297
    BY DEF DInv, TypeInv, Frame
  <2> QED BY <2>1 DEF Begin
<1>2. Frame(raw') /\ \A i \in 0 .. 297 : raw'[i] = 0
  BY <1>1 DEF Frame
<1>3. TypeInv'
  <2>1. Bytes(raw')
    BY <1>2 DEF Bytes, Byte
  <2>2. OthersInv'
    BY DEF OthersInv, Begin, DInv, TypeInv
  <2> QED BY <1>2, <2>1, <2>2 DEF TypeInv
<1>4. PlaceInv'
  BY <1>2 DEF PlaceInv, Begin, Zero
<1> QED BY <1>3, <1>4 DEF DInv

\* FillDHCP writes over zeros only.
LEMMA DHCPKeeps ==
  ASSUME DInv, FillDHCP
  PROVE  DInv' /\ Kept
<1>1. /\ TypeInv /\ Zero(0 .. 297) /\ Frame(raw) /\ mac \in [1 .. 6 -> Byte]
      /\ \A k \in 1 .. 4 : id[k] \in Byte
  BY Numbers DEF DInv, TypeInv, PlaceInv, FillDHCP
<1> DEFINE S == (42 .. 44) \cup (46 .. 49) \cup (70 .. 75) \cup (278 .. 281)
<1>2. /\ Frame(raw')
      /\ raw'[42] = 1 /\ raw'[43] = 1 /\ raw'[44] = 6 /\ DHCPSet'
      /\ \A i \in (0 .. 297) \ S : raw'[i] = raw[i]
  BY <1>1, DHCPFilled DEF DHCPSet, FillDHCP
<1>3. \A i \in S : raw'[i] \in Byte
  BY <1>1, <1>2 DEF DHCPSet, Byte, FillDHCP
<1> HIDE DEF S
<1>4. TypeInv'
  <2>1. Bytes(raw')
    BY <1>1, <1>2, <1>3 DEF TypeInv, Bytes
  <2>2. OthersInv'
    BY <1>1 DEF TypeInv, OthersInv, FillDHCP
  <2> QED BY <1>2, <2>1, <2>2 DEF TypeInv
<1>5. Zero(0 .. 41)' /\ Zero(282 .. 297)'
  BY <1>1, <1>2 DEF Zero, S
<1>6. PlaceInv'
  BY <1>2, <1>5 DEF PlaceInv, FillDHCP
<1>7. Kept
  BY <1>1 DEF Kept, Zero
<1> QED BY <1>4, <1>6, <1>7 DEF DInv

\* So do the stores of the options.
LEMMA OptionsKeeps ==
  ASSUME DInv, FillOptions
  PROVE  DInv' /\ Kept
<1>1. TypeInv /\ Frame(raw) /\ Zero(0 .. 41) /\ Zero(282 .. 297) /\ DHCPSet
  BY DEF DInv, TypeInv, PlaceInv, FillOptions
<1>2. /\ Frame(raw') /\ OptionsSet'
      /\ \A i \in (0 .. 297) \ (282 .. 291) : raw'[i] = raw[i]
  BY <1>1, OptionsFilled DEF OptionsSet
<1>3. \A i \in 282 .. 291 : raw'[i] \in Byte
  BY <1>2 DEF OptionsSet, Byte
<1>4. TypeInv'
  <2>1. Bytes(raw')
    <3>1. ASSUME NEW i \in 0 .. 297
          PROVE  raw'[i] \in Byte
      <4>1. raw[i] \in Byte
        BY <1>1 DEF TypeInv, Bytes
      <4>2. CASE i \in 282 .. 291
        BY <1>3, <4>2
      <4>3. CASE i \notin 282 .. 291
        BY <1>2, <4>1, <4>3
      <4> QED BY <4>2, <4>3
    <3> QED BY <3>1 DEF Bytes
  <2>2. OthersInv'
    BY <1>1 DEF TypeInv, OthersInv, FillOptions
  <2> QED BY <1>2, <2>1, <2>2 DEF TypeInv
<1>5. Zero(0 .. 41)' /\ DHCPSet'
  <2>1. \A i \in 0 .. 281 : raw'[i] = raw[i]
    BY <1>2
  <2>2. Zero(0 .. 41)'
    BY <1>1, <2>1 DEF Zero
  <2>3. id' = id /\ mac' = mac
    BY DEF FillOptions
  <2>4. DHCPSet'
    BY <1>1, <2>1, <2>3 DEF DHCPSet
  <2> QED BY <2>2, <2>4
<1>6. PlaceInv'
  BY <1>2, <1>5 DEF PlaceInv, FillOptions
<1>7. Kept
  BY <1>1, <1>2 DEF Kept, Zero
<1> QED BY <1>4, <1>6, <1>7 DEF DInv

\* So does FillUDPHeader, and what came before stays.
LEMMA UDPKeeps ==
  ASSUME DInv, FillUDPHeader
  PROVE  DInv' /\ Kept
<1>1. TypeInv /\ Frame(raw) /\ Zero(0 .. 41) /\ DHCPSet /\ OptionsSet
  BY DEF DInv, TypeInv, PlaceInv, FillUDPHeader
<1>2. /\ Frame(raw') /\ UDPSet'
      /\ \A i \in 34 .. 39 : raw'[i] \in Byte
      /\ \A i \in (0 .. 297) \ (34 .. 39) : raw'[i] = raw[i]
  BY <1>1, UDPFilled DEF UDPSet, Byte
<1>3. TypeInv'
  <2>1. Bytes(raw')
    BY <1>1, <1>2 DEF TypeInv, Bytes
  <2>2. OthersInv'
    BY <1>1 DEF TypeInv, OthersInv, FillUDPHeader
  <2> QED BY <1>2, <2>1, <2>2 DEF TypeInv
<1>4. Zero(0 .. 33)' /\ DHCPSet' /\ OptionsSet'
  BY <1>1, <1>2 DEF Zero, DHCPSet, OptionsSet, FillUDPHeader
<1>5. PlaceInv'
  BY <1>2, <1>4 DEF PlaceInv, FillUDPHeader
<1>6. Kept
  BY <1>1, <1>2 DEF Kept, Zero
<1> QED BY <1>3, <1>5, <1>6 DEF DInv

\* So does FillIPv4Header.
LEMMA IPv4Keeps ==
  ASSUME DInv, FillIPv4Header
  PROVE  DInv' /\ Kept
<1>1. TypeInv /\ Frame(raw) /\ Zero(0 .. 33) /\ DHCPSet /\ OptionsSet /\ UDPSet
  BY DEF DInv, TypeInv, PlaceInv, FillIPv4Header
<1> DEFINE S == (14 .. 17) \cup (20 .. 23) \cup (26 .. 33)
<1>2. /\ Frame(raw') /\ IPv4Set'
      /\ raw'[15] = 0 /\ raw'[20] = 0 /\ raw'[21] = 0 /\ raw'[22] = 128
      /\ \A i \in (0 .. 297) \ S : raw'[i] = raw[i]
  BY <1>1, IPv4Filled DEF IPv4Set
<1>3. \A i \in S : raw'[i] \in Byte
  BY <1>2 DEF IPv4Set, Byte
<1> HIDE DEF S
<1>4. TypeInv'
  <2>1. Bytes(raw')
    BY <1>1, <1>2, <1>3 DEF TypeInv, Bytes
  <2>2. OthersInv'
    BY <1>1 DEF TypeInv, OthersInv, FillIPv4Header
  <2> QED BY <1>2, <2>1, <2>2 DEF TypeInv
<1>5. \A i \in 34 .. 297 : raw'[i] = raw[i]
  BY <1>2 DEF S
<1>6. Zero(0 .. 13)' /\ DHCPSet' /\ OptionsSet' /\ UDPSet'
  <2>1. Zero(0 .. 13)'
    BY <1>1, <1>2 DEF Zero, S
  <2> QED BY <1>1, <1>5, <2>1 DEF DHCPSet, OptionsSet, UDPSet, FillIPv4Header
<1>7. PlaceInv'
  BY <1>2, <1>6 DEF PlaceInv, FillIPv4Header
<1>8. Kept
  BY <1>1, <1>5 DEF Kept, Zero
<1> QED BY <1>4, <1>7, <1>8 DEF DInv

\* So does FillEthernetHeader.
LEMMA EthernetKeeps ==
  ASSUME DInv, FillEthernetHeader
  PROVE  DInv' /\ Kept
<1>1. /\ TypeInv /\ Frame(raw) /\ Zero(0 .. 13) /\ mac \in [1 .. 6 -> Byte]
      /\ DHCPSet /\ OptionsSet /\ UDPSet /\ IPv4Set
  BY Numbers DEF DInv, TypeInv, PlaceInv, FillEthernetHeader
<1>2. /\ Frame(raw') /\ EthernetSet'
      /\ \A i \in (0 .. 297) \ (0 .. 13) : raw'[i] = raw[i]
  BY <1>1, EthernetFilled DEF EthernetSet, FillEthernetHeader
<1>3. \A i \in 0 .. 13 : raw'[i] \in Byte
  BY <1>1, <1>2 DEF EthernetSet, Byte, FillEthernetHeader
<1>4. TypeInv'
  <2>1. Bytes(raw')
    BY <1>1, <1>2, <1>3 DEF TypeInv, Bytes
  <2>2. OthersInv'
    BY <1>1 DEF TypeInv, OthersInv, FillEthernetHeader
  <2> QED BY <1>2, <2>1, <2>2 DEF TypeInv
<1>5. \A i \in 14 .. 297 : raw'[i] = raw[i]
  BY <1>2
<1>6. DHCPSet' /\ OptionsSet' /\ UDPSet' /\ IPv4Set'
  BY <1>1, <1>5 DEF DHCPSet, OptionsSet, UDPSet, IPv4Set, FillEthernetHeader
<1>7. PlaceInv'
  BY <1>2, <1>6 DEF PlaceInv, FillEthernetHeader
<1>8. Kept
  BY <1>1, <1>5 DEF Kept, Zero
<1> QED BY <1>4, <1>7, <1>8 DEF DInv

\* Every step keeps the invariant, and within a call what was set.
LEMMA DiscoverKeeps ==
  ASSUME DInv, [Next]_vars
  PROVE  DInv' /\ (pc # "idle" => Kept)
<1>1. CASE Begin
  BY <1>1, BeginKeeps DEF Begin
<1>2. CASE FillDHCP
  BY <1>2, DHCPKeeps
<1>3. CASE FillOptions
  BY <1>3, OptionsKeeps
<1>4. CASE FillUDPHeader
  BY <1>4, UDPKeeps
<1>5. CASE FillIPv4Header
  BY <1>5, IPv4Keeps
<1>6. CASE FillEthernetHeader
  BY <1>6, EthernetKeeps
<1>7. CASE Return
  <2>1. UNCHANGED <<raw, id, mac>> /\ pc' = "idle"
    BY <1>7 DEF Return
  <2>2. TypeInv'
    BY <2>1 DEF DInv, TypeInv, Frame, Bytes, OthersInv
  <2>3. PlaceInv'
    BY <2>1 DEF PlaceInv
  <2> QED BY <2>1, <2>2, <2>3 DEF DInv, Kept
<1>8. CASE UNCHANGED vars
  <2>1. UNCHANGED <<raw, id, mac, pc>>
    BY <1>8 DEF vars
  <2>2. TypeInv'
    BY <2>1 DEF DInv, TypeInv, Frame, Bytes, OthersInv
  <2>3. PlaceInv'
    BY <2>1 DEF DInv, PlaceInv, Zero, DHCPSet, OptionsSet, UDPSet, IPv4Set, EthernetSet
  <2> QED BY <2>1, <2>2, <2>3 DEF DInv, Kept
<1> QED BY <1>1, <1>2, <1>3, <1>4, <1>5, <1>6, <1>7, <1>8 DEF Next

\* It holds at first.
LEMMA DiscoverStarts ==
  ASSUME Init
  PROVE  DInv
<1>1. raw = [i \in 0 .. 297 |-> 0]
  BY FrameSizes DEF Init
<1>2. TypeInv
  <2>1. Frame(raw)
    BY <1>1 DEF Frame
  <2>2. Bytes(raw)
    BY <1>1 DEF Bytes, Byte
  <2>3. OthersInv
    BY DEF OthersInv, Init
  <2> QED BY <2>1, <2>2, <2>3 DEF TypeInv
<1> QED BY <1>2 DEF Init, PlaceInv, DInv

\* The invariant holds in all states.
THEOREM Invariance == Spec => []DInv
<1>1. Init => DInv
  BY DiscoverStarts
<1>2. DInv /\ [Next]_vars => DInv'
  BY DiscoverKeeps
<1> QED BY <1>1, <1>2, PTL DEF Spec

\* All variables have their types: whatever is stored is a byte.
THEOREM TypesHold == Spec => []TypeOK
<1>1. DInv => TypeOK
  <2>1. ASSUME TypeInv
        PROVE  raw \in [0 .. 297 -> Byte]
    BY <2>1 DEF TypeInv, Frame, Bytes
  <2>2. RawSize = 298
    BY FrameSizes
  <2> QED BY <2>1, <2>2 DEF DInv, TypeInv, OthersInv, TypeOK
<1> QED BY <1>1, Invariance, PTL

\* No store changes a byte that an earlier one has set, for every transaction
\* id and address: the parts of the frame lie beside each other.
THEOREM StoresKeep == Spec => NothingOverwritten
<1>1. DInv /\ [Next]_vars =>
        [pc # "idle" => \A i \in DOMAIN raw : raw[i] # 0 => raw'[i] = raw[i]]_vars
  <2> SUFFICES ASSUME DInv, [Next]_vars, pc # "idle", NEW i \in DOMAIN raw, raw[i] # 0
               PROVE  raw'[i] = raw[i]
    OBVIOUS
  <2>1. Kept
    BY DiscoverKeeps
  <2>2. i \in 0 .. 297
    BY DEF DInv, TypeInv, Frame
  <2> QED BY <2>1, <2>2 DEF Kept
<1> QED BY <1>1, Invariance, PTL DEF Spec, NothingOverwritten

(***************************************************************************)
(* What a reader finds in a frame that is filled.                          *)
(***************************************************************************)

\* The members of the Ethernet header.
LEMMA EthernetRead ==
  ASSUME TypeInv, EthernetSet
  PROVE  /\ Read(0, ether_header, "ether_dhost") = [i \in 1 .. 6 |-> 255]
         /\ Read(0, ether_header, "ether_shost") = mac
         /\ ntoh16(Read(0, ether_header, "ether_type")) = 2048
<1>1. Read(0, ether_header, "ether_dhost") = [i \in 1 .. 6 |-> 255]
  <2>1. Read(0, ether_header, "ether_dhost") = [k \in 1 .. 5 - 0 + 1 |-> raw[0 + 0 + k - 1]]
    <3>1. Span(ether_header, "ether_dhost") = 0 .. 5
      BY EtherHeaderLayout
    <3>2. 0 \in Nat /\ 0 \in Nat /\ 5 \in Nat /\ 0 <= 5
      OBVIOUS
    <3>3. Lies(0, ether_header, "ether_dhost", 0, 5)
      BY <3>1, <3>2, Zenon DEF Lies
    <3>4. Found(Read(0, ether_header, "ether_dhost"), 0, 0, 5)
      BY <3>3, ReadIs, Zenon
    <3> QED BY <3>4, Zenon DEF Found
  <2>2. \A k \in 1 .. 6 : raw[0 + 0 + k - 1] = 255
    BY DEF EthernetSet
  <2> QED BY <2>1, <2>2
<1>2. Read(0, ether_header, "ether_shost") = mac
  <2>1. Read(0, ether_header, "ether_shost") = [k \in 1 .. 11 - 6 + 1 |-> raw[0 + 6 + k - 1]]
    <3>1. Span(ether_header, "ether_shost") = 6 .. 11
      BY EtherHeaderLayout
    <3>2. 0 \in Nat /\ 6 \in Nat /\ 11 \in Nat /\ 6 <= 11
      OBVIOUS
    <3>3. Lies(0, ether_header, "ether_shost", 6, 11)
      BY <3>1, <3>2, Zenon DEF Lies
    <3>4. Found(Read(0, ether_header, "ether_shost"), 0, 6, 11)
      BY <3>3, ReadIs, Zenon
    <3> QED BY <3>4, Zenon DEF Found
  <2>2. \A k \in 1 .. 6 : raw[0 + 6 + k - 1] = mac[k]
    BY DEF EthernetSet
  <2>3. mac = [k \in 1 .. 6 |-> mac[k]]
    BY Numbers
  <2>4. 1 .. 11 - 6 + 1 = 1 .. 6
    OBVIOUS
  <2> QED BY <2>1, <2>2, <2>3, <2>4
<1>3. ntoh16(Read(0, ether_header, "ether_type")) = 2048
  <2>1. Read(0, ether_header, "ether_type") = [k \in 1 .. 13 - 12 + 1 |-> raw[0 + 12 + k - 1]]
    <3>1. Span(ether_header, "ether_type") = 12 .. 13
      BY EtherHeaderLayout
    <3>2. 0 \in Nat /\ 12 \in Nat /\ 13 \in Nat /\ 12 <= 13
      OBVIOUS
    <3>3. Lies(0, ether_header, "ether_type", 12, 13)
      BY <3>1, <3>2, Zenon DEF Lies
    <3>4. Found(Read(0, ether_header, "ether_type"), 0, 12, 13)
      BY <3>3, ReadIs, Zenon
    <3> QED BY <3>4, Zenon DEF Found
  <2>2. raw[12] = 8 /\ raw[13] = 0
    BY DEF EthernetSet
  <2> QED BY <2>1, <2>2 DEF ntoh16
<1> QED BY <1>1, <1>2, <1>3

\* The members of the IP header.
LEMMA IPRead ==
  ASSUME TypeInv, IPv4Set
  PROVE  /\ Read(14, ip, "ip_v_hl") = <<69>>
         /\ ntoh16(Read(14, ip, "ip_len")) = 284
         /\ Read(14, ip, "ip_p") = <<17>>
         /\ Read(14, ip, "ip_src") = <<0, 0, 0, 0>>
         /\ Read(14, ip, "ip_dst") = <<255, 255, 255, 255>>
<1>1. Read(14, ip, "ip_v_hl") = <<69>>
  <2>1. Read(14, ip, "ip_v_hl") = [k \in 1 .. 0 - 0 + 1 |-> raw[14 + 0 + k - 1]]
    <3>1. Span(ip, "ip_v_hl") = 0 .. 0
      BY IpLayout
    <3>2. 14 \in Nat /\ 0 \in Nat /\ 0 \in Nat /\ 0 <= 0
      OBVIOUS
    <3>3. Lies(14, ip, "ip_v_hl", 0, 0)
      BY <3>1, <3>2, Zenon DEF Lies
    <3>4. Found(Read(14, ip, "ip_v_hl"), 14, 0, 0)
      BY <3>3, ReadIs, Zenon
    <3> QED BY <3>4, Zenon DEF Found
  <2>2. raw[14] = 69
    BY DEF IPv4Set
  <2> QED BY <2>1, <2>2
<1>2. ntoh16(Read(14, ip, "ip_len")) = 284
  <2>1. Read(14, ip, "ip_len") = [k \in 1 .. 3 - 2 + 1 |-> raw[14 + 2 + k - 1]]
    <3>1. Span(ip, "ip_len") = 2 .. 3
      BY IpLayout
    <3>2. 14 \in Nat /\ 2 \in Nat /\ 3 \in Nat /\ 2 <= 3
      OBVIOUS
    <3>3. Lies(14, ip, "ip_len", 2, 3)
      BY <3>1, <3>2, Zenon DEF Lies
    <3>4. Found(Read(14, ip, "ip_len"), 14, 2, 3)
      BY <3>3, ReadIs, Zenon
    <3> QED BY <3>4, Zenon DEF Found
  <2>2. raw[16] = 1 /\ raw[17] = 28
    BY DEF IPv4Set
  <2> QED BY <2>1, <2>2 DEF ntoh16
<1>3. Read(14, ip, "ip_p") = <<17>>
  <2>1. Read(14, ip, "ip_p") = [k \in 1 .. 9 - 9 + 1 |-> raw[14 + 9 + k - 1]]
    <3>1. Span(ip, "ip_p") = 9 .. 9
      BY IpLayout
    <3>2. 14 \in Nat /\ 9 \in Nat /\ 9 \in Nat /\ 9 <= 9
      OBVIOUS
    <3>3. Lies(14, ip, "ip_p", 9, 9)
      BY <3>1, <3>2, Zenon DEF Lies
    <3>4. Found(Read(14, ip, "ip_p"), 14, 9, 9)
      BY <3>3, ReadIs, Zenon
    <3> QED BY <3>4, Zenon DEF Found
  <2>2. raw[23] = 17
    BY DEF IPv4Set
  <2> QED BY <2>1, <2>2
<1>4. Read(14, ip, "ip_src") = <<0, 0, 0, 0>>
  <2>1. Read(14, ip, "ip_src") = [k \in 1 .. 15 - 12 + 1 |-> raw[14 + 12 + k - 1]]
    <3>1. Span(ip, "ip_src") = 12 .. 15
      BY IpLayout
    <3>2. 14 \in Nat /\ 12 \in Nat /\ 15 \in Nat /\ 12 <= 15
      OBVIOUS
    <3>3. Lies(14, ip, "ip_src", 12, 15)
      BY <3>1, <3>2, Zenon DEF Lies
    <3>4. Found(Read(14, ip, "ip_src"), 14, 12, 15)
      BY <3>3, ReadIs, Zenon
    <3> QED BY <3>4, Zenon DEF Found
  <2>2. raw[26] = 0 /\ raw[27] = 0 /\ raw[28] = 0 /\ raw[29] = 0
    BY DEF IPv4Set
  <2> QED BY <2>1, <2>2
<1>5. Read(14, ip, "ip_dst") = <<255, 255, 255, 255>>
  <2>1. Read(14, ip, "ip_dst") = [k \in 1 .. 19 - 16 + 1 |-> raw[14 + 16 + k - 1]]
    <3>1. Span(ip, "ip_dst") = 16 .. 19
      BY IpLayout
    <3>2. 14 \in Nat /\ 16 \in Nat /\ 19 \in Nat /\ 16 <= 19
      OBVIOUS
    <3>3. Lies(14, ip, "ip_dst", 16, 19)
      BY <3>1, <3>2, Zenon DEF Lies
    <3>4. Found(Read(14, ip, "ip_dst"), 14, 16, 19)
      BY <3>3, ReadIs, Zenon
    <3> QED BY <3>4, Zenon DEF Found
  <2>2. raw[30] = 255 /\ raw[31] = 255 /\ raw[32] = 255 /\ raw[33] = 255
    BY DEF IPv4Set
  <2> QED BY <2>1, <2>2
<1> QED BY <1>1, <1>2, <1>3, <1>4, <1>5

\* The length in the UDP header.
LEMMA UDPRead ==
  ASSUME TypeInv, UDPSet
  PROVE  ntoh16(Read(34, udphdr, "uh_ulen")) = 264
<1>1. Read(34, udphdr, "uh_ulen") = [k \in 1 .. 5 - 4 + 1 |-> raw[34 + 4 + k - 1]]
  <2>1. Span(udphdr, "uh_ulen") = 4 .. 5
    BY UdphdrLayout
  <2>2. 34 \in Nat /\ 4 \in Nat /\ 5 \in Nat /\ 4 <= 5
    OBVIOUS
  <2>3. Lies(34, udphdr, "uh_ulen", 4, 5)
    BY <2>1, <2>2, Zenon DEF Lies
  <2>4. Found(Read(34, udphdr, "uh_ulen"), 34, 4, 5)
    BY <2>3, ReadIs, Zenon
  <2> QED BY <2>4, Zenon DEF Found
<1>2. raw[38] = 1 /\ raw[39] = 8
  BY DEF UDPSet
<1> QED BY <1>1, <1>2 DEF ntoh16

\* Read with the other structures, a filled frame is a UDP broadcast of the
\* board, and its three lengths agree.
THEOREM HeadersDoAgree == Spec => []HeadersAgree
<1>1. DInv => HeadersAgree
  <2> SUFFICES ASSUME DInv, pc = "filled"
               PROVE  HeadersAgree
    BY DEF HeadersAgree
  <2>1. TypeInv /\ EthernetSet /\ IPv4Set /\ UDPSet
    BY DEF DInv, PlaceInv
  <2>2. AtIp = 14 /\ AtUdp = 34 /\ RawSize = 298 /\ SizeOf(ip) = 20
    BY FrameSizes, IpLayout
  <2>3. /\ 64 + SizeOf(ip) \div 4 = 69 /\ AtIp + 284 = RawSize /\ AtUdp + 264 = RawSize
    BY <2>2
  <2> QED BY <2>1, <2>2, <2>3, EthernetRead, IPRead, UDPRead DEF HeadersAgree
<1> QED BY <1>1, Invariance, PTL

\* What a reader of options finds from offset p on, if at says what it finds
\* further on.
OptionsAt(at, p) ==
  IF p >= 298 THEN {"overrun"}
  ELSE IF raw[p] = 255 THEN {}
  ELSE IF p + 1 >= 298 \/ p + 1 + raw[p + 1] >= 298 THEN {"overrun"}
  ELSE {<<raw[p], [k \in 1 .. raw[p + 1] |-> raw[p + 1 + k]]>>} \cup at[p + 2 + raw[p + 1]]

\* It only looks further on.
LEMMA OptionsLookAhead ==
  ASSUME Bytes(raw), NEW p \in 0 .. 298, NEW f, NEW g,
         \A q \in p + 1 .. 298 : f[q] = g[q]
  PROVE  OptionsAt(f, p) = OptionsAt(g, p)
<1>1. CASE p >= 298
  BY <1>1 DEF OptionsAt
<1>2. CASE p < 298 /\ raw[p] = 255
  BY <1>2 DEF OptionsAt
<1>3. CASE p < 298 /\ raw[p] # 255 /\ (p + 1 >= 298 \/ p + 1 + raw[p + 1] >= 298)
  BY <1>3 DEF OptionsAt
<1>4. CASE p < 298 /\ raw[p] # 255 /\ ~(p + 1 >= 298 \/ p + 1 + raw[p + 1] >= 298)
  <2>1. p + 1 \in 0 .. 297 /\ raw[p + 1] \in Byte
    BY <1>4 DEF Bytes
  <2>2. p + 2 + raw[p + 1] \in p + 1 .. 298
    BY <1>4, <2>1 DEF Byte
  <2>3. f[p + 2 + raw[p + 1]] = g[p + 2 + raw[p + 1]]
    BY <2>2
  <2>4. ~(p >= 298)
    BY <1>4
  <2> QED BY <1>4, <2>3, <2>4, Zenon DEF OptionsAt
<1> QED BY <1>1, <1>2, <1>3, <1>4

\* An option of code c with n bytes is at offset p, and ends inside the frame.
IsOption(p, c, n) ==
  /\ p \in Nat /\ n \in Nat /\ p + 1 + n < 298
  /\ raw[p] = c /\ c # 255 /\ raw[p + 1] = n

\* It is found, and then what follows it.
IsFound(at, p, c, n) ==
  OptionsAt(at, p) = {<<c, [k \in 1 .. n |-> raw[p + 1 + k]]>>} \cup at[p + 2 + n]

\* An option is found where one is.
LEMMA OptionHere ==
  ASSUME NEW at, NEW p, NEW c, NEW n, IsOption(p, c, n)
  PROVE  IsFound(at, p, c, n)
<1> USE DEF IsOption, IsFound
<1>1. ~(p >= 298) /\ ~(p + 1 >= 298 \/ p + 1 + n >= 298)
  OBVIOUS
<1> QED BY <1>1, Zenon DEF OptionsAt

\* So there is a function that reads the options from every offset: it is built
\* from the end of the frame backwards.
LEMMA OptionsAreDefined ==
  ASSUME Bytes(raw)
  PROVE  \E at : at = [p \in 0 .. 298 |-> OptionsAt(at, p)]
<1> DEFINE From(m) == \E at : at = [p \in m .. 298 |-> OptionsAt(at, p)]
           T == {m \in 0 .. 299 : From(m)}
<1>1. 299 \in T
  <2>1. 299 .. 298 = {}
    OBVIOUS
  <2> DEFINE at == [p \in 299 .. 298 |-> p]
  <2>2. at = [p \in 299 .. 298 |-> OptionsAt(at, p)]
    BY <2>1
  <2> HIDE DEF at
  <2>3. From(299)
    BY <2>2
  <2> HIDE DEF From
  <2> QED BY <2>3
<1>2. PICK m \in T : \A k \in T : ~(k < m)
  <2> HIDE DEF From
  <2>1. T \subseteq Nat
    OBVIOUS
  <2>2. T # {}
    BY <1>1
  <2> HIDE DEF T
  <2> QED BY <2>1, <2>2, Least
<1>3. CASE m = 0
  BY <1>2, <1>3
<1>4. CASE m # 0
  <2>1. m \in 1 .. 299
    BY <1>2, <1>4
  <2>2. PICK f : f = [p \in m .. 298 |-> OptionsAt(f, p)]
    BY <1>2
  <2> DEFINE g == [p \in m - 1 .. 298 |-> IF p = m - 1 THEN OptionsAt(f, p) ELSE f[p]]
  <2>3. \A p \in m .. 298 : f[p] = OptionsAt(f, p)
    BY <2>2
  <2>4. ASSUME NEW p \in m - 1 .. 298
        PROVE  g[p] = OptionsAt(g, p)
    <3>1. g[p] = OptionsAt(f, p)
      <4>1. CASE p = m - 1
        BY <4>1
      <4>2. CASE p # m - 1
        <5>1. p \in m .. 298
          BY <2>1, <4>2
        <5>2. g[p] = f[p]
          BY <4>2
        <5> QED BY <2>3, <5>1, <5>2
      <4> QED BY <4>1, <4>2
    <3>2. ASSUME NEW q \in p + 1 .. 298
          PROVE  f[q] = g[q]
      <4>1. q \in m - 1 .. 298 /\ q # m - 1
        BY <2>1
      <4> QED BY <4>1
    <3>3. p \in 0 .. 298
      BY <2>1
    <3> HIDE DEF g
    <3> QED BY <3>1, <3>2, <3>3, OptionsLookAhead
  <2>5. g = [p \in m - 1 .. 298 |-> g[p]]
    OBVIOUS
  <2> HIDE DEF g
  <2>6. g = [p \in m - 1 .. 298 |-> OptionsAt(g, p)]
    BY <2>4, <2>5
  <2>7. m - 1 \in T
    BY <2>1, <2>6
  <2>8. m - 1 < m
    BY <2>1
  <2> HIDE DEF T
  <2> QED BY <1>2, <2>7, <2>8
<1> QED BY <1>3, <1>4

\* OptionsFrom is such a function.
LEMMA OptionsFromIs ==
  ASSUME Bytes(raw), NEW p \in 0 .. 298
  PROVE  OptionsFrom[p] = OptionsAt(OptionsFrom, p)
<1> DEFINE Solves(at) == at = [q \in 0 .. 298 |-> OptionsAt(at, q)]
<1>1. OptionsFrom = CHOOSE at : Solves(at)
  BY FrameSizes DEF OptionsFrom, OptionsAt
<1>2. \E at : Solves(at)
  BY OptionsAreDefined
<1> HIDE DEF Solves
<1>3. Solves(OptionsFrom)
  BY <1>1, <1>2
<1> QED BY <1>3 DEF Solves

\* The options of a filled frame.
LEMMA OptionsRead ==
  ASSUME TypeInv, OptionsSet
  PROVE  OptionsFrom[282] = {<<53, <<1>>>>, <<55, <<1, 3, 6, 42>>>>}
<1>1. Bytes(raw)
  BY DEF TypeInv
<1>2. OptionsFrom[291] = {}
  <2>1. OptionsFrom[291] = OptionsAt(OptionsFrom, 291)
    BY <1>1, OptionsFromIs
  <2>2. raw[291] = 255
    BY DEF OptionsSet
  <2> QED BY <2>1, <2>2 DEF OptionsAt
<1>3. OptionsFrom[285] = {<<55, <<1, 3, 6, 42>>>>}
  <2>1. OptionsFrom[285] = OptionsAt(OptionsFrom, 285)
    BY <1>1, OptionsFromIs
  <2>2. raw[285] = 55 /\ raw[286] = 4
    BY DEF OptionsSet
  <2>3. raw[287] = 1 /\ raw[288] = 3 /\ raw[289] = 6 /\ raw[290] = 42
    BY DEF OptionsSet
  <2>4. [k \in 1 .. 4 |-> raw[285 + 1 + k]] = <<1, 3, 6, 42>>
    BY <2>3
  <2>5. OptionsAt(OptionsFrom, 285)
          = {<<55, [k \in 1 .. 4 |-> raw[285 + 1 + k]]>>} \cup OptionsFrom[285 + 2 + 4]
    <3>1. IsOption(285, 55, 4)
      BY <2>2 DEF IsOption
    <3>2. IsFound(OptionsFrom, 285, 55, 4)
      BY <3>1, OptionHere
    <3> QED BY <3>2, Zenon DEF IsFound
  <2> QED BY <1>2, <2>1, <2>4, <2>5
<1>4. OptionsFrom[282] = {<<53, <<1>>>>} \cup OptionsFrom[285]
  <2>1. OptionsFrom[282] = OptionsAt(OptionsFrom, 282)
    BY <1>1, OptionsFromIs
  <2>2. raw[282] = 53 /\ raw[283] = 1
    BY DEF OptionsSet
  <2>3. raw[284] = 1
    BY DEF OptionsSet
  <2>4. [k \in 1 .. 1 |-> raw[282 + 1 + k]] = <<1>>
    BY <2>3
  <2>5. OptionsAt(OptionsFrom, 282)
          = {<<53, [k \in 1 .. 1 |-> raw[282 + 1 + k]]>>} \cup OptionsFrom[282 + 2 + 1]
    <3>1. IsOption(282, 53, 1)
      BY <2>2 DEF IsOption
    <3>2. IsFound(OptionsFrom, 282, 53, 1)
      BY <3>1, OptionHere
    <3> QED BY <3>2, Zenon DEF IsFound
  <2> QED BY <2>1, <2>4, <2>5
<1> QED BY <1>3, <1>4

\* A server finds in a filled frame the options of a discover, and where it
\* looks for them the transaction id, the address of the board and the cookie.
THEOREM ServerUnderstands == Spec => []DiscoverParses
<1>1. DInv => DiscoverParses
  <2> SUFFICES ASSUME DInv, pc = "filled"
               PROVE  DiscoverParses
    BY DEF DiscoverParses
  <2>1. TypeInv /\ DHCPSet /\ OptionsSet
    BY DEF DInv, PlaceInv
  <2>2. AtDhcp = 42
    BY FrameSizes
  <2>3. OptionsFrom[AtDhcp + 240] = {<<53, <<1>>>>, <<55, <<1, 3, 6, 42>>>>}
    BY <2>1, <2>2, OptionsRead
  <2>4. [k \in 1 .. 4 |-> raw[AtDhcp + 4 + 4 - k]] = id
    <3>1. \A k \in 1 .. 4 : raw[AtDhcp + 4 + 4 - k] = id[k]
      BY <2>1, <2>2 DEF DHCPSet
    <3>2. id = [k \in 1 .. 4 |-> id[k]]
      BY <2>1, Numbers
    <3> QED BY <3>1, <3>2
  <2>5. [k \in 1 .. 6 |-> raw[AtDhcp + 28 + k - 1]] = mac
    <3>1. \A k \in 1 .. 6 : raw[AtDhcp + 28 + k - 1] = mac[k]
      BY <2>1, <2>2 DEF DHCPSet
    <3>2. mac = [k \in 1 .. 6 |-> mac[k]]
      BY <2>1, Numbers
    <3> QED BY <3>1, <3>2
  <2>6. [k \in 1 .. 4 |-> raw[AtDhcp + 236 + k - 1]] = <<99, 130, 83, 99>>
    BY <2>1, <2>2 DEF DHCPSet
  <2> QED BY <2>3, <2>4, <2>5, <2>6 DEF DiscoverParses
<1> QED BY <1>1, Invariance, PTL
==============================================================================
