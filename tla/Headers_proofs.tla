--------------------------- MODULE Headers_proofs ---------------------------
(***************************************************************************)
(* Where the members of the structures of Headers lie: for a structure of  *)
(* any members, how far each reaches follows from the one before it; and   *)
(* for each structure of the source, what that gives.                      *)
(***************************************************************************)
EXTENDS Headers, WellFoundedInduction, TLAPS

\* A nonempty set of naturals has a least element.
LEMMA Least ==
  ASSUME NEW T, T \subseteq Nat, T # {}
  PROVE  \E m \in T : \A k \in T : ~(k < m)
<1>1. \E m \in T : \A k \in T : ~(<<k, m>> \in OpToRel(<, Nat))
  BY WFMin, NatLessThanWellFounded
<1> QED BY <1>1 DEF OpToRel

\* s has n members with names of their own, the widest asks for alignment a,
\* and they end as e says.
LaidOut(s, n, a, e) ==
  /\ n \in Nat /\ a \in Nat /\ Len(s) = n /\ DOMAIN s = 1 .. n
  /\ \A k \in 1 .. n : s[k].align \in Nat /\ s[k].align <= a
  /\ \E k \in 1 .. n : s[k].align = a
  /\ e[0] = 0
  /\ \A k \in 1 .. n : e[k] = AlignUp(e[k - 1], s[k].align) + s[k].size
  /\ \A k, j \in 1 .. n : s[k].name = s[j].name => k = j

\* The ends of the members are what each makes of the end before it.
LEMMA EndsAre ==
  ASSUME NEW s, NEW n, NEW a, NEW e, LaidOut(s, n, a, e)
  PROVE  \A k \in 0 .. n : Ends(s)[k] = e[k]
<1> DEFINE E == Ends(s)
           G(k, x) == AlignUp(x, s[k].align) + s[k].size
<1> /\ n \in Nat /\ Len(s) = n /\ e[0] = 0
    /\ \A k \in 1 .. n : e[k] = AlignUp(e[k - 1], s[k].align) + s[k].size
  BY DEF LaidOut
<1>1. E = [k \in 0 .. n |-> IF k = 0 THEN 0 ELSE G(k, E[k - 1])]
  <2>1. \E f : f = [k \in 0 .. n |-> IF k = 0 THEN 0 ELSE G(k, f[k - 1])]
    <3> DEFINE f == [k \in 0 .. n |-> e[k]]
    <3>1. ASSUME NEW k \in 0 .. n
          PROVE  f[k] = IF k = 0 THEN 0 ELSE G(k, f[k - 1])
      <4>1. k # 0 => k \in 1 .. n /\ k - 1 \in 0 .. n
        OBVIOUS
      <4> QED BY <4>1
    <3>2. f = [k \in 0 .. n |-> f[k]]
      OBVIOUS
    <3> HIDE DEF f, G
    <3>3. f = [k \in 0 .. n |-> IF k = 0 THEN 0 ELSE G(k, f[k - 1])]
      BY <3>1, <3>2
    <3> QED BY <3>3
  <2> QED BY <2>1 DEF Ends
<1>2. \A k \in 1 .. n : e[k] = G(k, e[k - 1])
  OBVIOUS
<1> HIDE DEF E, G
<1> DEFINE T == {k \in 0 .. n : E[k] # e[k]}
<1>3. T = {}
  <2>1. SUFFICES ASSUME T # {} PROVE FALSE
    OBVIOUS
  <2>2. T \subseteq Nat
    OBVIOUS
  <2>3. PICK m \in T : \A k \in T : ~(k < m)
    <3> HIDE DEF T
    <3> QED BY <2>1, <2>2, Least
  <2>4. CASE m = 0
    BY <1>1, <2>4
  <2>5. CASE m # 0
    <3>1. m - 1 \in 0 .. n /\ m - 1 < m /\ m \in 1 .. n
      BY <2>5
    <3>2. E[m - 1] = e[m - 1]
      BY <2>3, <3>1
    <3>3. E[m] = G(m, E[m - 1]) /\ e[m] = G(m, e[m - 1])
      BY <1>1, <1>2, <2>5, <3>1
    <3> QED BY <3>2, <3>3
  <2> QED BY <2>4, <2>5
<1> QED BY <1>3 DEF E

\* A structure is as long as its widest alignment makes it.
LEMMA WidestIs ==
  ASSUME NEW s, NEW n, NEW a, NEW e, LaidOut(s, n, a, e)
  PROVE  SizeOf(s) = AlignUp(Ends(s)[n], a)
<1> DEFINE w == CHOOSE w \in DOMAIN s : \A k \in DOMAIN s : s[k].align <= s[w].align
<1>1. w \in DOMAIN s /\ \A k \in DOMAIN s : s[k].align <= s[w].align
  <2>1. DOMAIN s = 1 .. n /\ \A k \in 1 .. n : s[k].align <= a
    BY DEF LaidOut
  <2>2. \E k \in 1 .. n : s[k].align = a
    BY DEF LaidOut
  <2>3. \E m \in DOMAIN s : \A k \in DOMAIN s : s[k].align <= s[m].align
    BY <2>1, <2>2
  <2> QED BY <2>3
<1>2. SizeOf(s) = AlignUp(Ends(s)[n], s[w].align)
  BY DEF SizeOf, LaidOut
<1> HIDE DEF w
<1>3. s[w].align = a
  <2>1. PICK k \in 1 .. n : s[k].align = a
    BY DEF LaidOut
  <2>2. DOMAIN s = 1 .. n /\ a \in Nat
    BY DEF LaidOut
  <2>3. s[w].align \in Nat /\ s[w].align <= a
    BY <1>1, <2>2 DEF LaidOut
  <2>4. a <= s[w].align
    BY <1>1, <2>1, <2>2
  <2> QED BY <2>2, <2>3, <2>4
<1> QED BY <1>2, <1>3

\* A member lies where it ends, if no other has its name.
LEMMA SpanIs ==
  ASSUME NEW s, NEW k \in DOMAIN s, \A j \in DOMAIN s : s[j].name = s[k].name => j = k
  PROVE  Span(s, s[k].name) = Ends(s)[k] - s[k].size .. Ends(s)[k] - 1
<1> DEFINE m == CHOOSE m \in DOMAIN s : s[m].name = s[k].name
<1>1. m = k
  OBVIOUS
<1>2. Span(s, s[k].name) = Ends(s)[m] - s[m].size .. Ends(s)[m] - 1
  BY DEF Span
<1> QED BY <1>1, <1>2

\* Its length, and where its members lie.
LEMMA Layout ==
  ASSUME NEW s, NEW n, NEW a, NEW e, LaidOut(s, n, a, e)
  PROVE  /\ SizeOf(s) = AlignUp(e[n], a)
         /\ \A k \in 1 .. n : Span(s, s[k].name) = e[k] - s[k].size .. e[k] - 1
<1>1. /\ n \in Nat /\ a \in Nat /\ DOMAIN s = 1 .. n
  BY DEF LaidOut
<1>2. \A k \in 0 .. n : Ends(s)[k] = e[k]
  BY EndsAre
<1>3. SizeOf(s) = AlignUp(Ends(s)[n], a)
  BY WidestIs
<1>4. ASSUME NEW k \in 1 .. n
      PROVE  Span(s, s[k].name) = e[k] - s[k].size .. e[k] - 1
  <2>1. Span(s, s[k].name) = Ends(s)[k] - s[k].size .. Ends(s)[k] - 1
    BY <1>1, SpanIs DEF LaidOut
  <2>2. Ends(s)[k] = e[k]
    BY <1>1, <1>2
  <2> QED BY <2>1, <2>2
<1> QED BY <1>1, <1>2, <1>3, <1>4

(***************************************************************************)
(* The structures of BSD.                                                  *)
(***************************************************************************)
\* struct ether_header (src/include/netinet/if_ether.h).
LEMMA EtherHeaderLayout ==
  /\ SizeOf(ether_header) = 14
  /\ Span(ether_header, "ether_dhost") = 0 .. 5
  /\ Span(ether_header, "ether_shost") = 6 .. 11
  /\ Span(ether_header, "ether_type") = 12 .. 13
<1> DEFINE s == ether_header
           e == [k \in 0 .. 3 |->
                   IF k = 0 THEN 0 ELSE <<6, 12, 14>>[k]]
<1>1. Len(s) = 3 /\ DOMAIN s = 1 .. 3
  BY DEF ether_header, Array, Short, ETHER_ADDR_LEN
<1>2. /\ s[1].size = 6 /\ s[2].size = 6 /\ s[3].size = 2
      /\ s[1].align = 1 /\ s[2].align = 1 /\ s[3].align = 2
      /\ s[1].name = "ether_dhost" /\ s[2].name = "ether_shost"
      /\ s[3].name = "ether_type"
  BY DEF ether_header, Array, Short, ETHER_ADDR_LEN
<1> HIDE DEF s
<1>3. /\ e[0] = 0 /\ e[1] = 6 /\ e[2] = 12 /\ e[3] = 14
  OBVIOUS
<1> HIDE DEF e
<1>4. LaidOut(s, 3, 2, e)
  <2>1. /\ \A k \in 1 .. 3 : s[k].align \in Nat /\ s[k].align <= 2
        /\ \E k \in 1 .. 3 : s[k].align = 2
    BY <1>2
  <2>2. \A k \in 1 .. 3 : e[k] = AlignUp(e[k - 1], s[k].align) + s[k].size
    BY <1>2, <1>3 DEF AlignUp
  <2>3. \A k, j \in 1 .. 3 : s[k].name = s[j].name => k = j
    BY <1>2
  <2> QED BY <1>1, <1>3, <2>1, <2>2, <2>3 DEF LaidOut
<1>5. /\ SizeOf(s) = AlignUp(e[3], 2)
      /\ \A k \in 1 .. 3 : Span(s, s[k].name) = e[k] - s[k].size .. e[k] - 1
  BY <1>4, Layout
<1>6. SizeOf(s) = 14
  BY <1>3, <1>5 DEF AlignUp
<1>7. /\ Span(s, s[1].name) = e[1] - s[1].size .. e[1] - 1
      /\ Span(s, s[2].name) = e[2] - s[2].size .. e[2] - 1
      /\ Span(s, s[3].name) = e[3] - s[3].size .. e[3] - 1
  BY <1>5
<1>8. /\ Span(s, "ether_dhost") = 0 .. 5 /\ Span(s, "ether_shost") = 6 .. 11
      /\ Span(s, "ether_type") = 12 .. 13
  BY <1>2, <1>3, <1>7
<1> QED BY <1>6, <1>8 DEF s

\* struct ip (src/include/netinet/ip.h); its bit-fields make it ask for words.
LEMMA IpLayout ==
  /\ SizeOf(ip) = 20
  /\ Span(ip, "ip_v_hl") = 0 .. 0
  /\ Span(ip, "ip_len") = 2 .. 3
  /\ Span(ip, "ip_p") = 9 .. 9
  /\ Span(ip, "ip_src") = 12 .. 15
  /\ Span(ip, "ip_dst") = 16 .. 19
<1> DEFINE s == ip
           e == [k \in 0 .. 10 |->
                   IF k = 0 THEN 0 ELSE <<1, 2, 4, 6, 8, 9, 10, 12, 16, 20>>[k]]
<1>1. Len(s) = 10 /\ DOMAIN s = 1 .. 10
  BY DEF ip, Octet, Short, Word
<1>2. /\ s[1].size = 1 /\ s[2].size = 1 /\ s[3].size = 2 /\ s[4].size = 2
      /\ s[5].size = 2 /\ s[6].size = 1 /\ s[7].size = 1 /\ s[8].size = 2
      /\ s[9].size = 4 /\ s[10].size = 4
      /\ s[1].align = 4 /\ s[2].align = 1 /\ s[3].align = 2 /\ s[4].align = 2
      /\ s[5].align = 2 /\ s[6].align = 1 /\ s[7].align = 1 /\ s[8].align = 2
      /\ s[9].align = 4 /\ s[10].align = 4
      /\ s[1].name = "ip_v_hl" /\ s[2].name = "ip_tos" /\ s[3].name = "ip_len"
      /\ s[4].name = "ip_id" /\ s[5].name = "ip_off" /\ s[6].name = "ip_ttl"
      /\ s[7].name = "ip_p" /\ s[8].name = "ip_sum" /\ s[9].name = "ip_src"
      /\ s[10].name = "ip_dst"
  BY DEF ip, Octet, Short, Word
<1> HIDE DEF s
<1>3. /\ e[0] = 0 /\ e[1] = 1 /\ e[2] = 2 /\ e[3] = 4 /\ e[4] = 6 /\ e[5] = 8
      /\ e[6] = 9 /\ e[7] = 10 /\ e[8] = 12 /\ e[9] = 16 /\ e[10] = 20
  OBVIOUS
<1> HIDE DEF e
<1>4. LaidOut(s, 10, 4, e)
  <2>1. /\ \A k \in 1 .. 10 : s[k].align \in Nat /\ s[k].align <= 4
        /\ \E k \in 1 .. 10 : s[k].align = 4
    BY <1>2
  <2>2. \A k \in 1 .. 10 : e[k] = AlignUp(e[k - 1], s[k].align) + s[k].size
    BY <1>2, <1>3 DEF AlignUp
  <2>3. \A k, j \in 1 .. 10 : s[k].name = s[j].name => k = j
    BY <1>2
  <2> QED BY <1>1, <1>3, <2>1, <2>2, <2>3 DEF LaidOut
<1>5. /\ SizeOf(s) = AlignUp(e[10], 4)
      /\ \A k \in 1 .. 10 : Span(s, s[k].name) = e[k] - s[k].size .. e[k] - 1
  BY <1>4, Layout
<1>6. SizeOf(s) = 20
  BY <1>3, <1>5 DEF AlignUp
<1>7. /\ Span(s, s[1].name) = e[1] - s[1].size .. e[1] - 1
      /\ Span(s, s[3].name) = e[3] - s[3].size .. e[3] - 1
      /\ Span(s, s[7].name) = e[7] - s[7].size .. e[7] - 1
      /\ Span(s, s[9].name) = e[9] - s[9].size .. e[9] - 1
      /\ Span(s, s[10].name) = e[10] - s[10].size .. e[10] - 1
  BY <1>5
<1>8. /\ Span(s, "ip_v_hl") = 0 .. 0 /\ Span(s, "ip_len") = 2 .. 3
      /\ Span(s, "ip_p") = 9 .. 9 /\ Span(s, "ip_src") = 12 .. 15
      /\ Span(s, "ip_dst") = 16 .. 19
  BY <1>2, <1>3, <1>7
<1> QED BY <1>6, <1>8 DEF s

\* struct udphdr (src/include/netinet/udp.h).
LEMMA UdphdrLayout ==
  /\ SizeOf(udphdr) = 8
  /\ Span(udphdr, "uh_ulen") = 4 .. 5
<1> DEFINE s == udphdr
           e == [k \in 0 .. 4 |->
                   IF k = 0 THEN 0 ELSE <<2, 4, 6, 8>>[k]]
<1>1. Len(s) = 4 /\ DOMAIN s = 1 .. 4
  BY DEF udphdr, Short
<1>2. /\ s[1].size = 2 /\ s[2].size = 2 /\ s[3].size = 2 /\ s[4].size = 2
      /\ s[1].align = 2 /\ s[2].align = 2 /\ s[3].align = 2 /\ s[4].align = 2
      /\ s[1].name = "uh_sport" /\ s[2].name = "uh_dport" /\ s[3].name = "uh_ulen"
      /\ s[4].name = "uh_sum"
  BY DEF udphdr, Short
<1> HIDE DEF s
<1>3. /\ e[0] = 0 /\ e[1] = 2 /\ e[2] = 4 /\ e[3] = 6 /\ e[4] = 8
  OBVIOUS
<1> HIDE DEF e
<1>4. LaidOut(s, 4, 2, e)
  <2>1. /\ \A k \in 1 .. 4 : s[k].align \in Nat /\ s[k].align <= 2
        /\ \E k \in 1 .. 4 : s[k].align = 2
    BY <1>2
  <2>2. \A k \in 1 .. 4 : e[k] = AlignUp(e[k - 1], s[k].align) + s[k].size
    BY <1>2, <1>3 DEF AlignUp
  <2>3. \A k, j \in 1 .. 4 : s[k].name = s[j].name => k = j
    BY <1>2
  <2> QED BY <1>1, <1>3, <2>1, <2>2, <2>3 DEF LaidOut
<1>5. /\ SizeOf(s) = AlignUp(e[4], 2)
      /\ \A k \in 1 .. 4 : Span(s, s[k].name) = e[k] - s[k].size .. e[k] - 1
  BY <1>4, Layout
<1>6. SizeOf(s) = 8
  BY <1>3, <1>5 DEF AlignUp
<1>7. /\ Span(s, s[3].name) = e[3] - s[3].size .. e[3] - 1
  BY <1>5
<1>8. /\ Span(s, "uh_ulen") = 4 .. 5
  BY <1>2, <1>3, <1>7
<1> QED BY <1>6, <1>8 DEF s

\* struct ether_arp (src/include/netinet/if_ether.h): no padding anywhere.
LEMMA EtherArpLayout ==
  /\ SizeOf(ether_arp) = 28
<1> DEFINE s == ether_arp
           e == [k \in 0 .. 9 |->
                   IF k = 0 THEN 0 ELSE <<2, 4, 5, 6, 8, 14, 18, 24, 28>>[k]]
<1>1. Len(s) = 9 /\ DOMAIN s = 1 .. 9
  BY DEF ether_arp, arphdr, Octet, Short, Array, ETHER_ADDR_LEN
<1>2. /\ s[1].size = 2 /\ s[2].size = 2 /\ s[3].size = 1 /\ s[4].size = 1
      /\ s[5].size = 2 /\ s[6].size = 6 /\ s[7].size = 4 /\ s[8].size = 6
      /\ s[9].size = 4
      /\ s[1].align = 2 /\ s[2].align = 2 /\ s[3].align = 1 /\ s[4].align = 1
      /\ s[5].align = 2 /\ s[6].align = 1 /\ s[7].align = 1 /\ s[8].align = 1
      /\ s[9].align = 1
      /\ s[1].name = "ar_hrd" /\ s[2].name = "ar_pro" /\ s[3].name = "ar_hln"
      /\ s[4].name = "ar_pln" /\ s[5].name = "ar_op" /\ s[6].name = "arp_sha"
      /\ s[7].name = "arp_spa" /\ s[8].name = "arp_tha" /\ s[9].name = "arp_tpa"
  BY DEF ether_arp, arphdr, Octet, Short, Array, ETHER_ADDR_LEN
<1> HIDE DEF s
<1>3. /\ e[0] = 0 /\ e[1] = 2 /\ e[2] = 4 /\ e[3] = 5 /\ e[4] = 6 /\ e[5] = 8
      /\ e[6] = 14 /\ e[7] = 18 /\ e[8] = 24 /\ e[9] = 28
  OBVIOUS
<1> HIDE DEF e
<1>4. LaidOut(s, 9, 2, e)
  <2>1. /\ \A k \in 1 .. 9 : s[k].align \in Nat /\ s[k].align <= 2
        /\ \E k \in 1 .. 9 : s[k].align = 2
    BY <1>2
  <2>2. \A k \in 1 .. 9 : e[k] = AlignUp(e[k - 1], s[k].align) + s[k].size
    BY <1>2, <1>3 DEF AlignUp
  <2>3. \A k, j \in 1 .. 9 : s[k].name = s[j].name => k = j
    BY <1>2
  <2> QED BY <1>1, <1>3, <2>1, <2>2, <2>3 DEF LaidOut
<1>5. /\ SizeOf(s) = AlignUp(e[9], 2)
      /\ \A k \in 1 .. 9 : Span(s, s[k].name) = e[k] - s[k].size .. e[k] - 1
  BY <1>4, Layout
<1>6. SizeOf(s) = 28
  BY <1>3, <1>5 DEF AlignUp
<1> QED BY <1>6 DEF s

(***************************************************************************)
(* The structures of packet.h.                                             *)
(***************************************************************************)

\* A member of a structure has these three fields.
Member(m) ==
  m = [name |-> m.name, size |-> m.size, align |-> m.align]

\* A packed structure has the same members, at any address.
LEMMA PackedIs ==
  ASSUME NEW t, NEW n \in Nat, DOMAIN t = 1 .. n, \A k \in 1 .. n : Member(t[k])
  PROVE  /\ Len(Packed(t)) = n /\ DOMAIN Packed(t) = 1 .. n
         /\ \A k \in 1 .. n : /\ Packed(t)[k].size = t[k].size /\ Packed(t)[k].align = 1
                             /\ Packed(t)[k].name = t[k].name
  BY DEF Packed, Member

\* EthernetHeader.
LEMMA EthernetHeaderLayout ==
  /\ SizeOf(EthernetHeader) = 14
  /\ Span(EthernetHeader, "destination") = 0 .. 5
  /\ Span(EthernetHeader, "source") = 6 .. 11
  /\ Span(EthernetHeader, "type") = 12 .. 13
<1> DEFINE s == EthernetHeader
           e == [k \in 0 .. 3 |->
                   IF k = 0 THEN 0 ELSE <<6, 12, 14>>[k]]
           t == <<Array("destination", 6), Array("source", 6), Short("type")>>
<1>1. /\ Len(s) = 3 /\ DOMAIN s = 1 .. 3
      /\ \A k \in 1 .. 3 : /\ s[k].size = t[k].size /\ s[k].align = 1
                           /\ s[k].name = t[k].name
  <2>1. s = Packed(t)
    BY DEF EthernetHeader
  <2>2. DOMAIN t = 1 .. 3 /\ \A k \in 1 .. 3 : Member(t[k])
    BY DEF Member, Array, Short
  <2> HIDE DEF s, t
  <2>3. 3 \in Nat
    OBVIOUS
  <2> QED BY <2>1, <2>2, <2>3, PackedIs
<1>2. /\ s[1].size = 6 /\ s[2].size = 6 /\ s[3].size = 2
      /\ s[1].align = 1 /\ s[2].align = 1 /\ s[3].align = 1
      /\ s[1].name = "destination" /\ s[2].name = "source" /\ s[3].name = "type"
  <2>1. /\ t[1].size = 6 /\ t[2].size = 6 /\ t[3].size = 2
        /\ t[1].name = "destination" /\ t[2].name = "source" /\ t[3].name = "type"
    BY DEF Array, Short
  <2> HIDE DEF s, t
  <2> QED BY <1>1, <2>1
<1> HIDE DEF s, t
<1>3. /\ e[0] = 0 /\ e[1] = 6 /\ e[2] = 12 /\ e[3] = 14
  OBVIOUS
<1> HIDE DEF e
<1>4. LaidOut(s, 3, 1, e)
  <2>1. /\ \A k \in 1 .. 3 : s[k].align \in Nat /\ s[k].align <= 1
        /\ \E k \in 1 .. 3 : s[k].align = 1
    BY <1>2
  <2>2. \A k \in 1 .. 3 : e[k] = AlignUp(e[k - 1], s[k].align) + s[k].size
    BY <1>2, <1>3 DEF AlignUp
  <2>3. \A k, j \in 1 .. 3 : s[k].name = s[j].name => k = j
    BY <1>2
  <2> QED BY <1>1, <1>3, <2>1, <2>2, <2>3 DEF LaidOut
<1>5. /\ SizeOf(s) = AlignUp(e[3], 1)
      /\ \A k \in 1 .. 3 : Span(s, s[k].name) = e[k] - s[k].size .. e[k] - 1
  BY <1>4, Layout
<1>6. SizeOf(s) = 14
  BY <1>3, <1>5 DEF AlignUp
<1>7. /\ Span(s, s[1].name) = e[1] - s[1].size .. e[1] - 1
      /\ Span(s, s[2].name) = e[2] - s[2].size .. e[2] - 1
      /\ Span(s, s[3].name) = e[3] - s[3].size .. e[3] - 1
  BY <1>5
<1>8. /\ Span(s, "destination") = 0 .. 5 /\ Span(s, "source") = 6 .. 11
      /\ Span(s, "type") = 12 .. 13
  BY <1>2, <1>3, <1>7
<1> QED BY <1>6, <1>8 DEF s

\* IPv4Header.
LEMMA IPv4HeaderLayout ==
  /\ SizeOf(IPv4Header) = 20
  /\ Span(IPv4Header, "version_header_length") = 0 .. 0
  /\ Span(IPv4Header, "type_of_service") = 1 .. 1
  /\ Span(IPv4Header, "total_length") = 2 .. 3
  /\ Span(IPv4Header, "flags") = 6 .. 7
  /\ Span(IPv4Header, "ttl") = 8 .. 8
  /\ Span(IPv4Header, "protocol") = 9 .. 9
  /\ Span(IPv4Header, "source") = 12 .. 15
  /\ Span(IPv4Header, "destination") = 16 .. 19
<1> DEFINE s == IPv4Header
           e == [k \in 0 .. 10 |->
                   IF k = 0 THEN 0 ELSE <<1, 2, 4, 6, 8, 9, 10, 12, 16, 20>>[k]]
           t == <<Octet("version_header_length"), Octet("type_of_service"),
                  Short("total_length"), Short("identification"), Short("flags"),
                  Octet("ttl"), Octet("protocol"), Short("checksum"),
                  Word("source"), Word("destination")>>
<1>1. /\ Len(s) = 10 /\ DOMAIN s = 1 .. 10
      /\ \A k \in 1 .. 10 : /\ s[k].size = t[k].size /\ s[k].align = 1
                            /\ s[k].name = t[k].name
  <2>1. s = Packed(t)
    BY DEF IPv4Header
  <2>2. DOMAIN t = 1 .. 10 /\ \A k \in 1 .. 10 : Member(t[k])
    BY DEF Member, Octet, Short, Word
  <2> HIDE DEF s, t
  <2>3. 10 \in Nat
    OBVIOUS
  <2> QED BY <2>1, <2>2, <2>3, PackedIs
<1>2. /\ s[1].size = 1 /\ s[2].size = 1 /\ s[3].size = 2 /\ s[4].size = 2
      /\ s[5].size = 2 /\ s[6].size = 1 /\ s[7].size = 1 /\ s[8].size = 2
      /\ s[9].size = 4 /\ s[10].size = 4
      /\ s[1].align = 1 /\ s[2].align = 1 /\ s[3].align = 1 /\ s[4].align = 1
      /\ s[5].align = 1 /\ s[6].align = 1 /\ s[7].align = 1 /\ s[8].align = 1
      /\ s[9].align = 1 /\ s[10].align = 1
      /\ s[1].name = "version_header_length" /\ s[2].name = "type_of_service"
      /\ s[3].name = "total_length" /\ s[4].name = "identification"
      /\ s[5].name = "flags" /\ s[6].name = "ttl" /\ s[7].name = "protocol"
      /\ s[8].name = "checksum" /\ s[9].name = "source" /\ s[10].name = "destination"
  <2>1. /\ t[1].size = 1 /\ t[2].size = 1 /\ t[3].size = 2 /\ t[4].size = 2
        /\ t[5].size = 2 /\ t[6].size = 1 /\ t[7].size = 1 /\ t[8].size = 2
        /\ t[9].size = 4 /\ t[10].size = 4
        /\ t[1].name = "version_header_length" /\ t[2].name = "type_of_service"
        /\ t[3].name = "total_length" /\ t[4].name = "identification"
        /\ t[5].name = "flags" /\ t[6].name = "ttl" /\ t[7].name = "protocol"
        /\ t[8].name = "checksum" /\ t[9].name = "source"
        /\ t[10].name = "destination"
    BY DEF Octet, Short, Word
  <2> HIDE DEF s, t
  <2> QED BY <1>1, <2>1
<1> HIDE DEF s, t
<1>3. /\ e[0] = 0 /\ e[1] = 1 /\ e[2] = 2 /\ e[3] = 4 /\ e[4] = 6 /\ e[5] = 8
      /\ e[6] = 9 /\ e[7] = 10 /\ e[8] = 12 /\ e[9] = 16 /\ e[10] = 20
  OBVIOUS
<1> HIDE DEF e
<1>4. LaidOut(s, 10, 1, e)
  <2>1. /\ \A k \in 1 .. 10 : s[k].align \in Nat /\ s[k].align <= 1
        /\ \E k \in 1 .. 10 : s[k].align = 1
    BY <1>2
  <2>2. \A k \in 1 .. 10 : e[k] = AlignUp(e[k - 1], s[k].align) + s[k].size
    BY <1>2, <1>3 DEF AlignUp
  <2>3. \A k, j \in 1 .. 10 : s[k].name = s[j].name => k = j
    BY <1>2
  <2> QED BY <1>1, <1>3, <2>1, <2>2, <2>3 DEF LaidOut
<1>5. /\ SizeOf(s) = AlignUp(e[10], 1)
      /\ \A k \in 1 .. 10 : Span(s, s[k].name) = e[k] - s[k].size .. e[k] - 1
  BY <1>4, Layout
<1>6. SizeOf(s) = 20
  BY <1>3, <1>5 DEF AlignUp
<1>7. /\ Span(s, s[1].name) = e[1] - s[1].size .. e[1] - 1
      /\ Span(s, s[2].name) = e[2] - s[2].size .. e[2] - 1
      /\ Span(s, s[3].name) = e[3] - s[3].size .. e[3] - 1
      /\ Span(s, s[5].name) = e[5] - s[5].size .. e[5] - 1
      /\ Span(s, s[6].name) = e[6] - s[6].size .. e[6] - 1
      /\ Span(s, s[7].name) = e[7] - s[7].size .. e[7] - 1
      /\ Span(s, s[9].name) = e[9] - s[9].size .. e[9] - 1
      /\ Span(s, s[10].name) = e[10] - s[10].size .. e[10] - 1
  BY <1>5
<1>8. /\ Span(s, "version_header_length") = 0 .. 0
      /\ Span(s, "type_of_service") = 1 .. 1 /\ Span(s, "total_length") = 2 .. 3
      /\ Span(s, "flags") = 6 .. 7 /\ Span(s, "ttl") = 8 .. 8
      /\ Span(s, "protocol") = 9 .. 9 /\ Span(s, "source") = 12 .. 15
      /\ Span(s, "destination") = 16 .. 19
  BY <1>2, <1>3, <1>7
<1> QED BY <1>6, <1>8 DEF s

\* UDPHeader.
LEMMA UDPHeaderLayout ==
  /\ SizeOf(UDPHeader) = 8
  /\ Span(UDPHeader, "source_port") = 0 .. 1
  /\ Span(UDPHeader, "destination_port") = 2 .. 3
  /\ Span(UDPHeader, "length") = 4 .. 5
<1> DEFINE s == UDPHeader
           e == [k \in 0 .. 4 |->
                   IF k = 0 THEN 0 ELSE <<2, 4, 6, 8>>[k]]
           t == <<Short("source_port"), Short("destination_port"), Short("length"),
                  Short("checksum")>>
<1>1. /\ Len(s) = 4 /\ DOMAIN s = 1 .. 4
      /\ \A k \in 1 .. 4 : /\ s[k].size = t[k].size /\ s[k].align = 1
                           /\ s[k].name = t[k].name
  <2>1. s = Packed(t)
    BY DEF UDPHeader
  <2>2. DOMAIN t = 1 .. 4 /\ \A k \in 1 .. 4 : Member(t[k])
    BY DEF Member, Short
  <2> HIDE DEF s, t
  <2>3. 4 \in Nat
    OBVIOUS
  <2> QED BY <2>1, <2>2, <2>3, PackedIs
<1>2. /\ s[1].size = 2 /\ s[2].size = 2 /\ s[3].size = 2 /\ s[4].size = 2
      /\ s[1].align = 1 /\ s[2].align = 1 /\ s[3].align = 1 /\ s[4].align = 1
      /\ s[1].name = "source_port" /\ s[2].name = "destination_port"
      /\ s[3].name = "length" /\ s[4].name = "checksum"
  <2>1. /\ t[1].size = 2 /\ t[2].size = 2 /\ t[3].size = 2 /\ t[4].size = 2
        /\ t[1].name = "source_port" /\ t[2].name = "destination_port"
        /\ t[3].name = "length" /\ t[4].name = "checksum"
    BY DEF Short
  <2> HIDE DEF s, t
  <2> QED BY <1>1, <2>1
<1> HIDE DEF s, t
<1>3. /\ e[0] = 0 /\ e[1] = 2 /\ e[2] = 4 /\ e[3] = 6 /\ e[4] = 8
  OBVIOUS
<1> HIDE DEF e
<1>4. LaidOut(s, 4, 1, e)
  <2>1. /\ \A k \in 1 .. 4 : s[k].align \in Nat /\ s[k].align <= 1
        /\ \E k \in 1 .. 4 : s[k].align = 1
    BY <1>2
  <2>2. \A k \in 1 .. 4 : e[k] = AlignUp(e[k - 1], s[k].align) + s[k].size
    BY <1>2, <1>3 DEF AlignUp
  <2>3. \A k, j \in 1 .. 4 : s[k].name = s[j].name => k = j
    BY <1>2
  <2> QED BY <1>1, <1>3, <2>1, <2>2, <2>3 DEF LaidOut
<1>5. /\ SizeOf(s) = AlignUp(e[4], 1)
      /\ \A k \in 1 .. 4 : Span(s, s[k].name) = e[k] - s[k].size .. e[k] - 1
  BY <1>4, Layout
<1>6. SizeOf(s) = 8
  BY <1>3, <1>5 DEF AlignUp
<1>7. /\ Span(s, s[1].name) = e[1] - s[1].size .. e[1] - 1
      /\ Span(s, s[2].name) = e[2] - s[2].size .. e[2] - 1
      /\ Span(s, s[3].name) = e[3] - s[3].size .. e[3] - 1
  BY <1>5
<1>8. /\ Span(s, "source_port") = 0 .. 1 /\ Span(s, "destination_port") = 2 .. 3
      /\ Span(s, "length") = 4 .. 5
  BY <1>2, <1>3, <1>7
<1> QED BY <1>6, <1>8 DEF s

\* The offsets that packet.c and dhcp.c take from these structures.
LEMMA Offsets ==
  /\ IPV4_HEADER_OFFSET = 14 /\ UDP_HEADER_OFFSET = 34 /\ UDP_DATA_OFFSET = 42
<1>1. IPV4_HEADER_OFFSET = 14
  BY EthernetHeaderLayout DEF IPV4_HEADER_OFFSET
<1>2. UDP_HEADER_OFFSET = 34
  BY <1>1, IPv4HeaderLayout DEF UDP_HEADER_OFFSET
<1> QED BY <1>1, <1>2, UDPHeaderLayout DEF UDP_DATA_OFFSET
=============================================================================
