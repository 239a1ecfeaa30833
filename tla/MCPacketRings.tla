--------------------------- MODULE MCPacketRings ---------------------------
(***************************************************************************)
(* Instances of PacketRings for TLC, and the fact about PACKET_RING_MASK   *)
(* that PacketRings rests on.                                              *)
(***************************************************************************)
EXTENDS PacketRings, Bitwise

\* PACKET_RING_INC as written, (x + 1) & PACKET_RING_MASK, is the remainder
\* by the ring's length when that is a power of two (the _Static_assert).
ASSUME MaskIsRemainder ==
  \A len \in {1, 2, 4, 8, 16} : \A x \in 0 .. len - 1 :
    ((x + 1) & (len - 1)) = (x + 1) % len
=============================================================================
