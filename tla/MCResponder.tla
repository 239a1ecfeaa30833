---------------------------- MODULE MCResponder ----------------------------
(***************************************************************************)
(* An instance of Responder for TLC.  The lengths of frames from anywhere: *)
(* the least datagrams, in frames padded to 60 bytes, and the largest; and *)
(* lengths that contradict each other, each in one way: a packet longer    *)
(* than its frame, one longer than the 13 bits of a descriptor, an         *)
(* undersized frame, and a datagram longer than its packet.                *)
(***************************************************************************)
EXTENDS Responder

Length(size, ip_len, uh_ulen) ==
  [size |-> size, ip_len |-> ip_len, uh_ulen |-> uh_ulen]

MCLengths == {Length(60, 28, 8), Length(60, 29, 9), Length(1514, 1500, 1480),
              Length(60, 1500, 9), Length(1514, 65535, 0),
              Length(14, 0, 9), Length(60, 46, 65535)}
=============================================================================
