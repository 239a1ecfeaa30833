---------------------------- MODULE MCDiscover -----------------------------
(***************************************************************************)
(* An instance of Discover for TLC.  The bytes of most ids differ from     *)
(* each other, so that a byte in the wrong place is seen.                  *)
(***************************************************************************)
EXTENDS Discover

MCIds == [1 .. 4 -> {0, 1, 128, 255}]
MCMacs == {<<2, 17, 34, 51, 68, 85>>, <<242, 0, 255, 1, 128, 0>>}
=============================================================================
