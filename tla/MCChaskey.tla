----------------------------- MODULE MCChaskey -----------------------------
(***************************************************************************)
(* An instance of Chaskey for TLC: words with long carries, single bits at *)
(* both ends and mixed ones; boards that differ from the first in one      *)
(* number each, with the all-ones word that some report for uniid3, option *)
(* bytes with bits beyond the byte, and a capacity and an option byte that *)
(* would cancel each other if the capacity were not shifted.               *)
(***************************************************************************)
EXTENDS Chaskey

Mixed == Bits(1540483477)

MCTicks == {<<{}, {}>>, <<Bit, {}>>, <<{0}, {0}>>, <<Mixed, {1, 31}>>}
MCDraws == {<<{}, {}, {}, {}>>, <<Bit, {0}, {31}, Mixed>>}

Board1 == [flacap |-> {8}, data0 |-> {0, 2, 9}, data1 |-> {1, 7, 15},
           uniid1 |-> Mixed, uniid2 |-> {3}, uniid3 |-> Bit]
MCBoards ==
  {Board1,
   [Board1 EXCEPT !.flacap = {8, 0}, !.data0 = {2, 9}],
   [Board1 EXCEPT !.data1 = {1, 15}],
   [Board1 EXCEPT !.data1 = {1, 7}],
   [Board1 EXCEPT !.data0 = {0, 2}],
   [Board1 EXCEPT !.uniid1 = Mixed \ {0}],
   [Board1 EXCEPT !.uniid2 = {3, 31}],
   [Board1 EXCEPT !.uniid3 = Bits(5)]}
=============================================================================
