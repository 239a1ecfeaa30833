------------------------------- MODULE MCPcg -------------------------------
(***************************************************************************)
(* One case per generator, at the widths the integers of TLC allow: 16     *)
(* bits for XSH RS and XSH RR, 8 bits for the others (XSL exists from 64   *)
(* bits on in the header and is scaled down).  Seeds with the lowest and   *)
(* the highest word, even and odd addresses, and bounds with no word, one  *)
(* word and nearly half of the words rejected.                             *)
(***************************************************************************)
EXTENDS Pcg

Case(v, f, w, late, seed, b) ==
  [variant |-> v, family |-> f, width |-> w, late |-> late, bound |-> b,
   seeded |-> seed # <<>>,
   initstate |-> IF seed = <<>> THEN 0 ELSE seed[1],
   initseq |-> IF seed = <<>> THEN 0 ELSE seed[2],
   address |-> IF seed = <<>> THEN 52 ELSE 53]

MCCases ==
       {Case(v, "xsh_rs", 16, late, <<0, 32767>>, 0) : v \in Variants, late \in BOOLEAN}
  \cup {Case(v, "xsh_rr", 16, late, <<>>, 0) : v \in Variants, late \in BOOLEAN}
  \cup {Case("setseq", "xsh_rs", 16, FALSE, <<65535, 49152>>, 129)}
  \cup {Case(v, f, 8, late, s, b) : v \in Variants \ {"mcg"},
                                    f \in {"rxs_m_xs", "xsl_rr_rr"},
                                    late \in BOOLEAN,
                                    s \in {<<>>, <<255, 128>>},
                                    b \in {0, 6, 129, 255}}
  \cup {Case(v, "xsl_rr", 8, late, s, b) : v \in Variants,
                                           late \in BOOLEAN,
                                           s \in {<<>>, <<254, 0>>},
                                           b \in {0, 8, 9, 15}}
=============================================================================
