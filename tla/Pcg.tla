-------------------------------- MODULE Pcg --------------------------------
(***************************************************************************)
(* The PCG generators of pcg_variants.h.  The header spells every          *)
(* generator out once per width; here the width is a parameter.  A         *)
(* generator is a variant of the linear congruential step (oneseq, unique, *)
(* setseq, mcg) and a family of the output function (XSH RS, XSH RR, RXS M *)
(* XS, XSL RR, XSL RR RR).  PcgUInt16 and PcgUInt32 of prng.c are the      *)
(* setseq variant with XSH RS and RXS M XS.                                *)
(*                                                                         *)
(* Words are naturals.  The 128-bit generators, which return the output of *)
(* the new state instead of the old one, are the cases with `late`; this   *)
(* target, without __int128, has none of them, nor the static initializers *)
(* (cases that are not `seeded`).  The advance_r functions are left out:   *)
(* the bodies of what they call are not in the repository.                 *)
(***************************************************************************)
EXTENDS Integers, TLC

CONSTANT Cases      \* the generators to run: records of the fields below

Variants == {"oneseq", "unique", "setseq", "mcg"}
Families == {"xsh_rs", "xsh_rr", "rxs_m_xs", "xsl_rr", "xsl_rr_rr"}
Widths == {8, 16, 32, 64, 128}

(***************************************************************************)
(* How many words of w bits there are: 2^w, as a recursive function, which *)
(* is what proofs about all the widths compute with.                       *)
(***************************************************************************)
Size[w \in Nat] == IF w = 0 THEN 1 ELSE 2 * Size[w - 1]

Word(w) == 0 .. Size[w] - 1

\* The width of what random_r returns.
OutBits(c) ==
  IF c.family \in {"rxs_m_xs", "xsl_rr_rr"} THEN c.width ELSE c.width \div 2

ASSUME CasesAssumption ==
  \A c \in Cases :
    /\ c.variant \in Variants
    /\ c.family \in Families
    /\ c.width \in Widths
    /\ c.late \in BOOLEAN               \* step first, then output: 128 bits
    /\ c.seeded \in BOOLEAN             \* srandom_r, or the static initializer
    /\ c.initstate \in Word(c.width)
    /\ c.initseq \in Word(c.width)
    /\ c.address \in Word(c.width)      \* where the struct is, modulo 2^width
    /\ c.bound \in Word(OutBits(c))     \* of boundedrand_r; 0 for random_r

VARIABLES
  case,       \* the generator and its caller, fixed
  rng,        \* struct pcg_state_N (inc used by setseq alone)
  start,      \* history: the state after seeding
  drawn,      \* history: words drawn since the state was last `start`
  tally       \* history: how often each value was returned since then

varsPcg == <<case, rng, start, drawn, tally>>

-----------------------------------------------------------------------------
(* Words. *)

Rshift(x, n) == x \div 2^n

Bxor(x, y) ==
  LET digits[i \in Nat] ==
        IF Rshift(x, i) = 0 /\ Rshift(y, i) = 0 THEN 0
        ELSE 2^i * ((Rshift(x, i) + Rshift(y, i)) % 2) + digits[i + 1]
  IN  digits[0]

Rotr(w, x, r) == Rshift(x, r) + (x % 2^r) * 2^(w - r)

Log2 == 4 :> 2 @@ 8 :> 3 @@ 32 :> 5 @@ 64 :> 6

-----------------------------------------------------------------------------
(* Constants of twenty decimal digits in groups, and two in a 128-bit word. *)

Decimal(a, b, c) == (a * 100000000 + b) * 100000000 + c
Constant128(high, low) == high * Size[64] + low     \* PCG_128BIT_CONSTANT

-----------------------------------------------------------------------------
(* Output functions.  The shift counts are tabled by width. *)

XshRsShifts ==
     16 :> [xor |-> 7, select |-> 14, base |-> 3]
  @@ 32 :> [xor |-> 11, select |-> 30, base |-> 11]
  @@ 64 :> [xor |-> 22, select |-> 61, base |-> 22]
  @@ 128 :> [xor |-> 43, select |-> 124, base |-> 45]

(***************************************************************************)
(* At every width the window of bits an XSH RS output is cut from lies     *)
(* below the bits that choose the window.                                  *)
(***************************************************************************)
ASSUME WindowAssumption ==
  \A w \in DOMAIN XshRsShifts :
    LET k == XshRsShifts[w]
    IN  k.base + (2^(w - k.select) - 1) + w \div 2 <= k.select

XshRs(w, x) ==
  LET k == XshRsShifts[w]
  IN  Rshift(Bxor(Rshift(x, k.xor), x), Rshift(x, k.select) + k.base)
        % 2^(w \div 2)

XshRrShifts ==
     16 :> [xor |-> 5, base |-> 5, select |-> 13]
  @@ 32 :> [xor |-> 10, base |-> 12, select |-> 28]
  @@ 64 :> [xor |-> 18, base |-> 27, select |-> 59]
  @@ 128 :> [xor |-> 29, base |-> 58, select |-> 122]

XshRr(w, x) ==
  LET k == XshRrShifts[w]
  IN  Rotr(w \div 2,
           Rshift(Bxor(Rshift(x, k.xor), x), k.base) % 2^(w \div 2),
           Rshift(x, k.select))

RxsMXsShifts ==
     8 :> [select |-> 6, base |-> 2, xor |-> 6]
  @@ 16 :> [select |-> 13, base |-> 3, xor |-> 11]
  @@ 32 :> [select |-> 28, base |-> 4, xor |-> 22]
  @@ 64 :> [select |-> 59, base |-> 5, xor |-> 43]
  @@ 128 :> [select |-> 122, base |-> 6, xor |-> 86]

RxsMXsMultiplier(w) ==
  CASE w = 8 -> 217
    [] w = 16 -> 62169
    [] w = 32 -> 277803737
    [] w = 64 -> Decimal(1260, 59854837, 14917081)
    [] w = 128 -> Constant128(Decimal(1776, 67281865, 71221404),
                              Decimal(1260, 59854837, 14917081))

RxsMXs(w, x) ==
  LET k == RxsMXsShifts[w]
      word == (Bxor(Rshift(x, Rshift(x, k.select) + k.base), x) * RxsMXsMultiplier(w))
                % Size[w]
  IN  Bxor(Rshift(word, k.xor), word)

XslRr(w, x) ==
  LET h == w \div 2
  IN  Rotr(h, Bxor(Rshift(x, h), x % 2^h), Rshift(x, w - Log2[h]))

XslRrRr(w, x) ==
  LET h == w \div 2
      high == Rshift(x, h)
      newlow == Rotr(h, Bxor(high, x % 2^h), Rshift(x, w - Log2[h]))
      newhigh == Rotr(h, high, newlow % h)
  IN  newhigh * 2^h + newlow

Output(w, x) ==
  CASE case.family = "xsh_rs"    -> XshRs(w, x)
    [] case.family = "xsh_rr"    -> XshRr(w, x)
    [] case.family = "rxs_m_xs"  -> RxsMXs(w, x)
    [] case.family = "xsl_rr"    -> XslRr(w, x)
    [] case.family = "xsl_rr_rr" -> XslRrRr(w, x)

-----------------------------------------------------------------------------
(* The congruential step and the seeding. *)

Multiplier(w) ==
  CASE w = 8 -> 141
    [] w = 16 -> 12829
    [] w = 32 -> 747796405
    [] w = 64 -> Decimal(636, 41362238, 46793005)
    [] w = 128 -> Constant128(Decimal(254, 92979953, 55413924),
                              Decimal(486, 55405957, 14422341))

Increment(w) ==
  CASE w = 8 -> 77
    [] w = 16 -> 47989
    [] w = 32 -> Decimal(0, 28, 91336453)
    [] w = 64 -> Decimal(144, 26950408, 88963407)
    [] w = 128 -> Constant128(Decimal(636, 41362238, 46793005),
                              Decimal(144, 26950408, 88963407))

Odd(x) == IF x % 2 = 0 THEN x + 1 ELSE x         \* x | 1

\* Mutant of StepR: the product is not cut to the width of the state.
StepUntruncated(c, r) == [r EXCEPT !.state = r.state * Multiplier(c.width) + 1]

StepR(c, r) ==
  LET plus == CASE c.variant = "oneseq" -> Increment(c.width)
                [] c.variant = "mcg"    -> 0
                [] c.variant = "unique" -> Odd(c.address)
                [] c.variant = "setseq" -> r.inc
  IN  [r EXCEPT !.state = (r.state * Multiplier(c.width) + plus) % Size[c.width]]

\* Mutant of SrandomR: the stream is selected by initseq << 1, without | 1.
SrandomEven(c) ==
  StepR(c, [state |-> c.initstate, inc |-> (2 * c.initseq) % Size[c.width]])

SrandomR(c) ==
  LET inc == (2 * c.initseq + 1) % Size[c.width]
      first == StepR(c, [state |-> 0, inc |-> inc])
  IN  IF c.variant = "mcg"
      THEN [state |-> Odd(c.initstate), inc |-> 0]
      ELSE StepR(c, [first EXCEPT
                       !.state = (first.state + c.initstate) % Size[c.width]])

OneseqState(w) ==
  CASE w = 8 -> 215
    [] w = 16 -> 8415
    [] w = 32 -> 1186293367
    [] w = 64 -> Decimal(557, 35893199, 6701683)
    [] w = 128 -> Constant128(Decimal(1332, 5403578, 96250258),
                              Decimal(1095, 40010713, 64377171))

McgState(w) ==
  CASE w = 8 -> 229
    [] w = 16 -> 42469
    [] w = 32 -> Decimal(0, 35, 12640997)
    [] w \in {64, 128} -> Decimal(1462, 73925818, 83831781)

SetseqState(w) ==
  CASE w = 8 -> 155
    [] w = 16 -> 58267
    [] w = 32 -> Decimal(0, 39, 59609499)
    [] w = 64 -> Decimal(960, 6297597, 93949339)
    [] w = 128 -> Constant128(Decimal(1092, 47767773, 48161541),
                              Decimal(902, 48230122, 82619035))

SetseqInc(w) ==
  CASE w = 8 -> 219
    [] w = 16 -> 23515
    [] w = 32 -> Decimal(0, 24, 95175643)
    [] w = 64 -> Decimal(1572, 60704953, 60670683)
    [] w = 128 -> Constant128(1, Decimal(1572, 60704953, 60670683))

(***************************************************************************)
(* The static initializers, for all widths.  The header defines them, as   *)
(* the 128-bit generators, only where the compiler has __int128; the       *)
(* firmware seeds its generators (Prng) and uses none.                     *)
(***************************************************************************)
Initializer(c) ==
  CASE c.variant \in {"oneseq", "unique"} ->
         [state |-> OneseqState(c.width), inc |-> 0]
    [] c.variant = "mcg" -> [state |-> McgState(c.width), inc |-> 0]
    [] c.variant = "setseq" ->
         [state |-> SetseqState(c.width), inc |-> SetseqInc(c.width)]

-----------------------------------------------------------------------------
(* random_r and boundedrand_r. *)

Threshold(c) == (Size[OutBits(c)] - c.bound) % c.bound

\* Mutant of Accepts: the remainder of whatever word comes first.
AcceptsAny(c, r) == TRUE

Accepts(c, r) == r >= Threshold(c)

Period(c) == IF c.variant = "mcg" THEN Size[c.width - 2] ELSE Size[c.width]

Values(c) == 0 .. (IF c.bound = 0 THEN Size[OutBits(c)] ELSE c.bound) - 1

Untallied(c) == [v \in Values(c) |-> 0]

(***************************************************************************)
(* One call of random_r, or one turn of the loop of boundedrand_r: the     *)
(* step, and the output of the old state or, `late`, of the new one.       *)
(***************************************************************************)
Generate(variant, family) ==
  /\ case.variant = variant
  /\ case.family = family
  /\ rng' = StepR(case, rng)
  /\ drawn' = IF drawn = Period(case) THEN 1 ELSE drawn + 1
  /\ LET r == Output(case.width, IF case.late THEN rng'.state ELSE rng.state)
         old == IF drawn = Period(case) THEN Untallied(case) ELSE tally
     IN  \/ /\ case.bound = 0
            /\ tally' = [old EXCEPT ![r] = @ + 1]
         \/ /\ case.bound # 0
            /\ Accepts(case, r)
            /\ tally' = [old EXCEPT ![r % case.bound] = @ + 1]
         \/ /\ case.bound # 0
            /\ ~Accepts(case, r)               \* and draws again
            /\ tally' = old
  /\ UNCHANGED <<case, start>>

OneseqXshRs == Generate("oneseq", "xsh_rs")
UniqueXshRs == Generate("unique", "xsh_rs")
SetseqXshRs == Generate("setseq", "xsh_rs")
McgXshRs == Generate("mcg", "xsh_rs")

OneseqXshRr == Generate("oneseq", "xsh_rr")
UniqueXshRr == Generate("unique", "xsh_rr")
SetseqXshRr == Generate("setseq", "xsh_rr")
McgXshRr == Generate("mcg", "xsh_rr")

OneseqRxsMXs == Generate("oneseq", "rxs_m_xs")
UniqueRxsMXs == Generate("unique", "rxs_m_xs")
SetseqRxsMXs == Generate("setseq", "rxs_m_xs")

OneseqXslRr == Generate("oneseq", "xsl_rr")
UniqueXslRr == Generate("unique", "xsl_rr")
SetseqXslRr == Generate("setseq", "xsl_rr")
McgXslRr == Generate("mcg", "xsl_rr")

OneseqXslRrRr == Generate("oneseq", "xsl_rr_rr")
UniqueXslRrRr == Generate("unique", "xsl_rr_rr")
SetseqXslRrRr == Generate("setseq", "xsl_rr_rr")

InitPcg ==
  /\ case \in Cases
  /\ rng = IF case.seeded THEN SrandomR(case) ELSE Initializer(case)
  /\ start = rng.state
  /\ drawn = 0
  /\ tally = Untallied(case)

NextPcg ==
  \/ OneseqXshRs \/ UniqueXshRs \/ SetseqXshRs \/ McgXshRs
  \/ OneseqXshRr \/ UniqueXshRr \/ SetseqXshRr \/ McgXshRr
  \/ OneseqRxsMXs \/ UniqueRxsMXs \/ SetseqRxsMXs
  \/ OneseqXslRr \/ UniqueXslRr \/ SetseqXslRr \/ McgXslRr
  \/ OneseqXslRrRr \/ UniqueXslRrRr \/ SetseqXslRrRr

SpecPcg == InitPcg /\ [][NextPcg]_varsPcg

-----------------------------------------------------------------------------
(***************************************************************************)
(* The fields of the state structs keep their width, whatever the products *)
(* of step_r and srandom_r.                                                *)
(***************************************************************************)
TypeOK ==
  /\ rng \in [state : Word(case.width), inc : Word(case.width)]
  /\ start \in Word(case.width)
  /\ drawn \in 0 .. Period(case)
  /\ DOMAIN tally = Values(case)

(***************************************************************************)
(* However it was seeded, a generator comes back to a state only after the *)
(* whole period of its variant: all 2^w states with an odd increment, a    *)
(* quarter of them without one (step_r, srandom_r, the initializers).      *)
(***************************************************************************)
FullPeriod == rng.state = start <=> drawn \in {0, Period(case)}

(***************************************************************************)
(* Over a whole period every value is returned equally often, by random_r  *)
(* and, below any bound, by boundedrand_r (the output functions and the    *)
(* threshold that avoids bias); so the loop of boundedrand_r, which has no *)
(* bound of its own, returns within a period.                              *)
(***************************************************************************)
EquallyOften ==
  drawn = Period(case) =>
    /\ tally[0] > 0
    /\ \A v \in Values(case) : tally[v] = tally[0]
=============================================================================
