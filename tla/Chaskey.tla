------------------------------ MODULE Chaskey ------------------------------
(***************************************************************************)
(* The permutation of src/src/chaskey.c in its three forms, and who calls  *)
(* them: MacAddressInitialize (src/src/ethaddr.c), CSPrngInit,             *)
(* CSPrngUInt64 and CSPrngUInt64x2 (src/src/prng.c).  A call runs round by *)
(* round.                                                                  *)
(*                                                                         *)
(* A 32-bit word is the set of its bits that are one, so all arithmetic is *)
(* that of the code at its own width.                                      *)
(***************************************************************************)
EXTENDS Naturals, Sequences

CONSTANTS
  Boards,    \* what identifies boards, records of words and half-words
  Ticks,     \* pairs <<lo, hi>> SysTickCnt64 may return
  Draws      \* quadruples of words RandomUInt32 may return in a row

Bit == 0 .. 31
Rounds == 8

Quads == [1 .. 4 -> SUBSET Bit]

ASSUME ChaskeyAssumption ==
  /\ Boards \subseteq [flacap : SUBSET (0 .. 15), data0 : SUBSET (0 .. 15),
                       data1 : SUBSET (0 .. 15), uniid1 : SUBSET Bit,
                       uniid2 : SUBSET Bit, uniid3 : SUBSET Bit]
  /\ \A t \in Ticks : t \in [1 .. 2 -> SUBSET Bit]
  /\ \A d \in Draws : d \in Quads

(***************************************************************************)
(* Words.                                                                  *)
(***************************************************************************)
Bits(n) == {i \in 0 .. 30 : (n \div 2^i) % 2 = 1}

Xor(x, y) == (x \ y) \cup (y \ x)
Xor4(v, w) == [n \in 1 .. 4 |-> Xor(v[n], w[n])]

Shl(x, n) == {i + n : i \in x} \cap Bit

\* Mutant of ROTL: the bits shifted out are lost.
ROTL_Lossy(x, b) == Shl(x, b)
ROTL(x, b) == {(i + b) % 32 : i \in x}

\* Mutant of rotlu32: half of the distance.
rotlu32_Half(x, bits) == {(i + bits \div 2) % 32 : i \in x}
rotlu32(x, bits) == {(i + bits) % 32 : i \in x}

\* A carry comes into bit i from a lower bit that makes one, if all bits in
\* between pass it on; a borrow likewise.
Plus(x, y) ==
  LET carry == {i \in Bit : \E j \in 0 .. i - 1 :
                  j \in x \cap y /\ \A k \in j + 1 .. i - 1 : k \in x \cup y}
  IN  Xor(Xor(x, y), carry)

Minus(x, y) ==
  LET borrow == {i \in Bit : \E j \in 0 .. i - 1 :
                   j \in y \ x /\ \A k \in j + 1 .. i - 1 : k \notin x \ y}
  IN  Xor(Xor(x, y), borrow)

(***************************************************************************)
(* One turn of the loop, which the code writes out once in each of the     *)
(* three forms, and, as a reference, the turn of chaskey8 taken back.      *)
(***************************************************************************)
Round(v) ==
  LET a0 == Plus(v[1], v[2])
      a1 == Xor(ROTL(v[2], 5), a0)
      a2 == Plus(v[3], v[4])
      a3 == Xor(ROTL(v[4], 8), a2)
      b0 == Plus(ROTL(a0, 16), a3)
      b3 == Xor(ROTL(a3, 13), b0)
      b2 == Plus(a2, a1)
      b1 == Xor(ROTL(a1, 7), b2)
  IN  <<b0, b1, ROTL(b2, 16), b3>>

\* Mutant of Round_64x64: a slip in one rotation of the copy.
Round_64x64Slipped(v) ==
  LET a0 == Plus(v[1], v[2])
      a1 == Xor(ROTL(v[2], 5), a0)
      a2 == Plus(v[3], v[4])
      a3 == Xor(ROTL(v[4], 8), a2)
      b0 == Plus(ROTL(a0, 16), a3)
      b3 == Xor(ROTL(a3, 12), b0)
      b2 == Plus(a2, a1)
      b1 == Xor(ROTL(a1, 7), b2)
  IN  <<b0, b1, ROTL(b2, 16), b3>>

Round_64x64(v) ==
  LET a0 == Plus(v[1], v[2])
      a1 == Xor(ROTL(v[2], 5), a0)
      a2 == Plus(v[3], v[4])
      a3 == Xor(ROTL(v[4], 8), a2)
      b0 == Plus(ROTL(a0, 16), a3)
      b3 == Xor(ROTL(a3, 13), b0)
      b2 == Plus(a2, a1)
      b1 == Xor(ROTL(a1, 7), b2)
  IN  <<b0, b1, ROTL(b2, 16), b3>>

Round_64x128(v) ==
  LET a0 == Plus(v[1], v[2])
      a1 == Xor(ROTL(v[2], 5), a0)
      a2 == Plus(v[3], v[4])
      a3 == Xor(ROTL(v[4], 8), a2)
      b0 == Plus(ROTL(a0, 16), a3)
      b3 == Xor(ROTL(a3, 13), b0)
      b2 == Plus(a2, a1)
      b1 == Xor(ROTL(a1, 7), b2)
  IN  <<b0, b1, ROTL(b2, 16), b3>>

Unround(v) ==
  LET back(x, b) == {i \in Bit : (i + b) % 32 \in x}
      b2 == back(v[3], 16)
      a1 == back(Xor(v[2], b2), 7)
      a2 == Minus(b2, a1)
      a3 == back(Xor(v[4], v[1]), 13)
      a0 == back(Minus(v[1], a3), 16)
      v3 == back(Xor(a3, a2), 8)
      v1 == back(Xor(a1, a0), 5)
  IN  <<Minus(a0, v1), v1, Minus(a2, v3), v3>>

Iterated(f(_), v, n) ==
  LET it[k \in 0 .. n] == IF k = 0 THEN v ELSE f(it[k - 1]) IN it[n]

VARIABLES
  caller,   \* who has called: "none", or the caller's name
  about,    \* the caller's input
  in, key,  \* the block and the key that were passed
  v, left,  \* the registers of the running call, and its rounds left
  out,      \* what the call leaves, as it returns: words
  round,    \* CSPrngInit's loop
  reached   \* history: where CSPrngInit has put two bits of a hardware word

vars == <<caller, about, in, key, v, left, out, round, reached>>

Zero4 == <<{}, {}, {}, {}>>

Init ==
  /\ caller = "none" /\ about = <<>>
  /\ in = Zero4 /\ key = Zero4 /\ v = Zero4 /\ left = 0 /\ out = <<>>
  /\ round = 0 /\ reached = {}

(***************************************************************************)
(* The calls.  The short forms take two words; the others are zero, so     *)
(* that v2 and v3 start as the key's words.                                *)
(***************************************************************************)
Call(who, what, block, k) ==
  /\ caller' = who /\ about' = what
  /\ in' = block /\ key' = k
  /\ v' = Xor4(block, k) /\ left' = Rounds /\ out' = <<>>

\* Mutant of BoardKey: the capacity overlaps the option bytes.
BoardKeyUnshifted(b) ==
  <<Xor(Xor(Bits(1634760805), b.flacap), Xor(Shl(b.data1, 8), b.data0)),
    Xor(Bits(807429230), b.uniid1), Xor(Bits(2036477240), b.uniid2),
    Xor(Bits(1797285236), b.uniid3)>>

\* C_EXPA, C_ND_0, C_8_BY and C_TE_K with what identifies the board.  The option
\* bytes are registers of 16 bits (main.c:65 prints four digits): where they are
\* wider than a byte, the three numbers of the first word overlap.
BoardKey(b) ==
  <<Xor(Xor(Bits(1634760805), Shl(b.flacap, 16)), Xor(Shl(b.data1, 8), b.data0)),
    Xor(Bits(807429230), b.uniid1), Xor(Bits(2036477240), b.uniid2),
    Xor(Bits(1797285236), b.uniid3)>>

\* C_ETHE, C_RNET, C_MAC0 + index and C_ADDR.
Context(index) == <<Bits(1165256805), Bits(1919837556),
                    Bits(1296122672 + index), Bits(1097098354)>>

MacAddressInitialize(b, index) ==
  /\ caller = "none"
  /\ Call("mac", [board |-> b, index |-> index], Context(index), BoardKey(b))
  /\ UNCHANGED <<round, reached>>

CSPrngUInt64(t) ==
  /\ caller = "none"
  /\ \E k \in Draws : Call("64x64", t, <<t[1], t[2], {}, {}>>, k)
  /\ UNCHANGED <<round, reached>>

CSPrngUInt64x2(t) ==
  /\ caller = "none"
  /\ \E k \in Draws : Call("64x128", t, <<t[1], t[2], {}, {}>>, k)
  /\ UNCHANGED <<round, reached>>

\* CSPrngInit: one chaskey8 over the key per turn of its loop, keyed with four
\* words of the hardware generator, rotated by the turn.  Bound: one call draws
\* the same four words d in all turns.  `bits` follows two neighbouring bits of
\* such a word.
Stretch(kPrngKey, d, bits) ==
  /\ Call("init", [d |-> d, bits |-> bits], kPrngKey,
          [n \in 1 .. 4 |-> rotlu32(d[n], round * 2)])
  /\ reached' = reached \cup rotlu32(bits, round * 2)
  /\ round' = round + 1

CSPrngInit ==
  /\ caller = "none"
  /\ \E kPrngKey \in Draws, d \in Draws, i \in Bit :
       Stretch(kPrngKey, d, {i, (i + 1) % 32})

CSPrngInitLoop ==
  /\ caller = "init" /\ out # <<>> /\ round < 16
  /\ Stretch(out, about.d, about.bits)

(***************************************************************************)
(* The loops of the three forms, and their ends.                           *)
(***************************************************************************)
Advance(words) ==
  /\ left > 0
  /\ v' = words /\ left' = left - 1
  /\ UNCHANGED <<caller, about, in, key, out, round, reached>>

DoRound == caller \in {"mac", "init"} /\ Advance(Round(v))

DoRound_64x64 == caller = "64x64" /\ Advance(Round_64x64(v))

DoRound_64x128 == caller = "64x128" /\ Advance(Round_64x128(v))

Returns(result) ==
  /\ left = 0 /\ out = <<>>
  /\ out' = result
  /\ UNCHANGED <<caller, about, in, key, v, left, round, reached>>

Chaskey8Returns ==
  /\ caller \in {"mac", "init"}
  /\ Returns(Xor4(v, key))

\* hi and lo
Chaskey8_64x64Returns ==
  /\ caller = "64x64"
  /\ LET w == Xor4(v, key) IN Returns(<<Xor(w[1], w[2]), Xor(w[3], w[4])>>)

\* hi, lo, dst[0] and dst[1]
Chaskey8_64x128Returns ==
  /\ caller = "64x128"
  /\ LET w == Xor4(v, key) IN Returns(<<w[1], w[2], w[3], w[4]>>)

\* The end of MacAddressInitialize: six bytes of the folded block, the lowest
\* first, and the bits of the first that say what kind of address it is.
Mac(ctx) ==
  LET w == <<Xor(ctx[1], ctx[3]), Xor(ctx[2], ctx[4])>>
      byte(i) == {b \in 0 .. 7 : 8 * (i % 4) + b \in w[1 + i \div 4]}
  IN  [byte0 |-> (byte(0) \cap 4 .. 7) \cup {1}, rest |-> [i \in 1 .. 5 |-> byte(i)]]

\* The caller has its result; the registers are dead.
Done ==
  /\ out # <<>> /\ (caller = "init" => round = 16)
  /\ caller' = "none" /\ about' = <<>>
  /\ in' = Zero4 /\ key' = Zero4 /\ v' = Zero4 /\ left' = 0 /\ out' = <<>>
  /\ round' = 0 /\ reached' = {}

Next ==
  \/ \E b \in Boards, index \in {0, 1} : MacAddressInitialize(b, index)
  \/ \E t \in Ticks : CSPrngUInt64(t) \/ CSPrngUInt64x2(t)
  \/ CSPrngInit \/ CSPrngInitLoop
  \/ DoRound \/ DoRound_64x64 \/ DoRound_64x128
  \/ Chaskey8Returns \/ Chaskey8_64x64Returns \/ Chaskey8_64x128Returns
  \/ Done

Spec == Init /\ [][Next]_vars

(***************************************************************************)
(* Properties.                                                             *)
(***************************************************************************)

\* What chaskey8 makes of a block, written as one expression.
Chaskey8(block, k) == Xor4(Iterated(Round, Xor4(block, k), Rounds), k)

\* Every turn of every form can be taken back, so for each key the block is
\* permuted: no two times give one block in CSPrngUInt64x2, no two interfaces one
\* in MacAddressInitialize, and CSPrngInit loses nothing of what it has drawn.
RoundsCanBeUndone == [][left' < left => Unround(v') = v]_vars

\* The two forms that keep words in registers, each with a loop of its own,
\* compute what chaskey8 with its loop does on the two words and two zeros; their
\* results are its four words, as the high and low half of the result and dst[0],
\* dst[1], or folded by pairs.
ShortFormsAgree ==
  out # <<>> =>
    LET w == Chaskey8(in, key)
    IN  CASE caller = "64x64" -> out = <<Xor(w[1], w[2]), Xor(w[3], w[4])>>
          [] OTHER            -> out = w

\* Boards that differ in one of their identifying numbers have different
\* addresses, though the three of the key's first word overlap, and so have both
\* interfaces of one board.  And all of them are unicast and locally administered.
AddressesDiffer ==
  caller = "mac" /\ out # <<>> =>
    /\ Mac(out).byte0 \cap {0, 1} = {1}
    /\ \A b \in Boards, index \in {0, 1} :
         Mac(Chaskey8(Context(index), BoardKey(b))) = Mac(out)
           => about = [board |-> b, index |-> index]

\* "RandomUInt32() stream passes binomial test for only two bits" (prng.c:18):
\* the rotations take any two neighbouring bits of a hardware word through all
\* positions of the key.
EveryBitReached == caller = "init" /\ round = 16 => reached = Bit
=============================================================================
