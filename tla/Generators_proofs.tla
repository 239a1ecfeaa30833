------------------------- MODULE Generators_proofs -------------------------
(***************************************************************************)
(* The generators of prng.c.  Chaskey: its rounds can be taken back, its   *)
(* short forms, with loops of their own, compute what the full one does,   *)
(* boards that differ in one number differ in their MAC key, and           *)
(* CSPrngInit takes two bits of a hardware word to every place of the key. *)
(* PCG: every generator of pcg_variants.h has its full period.             *)
(* All of it for all words, keys, boards, widths and seeds.                *)
(***************************************************************************)
EXTENDS Chaskey, Pcg, WellFoundedInduction, TLAPS

Word32 == SUBSET Bit

\* A set of numbers has a least one.
LEMMA Least ==
  ASSUME NEW T, T \subseteq Nat, T # {}
  PROVE  \E m \in T : \A k \in T : ~(k < m)
<1>1. \E m \in T : \A k \in T : ~(<<k, m>> \in OpToRel(<, Nat))
  BY WFMin, NatLessThanWellFounded
<1> QED BY <1>1 DEF OpToRel

(***************************************************************************)
(* Words.                                                                  *)
(***************************************************************************)

\* Operations on words give words.
LEMMA WordOps ==
  ASSUME NEW x \in Word32, NEW y \in Word32, NEW n \in Nat
  PROVE  /\ Xor(x, y) \in Word32 /\ Plus(x, y) \in Word32 /\ Minus(x, y) \in Word32
         /\ ROTL(x, n) \in Word32 /\ rotlu32(x, n) \in Word32 /\ Shl(x, n) \in Word32
<1>1. \A i \in x : (i + n) % 32 \in Bit
  BY DEF Word32, Bit
<1>2. ROTL(x, n) \in Word32 /\ rotlu32(x, n) \in Word32
  BY <1>1 DEF ROTL, rotlu32, Word32
<1> QED BY <1>2 DEF Xor, Plus, Minus, Shl, Word32

\* What is added by exclusive or is taken away again.
LEMMA XorUndone ==
  ASSUME NEW x, NEW y
  PROVE  Xor(Xor(x, y), y) = x /\ Xor(y, Xor(x, y)) = x
  BY DEF Xor

\* A carry or borrow comes to bit i: made by a bit of g, passed on by those of p.
Chain(g, p, i) == \E j \in 0 .. i - 1 : j \in g /\ \A k \in j + 1 .. i - 1 : k \in p

\* It comes from the bit below.
LEMMA ChainStep ==
  ASSUME NEW g, NEW p, NEW i \in Nat
  PROVE  /\ ~Chain(g, p, 0)
         /\ Chain(g, p, i + 1) <=> i \in g \/ (i \in p /\ Chain(g, p, i))
<1>1. ~Chain(g, p, 0)
  BY DEF Chain
<1>2. ASSUME Chain(g, p, i + 1)
      PROVE  i \in g \/ (i \in p /\ Chain(g, p, i))
  <2>1. PICK j \in 0 .. i : j \in g /\ \A k \in j + 1 .. i : k \in p
    BY <1>2 DEF Chain
  <2>2. CASE j = i
    BY <2>1, <2>2
  <2>3. CASE j # i
    <3>1. j \in 0 .. i - 1 /\ i \in j + 1 .. i
      BY <2>3
    <3>2. \A k \in j + 1 .. i - 1 : k \in j + 1 .. i
      OBVIOUS
    <3> QED BY <2>1, <3>1, <3>2 DEF Chain
  <2> QED BY <2>2, <2>3
<1>3. ASSUME i \in g
      PROVE  Chain(g, p, i + 1)
  <2>1. i \in 0 .. (i + 1) - 1 /\ i + 1 .. (i + 1) - 1 = {}
    OBVIOUS
  <2> QED BY <1>3, <2>1 DEF Chain
<1>4. ASSUME i \in p, Chain(g, p, i)
      PROVE  Chain(g, p, i + 1)
  <2>1. PICK j \in 0 .. i - 1 : j \in g /\ \A k \in j + 1 .. i - 1 : k \in p
    BY <1>4 DEF Chain
  <2>2. j \in 0 .. (i + 1) - 1
    OBVIOUS
  <2>3. \A k \in j + 1 .. (i + 1) - 1 : k \in j + 1 .. i - 1 \/ k = i
    OBVIOUS
  <2> QED BY <1>4, <2>1, <2>2, <2>3 DEF Chain
<1> QED BY <1>1, <1>2, <1>3, <1>4

\* The same, seen from above.
LEMMA ChainBack ==
  ASSUME NEW g, NEW p, NEW i \in Nat, i # 0
  PROVE  Chain(g, p, i) <=> i - 1 \in g \/ (i - 1 \in p /\ Chain(g, p, i - 1))
<1>1. i - 1 \in Nat /\ (i - 1) + 1 = i
  OBVIOUS
<1> DEFINE n == i - 1
<1> HIDE DEF n
<1>2. n \in Nat /\ n + 1 = i
  BY <1>1 DEF n
<1>3. Chain(g, p, n + 1) <=> n \in g \/ (n \in p /\ Chain(g, p, n))
  BY <1>2, ChainStep
<1> QED BY <1>2, <1>3, Zenon DEF n

\* A sum, with its carries, and a difference, with its borrows.
LEMMA PlusIs ==
  ASSUME NEW x \in Word32, NEW y \in Word32, NEW i \in Bit
  PROVE  i \in Plus(x, y) <=> (i \in x <=> (i \in y <=> Chain(x \cap y, x \cup y, i)))
<1> DEFINE carry == {n \in Bit : \E j \in 0 .. n - 1 :
                       j \in x \cap y /\ \A k \in j + 1 .. n - 1 : k \in x \cup y}
<1>1. i \in carry <=> Chain(x \cap y, x \cup y, i)
  BY DEF Chain
<1>2. Plus(x, y) = Xor(Xor(x, y), carry)
  BY DEF Plus
<1> HIDE DEF carry
<1> QED BY <1>1, <1>2 DEF Xor

LEMMA MinusIs ==
  ASSUME NEW x \in Word32, NEW y \in Word32, NEW i \in Bit
  PROVE  i \in Minus(x, y) <=> (i \in x <=> (i \in y <=> Chain(y \ x, Bit \ (x \ y), i)))
<1> DEFINE borrow == {n \in Bit : \E j \in 0 .. n - 1 :
                        j \in y \ x /\ \A k \in j + 1 .. n - 1 : k \notin x \ y}
<1>1. i \in borrow <=> Chain(y \ x, Bit \ (x \ y), i)
  <2>1. \A j \in 0 .. i - 1 : \A k \in j + 1 .. i - 1 : k \in Bit
    BY DEF Bit
  <2> QED BY <2>1 DEF Chain
<1>2. Minus(x, y) = Xor(Xor(x, y), borrow)
  BY DEF Minus
<1> HIDE DEF borrow
<1> QED BY <1>1, <1>2 DEF Xor

\* What is added is taken away again: the borrows are where the carries were.
LEMMA PlusUndone ==
  ASSUME NEW x \in Word32, NEW y \in Word32
  PROVE  Minus(Plus(x, y), y) = x
<1> DEFINE s == Plus(x, y)
           C(i) == Chain(x \cap y, x \cup y, i)
           B(i) == Chain(y \ s, Bit \ (s \ y), i)
           T == {i \in Bit : ~(B(i) <=> C(i))}
<1>1. s \in Word32
  BY WordOps DEF Word32
<1>2. \A i \in Bit : i \in s <=> (i \in x <=> (i \in y <=> C(i)))
  BY PlusIs
<1>3. ASSUME T # {}
      PROVE  FALSE
  <2>1. PICK i \in T : \A k \in T : ~(k < i)
    <3>1. T \subseteq Nat
      BY DEF Bit
    <3> HIDE DEF T
    <3> QED BY <1>3, <3>1, Least
  <2>2. i \in Bit /\ ~(B(i) <=> C(i))
    OBVIOUS
  <2>3. i # 0
    BY <2>2, ChainStep
  <2>9. i \in Nat
    BY <2>2 DEF Bit
  <2>4. i - 1 \in Bit /\ i - 1 < i /\ i - 1 \in Nat /\ (i - 1) + 1 = i
    BY <2>2, <2>3 DEF Bit
  <2>5. B(i - 1) <=> C(i - 1)
    BY <2>1, <2>4
  <2>6. B(i) <=> i - 1 \in y \ s \/ (i - 1 \in Bit \ (s \ y) /\ B(i - 1))
    <3> DEFINE g == y \ s
               p == Bit \ (s \ y)
    <3> HIDE DEF g, p
    <3>1. Chain(g, p, i) <=> i - 1 \in g \/ (i - 1 \in p /\ Chain(g, p, i - 1))
      BY <2>3, <2>9, ChainBack
    <3> QED BY <3>1 DEF g, p
  <2>7. C(i) <=> i - 1 \in x \cap y \/ (i - 1 \in x \cup y /\ C(i - 1))
    <3> DEFINE g == x \cap y
               p == x \cup y
    <3> HIDE DEF g, p
    <3>1. Chain(g, p, i) <=> i - 1 \in g \/ (i - 1 \in p /\ Chain(g, p, i - 1))
      BY <2>3, <2>9, ChainBack
    <3> QED BY <3>1 DEF g, p
  <2>8. i - 1 \in s <=> (i - 1 \in x <=> (i - 1 \in y <=> C(i - 1)))
    BY <1>2, <2>4
  <2> HIDE DEF s, B, C
  <2> QED BY <2>2, <2>4, <2>5, <2>6, <2>7, <2>8, Zenon
<1>4. ASSUME NEW i \in Bit
      PROVE  i \in Minus(s, y) <=> i \in x
  <2>1. i \in Minus(s, y) <=> (i \in s <=> (i \in y <=> B(i)))
    BY <1>1, MinusIs
  <2>2. B(i) <=> C(i)
    BY <1>3
  <2>3. i \in s <=> (i \in x <=> (i \in y <=> C(i)))
    BY <1>2
  <2> HIDE DEF s, B, C
  <2> QED BY <2>1, <2>2, <2>3, Zenon
<1>5. Minus(s, y) \in Word32
  BY <1>1, WordOps DEF Word32
<1> HIDE DEF s
<1>6. Minus(s, y) \subseteq x
  BY <1>4, <1>5 DEF Word32
<1>7. x \subseteq Minus(s, y)
  BY <1>4 DEF Word32
<1> QED BY <1>6, <1>7 DEF s

\* A word, rotated back.
Back(x, b) == {i \in Bit : (i + b) % 32 \in x}

\* Rotations are taken back.
LEMMA RotateUndone ==
  ASSUME NEW x \in Word32, NEW b \in {5, 7, 8, 13, 16}
  PROVE  Back(ROTL(x, b), b) = x
<1>1. \A i, j \in Bit : (i + b) % 32 = (j + b) % 32 => i = j
  BY DEF Bit
<1>2. \A i \in x : i \in Bit
  BY DEF Word32
<1>3. x \subseteq Back(ROTL(x, b), b)
  BY <1>2 DEF Back, ROTL
<1>4. Back(ROTL(x, b), b) \subseteq x
  BY <1>1, <1>2 DEF Back, ROTL
<1> QED BY <1>3, <1>4

(***************************************************************************)
(* Rounds.                                                                 *)
(***************************************************************************)

\* The three loops of chaskey.c, each written out in full, do the same.
LEMMA CopiesAgree ==
  ASSUME NEW w
  PROVE  Round_64x64(w) = Round(w) /\ Round_64x128(w) = Round(w)
  BY Zenon DEF Round_64x64, Round_64x128, Round

\* A round makes four words of four words.
LEMMA RoundType ==
  ASSUME NEW w \in Quads
  PROVE  Round(w) \in Quads
<1> DEFINE a0 == Plus(w[1], w[2])
           a1 == Xor(ROTL(w[2], 5), a0)
           a2 == Plus(w[3], w[4])
           a3 == Xor(ROTL(w[4], 8), a2)
           b0 == Plus(ROTL(a0, 16), a3)
           b3 == Xor(ROTL(a3, 13), b0)
           b2 == Plus(a2, a1)
           b1 == Xor(ROTL(a1, 7), b2)
<1>1. Round(w) = <<b0, b1, ROTL(b2, 16), b3>>
  BY DEF Round
<1>2. /\ w[1] \in Word32 /\ w[2] \in Word32 /\ w[3] \in Word32 /\ w[4] \in Word32
  BY DEF Quads, Word32
<1>3. a0 \in Word32 /\ a2 \in Word32
  BY <1>2, WordOps
<1>4. ROTL(w[2], 5) \in Word32 /\ ROTL(w[4], 8) \in Word32
  BY <1>2, WordOps
<1> HIDE DEF a0, a2
<1>5. a1 \in Word32 /\ a3 \in Word32
  BY <1>3, <1>4, WordOps
<1> HIDE DEF a1, a3
<1>6. ROTL(a0, 16) \in Word32 /\ ROTL(a3, 13) \in Word32 /\ ROTL(a1, 7) \in Word32
  BY <1>3, <1>5, WordOps
<1>7. b0 \in Word32 /\ b2 \in Word32
  BY <1>3, <1>5, <1>6, WordOps
<1> HIDE DEF b0, b2
<1>8. b1 \in Word32 /\ b3 \in Word32 /\ ROTL(b2, 16) \in Word32
  BY <1>6, <1>7, WordOps
<1> HIDE DEF b1, b3
<1> QED BY <1>1, <1>7, <1>8 DEF Quads, Word32

\* Unround takes a round back.
LEMMA RoundUndone ==
  ASSUME NEW w \in Quads
  PROVE  Unround(Round(w)) = w
<1> DEFINE a0 == Plus(w[1], w[2])
           a1 == Xor(ROTL(w[2], 5), a0)
           a2 == Plus(w[3], w[4])
           a3 == Xor(ROTL(w[4], 8), a2)
           b0 == Plus(ROTL(a0, 16), a3)
           b3 == Xor(ROTL(a3, 13), b0)
           b2 == Plus(a2, a1)
           b1 == Xor(ROTL(a1, 7), b2)
           r == Round(w)
           B2 == Back(r[3], 16)
           A1 == Back(Xor(r[2], B2), 7)
           A2 == Minus(B2, A1)
           A3 == Back(Xor(r[4], r[1]), 13)
           A0 == Back(Minus(r[1], A3), 16)
           V4 == Back(Xor(A3, A2), 8)
           V2 == Back(Xor(A1, A0), 5)
<1>1. r = <<b0, b1, ROTL(b2, 16), b3>>
  BY DEF Round
<1>2. Unround(r) = <<Minus(A0, V2), V2, Minus(A2, V4), V4>>
  <2> HIDE DEF r
  <2> QED BY DEF Unround, Back
<1>3. r[1] = b0 /\ r[2] = b1 /\ r[3] = ROTL(b2, 16) /\ r[4] = b3
  <2> HIDE DEF r, b0, b1, b2, b3
  <2> QED BY <1>1
<1>4. /\ w[1] \in Word32 /\ w[2] \in Word32 /\ w[3] \in Word32 /\ w[4] \in Word32
      /\ w = <<w[1], w[2], w[3], w[4]>>
  BY DEF Quads, Word32
<1>5. a0 \in Word32 /\ a2 \in Word32 /\ ROTL(w[2], 5) \in Word32 /\ ROTL(w[4], 8) \in Word32
  BY <1>4, WordOps
<1> HIDE DEF r
<1>6. Minus(a0, w[2]) = w[1] /\ Minus(a2, w[4]) = w[3]
  BY <1>4, PlusUndone
<1>7. Back(Xor(a1, a0), 5) = w[2] /\ Back(Xor(a3, a2), 8) = w[4]
  BY <1>4, XorUndone, RotateUndone
<1> HIDE DEF a0, a2
<1>8. a1 \in Word32 /\ a3 \in Word32
  BY <1>5, WordOps
<1> HIDE DEF a1, a3
<1>9. ROTL(a0, 16) \in Word32 /\ b2 \in Word32
  BY <1>5, <1>8, WordOps
<1>10. Minus(b2, a1) = a2 /\ Minus(b0, a3) = ROTL(a0, 16)
  BY <1>5, <1>8, <1>9, PlusUndone
<1>11. Back(Xor(b1, b2), 7) = a1 /\ Back(Xor(b3, b0), 13) = a3
  BY <1>8, XorUndone, RotateUndone
<1> HIDE DEF b0, b1, b2, b3
<1>12. B2 = b2
  BY <1>3, <1>9, RotateUndone
<1> HIDE DEF B2
<1>13. A1 = a1
  BY <1>3, <1>11, <1>12
<1> HIDE DEF A1
<1>14. A2 = a2
  BY <1>10, <1>12, <1>13
<1> HIDE DEF A2
<1>15. A3 = a3
  BY <1>3, <1>11
<1> HIDE DEF A3
<1>16. A0 = a0
  BY <1>3, <1>5, <1>10, <1>15, RotateUndone
<1> HIDE DEF A0
<1>17. V4 = w[4] /\ V2 = w[2]
  BY <1>7, <1>13, <1>14, <1>15, <1>16
<1> HIDE DEF V4, V2
<1>18. Unround(r) = <<w[1], w[2], w[3], w[4]>>
  BY <1>2, <1>6, <1>14, <1>16, <1>17
<1> QED BY <1>4, <1>18 DEF r

(***************************************************************************)
(* Rounds in a row.                                                        *)
(***************************************************************************)

\* it is what n rounds from w make, one after the other.
Turn(it, w, k) == IF k = 0 THEN w ELSE Round(it[k - 1])
Turns(it, w, n) == it = [k \in 0 .. n |-> Turn(it, w, k)]

\* There are such rounds.
LEMMA TurnsExist ==
  ASSUME NEW w, NEW n \in Nat
  PROVE  \E it : Turns(it, w, n)
<1> DEFINE T == {m \in Nat : ~\E it : Turns(it, w, m)}
<1>1. ASSUME T # {}
      PROVE  FALSE
  <2>1. PICK m \in T : \A k \in T : ~(k < m)
    <3>1. T \subseteq Nat
      OBVIOUS
    <3> HIDE DEF T
    <3> QED BY <1>1, <3>1, Least
  <2>2. m \in Nat /\ ~\E it : Turns(it, w, m)
    OBVIOUS
  <2>3. CASE m = 0
    <3> DEFINE f == [k \in 0 .. 0 |-> w]
    <3>1. Turns(f, w, 0)
      BY DEF Turns, Turn
    <3> QED BY <2>2, <2>3, <3>1
  <2>4. CASE m # 0
    <3>1. m - 1 \in Nat /\ m - 1 < m
      BY <2>2, <2>4
    <3>2. PICK f : Turns(f, w, m - 1)
      BY <2>1, <3>1
    <3> DEFINE g == [k \in 0 .. m |-> IF k = m THEN Round(f[m - 1]) ELSE f[k]]
    <3>3. ASSUME NEW k \in 0 .. m
          PROVE  g[k] = Turn(g, w, k)
      <4>1. CASE k = m
        <5>1. m - 1 \in 0 .. m /\ m - 1 # m
          BY <3>1
        <5>2. g[m - 1] = f[m - 1]
          BY <5>1
        <5>3. g[m] = Round(f[m - 1])
          BY <4>1
        <5> HIDE DEF g
        <5> QED BY <2>4, <4>1, <5>2, <5>3 DEF Turn
      <4>2. CASE k # m
        <5>1. k \in 0 .. m - 1
          BY <2>2, <4>2
        <5>2. f[k] = Turn(f, w, k)
          BY <3>2, <5>1 DEF Turns
        <5>3. g[k] = f[k]
          BY <4>2
        <5>4. k # 0 => g[k - 1] = f[k - 1]
          BY <2>2, <5>1
        <5> HIDE DEF g
        <5> QED BY <5>2, <5>3, <5>4 DEF Turn
      <4> QED BY <4>1, <4>2
    <3>4. g = [k \in 0 .. m |-> g[k]]
      OBVIOUS
    <3> HIDE DEF g
    <3>5. Turns(g, w, m)
      BY <3>3, <3>4 DEF Turns
    <3> QED BY <2>2, <3>5
  <2> QED BY <2>3, <2>4
<1> QED BY <1>1

\* However many there are, they begin alike.
LEMMA TurnsAgree ==
  ASSUME NEW w, NEW f, NEW g, NEW m \in Nat, NEW n \in Nat, m <= n,
         Turns(f, w, m), Turns(g, w, n), NEW k \in 0 .. m
  PROVE  f[k] = g[k]
<1> DEFINE T == {i \in 0 .. m : f[i] # g[i]}
<1>1. ASSUME T # {}
      PROVE  FALSE
  <2>1. PICK i \in T : \A j \in T : ~(j < i)
    <3>1. T \subseteq Nat
      OBVIOUS
    <3> HIDE DEF T
    <3> QED BY <1>1, <3>1, Least
  <2>2. i \in 0 .. m /\ i \in 0 .. n /\ f[i] # g[i]
    OBVIOUS
  <2>3. f[i] = Turn(f, w, i) /\ g[i] = Turn(g, w, i)
    BY <2>2 DEF Turns
  <2>4. i # 0
    BY <2>2, <2>3 DEF Turn
  <2>5. i - 1 \in 0 .. m /\ i - 1 < i
    BY <2>2, <2>4
  <2>6. f[i - 1] = g[i - 1]
    BY <2>1, <2>5
  <2> QED BY <2>2, <2>3, <2>4, <2>6 DEF Turn
<1> QED BY <1>1

\* Iterated makes the last of them.
LEMMA IteratedIs ==
  ASSUME NEW w, NEW n \in Nat
  PROVE  \E it : Turns(it, w, n) /\ Iterated(Round, w, n) = it[n]
<1> DEFINE f == CHOOSE it : it = [k \in 0 .. n |-> IF k = 0 THEN w ELSE Round(it[k - 1])]
<1>1. Iterated(Round, w, n) = f[n]
  BY DEF Iterated
<1>2. f = CHOOSE it : Turns(it, w, n)
  BY DEF Turns, Turn
<1>3. \E it : Turns(it, w, n)
  BY TurnsExist
<1> HIDE DEF f
<1>4. Turns(f, w, n)
  BY <1>2, <1>3
<1> QED BY <1>1, <1>4

\* So it takes one round at a time.
LEMMA IteratedStep ==
  ASSUME NEW w, NEW n \in Nat
  PROVE  /\ Iterated(Round, w, 0) = w
         /\ Iterated(Round, w, n + 1) = Round(Iterated(Round, w, n))
<1>1. Iterated(Round, w, 0) = w
  <2>1. PICK f : Turns(f, w, 0) /\ Iterated(Round, w, 0) = f[0]
    BY IteratedIs
  <2> QED BY <2>1 DEF Turns, Turn
<1>2. PICK f : Turns(f, w, n) /\ Iterated(Round, w, n) = f[n]
  BY IteratedIs
<1>3. PICK g : Turns(g, w, n + 1) /\ Iterated(Round, w, n + 1) = g[n + 1]
  <2>1. n + 1 \in Nat
    OBVIOUS
  <2> QED BY <2>1, IteratedIs
<1>4. f[n] = g[n]
  <2>1. n + 1 \in Nat /\ n <= n + 1 /\ n \in 0 .. n
    OBVIOUS
  <2> QED BY <1>2, <1>3, <2>1, TurnsAgree
<1>5. g[n + 1] = Round(g[n])
  <2>1. n + 1 \in 0 .. n + 1 /\ n + 1 # 0 /\ (n + 1) - 1 = n
    OBVIOUS
  <2>2. g[n + 1] = Turn(g, w, n + 1)
    BY <1>3, <2>1 DEF Turns
  <2> QED BY <2>1, <2>2 DEF Turn
<1> QED BY <1>1, <1>2, <1>3, <1>4, <1>5

(***************************************************************************)
(* What is passed to a call is four words.                                 *)
(***************************************************************************)

\* Exclusive or of blocks.
LEMMA Xor4Type ==
  ASSUME NEW a \in Quads, NEW b \in Quads
  PROVE  Xor4(a, b) \in Quads /\ Xor4(a, b) = <<Xor4(a, b)[1], Xor4(a, b)[2],
                                                Xor4(a, b)[3], Xor4(a, b)[4]>>
<1>1. \A n \in 1 .. 4 : Xor(a[n], b[n]) \in SUBSET Bit
  BY DEF Quads, Xor
<1>2. Xor4(a, b) \in Quads
  BY <1>1 DEF Quads, Xor4
<1> QED BY <1>2 DEF Quads

\* Constants are words.
LEMMA BitsType ==
  ASSUME NEW n
  PROVE  Bits(n) \in Word32
  BY DEF Bits, Bit, Word32

\* Four words in a row.
LEMMA QuadOf ==
  ASSUME NEW a \in Word32, NEW b \in Word32, NEW c \in Word32, NEW d \in Word32
  PROVE  <<a, b, c, d>> \in Quads
  BY DEF Quads, Word32

\* The key of a board, and what it is used on.
LEMMA BoardKeyType ==
  ASSUME NEW b \in Boards, NEW index
  PROVE  BoardKey(b) \in Quads /\ Context(index) \in Quads
<1>1. b \in [flacap : SUBSET (0 .. 15), data0 : SUBSET (0 .. 15), data1 : SUBSET (0 .. 15),
             uniid1 : SUBSET Bit, uniid2 : SUBSET Bit, uniid3 : SUBSET Bit]
  BY ChaskeyAssumption
<1>2. /\ b.flacap \in Word32 /\ b.data0 \in Word32 /\ b.data1 \in Word32
      /\ b.uniid1 \in Word32 /\ b.uniid2 \in Word32 /\ b.uniid3 \in Word32
  BY <1>1 DEF Word32, Bit
<1>3. Shl(b.flacap, 16) \in Word32 /\ Shl(b.data1, 8) \in Word32
  BY <1>2, WordOps
<1>4. \A x, y \in Word32 : Xor(x, y) \in Word32
  BY WordOps
<1> DEFINE c1 == Bits(1634760805)
           c2 == Bits(807429230)
           c3 == Bits(2036477240)
           c4 == Bits(1797285236)
<1>5. c1 \in Word32 /\ c2 \in Word32 /\ c3 \in Word32 /\ c4 \in Word32
  BY SMT DEF Bits, Bit, Word32
<1>6. BoardKey(b) = <<Xor(Xor(c1, Shl(b.flacap, 16)), Xor(Shl(b.data1, 8), b.data0)),
                      Xor(c2, b.uniid1), Xor(c3, b.uniid2), Xor(c4, b.uniid3)>>
  BY SMT DEF BoardKey
<1> HIDE DEF c1, c2, c3, c4
<1>7. BoardKey(b) \in Quads
  <2>1. Xor(c1, Shl(b.flacap, 16)) \in Word32 /\ Xor(Shl(b.data1, 8), b.data0) \in Word32
    BY <1>2, <1>3, <1>4, <1>5
  <2>2. Xor(Xor(c1, Shl(b.flacap, 16)), Xor(Shl(b.data1, 8), b.data0)) \in Word32
    BY <1>4, <2>1
  <2>3. /\ Xor(c2, b.uniid1) \in Word32 /\ Xor(c3, b.uniid2) \in Word32
        /\ Xor(c4, b.uniid3) \in Word32
    BY <1>2, <1>4, <1>5
  <2> QED BY <1>6, <2>2, <2>3, QuadOf
<1>8. Context(index) \in Quads
  <2>1. ASSUME NEW n PROVE Bits(n) \in Word32
    BY BitsType
  <2> QED BY <2>1, QuadOf, SMT DEF Context
<1> QED BY <1>7, <1>8

(***************************************************************************)
(* The invariant.                                                          *)
(***************************************************************************)

\* The types of what a call works on.
TypeInv ==
  /\ caller \in {"none", "mac", "64x64", "64x128", "init"}
  /\ in \in Quads /\ key \in Quads /\ v \in Quads
  /\ left \in 0 .. Rounds /\ round \in Nat

\* The registers hold the block after the rounds that are done.
RoundsInv ==
  caller # "none" => v = Iterated(Round, Xor4(in, key), Rounds - left)

\* What is returned is what the last round has left.
OutInv ==
  out # <<>> =>
    /\ caller # "none" /\ left = 0
    /\ caller = "64x64" => out = <<Xor(Xor4(v, key)[1], Xor4(v, key)[2]),
                                   Xor(Xor4(v, key)[3], Xor4(v, key)[4])>>
    /\ caller # "64x64" => out = Xor4(v, key)

\* Where n turns of CSPrngInit's loop take the bits.
Swept(bits, n) == UNION {rotlu32(bits, r * 2) : r \in 0 .. n - 1}

\* CSPrngInit has taken its two bits as far as its turns go.
SweepInv ==
  /\ caller # "init" => round = 0 /\ reached = {}
  /\ caller = "init" =>
       /\ round \in 1 .. 16 /\ about.d \in Quads
       /\ \E i \in Bit : about.bits = {i, (i + 1) % 32}
       /\ reached = Swept(about.bits, round)

CInv == TypeInv /\ RoundsInv /\ OutInv /\ SweepInv

\* A call begins with no round done.
LEMMA CallStarts ==
  ASSUME NEW who \in {"mac", "64x64", "64x128", "init"}, NEW what,
         NEW block \in Quads, NEW k \in Quads, Call(who, what, block, k),
         round' \in Nat
  PROVE  TypeInv' /\ RoundsInv' /\ OutInv' /\ left' = Rounds
<1>1. /\ caller' = who /\ in' = block /\ key' = k /\ v' = Xor4(block, k)
      /\ left' = 8 /\ out' = <<>>
  BY DEF Call, Rounds
<1>2. Xor4(block, k) \in Quads
  BY Xor4Type
<1>3. TypeInv'
  BY <1>1, <1>2 DEF TypeInv, Rounds
<1>4. RoundsInv'
  <2>1. Iterated(Round, Xor4(block, k), 0) = Xor4(block, k)
    BY IteratedStep
  <2>2. Rounds - left' = 0
    BY <1>1 DEF Rounds
  <2>3. v' = Iterated(Round, Xor4(in', key'), Rounds - left')
    BY <1>1, <2>1, <2>2
  <2> QED BY <2>3 DEF RoundsInv
<1>5. OutInv'
  BY <1>1 DEF OutInv
<1> QED BY <1>1, <1>3, <1>4, <1>5 DEF Rounds

\* One turn of CSPrngInit takes the bits two places further.
LEMMA SweptStep ==
  ASSUME NEW bits, NEW n \in Nat
  PROVE  /\ Swept(bits, 0) = {}
         /\ Swept(bits, n + 1) = Swept(bits, n) \cup rotlu32(bits, n * 2)
<1>1. 0 .. 0 - 1 = {} /\ 0 .. (n + 1) - 1 = (0 .. n - 1) \cup {n}
  OBVIOUS
<1> QED BY <1>1 DEF Swept

\* A turn of CSPrngInit's loop.
LEMMA StretchKeeps ==
  ASSUME NEW k \in Quads, NEW d \in Quads, NEW bits, round \in 0 .. 15,
         \E i \in Bit : bits = {i, (i + 1) % 32},
         reached = Swept(bits, round), Stretch(k, d, bits)
  PROVE  CInv' /\ left' = Rounds
<1> DEFINE q == [n \in 1 .. 4 |-> rotlu32(d[n], round * 2)]
           what == [d |-> d, bits |-> bits]
<1>1. /\ Call("init", what, k, q) /\ round' = round + 1
      /\ reached' = reached \cup rotlu32(bits, round * 2)
  BY DEF Stretch
<1>2. q \in Quads
  <2>1. ASSUME NEW n \in 1 .. 4
        PROVE  rotlu32(d[n], round * 2) \in SUBSET Bit
    <3>1. d[n] \in Word32 /\ round * 2 \in Nat
      BY DEF Quads, Word32
    <3> QED BY <3>1, WordOps DEF Word32
  <2> QED BY <2>1 DEF Quads
<1> HIDE DEF q
<1>3. TypeInv' /\ RoundsInv' /\ OutInv' /\ left' = Rounds
  <2>1. round' \in Nat
    BY <1>1
  <2> QED BY <1>1, <1>2, <2>1, CallStarts
<1>4. SweepInv'
  <2>1. caller' = "init" /\ about' = what
    BY <1>1 DEF Call
  <2>2. about'.d = d /\ about'.bits = bits
    BY <2>1
  <2>3. Swept(bits, round + 1) = Swept(bits, round) \cup rotlu32(bits, round * 2)
    BY SweptStep
  <2>4. round' \in 1 .. 16 /\ reached' = Swept(bits, round')
    <3>1. round' \in 1 .. 16
      BY <1>1
    <3>2. round' = round + 1 /\ reached' = Swept(bits, round + 1)
      BY <1>1, <2>3, Zenon
    <3>3. reached' = Swept(bits, round')
      BY <3>2, Zenon
    <3> QED BY <3>1, <3>3
  <2> QED BY <2>1, <2>2, <2>4 DEF SweepInv
<1> QED BY <1>3, <1>4 DEF CInv

(***************************************************************************)
(* The steps.                                                              *)
(***************************************************************************)

\* The one-shot calls.
LEMMA OneShotKeeps ==
  ASSUME CInv, caller = "none", UNCHANGED <<round, reached>>,
         NEW who \in {"mac", "64x64", "64x128"}, NEW what,
         NEW block \in Quads, NEW k \in Quads, Call(who, what, block, k)
  PROVE  CInv' /\ left' = Rounds
<1>1. caller' = who /\ round' \in Nat /\ round' = 0 /\ reached' = {}
  BY DEF CInv, TypeInv, SweepInv, Call
<1>2. TypeInv' /\ RoundsInv' /\ OutInv' /\ left' = Rounds
  BY <1>1, CallStarts
<1>3. SweepInv'
  BY <1>1 DEF SweepInv
<1> QED BY <1>2, <1>3 DEF CInv

\* MacAddressInitialize.
LEMMA MacKeeps ==
  ASSUME CInv, NEW b \in Boards, NEW index \in {0, 1}, MacAddressInitialize(b, index)
  PROVE  CInv' /\ left' = Rounds
<1> DEFINE what == [board |-> b, index |-> index]
<1>1. /\ Call("mac", what, Context(index), BoardKey(b))
      /\ caller = "none" /\ UNCHANGED <<round, reached>>
  BY DEF MacAddressInitialize
<1>2. Context(index) \in Quads /\ BoardKey(b) \in Quads
  BY BoardKeyType
<1> HIDE DEF what
<1> QED BY <1>1, <1>2, OneShotKeeps

\* CSPrngUInt64 and CSPrngUInt64x2.
LEMMA PrngKeeps ==
  ASSUME CInv, NEW t \in Ticks, CSPrngUInt64(t) \/ CSPrngUInt64x2(t)
  PROVE  CInv' /\ left' = Rounds
<1>1. PICK k \in Draws, who \in {"64x64", "64x128"} :
        Call(who, t, <<t[1], t[2], {}, {}>>, k)
  BY DEF CSPrngUInt64, CSPrngUInt64x2
<1>2. caller = "none" /\ UNCHANGED <<round, reached>>
  BY DEF CSPrngUInt64, CSPrngUInt64x2
<1>3. k \in Quads /\ t \in [1 .. 2 -> SUBSET Bit]
  BY ChaskeyAssumption
<1>4. t[1] \in Word32 /\ t[2] \in Word32 /\ {} \in Word32
  BY <1>3 DEF Word32
<1>5. <<t[1], t[2], {}, {}>> \in Quads
  BY <1>4, QuadOf
<1> DEFINE block == <<t[1], t[2], {}, {}>>
<1> HIDE DEF block
<1>6. block \in Quads /\ Call(who, t, block, k)
  BY <1>1, <1>5 DEF block
<1> QED BY <1>2, <1>3, <1>6, OneShotKeeps

\* CSPrngInit, and the turns of its loop.
LEMMA InitKeeps ==
  ASSUME CInv, CSPrngInit \/ CSPrngInitLoop
  PROVE  CInv' /\ left' = Rounds
<1>1. CASE CSPrngInit
  <2>1. PICK k \in Draws, d \in Draws, i \in Bit : Stretch(k, d, {i, (i + 1) % 32})
    BY <1>1 DEF CSPrngInit
  <2>2. k \in Quads /\ d \in Quads
    BY ChaskeyAssumption
  <2>3. round = 0 /\ reached = {}
    BY <1>1 DEF CInv, SweepInv, CSPrngInit
  <2> DEFINE bits == {i, (i + 1) % 32}
  <2>4. \E n \in Bit : bits = {n, (n + 1) % 32}
    OBVIOUS
  <2> HIDE DEF bits
  <2>5. reached = Swept(bits, round) /\ round \in 0 .. 15
    <3>1. Swept(bits, 0) = {}
      BY SweptStep
    <3> QED BY <2>3, <3>1
  <2>6. Stretch(k, d, bits)
    BY <2>1 DEF bits
  <2> QED BY <2>2, <2>4, <2>5, <2>6, StretchKeeps
<1>2. CASE CSPrngInitLoop
  <2>1. /\ caller = "init" /\ out # <<>> /\ round < 16
        /\ Stretch(out, about.d, about.bits)
    BY <1>2 DEF CSPrngInitLoop
  <2>2. out = Xor4(v, key)
    BY <2>1 DEF CInv, OutInv
  <2>3. out \in Quads
    BY <2>2, Xor4Type DEF CInv, TypeInv
  <2>4. /\ round \in 1 .. 16 /\ about.d \in Quads
        /\ \E i \in Bit : about.bits = {i, (i + 1) % 32}
        /\ reached = Swept(about.bits, round)
    BY <2>1 DEF CInv, SweepInv
  <2>5. round \in 0 .. 15
    BY <2>1, <2>4
  <2> QED BY <2>1, <2>3, <2>4, <2>5, StretchKeeps
<1> QED BY <1>1, <1>2

\* A round.
LEMMA DoRoundKeeps ==
  ASSUME CInv, DoRound \/ DoRound_64x64 \/ DoRound_64x128
  PROVE  CInv' /\ Unround(v') = v
<1>1. /\ left > 0 /\ v' = Round(v) /\ left' = left - 1
      /\ UNCHANGED <<caller, about, in, key, out, round, reached>>
  <2>1. Round_64x64(v) = Round(v) /\ Round_64x128(v) = Round(v)
    BY CopiesAgree
  <2> QED BY <2>1 DEF DoRound, DoRound_64x64, DoRound_64x128, Advance
<1>2. v \in Quads /\ left \in 0 .. 8
  BY DEF CInv, TypeInv, Rounds
<1>3. TypeInv'
  <2>1. v' \in Quads
    BY <1>1, <1>2, RoundType
  <2>2. left' \in 0 .. Rounds
    BY <1>1, <1>2 DEF Rounds
  <2> QED BY <1>1, <2>1, <2>2 DEF CInv, TypeInv
<1>4. RoundsInv'
  <2> SUFFICES ASSUME caller # "none"
               PROVE  v' = Iterated(Round, Xor4(in, key), Rounds - left')
    BY <1>1 DEF RoundsInv
  <2>1. v = Iterated(Round, Xor4(in, key), Rounds - left)
    BY DEF CInv, RoundsInv
  <2>2. Rounds - left \in Nat /\ Rounds - left' = (Rounds - left) + 1
    BY <1>1, <1>2 DEF Rounds
  <2>3. Iterated(Round, Xor4(in, key), (Rounds - left) + 1)
          = Round(Iterated(Round, Xor4(in, key), Rounds - left))
    BY <2>2, IteratedStep
  <2>4. v' = Iterated(Round, Xor4(in, key), (Rounds - left) + 1)
    BY <1>1, <2>1, <2>3
  <2> QED BY <2>2, <2>4
<1>5. OutInv'
  BY <1>1, <1>2 DEF CInv, OutInv
<1>6. SweepInv'
  BY <1>1 DEF CInv, SweepInv
<1>7. Unround(v') = v
  BY <1>1, <1>2, RoundUndone
<1> QED BY <1>3, <1>4, <1>5, <1>6, <1>7 DEF CInv

\* The ends of the three forms.
LEMMA ReturnKeeps ==
  ASSUME CInv, Chaskey8Returns \/ Chaskey8_64x64Returns \/ Chaskey8_64x128Returns
  PROVE  CInv' /\ left' = left
<1>1. left = 0 /\ UNCHANGED <<caller, about, in, key, v, left, round, reached>>
  BY DEF Chaskey8Returns, Chaskey8_64x64Returns, Chaskey8_64x128Returns, Returns
<1>2. v \in Quads /\ key \in Quads
  BY DEF CInv, TypeInv
<1>3. /\ caller # "none"
      /\ caller = "64x64" => out' = <<Xor(Xor4(v, key)[1], Xor4(v, key)[2]),
                                      Xor(Xor4(v, key)[3], Xor4(v, key)[4])>>
      /\ caller # "64x64" => out' = Xor4(v, key)
  <2>1. CASE Chaskey8Returns
    BY <2>1 DEF Chaskey8Returns, Returns
  <2>2. CASE Chaskey8_64x64Returns
    BY <2>2 DEF Chaskey8_64x64Returns, Returns
  <2>3. CASE Chaskey8_64x128Returns
    <3>1. Xor4(v, key) = <<Xor4(v, key)[1], Xor4(v, key)[2],
                           Xor4(v, key)[3], Xor4(v, key)[4]>>
      BY <1>2, Xor4Type
    <3>2. caller = "64x128" /\ out' = <<Xor4(v, key)[1], Xor4(v, key)[2],
                                        Xor4(v, key)[3], Xor4(v, key)[4]>>
      BY <2>3 DEF Chaskey8_64x128Returns, Returns
    <3> QED BY <3>1, <3>2
  <2> QED BY <2>1, <2>2, <2>3
<1>4. OutInv'
  BY <1>1, <1>3 DEF OutInv
<1>5. TypeInv' /\ RoundsInv' /\ SweepInv'
  BY <1>1 DEF CInv, TypeInv, RoundsInv, SweepInv
<1> QED BY <1>1, <1>4, <1>5 DEF CInv

\* The return to the caller's caller.
LEMMA DoneKeeps ==
  ASSUME CInv, Done
  PROVE  CInv' /\ left' = left
<1>1. /\ caller' = "none" /\ in' = Zero4 /\ key' = Zero4 /\ v' = Zero4 /\ left' = 0
      /\ out' = <<>> /\ round' = 0 /\ reached' = {} /\ out # <<>>
  BY DEF Done
<1>2. Zero4 \in Quads
  BY DEF Zero4, Quads
<1>3. left = 0
  BY <1>1 DEF CInv, OutInv
<1> QED BY <1>1, <1>2, <1>3 DEF CInv, TypeInv, RoundsInv, OutInv, SweepInv, Rounds

\* The invariant holds at first and is kept; when a round is done, it can be
\* taken back.
LEMMA ChaskeyStarts ==
  ASSUME Init
  PROVE  CInv
<1>1. Zero4 \in Quads
  BY DEF Zero4, Quads
<1> QED BY <1>1 DEF Init, CInv, TypeInv, RoundsInv, OutInv, SweepInv, Rounds

LEMMA ChaskeyKeeps ==
  ASSUME CInv, [Next]_vars
  PROVE  CInv' /\ (left' < left => Unround(v') = v)
<1>1. left \in 0 .. 8
  BY DEF CInv, TypeInv, Rounds
<1>2. ASSUME NEW b \in Boards, NEW index \in {0, 1}, MacAddressInitialize(b, index)
      PROVE  CInv' /\ left' = Rounds
  BY <1>2, MacKeeps
<1>3. ASSUME NEW t \in Ticks, CSPrngUInt64(t) \/ CSPrngUInt64x2(t)
      PROVE  CInv' /\ left' = Rounds
  BY <1>3, PrngKeeps
<1>4. CASE CSPrngInit \/ CSPrngInitLoop
  BY <1>1, <1>4, InitKeeps DEF Rounds
<1>5. CASE DoRound \/ DoRound_64x64 \/ DoRound_64x128
  BY <1>5, DoRoundKeeps
<1>6. CASE Chaskey8Returns \/ Chaskey8_64x64Returns \/ Chaskey8_64x128Returns
  BY <1>1, <1>6, ReturnKeeps
<1>7. CASE Done
  BY <1>1, <1>7, DoneKeeps
<1>8. CASE UNCHANGED vars
  <2>1. UNCHANGED <<caller, about, in, key, v, left, out, round, reached>>
    BY <1>8 DEF vars
  <2>2. TypeInv' /\ RoundsInv' /\ OutInv' /\ SweepInv'
    BY <2>1 DEF CInv, TypeInv, RoundsInv, OutInv, SweepInv
  <2> QED BY <1>1, <2>1, <2>2 DEF CInv
<1>9. ~(Rounds < left)
  BY <1>1 DEF Rounds
<1> QED BY <1>2, <1>3, <1>4, <1>5, <1>6, <1>7, <1>8, <1>9 DEF Next

(***************************************************************************)
(* The theorems.                                                           *)
(***************************************************************************)

\* The invariant holds in all states.
THEOREM Invariance == Spec => []CInv
<1>1. Init => CInv
  BY ChaskeyStarts
<1>2. CInv /\ [Next]_vars => CInv'
  BY ChaskeyKeeps
<1> QED BY <1>1, <1>2, PTL DEF Spec

\* Every round of chaskey8 is a permutation of the words, whatever they are: the
\* registers before it can be told from those after it.
THEOREM NothingIsLost == Spec => RoundsCanBeUndone
<1>1. CInv /\ [Next]_vars => [left' < left => Unround(v') = v]_vars
  BY ChaskeyKeeps
<1> QED BY <1>1, Invariance, PTL DEF Spec, RoundsCanBeUndone

\* chaskey8_64x64 and chaskey8_64x128 return what chaskey8 makes of the two
\* words and two zeros, for every block and key.
THEOREM FormsAgree == Spec => []ShortFormsAgree
<1>1. CInv => ShortFormsAgree
  <2> SUFFICES ASSUME CInv, out # <<>>
               PROVE  LET w == Chaskey8(in, key)
                      IN  CASE caller = "64x64" -> out = <<Xor(w[1], w[2]), Xor(w[3], w[4])>>
                            [] OTHER            -> out = w
    BY DEF ShortFormsAgree
  <2>1. caller # "none" /\ left = 0
    BY DEF CInv, OutInv
  <2>2. v = Iterated(Round, Xor4(in, key), Rounds - left)
    BY <2>1 DEF CInv, RoundsInv
  <2>3. Rounds - left = Rounds
    BY <2>1 DEF Rounds
  <2>4. Xor4(v, key) = Chaskey8(in, key)
    BY <2>2, <2>3, Zenon DEF Chaskey8
  <2>5. /\ caller = "64x64" => out = <<Xor(Xor4(v, key)[1], Xor4(v, key)[2]),
                                       Xor(Xor4(v, key)[3], Xor4(v, key)[4])>>
        /\ caller # "64x64" => out = Xor4(v, key)
    BY DEF CInv, OutInv
  <2> QED BY <2>4, <2>5
<1> QED BY <1>1, Invariance, PTL

\* In sixteen turns the rotations of CSPrngInit take two neighbouring bits of a
\* hardware word to every place of the key.
THEOREM BitsSpread == Spec => []EveryBitReached
<1>1. CInv => EveryBitReached
  <2> SUFFICES ASSUME CInv, caller = "init", round = 16
               PROVE  reached = Bit
    BY DEF EveryBitReached
  <2>1. PICK i \in Bit : about.bits = {i, (i + 1) % 32}
    BY DEF CInv, SweepInv
  <2>2. reached = Swept({i, (i + 1) % 32}, 16)
    BY <2>1 DEF CInv, SweepInv
  <2>3. ASSUME NEW b \in Bit
        PROVE  \E r \in 0 .. 15, k \in {i, (i + 1) % 32} : (k + r * 2) % 32 = b
    <3>1. \/ b \in Bit /\ i \in Bit /\ (b + i) % 2 = 0
          \/ b \in Bit /\ i \in Bit /\ (b + i) % 2 = 1
      BY DEF Bit
    <3>2. CASE (b + i) % 2 = 0
      <4> DEFINE r == ((b + 32 - i) % 32) \div 2
      <4>1. r \in 0 .. 15 /\ (i + r * 2) % 32 = b
        BY <3>2 DEF Bit
      <4> QED BY <4>1
    <3>3. CASE (b + i) % 2 = 1
      <4> DEFINE k == (i + 1) % 32
                 r == ((b + 32 - k) % 32) \div 2
      <4>1. r \in 0 .. 15 /\ (k + r * 2) % 32 = b
        BY <3>3 DEF Bit
      <4> QED BY <4>1
    <3> QED BY <3>1, <3>2, <3>3
  <2>4. Bit \subseteq reached
    <3> SUFFICES ASSUME NEW b \in Bit
                 PROVE  b \in reached
      OBVIOUS
    <3>1. PICK r \in 0 .. 15, k \in {i, (i + 1) % 32} : (k + r * 2) % 32 = b
      BY <2>3
    <3>2. b \in rotlu32({i, (i + 1) % 32}, r * 2)
      BY <3>1 DEF rotlu32
    <3>3. r \in 0 .. 16 - 1
      OBVIOUS
    <3> QED BY <2>2, <3>2, <3>3 DEF Swept
  <2>5. reached \subseteq Bit
    <3> SUFFICES ASSUME NEW b \in reached
                 PROVE  b \in Bit
      OBVIOUS
    <3>1. PICK r \in 0 .. 16 - 1 : b \in rotlu32({i, (i + 1) % 32}, r * 2)
      BY <2>2 DEF Swept
    <3>2. PICK k \in {i, (i + 1) % 32} : b = (k + r * 2) % 32
      BY <3>1 DEF rotlu32
    <3> QED BY <3>2 DEF Bit
  <2> QED BY <2>4, <2>5
<1> QED BY <1>1, Invariance, PTL

(***************************************************************************)
(* Different boards have different keys.                                   *)
(***************************************************************************)

\* Option bytes with no bits beyond the byte lie side by side with the capacity in a
\* key's first word.
LEMMA FirstWordTells ==
  ASSUME NEW c,
         NEW f1 \in SUBSET (0 .. 15), NEW a1 \in SUBSET (0 .. 7), NEW b1 \in SUBSET (0 .. 7),
         NEW f2 \in SUBSET (0 .. 15), NEW a2 \in SUBSET (0 .. 7), NEW b2 \in SUBSET (0 .. 7),
         Xor(Xor(c, Shl(f1, 16)), Xor(Shl(a1, 8), b1))
           = Xor(Xor(c, Shl(f2, 16)), Xor(Shl(a2, 8), b2))
  PROVE  f1 = f2 /\ a1 = a2 /\ b1 = b2
<1> DEFINE In(j, f, a, b) == j \in Shl(f, 16) \/ j \in Shl(a, 8) \/ j \in b
<1>1. ASSUME NEW f \in SUBSET (0 .. 15), NEW a \in SUBSET (0 .. 7), NEW b \in SUBSET (0 .. 7)
      PROVE  /\ \A j : j \in Shl(f, 16) <=> j \in 16 .. 31 /\ j - 16 \in f
             /\ \A j : j \in Shl(a, 8) <=> j \in 8 .. 15 /\ j - 8 \in a
             /\ \A j : j \in b => j \in 0 .. 7
  <2>1. \A j : j \in Shl(f, 16) => j \in 16 .. 31 /\ j - 16 \in f
    BY DEF Shl, Bit
  <2>2. \A j : j \in 16 .. 31 /\ j - 16 \in f => j \in Shl(f, 16)
    <3> SUFFICES ASSUME NEW j \in 16 .. 31, j - 16 \in f
                 PROVE  j \in Shl(f, 16)
      OBVIOUS
    <3>1. j = (j - 16) + 16 /\ j \in Bit
      BY DEF Bit
    <3> QED BY <3>1 DEF Shl
  <2>3. \A j : j \in Shl(a, 8) => j \in 8 .. 15 /\ j - 8 \in a
    BY DEF Shl, Bit
  <2>4. \A j : j \in 8 .. 15 /\ j - 8 \in a => j \in Shl(a, 8)
    <3> SUFFICES ASSUME NEW j \in 8 .. 15, j - 8 \in a
                 PROVE  j \in Shl(a, 8)
      OBVIOUS
    <3>1. j = (j - 8) + 8 /\ j \in Bit
      BY DEF Bit
    <3> QED BY <3>1 DEF Shl
  <2> QED BY <2>1, <2>2, <2>3, <2>4
<1>2. ASSUME NEW f \in SUBSET (0 .. 15), NEW a \in SUBSET (0 .. 7), NEW b \in SUBSET (0 .. 7),
             NEW j
      PROVE  j \in Xor(Xor(c, Shl(f, 16)), Xor(Shl(a, 8), b)) <=> ~(j \in c <=> In(j, f, a, b))
  <2> DEFINE x == Shl(f, 16)
             y == Shl(a, 8)
  <2>1. (j \in x => j \in 16 .. 31) /\ (j \in y => j \in 8 .. 15) /\ (j \in b => j \in 0 .. 7)
    BY <1>1
  <2>2. /\ ~(j \in 16 .. 31 /\ j \in 8 .. 15) /\ ~(j \in 16 .. 31 /\ j \in 0 .. 7)
        /\ ~(j \in 8 .. 15 /\ j \in 0 .. 7)
    OBVIOUS
  <2>3. ~(j \in x /\ j \in y) /\ ~(j \in x /\ j \in b) /\ ~(j \in y /\ j \in b)
    BY <2>1, <2>2
  <2> HIDE DEF x, y
  <2>4. j \in Xor(Xor(c, x), Xor(y, b)) <=> ~(j \in c <=> (j \in x \/ j \in y \/ j \in b))
    BY <2>3, Zenon DEF Xor
  <2> QED BY <2>4 DEF x, y
<1>3. ASSUME NEW j
      PROVE  In(j, f1, a1, b1) <=> In(j, f2, a2, b2)
  <2>1. j \in Xor(Xor(c, Shl(f1, 16)), Xor(Shl(a1, 8), b1)) <=> ~(j \in c <=> In(j, f1, a1, b1))
    BY <1>2
  <2>2. j \in Xor(Xor(c, Shl(f2, 16)), Xor(Shl(a2, 8), b2)) <=> ~(j \in c <=> In(j, f2, a2, b2))
    BY <1>2
  <2> HIDE DEF In
  <2> QED BY <2>1, <2>2
<1>4. ASSUME NEW f \in SUBSET (0 .. 15), NEW a \in SUBSET (0 .. 7), NEW b \in SUBSET (0 .. 7)
      PROVE  /\ \A i \in 0 .. 15 : i \in f <=> In(i + 16, f, a, b)
             /\ \A i \in 0 .. 7 : i \in a <=> In(i + 8, f, a, b)
             /\ \A i \in 0 .. 7 : i \in b <=> In(i, f, a, b)
  <2>1. ASSUME NEW i \in 0 .. 15
        PROVE  i \in f <=> In(i + 16, f, a, b)
    <3> DEFINE j == i + 16
    <3>1. j \in 16 .. 31 /\ j - 16 = i /\ j \notin 8 .. 15 /\ j \notin 0 .. 7
      OBVIOUS
    <3> HIDE DEF j
    <3>2. (j \in Shl(f, 16) <=> i \in f) /\ j \notin Shl(a, 8) /\ j \notin b
      BY <1>1, <3>1
    <3>3. i \in f <=> In(j, f, a, b)
      BY <3>2
    <3> QED BY <3>3 DEF j
  <2>2. ASSUME NEW i \in 0 .. 7
        PROVE  i \in a <=> In(i + 8, f, a, b)
    <3> DEFINE j == i + 8
    <3>1. j \in 8 .. 15 /\ j - 8 = i /\ j \notin 16 .. 31 /\ j \notin 0 .. 7
      OBVIOUS
    <3> HIDE DEF j
    <3>2. (j \in Shl(a, 8) <=> i \in a) /\ j \notin Shl(f, 16) /\ j \notin b
      BY <1>1, <3>1
    <3>3. i \in a <=> In(j, f, a, b)
      BY <3>2
    <3> QED BY <3>3 DEF j
  <2>3. ASSUME NEW i \in 0 .. 7
        PROVE  i \in b <=> In(i, f, a, b)
    <3>1. i \notin 8 .. 15 /\ i \notin 16 .. 31
      OBVIOUS
    <3>2. i \notin Shl(a, 8) /\ i \notin Shl(f, 16)
      BY <1>1, <3>1
    <3> QED BY <3>2
  <2> HIDE DEF In
  <2> QED BY <2>1, <2>2, <2>3
<1> HIDE DEF In
<1>5. \A i \in 0 .. 15 : i \in f1 <=> i \in f2
  <2>1. \A i \in 0 .. 15 : /\ i \in f1 <=> In(i + 16, f1, a1, b1)
                           /\ i \in f2 <=> In(i + 16, f2, a2, b2)
    BY <1>4
  <2> QED BY <1>3, <2>1, Zenon
<1>6. \A i \in 0 .. 7 : i \in a1 <=> i \in a2
  <2>1. \A i \in 0 .. 7 : /\ i \in a1 <=> In(i + 8, f1, a1, b1)
                          /\ i \in a2 <=> In(i + 8, f2, a2, b2)
    BY <1>4
  <2> QED BY <1>3, <2>1, Zenon
<1>7. \A i \in 0 .. 7 : i \in b1 <=> i \in b2
  <2>1. \A i \in 0 .. 7 : /\ i \in b1 <=> In(i, f1, a1, b1)
                          /\ i \in b2 <=> In(i, f2, a2, b2)
    BY <1>4
  <2> QED BY <1>3, <2>1, Zenon
<1> QED BY <1>5, <1>6, <1>7

\* What an exclusive or with a constant hides, it does not lose.
LEMMA XorTells ==
  ASSUME NEW c, NEW x, NEW y, Xor(c, x) = Xor(c, y)
  PROVE  x = y
<1>1. Xor(Xor(c, x), c) = x /\ Xor(Xor(c, y), c) = y
  BY DEF Xor
<1> QED BY <1>1

\* A half-word that is shifted within a word loses nothing.
LEMMA ShlTells ==
  ASSUME NEW x \in SUBSET (0 .. 15), NEW y \in SUBSET (0 .. 15), NEW n \in 0 .. 16,
         Shl(x, n) = Shl(y, n)
  PROVE  x = y
<1>1. ASSUME NEW z \in SUBSET (0 .. 15), NEW i \in 0 .. 15
      PROVE  i \in z <=> i + n \in Shl(z, n)
  BY DEF Shl, Bit
<1> QED BY <1>1

\* Of the three numbers of a key's first word no one can change alone.
LEMMA FirstWordNotesOne ==
  ASSUME NEW c,
         NEW f1, NEW a1, NEW b1, NEW f2, NEW a2, NEW b2,
         Xor(Xor(c, f1), Xor(a1, b1)) = Xor(Xor(c, f2), Xor(a2, b2))
  PROVE  /\ a1 = a2 /\ b1 = b2 => f1 = f2
         /\ f1 = f2 /\ b1 = b2 => a1 = a2
         /\ f1 = f2 /\ a1 = a2 => b1 = b2
<1>1. /\ Xor(Xor(Xor(Xor(c, f1), Xor(a1, b1)), Xor(a1, b1)), c) = f1
      /\ Xor(Xor(Xor(Xor(c, f2), Xor(a2, b2)), Xor(a2, b2)), c) = f2
  BY DEF Xor
<1>2. /\ Xor(Xor(Xor(Xor(c, f1), Xor(a1, b1)), Xor(c, f1)), b1) = a1
      /\ Xor(Xor(Xor(Xor(c, f2), Xor(a2, b2)), Xor(c, f2)), b2) = a2
  BY DEF Xor
<1>3. /\ Xor(Xor(Xor(Xor(c, f1), Xor(a1, b1)), Xor(c, f1)), a1) = b1
      /\ Xor(Xor(Xor(Xor(c, f2), Xor(a2, b2)), Xor(c, f2)), a2) = b2
  BY DEF Xor
<1> QED BY <1>1, <1>2, <1>3

\* MacAddressInitialize, for all boards whose option bytes are half-words: boards
\* with one key have the same unique id, and they differ in none of the other
\* numbers or in at least two; if the option bytes are no more than bytes, the
\* boards are the same.
THEOREM KeysTellBoards ==
  ASSUME NEW b1 \in Boards, NEW b2 \in Boards, BoardKey(b1) = BoardKey(b2)
  PROVE  /\ b1.uniid1 = b2.uniid1 /\ b1.uniid2 = b2.uniid2 /\ b1.uniid3 = b2.uniid3
         /\ b1.data0 = b2.data0 /\ b1.data1 = b2.data1 => b1 = b2
         /\ b1.flacap = b2.flacap /\ b1.data1 = b2.data1 => b1 = b2
         /\ b1.flacap = b2.flacap /\ b1.data0 = b2.data0 => b1 = b2
         /\ (\A b \in {b1, b2} : b.data0 \cup b.data1 \subseteq 0 .. 7) => b1 = b2
<1> DEFINE B == [flacap : SUBSET (0 .. 15), data0 : SUBSET (0 .. 15), data1 : SUBSET (0 .. 15),
                 uniid1 : SUBSET Bit, uniid2 : SUBSET Bit, uniid3 : SUBSET Bit]
           c1 == Bits(1634760805)
           c2 == Bits(807429230)
           c3 == Bits(2036477240)
           c4 == Bits(1797285236)
<1>1. b1 \in B /\ b2 \in B
  BY ChaskeyAssumption
<1>2. \A b : BoardKey(b) = <<Xor(Xor(c1, Shl(b.flacap, 16)), Xor(Shl(b.data1, 8), b.data0)),
                             Xor(c2, b.uniid1), Xor(c3, b.uniid2), Xor(c4, b.uniid3)>>
  BY SMT DEF BoardKey
<1> HIDE DEF c1, c2, c3, c4
<1>3. /\ Xor(Xor(c1, Shl(b1.flacap, 16)), Xor(Shl(b1.data1, 8), b1.data0))
           = Xor(Xor(c1, Shl(b2.flacap, 16)), Xor(Shl(b2.data1, 8), b2.data0))
      /\ Xor(c2, b1.uniid1) = Xor(c2, b2.uniid1)
      /\ Xor(c3, b1.uniid2) = Xor(c3, b2.uniid2)
      /\ Xor(c4, b1.uniid3) = Xor(c4, b2.uniid3)
  BY <1>2
<1>4. b1.uniid1 = b2.uniid1 /\ b1.uniid2 = b2.uniid2 /\ b1.uniid3 = b2.uniid3
  BY <1>3, XorTells
<1>5. /\ b1.flacap \in SUBSET (0 .. 15) /\ b2.flacap \in SUBSET (0 .. 15)
      /\ b1.data1 \in SUBSET (0 .. 15) /\ b2.data1 \in SUBSET (0 .. 15)
      /\ b1.data0 \in SUBSET (0 .. 15) /\ b2.data0 \in SUBSET (0 .. 15)
  BY <1>1
<1>6. b1.flacap = b2.flacap /\ b1.data1 = b2.data1 /\ b1.data0 = b2.data0 => b1 = b2
  BY <1>1, <1>4
<1> HIDE DEF B
<1>7. /\ Shl(b1.data1, 8) = Shl(b2.data1, 8) /\ b1.data0 = b2.data0
           => Shl(b1.flacap, 16) = Shl(b2.flacap, 16)
      /\ Shl(b1.flacap, 16) = Shl(b2.flacap, 16) /\ b1.data0 = b2.data0
           => Shl(b1.data1, 8) = Shl(b2.data1, 8)
      /\ Shl(b1.flacap, 16) = Shl(b2.flacap, 16) /\ Shl(b1.data1, 8) = Shl(b2.data1, 8)
           => b1.data0 = b2.data0
  <2> DEFINE f1 == Shl(b1.flacap, 16)
             a1 == Shl(b1.data1, 8)
             f2 == Shl(b2.flacap, 16)
             a2 == Shl(b2.data1, 8)
             l1 == b1.data0
             l2 == b2.data0
  <2>1. Xor(Xor(c1, f1), Xor(a1, l1)) = Xor(Xor(c1, f2), Xor(a2, l2))
    BY <1>3
  <2> HIDE DEF f1, a1, f2, a2, l1, l2
  <2>2. /\ a1 = a2 /\ l1 = l2 => f1 = f2
        /\ f1 = f2 /\ l1 = l2 => a1 = a2
        /\ f1 = f2 /\ a1 = a2 => l1 = l2
    BY <2>1, FirstWordNotesOne
  <2> QED BY <2>2 DEF f1, a1, f2, a2, l1, l2
<1>8. /\ Shl(b1.flacap, 16) = Shl(b2.flacap, 16) => b1.flacap = b2.flacap
      /\ Shl(b1.data1, 8) = Shl(b2.data1, 8) => b1.data1 = b2.data1
  <2>1. 16 \in 0 .. 16 /\ 8 \in 0 .. 16
    OBVIOUS
  <2> QED BY <1>5, <2>1, ShlTells
<1>9. ASSUME \A b \in {b1, b2} : b.data0 \cup b.data1 \subseteq 0 .. 7
      PROVE  b1 = b2
  <2>1. /\ b1.data1 \in SUBSET (0 .. 7) /\ b2.data1 \in SUBSET (0 .. 7)
        /\ b1.data0 \in SUBSET (0 .. 7) /\ b2.data0 \in SUBSET (0 .. 7)
    BY <1>9
  <2> QED BY <1>3, <1>5, <1>6, <2>1, FirstWordTells
<1> QED BY <1>4, <1>6, <1>7, <1>8, <1>9, Zenon

(***************************************************************************)
(* Different blocks stay different under the permutation.                  *)
(***************************************************************************)

\* Rounds in a row make four words.
LEMMA IteratedType ==
  ASSUME NEW w \in Quads, NEW n \in Nat
  PROVE  Iterated(Round, w, n) \in Quads
<1> DEFINE T == {i \in Nat : Iterated(Round, w, i) \notin Quads}
<1>1. ASSUME T # {}
      PROVE  FALSE
  <2>1. PICK i \in T : \A j \in T : ~(j < i)
    <3>1. T \subseteq Nat
      OBVIOUS
    <3> HIDE DEF T
    <3> QED BY <1>1, <3>1, Least
  <2>2. i \in Nat /\ Iterated(Round, w, i) \notin Quads
    OBVIOUS
  <2>3. i # 0
    BY <2>2, IteratedStep
  <2>4. i - 1 \in Nat /\ i - 1 < i /\ (i - 1) + 1 = i
    BY <2>2, <2>3
  <2>5. Iterated(Round, w, i - 1) \in Quads
    BY <2>1, <2>4
  <2>6. Iterated(Round, w, (i - 1) + 1) = Round(Iterated(Round, w, i - 1))
    BY <2>4, IteratedStep
  <2> QED BY <2>2, <2>4, <2>5, <2>6, RoundType
<1> QED BY <1>1

\* However many there are, they can be taken back.
LEMMA IteratedTells ==
  ASSUME NEW w \in Quads, NEW u \in Quads, NEW n \in Nat,
         Iterated(Round, w, n) = Iterated(Round, u, n)
  PROVE  w = u
<1> DEFINE T == {i \in Nat : Iterated(Round, w, i) = Iterated(Round, u, i)}
<1>1. PICK i \in T : \A j \in T : ~(j < i)
  <2>1. T \subseteq Nat /\ n \in T
    OBVIOUS
  <2> HIDE DEF T
  <2> QED BY <2>1, Least
<1>2. i \in Nat /\ Iterated(Round, w, i) = Iterated(Round, u, i)
  OBVIOUS
<1>3. CASE i = 0
  <2>1. Iterated(Round, w, 0) = w /\ Iterated(Round, u, 0) = u
    <3>1. 0 \in Nat
      OBVIOUS
    <3> QED BY <3>1, IteratedStep
  <2> QED BY <1>2, <1>3, <2>1
<1>4. CASE i # 0
  <2>1. i - 1 \in Nat /\ i - 1 < i /\ (i - 1) + 1 = i
    BY <1>2, <1>4
  <2> DEFINE w1 == Iterated(Round, w, i - 1)
             u1 == Iterated(Round, u, i - 1)
  <2>2. w1 \in Quads /\ u1 \in Quads
    BY <2>1, IteratedType
  <2>3. Iterated(Round, w, i) = Round(w1) /\ Iterated(Round, u, i) = Round(u1)
    <3>1. i - 1 \in Nat
      BY <2>1
    <3>2. Iterated(Round, w, (i - 1) + 1) = Round(w1)
      BY <3>1, IteratedStep, Zenon
    <3>3. Iterated(Round, u, (i - 1) + 1) = Round(u1)
      BY <3>1, IteratedStep, Zenon
    <3> QED BY <2>1, <3>2, <3>3, Zenon
  <2>4. w1 # u1
    BY <1>1, <2>1
  <2> HIDE DEF w1, u1
  <2>5. Unround(Round(w1)) = w1 /\ Unround(Round(u1)) = u1
    BY <2>2, RoundUndone
  <2> QED BY <1>2, <2>3, <2>4, <2>5
<1> QED BY <1>3, <1>4

\* A block, keyed, tells the block.
LEMMA Xor4Tells ==
  ASSUME NEW a \in Quads, NEW b \in Quads, NEW k \in Quads, Xor4(a, k) = Xor4(b, k)
  PROVE  a = b
<1>1. ASSUME NEW n \in 1 .. 4
      PROVE  a[n] = b[n]
  <2>1. Xor4(a, k)[n] = Xor(a[n], k[n]) /\ Xor4(b, k)[n] = Xor(b[n], k[n])
    BY DEF Xor4
  <2>2. Xor(Xor(a[n], k[n]), k[n]) = a[n] /\ Xor(Xor(b[n], k[n]), k[n]) = b[n]
    BY XorUndone
  <2> QED BY <2>1, <2>2
<1> QED BY <1>1 DEF Quads

\* chaskey8 is a permutation under every key: from what it makes of a block the
\* block can be told.
THEOREM BlocksTell ==
  ASSUME NEW a \in Quads, NEW b \in Quads, NEW k \in Quads,
         Chaskey8(a, k) = Chaskey8(b, k)
  PROVE  a = b
<1> DEFINE w == Xor4(a, k)
           u == Xor4(b, k)
<1>1. w \in Quads /\ u \in Quads
  BY Xor4Type
<1>2. /\ Chaskey8(a, k) = Xor4(Iterated(Round, w, 8), k)
      /\ Chaskey8(b, k) = Xor4(Iterated(Round, u, 8), k)
  BY DEF Chaskey8, Rounds
<1> HIDE DEF w, u
<1>3. Iterated(Round, w, 8) \in Quads /\ Iterated(Round, u, 8) \in Quads
  BY <1>1, IteratedType
<1>4. Iterated(Round, w, 8) = Iterated(Round, u, 8)
  BY <1>2, <1>3, Xor4Tells
<1>5. w = u
  BY <1>1, <1>4, IteratedTells
<1> QED BY <1>5, Xor4Tells DEF w, u

(***************************************************************************)
(* Affine sequences: x, a * x + c, a * (a * x + c) + c, and so on.         *)
(***************************************************************************)

Affine(a, c, x, f, k) == IF k = 0 THEN x ELSE a * f[k - 1] + c

\* f begins such a sequence, up to its element n.
Begins(a, c, x, f, n) == \A k \in 0 .. n : f[k] = Affine(a, c, x, f, k)

\* f is such a sequence.
Orbit(a, c, x, f) ==
  /\ f \in [Nat -> Nat]
  /\ f[0] = x
  /\ \A n \in Nat : f[n + 1] = a * f[n] + c

\* However long they are, two that begin alike are alike.
LEMMA BeginningsAgree ==
  ASSUME NEW a, NEW c, NEW x, NEW f, NEW g, NEW m \in Nat, NEW n \in Nat, m <= n,
         Begins(a, c, x, f, m), Begins(a, c, x, g, n)
  PROVE  f[m] = g[m]
<1> DEFINE T == {i \in 0 .. m : f[i] # g[i]}
<1>1. ASSUME T # {}
      PROVE  FALSE
  <2>1. PICK i \in T : \A j \in T : ~(j < i)
    <3>1. T \subseteq Nat
      OBVIOUS
    <3> HIDE DEF T
    <3> QED BY <1>1, <3>1, Least
  <2>2. i \in 0 .. m /\ i \in 0 .. n /\ f[i] # g[i]
    OBVIOUS
  <2>3. f[i] = Affine(a, c, x, f, i) /\ g[i] = Affine(a, c, x, g, i)
    BY <2>2 DEF Begins
  <2>4. i # 0
    BY <2>2, <2>3 DEF Affine
  <2>5. i - 1 \in 0 .. m /\ i - 1 < i
    BY <2>2, <2>4
  <2>6. f[i - 1] = g[i - 1]
    BY <2>1, <2>5
  <2> QED BY <2>2, <2>3, <2>4, <2>6 DEF Affine
<1>2. m \in 0 .. m
  OBVIOUS
<1> QED BY <1>1, <1>2

\* There are beginnings of every length.
LEMMA BeginningsExist ==
  ASSUME NEW a \in Nat, NEW c \in Nat, NEW x \in Nat, NEW n \in Nat
  PROVE  \E f \in [0 .. n -> Nat] : Begins(a, c, x, f, n)
<1> DEFINE T == {m \in Nat : ~\E f \in [0 .. m -> Nat] : Begins(a, c, x, f, m)}
<1>1. ASSUME T # {}
      PROVE  FALSE
  <2>1. PICK m \in T : \A k \in T : ~(k < m)
    <3>1. T \subseteq Nat
      OBVIOUS
    <3> HIDE DEF T
    <3> QED BY <1>1, <3>1, Least
  <2>2. m \in Nat /\ ~\E f \in [0 .. m -> Nat] : Begins(a, c, x, f, m)
    OBVIOUS
  <2>3. CASE m = 0
    <3> DEFINE f == [k \in 0 .. 0 |-> x]
    <3>1. f \in [0 .. 0 -> Nat] /\ \A k \in 0 .. 0 : f[k] = x /\ k = 0
      OBVIOUS
    <3> HIDE DEF f
    <3>2. Begins(a, c, x, f, 0)
      BY <3>1 DEF Begins, Affine
    <3> QED BY <2>2, <2>3, <3>1, <3>2
  <2>4. CASE m # 0
    <3>1. m - 1 \in Nat /\ m - 1 < m
      BY <2>2, <2>4
    <3>2. PICK f \in [0 .. m - 1 -> Nat] : Begins(a, c, x, f, m - 1)
      BY <2>1, <3>1
    <3> DEFINE g == [k \in 0 .. m |-> IF k = m THEN a * f[m - 1] + c ELSE f[k]]
    <3>3. f[m - 1] \in Nat /\ a * f[m - 1] + c \in Nat
      BY <3>1
    <3>4. g \in [0 .. m -> Nat]
      BY <2>2, <3>3
    <3>5. /\ \A k \in 0 .. m - 1 : g[k] = f[k]
          /\ g[m] = a * f[m - 1] + c
      BY <2>2, <2>4
    <3> HIDE DEF g
    <3>6. ASSUME NEW k \in 0 .. m
          PROVE  g[k] = Affine(a, c, x, g, k)
      <4>1. CASE k = m
        <5>1. m - 1 \in 0 .. m - 1
          BY <3>1
        <5> QED BY <2>4, <3>5, <4>1, <5>1 DEF Affine
      <4>2. CASE k # m
        <5>1. k \in 0 .. m - 1 /\ (k # 0 => k - 1 \in 0 .. m - 1)
          BY <2>2, <4>2
        <5> QED BY <3>2, <3>5, <5>1 DEF Begins, Affine
      <4> QED BY <4>1, <4>2
    <3>7. Begins(a, c, x, g, m)
      BY <3>6 DEF Begins
    <3> QED BY <2>2, <3>4, <3>7
  <2> QED BY <2>3, <2>4
<1> QED BY <1>1

\* So there is the whole sequence.
LEMMA OrbitExists ==
  ASSUME NEW a \in Nat, NEW c \in Nat, NEW x \in Nat
  PROVE  \E f : Orbit(a, c, x, f)
<1> DEFINE h(n) == CHOOSE f : f \in [0 .. n -> Nat] /\ Begins(a, c, x, f, n)
           o == [n \in Nat |-> h(n)[n]]
<1>1. ASSUME NEW n \in Nat
      PROVE  h(n) \in [0 .. n -> Nat] /\ Begins(a, c, x, h(n), n)
  BY BeginningsExist
<1>2. \A n \in Nat : o[n] = h(n)[n]
  OBVIOUS
<1>3. o \in [Nat -> Nat]
  <2>1. ASSUME NEW n \in Nat
        PROVE  h(n)[n] \in Nat
    <3>1. n \in 0 .. n
      OBVIOUS
    <3> HIDE DEF h
    <3> QED BY <1>1, <3>1
  <2> HIDE DEF h
  <2> QED BY <2>1
<1> HIDE DEF h, o
<1>4. o[0] = x
  <2>1. 0 \in Nat /\ 0 \in 0 .. 0
    OBVIOUS
  <2>2. h(0)[0] = Affine(a, c, x, h(0), 0)
    BY <1>1, <2>1 DEF Begins
  <2> QED BY <1>2, <2>1, <2>2 DEF Affine
<1>5. ASSUME NEW n \in Nat
      PROVE  o[n + 1] = a * o[n] + c
  <2>1. /\ n + 1 \in Nat /\ n <= n + 1 /\ n + 1 \in 0 .. n + 1
        /\ (n + 1) - 1 = n /\ n + 1 # 0
    OBVIOUS
  <2>2. h(n + 1)[n + 1] = Affine(a, c, x, h(n + 1), n + 1)
    BY <1>1, <2>1 DEF Begins
  <2>3. h(n)[n] = h(n + 1)[n]
    <3> DEFINE p == h(n)
               q == h(n + 1)
    <3>1. Begins(a, c, x, p, n) /\ Begins(a, c, x, q, n + 1)
      BY <1>1, <2>1
    <3> HIDE DEF p, q
    <3>2. \A f, g : \A i, j \in Nat :
            i <= j /\ Begins(a, c, x, f, i) /\ Begins(a, c, x, g, j) => f[i] = g[i]
      BY BeginningsAgree
    <3>3. p[n] = q[n]
      BY <2>1, <3>1, <3>2
    <3> QED BY <3>3 DEF p, q
  <2> QED BY <1>2, <2>1, <2>2, <2>3 DEF Affine
<1>6. Orbit(a, c, x, o)
  BY <1>3, <1>4, <1>5 DEF Orbit
<1> QED BY <1>6

(***************************************************************************)
(* Powers of two.                                                          *)
(***************************************************************************)

\* Size computes them.
LEMMA SizeIs ==
  /\ Size[0] = 1
  /\ \A n \in Nat : Size[n] \in Nat \ {0} /\ Size[n + 1] = 2 * Size[n]
<1> DEFINE Is(f) == f = [w \in Nat |-> IF w = 0 THEN 1 ELSE 2 * f[w - 1]]
<1>1. PICK f : Orbit(2, 0, 1, f)
  BY OrbitExists
<1>2. Is(f)
  <2>1. ASSUME NEW w \in Nat
        PROVE  f[w] = IF w = 0 THEN 1 ELSE 2 * f[w - 1]
    <3>1. CASE w = 0
      BY <1>1, <3>1 DEF Orbit
    <3>2. CASE w # 0
      <4>1. w - 1 \in Nat /\ (w - 1) + 1 = w
        BY <3>2
      <4>2. f[(w - 1) + 1] = 2 * f[w - 1] + 0 /\ f[w - 1] \in Nat
        BY <1>1, <4>1 DEF Orbit
      <4> QED BY <3>2, <4>1, <4>2
    <3> QED BY <3>1, <3>2
  <2>2. f = [w \in Nat |-> f[w]]
    BY <1>1 DEF Orbit
  <2> QED BY <2>1, <2>2
<1>3. Size = CHOOSE g : Is(g)
  BY DEF Size
<1>4. Is(Size)
  <2> HIDE DEF Is
  <2> QED BY <1>2, <1>3
<1> DEFINE T == {n \in Nat : Size[n] \notin Nat \ {0}}
<1>5. ASSUME T # {}
      PROVE  FALSE
  <2>1. PICK i \in T : \A j \in T : ~(j < i)
    <3>1. T \subseteq Nat
      OBVIOUS
    <3> HIDE DEF T
    <3> QED BY <1>5, <3>1, Least
  <2>2. Size[i] = IF i = 0 THEN 1 ELSE 2 * Size[i - 1]
    BY <1>4
  <2>3. i # 0
    BY <2>2
  <2>4. i - 1 \in Nat /\ i - 1 < i
    BY <2>3
  <2>5. Size[i - 1] \in Nat \ {0}
    BY <2>1, <2>4
  <2> QED BY <2>2, <2>3, <2>5
<1>6. ASSUME NEW n \in Nat
      PROVE  Size[n + 1] = 2 * Size[n]
  <2>1. n + 1 \in Nat /\ n + 1 # 0 /\ (n + 1) - 1 = n
    OBVIOUS
  <2> QED BY <1>4, <2>1
<1>7. Size[0] = 1
  BY <1>4
<1> QED BY <1>5, <1>6, <1>7

(***************************************************************************)
(* Strides: what 2^k steps of a sequence add to it.                        *)
(***************************************************************************)

\* P steps multiply by A and add B.
Jump(f, P, A, B) == \A n \in Nat : f[n + P] = A * f[n] + B

\* Twice as many steps do it twice.
LEMMA JumpTwice ==
  ASSUME NEW f \in [Nat -> Nat], NEW P \in Nat, NEW A \in Nat, NEW B \in Nat,
         Jump(f, P, A, B)
  PROVE  Jump(f, 2 * P, A * A, A * B + B)
<1> SUFFICES ASSUME NEW n \in Nat
             PROVE  f[n + 2 * P] = (A * A) * f[n] + (A * B + B)
  BY DEF Jump
<1>1. n + P \in Nat /\ (n + P) + P = n + 2 * P /\ f[n] \in Nat
  OBVIOUS
<1>2. f[n + P] = A * f[n] + B /\ f[(n + P) + P] = A * f[n + P] + B
  BY <1>1 DEF Jump
<1> DEFINE y == f[n]
<1>3. y \in Nat /\ f[n + 2 * P] = A * (A * y + B) + B
  BY <1>1, <1>2
<1> HIDE DEF y
<1>4. A * (A * y + B) + B = (A * A) * y + (A * B + B)
  BY <1>3
<1> QED BY <1>3, <1>4 DEF y

\* With the multiplier 1 + 4t and an odd addend, 2^k steps multiply by
\* 1 + 4 * 2^k * t' and add an odd multiple of 2^k.
Mixed(f, P) ==
  \E t, s \in Nat : Jump(f, P, 1 + 4 * (P * t), P * (1 + 2 * s))

LEMMA MixedTwice ==
  ASSUME NEW f \in [Nat -> Nat], NEW P \in Nat, Mixed(f, P)
  PROVE  Mixed(f, 2 * P)
<1>1. PICK t \in Nat, s \in Nat : Jump(f, P, 1 + 4 * (P * t), P * (1 + 2 * s))
  BY DEF Mixed
<1> DEFINE A == 1 + 4 * (P * t)
           B == P * (1 + 2 * s)
           u == t + 2 * (P * (t * t))
           r == s + P * t + 2 * (P * (t * s))
<1>2. A \in Nat /\ B \in Nat
  OBVIOUS
<1>3. u \in Nat /\ r \in Nat
  OBVIOUS
<1>4. A * A = 1 + 4 * ((2 * P) * u)
  OBVIOUS
<1>5. A * B + B = (2 * P) * (1 + 2 * r)
  OBVIOUS
<1>6. Jump(f, P, A, B)
  BY <1>1
<1> HIDE DEF A, B
<1>7. Jump(f, 2 * P, A * A, A * B + B)
  BY <1>2, <1>6, JumpTwice
<1> HIDE DEF u, r
<1>8. Jump(f, 2 * P, 1 + 4 * ((2 * P) * u), (2 * P) * (1 + 2 * r))
  BY <1>4, <1>5, <1>7
<1> QED BY <1>3, <1>8 DEF Mixed

\* With a multiplier of 5 modulo 8 and no addend, 2^k steps multiply by
\* 1 + 4 * 2^k * t' with t' odd.
Multiplied(f, P) == \E t \in Nat : Jump(f, P, 1 + 4 * (P * (1 + 2 * t)), 0)

LEMMA MultipliedTwice ==
  ASSUME NEW f \in [Nat -> Nat], NEW P \in Nat, Multiplied(f, P)
  PROVE  Multiplied(f, 2 * P)
<1>1. PICK t \in Nat : Jump(f, P, 1 + 4 * (P * (1 + 2 * t)), 0)
  BY DEF Multiplied
<1> DEFINE o == 1 + 2 * t
           A == 1 + 4 * (P * o)
           u == t + P * (o * o)
<1>2. o \in Nat /\ A \in Nat
  OBVIOUS
<1>3. u \in Nat
  BY <1>2
<1>4. A * A = 1 + 4 * ((2 * P) * (1 + 2 * u))
  OBVIOUS
<1>5. A * 0 + 0 = 0
  BY <1>2
<1>6. Jump(f, P, A, 0)
  BY <1>1
<1> HIDE DEF A, o
<1>7. Jump(f, 2 * P, A * A, A * 0 + 0)
  BY <1>2, <1>6, JumpTwice
<1> HIDE DEF u
<1>8. Jump(f, 2 * P, 1 + 4 * ((2 * P) * (1 + 2 * u)), 0)
  BY <1>4, <1>5, <1>7
<1> QED BY <1>3, <1>8 DEF Multiplied

\* Either way they add an odd multiple of E times 2^k, wherever they start.
Strides(f, E) ==
  \A k, n \in Nat : \E q \in Nat : f[n + Size[k]] = f[n] + (E * Size[k]) * (1 + 2 * q)

LEMMA MixedStrides ==
  ASSUME NEW f \in [Nat -> Nat], NEW t \in Nat, NEW s \in Nat,
         Jump(f, 1, 1 + 4 * t, 1 + 2 * s)
  PROVE  Strides(f, 1)
<1> DEFINE T == {k \in Nat : ~Mixed(f, Size[k])}
<1>1. ASSUME T # {}
      PROVE  FALSE
  <2>1. PICK i \in T : \A j \in T : ~(j < i)
    <3>1. T \subseteq Nat
      OBVIOUS
    <3> HIDE DEF T
    <3> QED BY <1>1, <3>1, Least
  <2>2. i \in Nat /\ ~Mixed(f, Size[i])
    OBVIOUS
  <2>3. CASE i = 0
    <3>1. Size[0] = 1
      BY SizeIs
    <3>2. 1 + 4 * t = 1 + 4 * (1 * t) /\ 1 + 2 * s = 1 * (1 + 2 * s)
      OBVIOUS
    <3>3. Mixed(f, 1)
      BY <3>2 DEF Mixed
    <3> QED BY <2>2, <2>3, <3>1, <3>3
  <2>4. CASE i # 0
    <3>1. i - 1 \in Nat /\ i - 1 < i /\ (i - 1) + 1 = i
      BY <2>2, <2>4
    <3>2. Mixed(f, Size[i - 1])
      BY <2>1, <3>1
    <3>3. Size[i - 1] \in Nat /\ Size[i] = 2 * Size[i - 1]
      BY <3>1, SizeIs
    <3>4. Mixed(f, 2 * Size[i - 1])
      BY <3>2, <3>3, MixedTwice
    <3> QED BY <2>2, <3>3, <3>4
  <2> QED BY <2>3, <2>4
<1>2. ASSUME NEW k \in Nat, NEW n \in Nat
      PROVE  \E q \in Nat : f[n + Size[k]] = f[n] + (1 * Size[k]) * (1 + 2 * q)
  <2>1. Mixed(f, Size[k])
    BY <1>1
  <2>2. PICK p \in Nat, r \in Nat :
          Jump(f, Size[k], 1 + 4 * (Size[k] * p), Size[k] * (1 + 2 * r))
    BY <2>1 DEF Mixed
  <2> DEFINE P == Size[k]
             y == f[n]
  <2>3. f[n + P] = (1 + 4 * (P * p)) * y + P * (1 + 2 * r)
    BY <2>2 DEF Jump
  <2>4. P \in Nat /\ y \in Nat
    BY SizeIs
  <2> DEFINE q == r + 2 * (p * y)
  <2>5. q \in Nat
    BY <2>4
  <2> HIDE DEF P, y
  <2>6. (1 + 4 * (P * p)) * y + P * (1 + 2 * r) = y + (1 * P) * (1 + 2 * q)
    BY <2>4
  <2> HIDE DEF q
  <2>7. f[n + P] = y + (1 * P) * (1 + 2 * q)
    BY <2>3, <2>6
  <2> QED BY <2>5, <2>7 DEF P, y
<1> QED BY <1>2 DEF Strides

LEMMA MultipliedStrides ==
  ASSUME NEW f \in [Nat -> Nat], NEW t \in Nat, NEW s \in Nat,
         Jump(f, 1, 1 + 4 * (1 + 2 * t), 0), f[0] = 1 + 2 * s
  PROVE  Strides(f, 4)
<1> DEFINE T == {k \in Nat : ~Multiplied(f, Size[k])}
<1>1. ASSUME T # {}
      PROVE  FALSE
  <2>1. PICK i \in T : \A j \in T : ~(j < i)
    <3>1. T \subseteq Nat
      OBVIOUS
    <3> HIDE DEF T
    <3> QED BY <1>1, <3>1, Least
  <2>2. i \in Nat /\ ~Multiplied(f, Size[i])
    OBVIOUS
  <2>3. CASE i = 0
    <3>1. Size[0] = 1
      BY SizeIs
    <3>2. 1 + 4 * (1 + 2 * t) = 1 + 4 * (1 * (1 + 2 * t))
      OBVIOUS
    <3>3. Multiplied(f, 1)
      BY <3>2 DEF Multiplied
    <3> QED BY <2>2, <2>3, <3>1, <3>3
  <2>4. CASE i # 0
    <3>1. i - 1 \in Nat /\ i - 1 < i /\ (i - 1) + 1 = i
      BY <2>2, <2>4
    <3>2. Multiplied(f, Size[i - 1])
      BY <2>1, <3>1
    <3>3. Size[i - 1] \in Nat /\ Size[i] = 2 * Size[i - 1]
      BY <3>1, SizeIs
    <3>4. Multiplied(f, 2 * Size[i - 1])
      BY <3>2, <3>3, MultipliedTwice
    <3> QED BY <2>2, <3>3, <3>4
  <2> QED BY <2>3, <2>4
<1> DEFINE IsOdd(y) == \E r \in Nat : y = 1 + 2 * r
           U == {n \in Nat : ~IsOdd(f[n])}
<1>2. ASSUME U # {}
      PROVE  FALSE
  <2>1. PICK i \in U : \A j \in U : ~(j < i)
    <3>1. U \subseteq Nat
      OBVIOUS
    <3> HIDE DEF U
    <3> QED BY <1>2, <3>1, Least
  <2>2. i \in Nat /\ ~IsOdd(f[i])
    OBVIOUS
  <2>3. i # 0
    BY <2>2
  <2>4. i - 1 \in Nat /\ i - 1 < i /\ (i - 1) + 1 = i
    BY <2>2, <2>3
  <2>5. IsOdd(f[i - 1])
    BY <2>1, <2>4
  <2>6. PICK r \in Nat : f[i - 1] = 1 + 2 * r
    BY <2>5
  <2>7. f[i] = (1 + 4 * (1 + 2 * t)) * f[i - 1] + 0
    BY <2>4 DEF Jump
  <2>8. f[i] = 1 + 2 * (2 * (1 + 2 * t) + r * (1 + 4 * (1 + 2 * t)))
    BY <2>6, <2>7
  <2>9. 2 * (1 + 2 * t) + r * (1 + 4 * (1 + 2 * t)) \in Nat
    OBVIOUS
  <2> QED BY <2>2, <2>8, <2>9
<1>3. ASSUME NEW k \in Nat, NEW n \in Nat
      PROVE  \E q \in Nat : f[n + Size[k]] = f[n] + (4 * Size[k]) * (1 + 2 * q)
  <2>1. Multiplied(f, Size[k]) /\ IsOdd(f[n])
    BY <1>1, <1>2
  <2>2. PICK p \in Nat : Jump(f, Size[k], 1 + 4 * (Size[k] * (1 + 2 * p)), 0)
    BY <2>1 DEF Multiplied
  <2>3. PICK r \in Nat : f[n] = 1 + 2 * r
    BY <2>1
  <2> DEFINE P == Size[k]
             y == f[n]
  <2>4. f[n + P] = (1 + 4 * (P * (1 + 2 * p))) * y + 0
    BY <2>2 DEF Jump
  <2>5. P \in Nat /\ y \in Nat /\ y = 1 + 2 * r
    BY <2>3, SizeIs
  <2> DEFINE q == p + r + 2 * (p * r)
  <2>6. q \in Nat
    OBVIOUS
  <2> HIDE DEF P, y
  <2>7. (1 + 4 * (P * (1 + 2 * p))) * (1 + 2 * r) + 0
          = (1 + 2 * r) + (4 * P) * (1 + 2 * q)
    BY <2>5
  <2> HIDE DEF q
  <2>8. f[n + P] = y + (4 * P) * (1 + 2 * q)
    BY <2>4, <2>5, <2>7
  <2> QED BY <2>6, <2>8 DEF P, y
<1> QED BY <1>3 DEF Strides

(***************************************************************************)
(* Residues.                                                               *)
(***************************************************************************)

\* x and y leave the same remainder.
Alike(x, y, M) == \E q \in Int : x = y + q * M

LEMMA AlikeSym ==
  ASSUME NEW x \in Int, NEW y \in Int, NEW M \in Nat, Alike(x, y, M)
  PROVE  Alike(y, x, M)
<1>1. PICK q \in Int : x = y + q * M
  BY DEF Alike
<1>2. y = x + (-q) * M /\ -q \in Int
  BY <1>1
<1> QED BY <1>2 DEF Alike

LEMMA AlikeTrans ==
  ASSUME NEW x \in Int, NEW y \in Int, NEW z \in Int, NEW M \in Nat,
         Alike(x, y, M), Alike(y, z, M)
  PROVE  Alike(x, z, M)
<1>1. PICK q \in Int : x = y + q * M
  BY DEF Alike
<1>2. PICK r \in Int : y = z + r * M
  BY DEF Alike
<1>3. x = z + (q + r) * M /\ q + r \in Int
  BY <1>1, <1>2
<1> QED BY <1>3 DEF Alike

\* A step of the generator does not tell them apart.
LEMMA AlikeStep ==
  ASSUME NEW x \in Int, NEW y \in Int, NEW M \in Nat, NEW a \in Nat, NEW c \in Nat,
         Alike(x, y, M)
  PROVE  Alike(x * a + c, a * y + c, M)
<1>1. PICK q \in Int : x = y + q * M
  BY DEF Alike
<1>2. x * a + c = (a * y + c) + (q * a) * M /\ q * a \in Int
  BY <1>1
<1> QED BY <1>2 DEF Alike

\* Nor does the cut to the width of a word.
LEMMA AlikeMod ==
  ASSUME NEW x \in Nat, NEW M \in Nat \ {0}
  PROVE  x % M \in 0 .. M - 1 /\ Alike(x % M, x, M)
<1>1. x % M \in 0 .. M - 1
  OBVIOUS
<1>2. x % M = x - M * (x \div M) /\ x \div M \in Int
  OBVIOUS
<1> DEFINE d == x \div M
<1>3. x % M = x + (-d) * M /\ -d \in Int
  <2>1. d \in Int /\ x % M = x - M * d
    BY <1>2
  <2> HIDE DEF d
  <2>2. x - M * d = x + (-d) * M
    BY <2>1
  <2> QED BY <2>1, <2>2
<1> HIDE DEF d
<1> QED BY <1>1, <1>3 DEF Alike

\* Words that are alike are equal.
LEMMA AlikeWords ==
  ASSUME NEW M \in Nat, NEW x \in 0 .. M - 1, NEW y \in 0 .. M - 1, Alike(x, y, M)
  PROVE  x = y
<1>1. PICK q \in Int : x = y + q * M
  BY DEF Alike
<1>2. q >= 1 => q * M >= M
  OBVIOUS
<1>3. q <= -1 => q * M <= -M
  OBVIOUS
<1> QED BY <1>1, <1>2, <1>3

(***************************************************************************)
(* A sequence with strides comes back after 2^k steps, and not before.     *)
(***************************************************************************)

\* An odd multiple is not an even one.
LEMMA OddNotEven ==
  ASSUME NEW D \in Nat \ {0}, NEW r \in Nat, NEW q \in Int
  PROVE  D * (1 + 2 * r) # q * (2 * D)
<1> SUFFICES ASSUME D * (1 + 2 * r) = q * (2 * D)
             PROVE  FALSE
  OBVIOUS
<1> DEFINE z == 1 + 2 * r - 2 * q
<1>1. D * z = 0 /\ z \in Int /\ z # 0
  OBVIOUS
<1> HIDE DEF z
<1>2. z >= 1 => D * z >= D
  BY <1>1
<1>3. z <= -1 => D * z <= -D
  BY <1>1
<1> QED BY <1>1, <1>2, <1>3

LEMMA NoReturn ==
  ASSUME NEW f \in [Nat -> Nat], NEW E \in {1, 4}, Strides(f, E),
         NEW k \in Nat, NEW n \in Nat, 0 < n, n < Size[k]
  PROVE  ~Alike(f[n], f[0], E * Size[k])
<1> DEFINE Bad(i) == \E m \in Nat : 0 < m /\ m < Size[i] /\ Alike(f[m], f[0], E * Size[i])
           T == {i \in Nat : Bad(i)}
<1>1. ASSUME T # {}
      PROVE  FALSE
  <2>1. PICK i \in T : \A j \in T : ~(j < i)
    <3>1. T \subseteq Nat
      OBVIOUS
    <3> HIDE DEF T
    <3> QED BY <1>1, <3>1, Least
  <2>2. i \in Nat /\ Bad(i)
    OBVIOUS
  <2>3. PICK m \in Nat : 0 < m /\ m < Size[i] /\ Alike(f[m], f[0], E * Size[i])
    BY <2>2
  <2>4. i # 0
    BY <2>3, SizeIs
  <2>5. i - 1 \in Nat /\ i - 1 < i /\ (i - 1) + 1 = i
    BY <2>2, <2>4
  <2>6. ~Bad(i - 1)
    BY <2>1, <2>5
  <2> DEFINE P == Size[i - 1]
             D == E * P
  <2>7. P \in Nat \ {0} /\ Size[i] = 2 * P
    BY <2>5, SizeIs
  <2> HIDE DEF Bad, T
  <2>8. \A j \in Nat : 0 < j /\ j < P => ~Alike(f[j], f[0], D)
    BY <2>6 DEF Bad
  <2>9. \A j \in Nat : \E q \in Nat : f[j + P] = f[j] + D * (1 + 2 * q)
    BY <2>5 DEF Strides
  <2> HIDE DEF P
  <2>10. D \in Nat \ {0} /\ E * Size[i] = 2 * D
    BY <2>7
  <2> HIDE DEF D
  <2>11. PICK q \in Int : f[m] = f[0] + q * (2 * D)
    BY <2>3, <2>10 DEF Alike
  <2>12. f[0] \in Nat /\ f[m] \in Nat
    OBVIOUS
  <2>13. CASE m < P
    <3>1. f[m] = f[0] + (2 * q) * D /\ 2 * q \in Int
      BY <2>10, <2>11, <2>12
    <3>2. Alike(f[m], f[0], D)
      BY <3>1 DEF Alike
    <3> QED BY <2>3, <2>8, <2>13, <3>2
  <2>14. CASE m = P
    <3>1. PICK r \in Nat : f[0 + P] = f[0] + D * (1 + 2 * r)
      BY <2>9
    <3>2. 0 + P = m
      BY <2>14
    <3>3. f[m] = f[0] + D * (1 + 2 * r)
      BY <3>1, <3>2
    <3> DEFINE g == D * (1 + 2 * r)
               h == q * (2 * D)
    <3>4. g \in Int /\ h \in Int /\ f[m] = f[0] + g /\ f[m] = f[0] + h
      BY <2>10, <2>11, <3>3
    <3>5. g # h
      BY <2>10, OddNotEven
    <3> HIDE DEF g, h
    <3> QED BY <2>12, <3>4, <3>5
  <2>15. CASE P < m
    <3>1. m - P \in Nat /\ 0 < m - P /\ m - P < P /\ (m - P) + P = m
      BY <2>3, <2>7, <2>15
    <3>2. PICK r \in Nat : f[(m - P) + P] = f[m - P] + D * (1 + 2 * r)
      BY <2>9, <3>1
    <3> DEFINE y == f[m - P]
    <3>3. y \in Nat /\ f[m] = y + D * (1 + 2 * r)
      BY <3>1, <3>2
    <3> HIDE DEF y
    <3>4. y = f[0] + (2 * q - 1 - 2 * r) * D /\ 2 * q - 1 - 2 * r \in Int
      BY <2>10, <2>11, <2>12, <3>3
    <3>5. Alike(y, f[0], D)
      BY <3>4 DEF Alike
    <3> QED BY <2>8, <3>1, <3>5 DEF y
  <2> QED BY <2>7, <2>13, <2>14, <2>15
<1>2. ~Bad(k)
  BY <1>1
<1> QED BY <1>2

\* After 2^k steps it is alike.
LEMMA Return ==
  ASSUME NEW f \in [Nat -> Nat], NEW E \in {1, 4}, Strides(f, E), NEW k \in Nat
  PROVE  Alike(f[Size[k]], f[0], E * Size[k])
<1>1. Size[k] \in Nat
  BY SizeIs
<1>2. PICK q \in Nat : f[0 + Size[k]] = f[0] + (E * Size[k]) * (1 + 2 * q)
  BY DEF Strides
<1> DEFINE M == E * Size[k]
<1>3. M \in Nat /\ 0 + Size[k] = Size[k] /\ f[Size[k]] \in Nat /\ f[0] \in Nat
  BY <1>1
<1>4. f[Size[k]] = f[0] + M * (1 + 2 * q)
  BY <1>2, <1>3
<1> HIDE DEF M
<1>5. f[Size[k]] = f[0] + (1 + 2 * q) * M /\ 1 + 2 * q \in Int
  BY <1>3, <1>4
<1> QED BY <1>5 DEF Alike, M

\* So the words of a generator that follows it are the first one at the ends of a
\* period, and only there.
LEMMA PeriodIs ==
  ASSUME NEW f \in [Nat -> Nat], NEW E \in {1, 4}, Strides(f, E), NEW k \in Nat,
         NEW M, M = E * Size[k], NEW x \in 0 .. M - 1, NEW y \in 0 .. M - 1,
         NEW n \in 0 .. Size[k], Alike(y, f[0], M), Alike(x, f[n], M)
  PROVE  x = y <=> n \in {0, Size[k]}
<1>1. Size[k] \in Nat \ {0} /\ M \in Nat \ {0}
  BY SizeIs
<1>2. n \in Nat /\ f[n] \in Int /\ f[0] \in Int /\ x \in Int /\ y \in Int
  BY <1>1
<1>3. ASSUME Alike(f[n], f[0], M)
      PROVE  x = y
  <2>1. Alike(x, f[0], M)
    BY <1>1, <1>2, <1>3, AlikeTrans
  <2>2. Alike(f[0], y, M)
    BY <1>1, <1>2, AlikeSym
  <2>3. Alike(x, y, M)
    BY <1>1, <1>2, <2>1, <2>2, AlikeTrans
  <2> QED BY <1>1, <2>3, AlikeWords
<1>4. CASE n = 0
  <2>1. f[n] = f[0] + 0 * M
    BY <1>1, <1>2, <1>4
  <2>2. Alike(f[n], f[0], M)
    BY <2>1 DEF Alike
  <2> QED BY <1>3, <1>4, <2>2
<1>5. CASE n = Size[k]
  <2>1. Alike(f[n], f[0], M)
    BY <1>5, Return
  <2> QED BY <1>3, <1>5, <2>1
<1>6. CASE n # 0 /\ n # Size[k]
  <2>1. 0 < n /\ n < Size[k]
    BY <1>1, <1>6
  <2>2. ~Alike(f[n], f[0], M)
    BY <1>2, <2>1, NoReturn
  <2>3. ASSUME x = y
        PROVE  FALSE
    <3>1. Alike(f[n], x, M)
      BY <1>1, <1>2, AlikeSym
    <3>2. Alike(x, f[0], M)
      BY <2>3
    <3>3. Alike(f[n], f[0], M)
      BY <1>1, <1>2, <3>1, <3>2, AlikeTrans
    <3> QED BY <2>2, <3>3
  <2> QED BY <1>6, <2>3
<1> QED BY <1>4, <1>5, <1>6

\* Words put side by side: their numbers multiply.
LEMMA SizeAdds ==
  ASSUME NEW m \in Nat, NEW n \in Nat
  PROVE  Size[m + n] = Size[m] * Size[n]
<1> DEFINE T == {i \in Nat : Size[m + i] # Size[m] * Size[i]}
<1>1. ASSUME T # {}
      PROVE  FALSE
  <2>1. PICK i \in T : \A j \in T : ~(j < i)
    <3>1. T \subseteq Nat
      OBVIOUS
    <3> HIDE DEF T
    <3> QED BY <1>1, <3>1, Least
  <2>2. i \in Nat /\ Size[m + i] # Size[m] * Size[i]
    OBVIOUS
  <2>3. Size[m] \in Nat
    BY SizeIs
  <2>4. i # 0
    <3>1. m + 0 = m /\ Size[m] * 1 = Size[m]
      BY <2>3
    <3> QED BY <2>2, <3>1, SizeIs
  <2>5. i - 1 \in Nat /\ i - 1 < i /\ (i - 1) + 1 = i /\ m + (i - 1) \in Nat
        /\ (m + (i - 1)) + 1 = m + i
    BY <2>2, <2>4
  <2>6. Size[m + (i - 1)] = Size[m] * Size[i - 1]
    BY <2>1, <2>5
  <2>7. Size[m + i] = 2 * Size[m + (i - 1)] /\ Size[i] = 2 * Size[i - 1] /\ Size[i - 1] \in Nat
    BY <2>5, SizeIs
  <2> QED BY <2>2, <2>3, <2>6, <2>7
<1> QED BY <1>1

\* The numbers of words of some widths.
LEMMA SizesAre ==
  /\ Size[2] = 4 /\ Size[8] = 256 /\ Size[16] = 65536 /\ Size[32] = 4294967296
  /\ Size[64] = 8 * Size[61] /\ Size[64] = Size[32] * Size[32]
  /\ Size[128] = Size[64] * Size[64]
<1>1. Size[1] = 2
  <2>1. Size[0 + 1] = 2 * Size[0] /\ 0 + 1 = 1
    BY SizeIs
  <2> QED BY <2>1, SizeIs
<1>2. Size[2] = 4
  <2>1. Size[1 + 1] = Size[1] * Size[1] /\ 1 + 1 = 2
    BY SizeAdds
  <2> QED BY <1>1, <2>1
<1>3. Size[3] = 8
  <2>1. Size[2 + 1] = Size[2] * Size[1] /\ 2 + 1 = 3
    BY SizeAdds
  <2> QED BY <1>1, <1>2, <2>1
<1>4. Size[8] = 256
  <2>1. Size[3 + 3] = Size[3] * Size[3] /\ 3 + 3 = 6
    BY SizeAdds
  <2>2. Size[6 + 2] = Size[6] * Size[2] /\ 6 + 2 = 8
    BY SizeAdds
  <2> QED BY <1>2, <1>3, <2>1, <2>2
<1>5. Size[16] = 65536
  <2>1. Size[8 + 8] = Size[8] * Size[8] /\ 8 + 8 = 16
    BY SizeAdds
  <2> QED BY <1>4, <2>1
<1>6. Size[32] = 4294967296
  <2>1. Size[16 + 16] = Size[16] * Size[16] /\ 16 + 16 = 32
    BY SizeAdds
  <2> QED BY <1>5, <2>1, SMT
<1>7. Size[64] = 8 * Size[61]
  <2>1. Size[3 + 61] = Size[3] * Size[61] /\ 3 + 61 = 64
    BY SizeAdds
  <2> QED BY <1>3, <2>1
<1>8. Size[64] = Size[32] * Size[32] /\ Size[128] = Size[64] * Size[64]
  <2>1. Size[32 + 32] = Size[32] * Size[32] /\ 32 + 32 = 64
    BY SizeAdds
  <2>2. Size[64 + 64] = Size[64] * Size[64] /\ 64 + 64 = 128
    BY SizeAdds
  <2> QED BY <2>1, <2>2
<1> QED BY <1>2, <1>4, <1>5, <1>6, <1>7, <1>8, SMT

(***************************************************************************)
(* The constants of the header.  Numbers of 64 bits and more are never     *)
(* written out: these lemmas tell what is needed of them from their parts. *)
(***************************************************************************)

OddNumber(x) == \E q \in Nat : x = 1 + 2 * q
Five(x) == \E q \in Nat : x = 1 + 4 * (1 + 2 * q)          \* 5 modulo 8

\* Nineteen decimal digits are a word of 64 bits, when they begin low enough.
LEMMA DecimalFits ==
  ASSUME NEW a \in Nat, NEW b \in Nat, NEW c \in Nat,
         a < 1800, b < 100000000, c < 100000000
  PROVE  Decimal(a, b, c) \in Word(64)
<1> DEFINE x == a * 100000000 + b
           S == Size[32]
<1>1. x \in Nat /\ x < 180000000000
  BY SMT
<1>2. Decimal(a, b, c) = x * 100000000 + c
  BY SMT DEF Decimal
<1> HIDE DEF x
<1>3. S = 4294967296 /\ Size[64] = S * S
  BY SizesAre, SMT
<1> HIDE DEF S
<1>4. x * 100000000 + c < (x + 1) * 100000000
  BY <1>1, SMT
<1>5. x + 1 <= 42 * S
  BY <1>1, <1>3, SMT
<1>6. (x + 1) * 100000000 <= (42 * S) * 100000000
  <2> DEFINE y == 42 * S
  <2>1. y \in Nat /\ x + 1 <= y
    BY <1>3, <1>5, SMT
  <2> HIDE DEF y
  <2>2. (x + 1) * 100000000 <= y * 100000000
    BY <1>1, <2>1, SMT
  <2> QED BY <2>2, SMT DEF y
<1>7. 42 * 100000000 <= S /\ S \in Nat
  BY <1>3, SMT
<1>8. (42 * S) * 100000000 = (42 * 100000000) * S
  BY <1>7, SMT
<1> DEFINE K == 42 * 100000000
<1>9. K \in Nat /\ K <= S
  BY <1>7, SMT
<1>10. (42 * S) * 100000000 = K * S
  BY <1>8, SMT
<1> HIDE DEF K
<1>11. K * S <= S * S
  BY <1>7, <1>9, SMT
<1>12. x * 100000000 + c \in Nat /\ x * 100000000 + c < S * S
  BY <1>1, <1>4, <1>6, <1>7, <1>9, <1>10, <1>11, SMT
<1> QED BY <1>2, <1>3, <1>7, <1>12, SMT DEF Word

\* The last digits tell the remainders.
LEMMA DecimalIs ==
  ASSUME NEW a \in Nat, NEW b \in Nat, NEW c \in Nat, NEW d \in Nat
  PROVE  /\ c = 1 + 2 * d => OddNumber(Decimal(a, b, c))
         /\ c = 1 + 4 * (1 + 2 * d) => Five(Decimal(a, b, c))
<1> DEFINE x == a * 100000000 + b
<1>1. x \in Nat
  BY SMT
<1>2. Decimal(a, b, c) = x * 100000000 + c
  BY SMT DEF Decimal
<1> HIDE DEF x
<1>3. ASSUME c = 1 + 2 * d
      PROVE  OddNumber(Decimal(a, b, c))
  <2>1. /\ x * 100000000 + c = 1 + 2 * (x * 50000000 + d)
        /\ x * 50000000 + d \in Nat
    BY <1>1, <1>3, SMT
  <2> QED BY <1>2, <2>1, SMT DEF OddNumber
<1>4. ASSUME c = 1 + 4 * (1 + 2 * d)
      PROVE  Five(Decimal(a, b, c))
  <2>1. /\ x * 100000000 + c = 1 + 4 * (1 + 2 * (x * 12500000 + d))
        /\ x * 12500000 + d \in Nat
    BY <1>1, <1>4, SMT
  <2> QED BY <1>2, <2>1, SMT DEF Five
<1> QED BY <1>3, <1>4

\* A word of 128 bits is put together of two of 64 bits; the low one tells the
\* remainders.
LEMMA Constant128Is ==
  ASSUME NEW h \in Word(64), NEW l \in Word(64)
  PROVE  /\ Constant128(h, l) \in Word(128)
         /\ OddNumber(l) => OddNumber(Constant128(h, l))
         /\ Five(l) => Five(Constant128(h, l))
<1> DEFINE S == Size[64]
           H == Size[61]
<1>1. S \in Nat \ {0} /\ H \in Nat /\ S = 8 * H /\ Size[128] = S * S
  BY SizeIs, SizesAre
<1>2. h \in 0 .. S - 1 /\ l \in 0 .. S - 1
  BY DEF Word
<1>3. Constant128(h, l) = h * S + l
  BY DEF Constant128
<1> HIDE DEF S, H
<1>4. h * S + l < (h + 1) * S /\ (h + 1) * S <= S * S /\ h * S + l \in Nat
  <2>1. h * S + l < (h + 1) * S /\ h * S + l \in Nat
    BY <1>1, <1>2
  <2>2. h + 1 \in Nat /\ h + 1 <= S
    BY <1>1, <1>2
  <2> DEFINE z == h + 1
  <2> HIDE DEF z
  <2>3. z \in Nat /\ z <= S
    BY <2>2 DEF z
  <2>4. z * S <= S * S
    BY <1>1, <2>3
  <2> QED BY <2>1, <2>4 DEF z
<1>5. Constant128(h, l) \in Word(128)
  <2>1. Constant128(h, l) \in Nat /\ Constant128(h, l) < S * S /\ S * S \in Nat
    BY <1>1, <1>2, <1>3, <1>4
  <2> QED BY <1>1, <2>1 DEF Word
<1>6. ASSUME OddNumber(l)
      PROVE  OddNumber(Constant128(h, l))
  <2>1. PICK q \in Nat : l = 1 + 2 * q
    BY <1>6 DEF OddNumber
  <2>2. h * S + l = 1 + 2 * (4 * (h * H) + q) /\ 4 * (h * H) + q \in Nat
    BY <1>1, <1>2, <2>1
  <2> QED BY <1>3, <2>2 DEF OddNumber
<1>7. ASSUME Five(l)
      PROVE  Five(Constant128(h, l))
  <2>1. PICK q \in Nat : l = 1 + 4 * (1 + 2 * q)
    BY <1>7 DEF Five
  <2>2. h * S + l = 1 + 4 * (1 + 2 * (h * H + q)) /\ h * H + q \in Nat
    BY <1>1, <1>2, <2>1
  <2> QED BY <1>3, <2>2 DEF Five
<1> QED BY <1>5, <1>6, <1>7

\* Ten digits are a word of 32 bits, when they begin low enough.
LEMMA TenDigitsFit ==
  ASSUME NEW b \in Nat, NEW c \in Nat, b < 42, c < 100000000
  PROVE  Decimal(0, b, c) \in Word(32)
<1>1. Decimal(0, b, c) = b * 100000000 + c
  BY SMT DEF Decimal
<1> DEFINE y == b * 100000000 + c
<1>2. y \in Nat /\ y < 4294967296
  BY SMT
<1>3. Size[32] = 4294967296
  BY SizesAre, SMT
<1> HIDE DEF y
<1>4. y \in Word(32)
  <2>1. y < Size[32] /\ Size[32] \in Nat
    BY <1>2, <1>3, SMT
  <2> QED BY <1>2, <2>1, SMT DEF Word
<1> QED BY <1>1, <1>4, SMT DEF y

\* Words of 64 bits are words of 128; and 1 is one.
LEMMA WordsGrow == Word(64) \subseteq Word(128) /\ 1 \in Word(64)
<1> DEFINE S == Size[64]
<1>1. S \in Nat \ {0} /\ Size[61] \in Nat /\ S = 8 * Size[61] /\ Size[128] = S * S
  BY SizeIs, SizesAre
<1> HIDE DEF S
<1>2. S <= S * S
  BY <1>1
<1> QED BY <1>1, <1>2 DEF Word, S

\* The multipliers are 5 modulo 8.
LEMMA MultipliersAre ==
  ASSUME NEW w \in Widths
  PROVE  Five(Multiplier(w))
<1>1. CASE w = 8
  <2>1. Multiplier(w) = 141
    BY <1>1, SMT DEF Multiplier
  <2>2. 141 = 1 + 4 * (1 + 2 * 17) /\ 17 \in Nat
    BY SMT
  <2> QED BY <2>1, <2>2, SMT DEF Five
<1>2. CASE w = 16
  <2>1. Multiplier(w) = 12829
    BY <1>2, SMT DEF Multiplier
  <2>2. 12829 = 1 + 4 * (1 + 2 * 1603) /\ 1603 \in Nat
    BY SMT
  <2> QED BY <2>1, <2>2, SMT DEF Five
<1>3. CASE w = 32
  <2>1. Multiplier(w) = 747796405
    BY <1>3, SMT DEF Multiplier
  <2>2. 747796405 = 1 + 4 * (1 + 2 * 93474550) /\ 93474550 \in Nat
    BY SMT
  <2> QED BY <2>1, <2>2, SMT DEF Five
<1>4. CASE w = 64
  <2>1. Multiplier(w) = Decimal(636, 41362238, 46793005)
    BY <1>4, SMT DEF Multiplier
  <2>3. Five(Decimal(636, 41362238, 46793005))
    <3>1. 46793005 = 1 + 4 * (1 + 2 * 5849125)
      BY SMT
    <3> QED BY <3>1, DecimalIs, SMT
  <2> QED BY <2>1, <2>3, SMT
<1>5. CASE w = 128
  <2> DEFINE h == Decimal(254, 92979953, 55413924)
             l == Decimal(486, 55405957, 14422341)
  <2>1. Multiplier(w) = Constant128(h, l)
    BY <1>5, SMT DEF Multiplier
  <2>2. h \in Word(64) /\ l \in Word(64)
    BY DecimalFits, SMT
  <2>3. Five(l)
    <3>1. 14422341 = 1 + 4 * (1 + 2 * 1802792)
      BY SMT
    <3> QED BY <3>1, DecimalIs, SMT
  <2> HIDE DEF h, l
  <2> QED BY <2>1, <2>2, <2>3, Constant128Is, SMT
<1> QED BY <1>1, <1>2, <1>3, <1>4, <1>5 DEF Widths

\* The increments are odd.
LEMMA IncrementsAre ==
  ASSUME NEW w \in Widths
  PROVE  OddNumber(Increment(w))
<1>1. CASE w = 8
  <2>1. Increment(w) = 77
    BY <1>1, SMT DEF Increment
  <2>2. 77 = 1 + 2 * 38 /\ 38 \in Nat
    BY SMT
  <2> QED BY <2>1, <2>2, SMT DEF OddNumber
<1>2. CASE w = 16
  <2>1. Increment(w) = 47989
    BY <1>2, SMT DEF Increment
  <2>2. 47989 = 1 + 2 * 23994 /\ 23994 \in Nat
    BY SMT
  <2> QED BY <2>1, <2>2, SMT DEF OddNumber
<1>3. CASE w = 32
  <2>1. Increment(w) = Decimal(0, 28, 91336453)
    BY <1>3, SMT DEF Increment
  <2>3. OddNumber(Decimal(0, 28, 91336453))
    <3>1. 91336453 = 1 + 2 * 45668226
      BY SMT
    <3> QED BY <3>1, DecimalIs, SMT
  <2> QED BY <2>1, <2>3, SMT
<1>4. CASE w = 64
  <2>1. Increment(w) = Decimal(144, 26950408, 88963407)
    BY <1>4, SMT DEF Increment
  <2>3. OddNumber(Decimal(144, 26950408, 88963407))
    <3>1. 88963407 = 1 + 2 * 44481703
      BY SMT
    <3> QED BY <3>1, DecimalIs, SMT
  <2> QED BY <2>1, <2>3, SMT
<1>5. CASE w = 128
  <2> DEFINE h == Decimal(636, 41362238, 46793005)
             l == Decimal(144, 26950408, 88963407)
  <2>1. Increment(w) = Constant128(h, l)
    BY <1>5, SMT DEF Increment
  <2>2. h \in Word(64) /\ l \in Word(64)
    BY DecimalFits, SMT
  <2>3. OddNumber(l)
    <3>1. 88963407 = 1 + 2 * 44481703
      BY SMT
    <3> QED BY <3>1, DecimalIs, SMT
  <2> HIDE DEF h, l
  <2> QED BY <2>1, <2>2, <2>3, Constant128Is, SMT
<1> QED BY <1>1, <1>2, <1>3, <1>4, <1>5 DEF Widths

\* PCG_STATE_ONESEQ_*_INITIALIZER holds a word of its width.
LEMMA OneseqStateIs ==
  ASSUME NEW w \in Widths
  PROVE  OneseqState(w) \in Word(w)
<1>1. CASE w = 8
  <2>1. OneseqState(w) = 215
    BY <1>1, SMT DEF OneseqState
  <2> QED BY <2>1, SizesAre, <1>1, SMT DEF Word
<1>2. CASE w = 16
  <2>1. OneseqState(w) = 8415
    BY <1>2, SMT DEF OneseqState
  <2> QED BY <2>1, SizesAre, <1>2, SMT DEF Word
<1>3. CASE w = 32
  <2>1. OneseqState(w) = 1186293367
    BY <1>3, SMT DEF OneseqState
  <2> QED BY <2>1, SizesAre, <1>3, SMT DEF Word
<1>4. CASE w = 64
  <2>1. OneseqState(w) = Decimal(557, 35893199, 6701683)
    BY <1>4, SMT DEF OneseqState
  <2>2. Decimal(557, 35893199, 6701683) \in Word(64)
    BY DecimalFits, SMT
  <2> QED BY <2>1, <2>2, <1>4, SMT
<1>5. CASE w = 128
  <2> DEFINE h == Decimal(1332, 5403578, 96250258)
             l == Decimal(1095, 40010713, 64377171)
  <2>1. OneseqState(w) = Constant128(h, l)
    BY <1>5, SMT DEF OneseqState
  <2>2. h \in Word(64) /\ l \in Word(64)
    BY DecimalFits, SMT
  <2> HIDE DEF h, l
  <2> QED BY <2>1, <2>2, <1>5, Constant128Is, SMT
<1> QED BY <1>1, <1>2, <1>3, <1>4, <1>5 DEF Widths

\* PCG_STATE_MCG_*_INITIALIZER holds an odd word.
LEMMA McgStateIs ==
  ASSUME NEW w \in Widths
  PROVE  McgState(w) \in Word(w) /\ OddNumber(McgState(w))
<1>1. CASE w = 8
  <2>1. McgState(w) = 229
    BY <1>1, SMT DEF McgState
  <2>2. 229 = 1 + 2 * 114 /\ 114 \in Nat
    BY SMT
  <2> QED BY <2>1, <2>2, SizesAre, <1>1, SMT DEF OddNumber, Word
<1>2. CASE w = 16
  <2>1. McgState(w) = 42469
    BY <1>2, SMT DEF McgState
  <2>2. 42469 = 1 + 2 * 21234 /\ 21234 \in Nat
    BY SMT
  <2> QED BY <2>1, <2>2, SizesAre, <1>2, SMT DEF OddNumber, Word
<1>3. CASE w = 32
  <2>1. McgState(w) = Decimal(0, 35, 12640997)
    BY <1>3, SMT DEF McgState
  <2>2. Decimal(0, 35, 12640997) \in Word(32)
    BY TenDigitsFit, SMT
  <2>3. OddNumber(Decimal(0, 35, 12640997))
    <3>1. 12640997 = 1 + 2 * 6320498
      BY SMT
    <3> QED BY <3>1, DecimalIs, SMT
  <2> QED BY <2>1, <2>2, <1>3, <2>3, SMT
<1>4. CASE w = 64
  <2>1. McgState(w) = Decimal(1462, 73925818, 83831781)
    BY <1>4, SMT DEF McgState
  <2>2. Decimal(1462, 73925818, 83831781) \in Word(64)
    BY DecimalFits, SMT
  <2>3. OddNumber(Decimal(1462, 73925818, 83831781))
    <3>1. 83831781 = 1 + 2 * 41915890
      BY SMT
    <3> QED BY <3>1, DecimalIs, SMT
  <2> QED BY <2>1, <2>2, <1>4, <2>3, SMT
<1>5. CASE w = 128
  <2>1. McgState(w) = Decimal(1462, 73925818, 83831781)
    BY <1>5, SMT DEF McgState
  <2>2. Decimal(1462, 73925818, 83831781) \in Word(128)
    BY DecimalFits, WordsGrow, SMT
  <2>3. OddNumber(Decimal(1462, 73925818, 83831781))
    <3>1. 83831781 = 1 + 2 * 41915890
      BY SMT
    <3> QED BY <3>1, DecimalIs, SMT
  <2> QED BY <2>1, <2>2, <1>5, <2>3, SMT
<1> QED BY <1>1, <1>2, <1>3, <1>4, <1>5 DEF Widths

\* The state of PCG_STATE_SETSEQ_*_INITIALIZER is a word.
LEMMA SetseqStateIs ==
  ASSUME NEW w \in Widths
  PROVE  SetseqState(w) \in Word(w)
<1>1. CASE w = 8
  <2>1. SetseqState(w) = 155
    BY <1>1, SMT DEF SetseqState
  <2> QED BY <2>1, SizesAre, <1>1, SMT DEF Word
<1>2. CASE w = 16
  <2>1. SetseqState(w) = 58267
    BY <1>2, SMT DEF SetseqState
  <2> QED BY <2>1, SizesAre, <1>2, SMT DEF Word
<1>3. CASE w = 32
  <2>1. SetseqState(w) = Decimal(0, 39, 59609499)
    BY <1>3, SMT DEF SetseqState
  <2>2. Decimal(0, 39, 59609499) \in Word(32)
    BY TenDigitsFit, SMT
  <2> QED BY <2>1, <2>2, <1>3, SMT
<1>4. CASE w = 64
  <2>1. SetseqState(w) = Decimal(960, 6297597, 93949339)
    BY <1>4, SMT DEF SetseqState
  <2>2. Decimal(960, 6297597, 93949339) \in Word(64)
    BY DecimalFits, SMT
  <2> QED BY <2>1, <2>2, <1>4, SMT
<1>5. CASE w = 128
  <2> DEFINE h == Decimal(1092, 47767773, 48161541)
             l == Decimal(902, 48230122, 82619035)
  <2>1. SetseqState(w) = Constant128(h, l)
    BY <1>5, SMT DEF SetseqState
  <2>2. h \in Word(64) /\ l \in Word(64)
    BY DecimalFits, SMT
  <2> HIDE DEF h, l
  <2> QED BY <2>1, <2>2, <1>5, Constant128Is, SMT
<1> QED BY <1>1, <1>2, <1>3, <1>4, <1>5 DEF Widths

\* Its increment is an odd word.
LEMMA SetseqIncIs ==
  ASSUME NEW w \in Widths
  PROVE  SetseqInc(w) \in Word(w) /\ OddNumber(SetseqInc(w))
<1>1. CASE w = 8
  <2>1. SetseqInc(w) = 219
    BY <1>1, SMT DEF SetseqInc
  <2>2. 219 = 1 + 2 * 109 /\ 109 \in Nat
    BY SMT
  <2> QED BY <2>1, <2>2, SizesAre, <1>1, SMT DEF OddNumber, Word
<1>2. CASE w = 16
  <2>1. SetseqInc(w) = 23515
    BY <1>2, SMT DEF SetseqInc
  <2>2. 23515 = 1 + 2 * 11757 /\ 11757 \in Nat
    BY SMT
  <2> QED BY <2>1, <2>2, SizesAre, <1>2, SMT DEF OddNumber, Word
<1>3. CASE w = 32
  <2>1. SetseqInc(w) = Decimal(0, 24, 95175643)
    BY <1>3, SMT DEF SetseqInc
  <2>2. Decimal(0, 24, 95175643) \in Word(32)
    BY TenDigitsFit, SMT
  <2>3. OddNumber(Decimal(0, 24, 95175643))
    <3>1. 95175643 = 1 + 2 * 47587821
      BY SMT
    <3> QED BY <3>1, DecimalIs, SMT
  <2> QED BY <2>1, <2>2, <1>3, <2>3, SMT
<1>4. CASE w = 64
  <2>1. SetseqInc(w) = Decimal(1572, 60704953, 60670683)
    BY <1>4, SMT DEF SetseqInc
  <2>2. Decimal(1572, 60704953, 60670683) \in Word(64)
    BY DecimalFits, SMT
  <2>3. OddNumber(Decimal(1572, 60704953, 60670683))
    <3>1. 60670683 = 1 + 2 * 30335341
      BY SMT
    <3> QED BY <3>1, DecimalIs, SMT
  <2> QED BY <2>1, <2>2, <1>4, <2>3, SMT
<1>5. CASE w = 128
  <2> DEFINE h == 1
             l == Decimal(1572, 60704953, 60670683)
  <2>1. SetseqInc(w) = Constant128(h, l)
    BY <1>5, SMT DEF SetseqInc
  <2>2. h \in Word(64) /\ l \in Word(64)
    BY DecimalFits, WordsGrow, SMT
  <2>3. OddNumber(l)
    <3>1. 60670683 = 1 + 2 * 30335341
      BY SMT
    <3> QED BY <3>1, DecimalIs, SMT
  <2> HIDE DEF h, l
  <2> QED BY <2>1, <2>2, <2>3, <1>5, Constant128Is, SMT
<1> QED BY <1>1, <1>2, <1>3, <1>4, <1>5 DEF Widths

(***************************************************************************)
(* Seeding and steps.                                                      *)
(***************************************************************************)

States(w) == [state : Word(w), inc : Word(w)]

\* What the step adds to the product.
Addend(c, inc) ==
  CASE c.variant = "oneseq" -> Increment(c.width)
    [] c.variant = "mcg"    -> 0
    [] c.variant = "unique" -> Odd(c.address)
    [] c.variant = "setseq" -> inc

\* What makes a period full.
Sound(c, x, inc) ==
  /\ c.variant = "setseq" => OddNumber(inc)
  /\ c.variant = "mcg" => OddNumber(x)

\* Half of the words of a width are even.
LEMMA Halves ==
  ASSUME NEW w \in Widths
  PROVE  \E h \in Nat \ {0} : Size[w] = 2 * h
<1>1. w - 1 \in Nat /\ (w - 1) + 1 = w
  BY DEF Widths
<1>2. Size[w - 1] \in Nat \ {0} /\ Size[w] = 2 * Size[w - 1]
  BY <1>1, SizeIs
<1> QED BY <1>2

\* x | 1 is an odd word.
LEMMA OddIs ==
  ASSUME NEW w \in Widths, NEW x \in Word(w)
  PROVE  Odd(x) \in Word(w) /\ OddNumber(Odd(x))
<1>1. PICK h \in Nat \ {0} : Size[w] = 2 * h
  BY Halves
<1>2. x \in Nat /\ x < 2 * h
  BY <1>1 DEF Word
<1>3. CASE x % 2 = 0
  <2>1. Odd(x) = x + 1
    BY <1>3 DEF Odd
  <2>2. x + 1 = 1 + 2 * (x \div 2) /\ x \div 2 \in Nat /\ x + 1 < 2 * h
    BY <1>2, <1>3
  <2> QED BY <1>1, <1>2, <2>1, <2>2 DEF Word, OddNumber
<1>4. CASE x % 2 # 0
  <2>1. Odd(x) = x
    BY <1>4 DEF Odd
  <2>2. x = 1 + 2 * (x \div 2) /\ x \div 2 \in Nat
    BY <1>2, <1>4
  <2> QED BY <2>1, <2>2 DEF OddNumber
<1> QED BY <1>3, <1>4

\* So is 2 * initseq + 1, cut to its width.
LEMMA IncIs ==
  ASSUME NEW w \in Widths, NEW x \in Nat
  PROVE  (2 * x + 1) % Size[w] \in Word(w) /\ OddNumber((2 * x + 1) % Size[w])
<1> DEFINE y == 2 * x + 1
           M == Size[w]
<1>1. PICK h \in Nat \ {0} : M = 2 * h
  BY Halves
<1>2. y \in Nat /\ M \in Nat \ {0}
  BY <1>1
<1>3. y % M \in 0 .. M - 1 /\ Alike(y % M, y, M)
  BY <1>2, AlikeMod
<1> HIDE DEF M
<1>4. PICK q \in Int : y % M = y + q * M
  BY <1>3 DEF Alike
<1> DEFINE z == y % M
<1>5. z \in Nat /\ z = 2 * x + 1 + q * (2 * h)
  BY <1>1, <1>2, <1>3, <1>4
<1> HIDE DEF z
<1>6. z = 1 + 2 * (x + q * h) /\ x + q * h \in Int
  BY <1>1, <1>5
<1>7. x + q * h \in Nat
  BY <1>5, <1>6
<1>8. OddNumber(z)
  BY <1>6, <1>7 DEF OddNumber
<1> QED BY <1>3, <1>8 DEF z, M, Word

\* The fields of a case.
LEMMA CaseIs ==
  ASSUME NEW c \in Cases
  PROVE  /\ c.variant \in Variants /\ c.width \in Widths
         /\ c.initstate \in Word(c.width) /\ c.initseq \in Word(c.width)
         /\ c.address \in Word(c.width)
  BY CasesAssumption

\* A word is a natural number.
LEMMA WordIs ==
  ASSUME NEW w \in Widths
  PROVE  /\ Size[w] \in Nat \ {0}
         /\ \A x : x \in Word(w) <=> x \in Nat /\ x < Size[w]
<1>1. w \in Nat
  BY DEF Widths
<1> QED BY <1>1, SizeIs DEF Word

\* A multiplier and an addend are natural numbers; the addend is odd but for the
\* multiplicative generators.
LEMMA StepConstants ==
  ASSUME NEW c \in Cases, NEW inc \in Nat
  PROVE  /\ Multiplier(c.width) \in Nat /\ Five(Multiplier(c.width))
         /\ Addend(c, inc) \in Nat
         /\ c.variant = "mcg" => Addend(c, inc) = 0
         /\ c.variant # "mcg" /\ (c.variant = "setseq" => OddNumber(inc))
              => OddNumber(Addend(c, inc))
<1>1. c.width \in Widths /\ c.variant \in Variants
  BY CaseIs
<1>2. Five(Multiplier(c.width))
  BY <1>1, MultipliersAre
<1>3. Multiplier(c.width) \in Nat
  BY <1>2 DEF Five
<1>4. OddNumber(Increment(c.width))
  BY <1>1, IncrementsAre
<1>5. OddNumber(Odd(c.address))
  BY <1>1, CaseIs, OddIs
<1>6. \A x : OddNumber(x) => x \in Nat
  BY DEF OddNumber
<1>7. CASE c.variant = "oneseq"
  BY <1>2, <1>3, <1>4, <1>6, <1>7 DEF Addend
<1>8. CASE c.variant = "mcg"
  BY <1>2, <1>3, <1>8 DEF Addend
<1>9. CASE c.variant = "unique"
  BY <1>2, <1>3, <1>5, <1>6, <1>9 DEF Addend
<1>10. CASE c.variant = "setseq"
  BY <1>2, <1>3, <1>10 DEF Addend
<1> QED BY <1>1, <1>7, <1>8, <1>9, <1>10 DEF Variants

\* The step multiplies, adds and cuts; it leaves the increment alone.
LEMMA StepIs ==
  ASSUME NEW c \in Cases, NEW r \in States(c.width)
  PROVE  /\ StepR(c, r) \in States(c.width)
         /\ StepR(c, r).inc = r.inc
         /\ StepR(c, r).state
              = (r.state * Multiplier(c.width) + Addend(c, r.inc)) % Size[c.width]
<1> DEFINE y == r.state * Multiplier(c.width) + Addend(c, r.inc)
           M == Size[c.width]
<1>1. StepR(c, r) = [r EXCEPT !.state = y % M]
  BY DEF StepR, Addend
<1>2. c.width \in Widths
  BY CaseIs
<1>3. M \in Nat \ {0} /\ r.state \in Nat /\ r.inc \in Nat
  BY <1>2, WordIs DEF States
<1>4. Multiplier(c.width) \in Nat /\ Addend(c, r.inc) \in Nat
  BY <1>3, StepConstants
<1>5. y \in Nat
  BY <1>3, <1>4
<1> HIDE DEF y
<1>6. y % M \in Word(c.width)
  BY <1>3, <1>5, AlikeMod DEF Word
<1> DEFINE z == y % M
<1> HIDE DEF z, M
<1>7. StepR(c, r) = [r EXCEPT !.state = z] /\ z \in Word(c.width)
  BY <1>1, <1>6 DEF z, M
<1>8. /\ StepR(c, r) \in States(c.width)
      /\ StepR(c, r).inc = r.inc /\ StepR(c, r).state = z
  BY <1>7 DEF States
<1> QED BY <1>8 DEF z, M, y

\* A static initializer holds words, odd where they have to be.
LEMMA InitializerIs ==
  ASSUME NEW c \in Cases
  PROVE  /\ Initializer(c) \in States(c.width)
         /\ Sound(c, Initializer(c).state, Initializer(c).inc)
<1>1. c.width \in Widths /\ c.variant \in Variants
  BY CaseIs
<1>2. 0 \in Word(c.width)
  BY <1>1, WordIs
<1>3. CASE c.variant \in {"oneseq", "unique"}
  <2>1. Initializer(c) = [state |-> OneseqState(c.width), inc |-> 0]
    BY <1>3 DEF Initializer
  <2>2. OneseqState(c.width) \in Word(c.width)
    BY <1>1, OneseqStateIs
  <2> QED BY <1>2, <1>3, <2>1, <2>2 DEF States, Sound
<1>4. CASE c.variant = "mcg"
  <2>1. Initializer(c) = [state |-> McgState(c.width), inc |-> 0]
    BY <1>4 DEF Initializer
  <2>2. McgState(c.width) \in Word(c.width) /\ OddNumber(McgState(c.width))
    BY <1>1, McgStateIs
  <2> QED BY <1>2, <1>4, <2>1, <2>2 DEF States, Sound
<1>5. CASE c.variant = "setseq"
  <2>1. Initializer(c) = [state |-> SetseqState(c.width), inc |-> SetseqInc(c.width)]
    BY <1>5 DEF Initializer
  <2>2. /\ SetseqState(c.width) \in Word(c.width)
        /\ SetseqInc(c.width) \in Word(c.width) /\ OddNumber(SetseqInc(c.width))
    BY <1>1, SetseqStateIs, SetseqIncIs
  <2> QED BY <1>5, <2>1, <2>2 DEF States, Sound
<1> QED BY <1>1, <1>3, <1>4, <1>5 DEF Variants

\* So does srandom_r, for every seed.
LEMMA SrandomIs ==
  ASSUME NEW c \in Cases
  PROVE  SrandomR(c) \in States(c.width) /\ Sound(c, SrandomR(c).state, SrandomR(c).inc)
<1>1. c.width \in Widths /\ c.initstate \in Word(c.width) /\ c.initseq \in Word(c.width)
  BY CaseIs
<1>2. 0 \in Word(c.width) /\ c.initstate \in Nat /\ c.initseq \in Nat
  BY <1>1, WordIs
<1>3. CASE c.variant = "mcg"
  <2>1. SrandomR(c) = [state |-> Odd(c.initstate), inc |-> 0]
    BY <1>3 DEF SrandomR
  <2>2. Odd(c.initstate) \in Word(c.width) /\ OddNumber(Odd(c.initstate))
    BY <1>1, OddIs
  <2> QED BY <1>2, <1>3, <2>1, <2>2 DEF States, Sound
<1>4. CASE c.variant # "mcg"
  <2> DEFINE inc == (2 * c.initseq + 1) % Size[c.width]
             zero == [state |-> 0, inc |-> inc]
             first == StepR(c, zero)
             sum == (first.state + c.initstate) % Size[c.width]
             second == [first EXCEPT !.state = sum]
  <2>1. SrandomR(c) = StepR(c, second)
    BY <1>4 DEF SrandomR
  <2>2. inc \in Word(c.width) /\ OddNumber(inc)
    BY <1>1, <1>2, IncIs
  <2> HIDE DEF inc
  <2>3. zero \in States(c.width) /\ zero.inc = inc
    BY <1>2, <2>2 DEF States
  <2> HIDE DEF zero
  <2>4. first \in States(c.width) /\ first.inc = inc
    BY <2>3, StepIs
  <2> HIDE DEF first
  <2>5. sum \in Word(c.width)
    <3>1. first.state \in Nat /\ Size[c.width] \in Nat \ {0}
      BY <1>1, <2>4, WordIs DEF States
    <3> DEFINE y == first.state + c.initstate
               M == Size[c.width]
    <3>2. y \in Nat /\ M \in Nat \ {0}
      BY <1>2, <3>1
    <3> HIDE DEF y, M
    <3>3. y % M \in 0 .. M - 1
      BY <3>2
    <3> QED BY <3>3 DEF y, M, Word
  <2> HIDE DEF sum
  <2>6. second \in States(c.width) /\ second.inc = inc
    BY <2>4, <2>5 DEF States
  <2> HIDE DEF second
  <2>7. StepR(c, second) \in States(c.width) /\ StepR(c, second).inc = inc
    BY <2>6, StepIs
  <2> QED BY <1>4, <2>1, <2>2, <2>7 DEF Sound
<1> QED BY <1>3, <1>4

(***************************************************************************)
(* The period.                                                             *)
(***************************************************************************)

\* The length of the period as a power of two, and what it leaves of the words.
Bits2(c) == IF c.variant = "mcg" THEN c.width - 2 ELSE c.width
Share(c) == IF c.variant = "mcg" THEN 4 ELSE 1

LEMMA PeriodShare ==
  ASSUME NEW c \in Cases
  PROVE  /\ Bits2(c) \in Nat /\ Share(c) \in {1, 4}
         /\ Period(c) = Size[Bits2(c)] /\ Period(c) \in Nat \ {0}
         /\ Size[c.width] = Share(c) * Size[Bits2(c)]
<1>1. c.width \in Widths
  BY CaseIs
<1>2. c.width \in Nat /\ c.width - 2 \in Nat /\ (c.width - 2) + 2 = c.width
  BY <1>1 DEF Widths
<1>3. Bits2(c) \in Nat /\ Share(c) \in {1, 4}
  BY <1>2 DEF Bits2, Share
<1>4. Period(c) = Size[Bits2(c)]
  BY DEF Period, Bits2
<1>5. Period(c) \in Nat \ {0}
  BY <1>3, <1>4, SizeIs
<1>6. CASE c.variant = "mcg"
  <2>1. Size[(c.width - 2) + 2] = Size[c.width - 2] * Size[2]
    BY <1>2, SizeAdds
  <2>2. Size[c.width] = 4 * Size[c.width - 2]
    <3>1. Size[c.width - 2] \in Nat
      BY <1>2, SizeIs
    <3> QED BY <1>2, <2>1, <3>1, SizesAre, SMT
  <2>3. Bits2(c) = c.width - 2 /\ Share(c) = 4
    BY <1>6 DEF Bits2, Share
  <2> QED BY <1>3, <1>4, <1>5, <2>2, <2>3
<1>7. CASE c.variant # "mcg"
  <2>1. Bits2(c) = c.width /\ Share(c) = 1
    BY <1>7 DEF Bits2, Share
  <2>2. Size[c.width] = 1 * Size[c.width]
    BY <1>1, WordIs
  <2> QED BY <1>3, <1>4, <1>5, <2>1, <2>2
<1> QED BY <1>6, <1>7

\* The sequence a sound generator follows.
Sequence(c, x, inc, f) == Orbit(Multiplier(c.width), Addend(c, inc), x, f)

\* It has strides.
LEMMA SoundStrides ==
  ASSUME NEW c \in Cases, NEW x \in Nat, NEW inc \in Nat, Sound(c, x, inc),
         NEW f, Sequence(c, x, inc, f)
  PROVE  f \in [Nat -> Nat] /\ Strides(f, Share(c))
<1> DEFINE a == Multiplier(c.width)
           e == Addend(c, inc)
<1>1. /\ a \in Nat /\ Five(a) /\ e \in Nat
      /\ c.variant = "mcg" => e = 0
      /\ c.variant # "mcg" => OddNumber(e)
  BY StepConstants DEF Sound
<1>2. f \in [Nat -> Nat] /\ f[0] = x /\ \A n \in Nat : f[n + 1] = a * f[n] + e
  BY DEF Sequence, Orbit
<1> HIDE DEF a, e
<1>3. Jump(f, 1, a, e)
  BY <1>2 DEF Jump
<1>4. PICK t \in Nat : a = 1 + 4 * (1 + 2 * t)
  BY <1>1 DEF Five
<1>5. CASE c.variant = "mcg"
  <2>1. PICK s \in Nat : x = 1 + 2 * s
    BY <1>5 DEF Sound, OddNumber
  <2>2. Jump(f, 1, 1 + 4 * (1 + 2 * t), 0)
    BY <1>1, <1>3, <1>4, <1>5
  <2>3. f[0] = 1 + 2 * s
    BY <1>2, <2>1
  <2>4. Strides(f, 4)
    BY <1>2, <2>2, <2>3, MultipliedStrides
  <2> QED BY <1>2, <1>5, <2>4 DEF Share
<1>6. CASE c.variant # "mcg"
  <2>1. PICK s \in Nat : e = 1 + 2 * s
    BY <1>1, <1>6 DEF OddNumber
  <2> DEFINE u == 1 + 2 * t
  <2>2. u \in Nat /\ Jump(f, 1, 1 + 4 * u, 1 + 2 * s)
    BY <1>3, <1>4, <2>1
  <2> HIDE DEF u
  <2>3. Strides(f, 1)
    BY <1>2, <2>2, MixedStrides
  <2> QED BY <1>2, <1>6, <2>3 DEF Share
<1> QED BY <1>5, <1>6

(***************************************************************************)
(* The invariant: the state is the word of the sequence that as many steps *)
(* lead to as words were drawn.                                            *)
(***************************************************************************)

Follows ==
  \A f : Sequence(case, start, rng.inc, f) => Alike(rng.state, f[drawn], Size[case.width])

PInv ==
  /\ case \in Cases
  /\ TypeOK
  /\ Sound(case, start, rng.inc)
  /\ Follows

\* The invariant is what FullPeriod needs.
LEMMA PeriodHolds ==
  ASSUME PInv
  PROVE  FullPeriod
<1> DEFINE w == case.width
<1>1. w \in Widths /\ rng \in States(w) /\ start \in Word(w) /\ drawn \in 0 .. Period(case)
  BY CaseIs DEF PInv, TypeOK, States
<1>2. rng.state \in Word(w) /\ rng.inc \in Nat /\ start \in Nat /\ Size[w] \in Nat \ {0}
  BY <1>1, WordIs DEF States
<1>3. Multiplier(w) \in Nat /\ Addend(case, rng.inc) \in Nat
  BY <1>2, StepConstants DEF PInv
<1>4. PICK f : Sequence(case, start, rng.inc, f)
  BY <1>2, <1>3, OrbitExists DEF Sequence
<1>5. f \in [Nat -> Nat] /\ Strides(f, Share(case)) /\ f[0] = start
  BY <1>2, <1>4, SoundStrides DEF PInv, Sequence, Orbit
<1>6. Alike(rng.state, f[drawn], Size[w])
  BY <1>4 DEF PInv, Follows
<1>7. Alike(start, f[0], Size[w])
  <2>1. start = f[0] + 0 * Size[w]
    BY <1>2, <1>5
  <2> QED BY <2>1 DEF Alike
<1> DEFINE k == Bits2(case)
           e == Share(case)
           M == Size[w]
           s == rng.state
<1>8. /\ k \in Nat /\ e \in {1, 4} /\ M = e * Size[k] /\ Period(case) = Size[k]
  BY PeriodShare DEF PInv
<1>9. s \in 0 .. M - 1 /\ start \in 0 .. M - 1 /\ drawn \in 0 .. Size[k]
  BY <1>1, <1>2, <1>8 DEF Word
<1>10. Strides(f, e) /\ Alike(s, f[drawn], M) /\ Alike(start, f[0], M)
  BY <1>5, <1>6, <1>7
<1> HIDE DEF k, e, M, s
<1>11. s = start <=> drawn \in {0, Size[k]}
  BY <1>5, <1>8, <1>9, <1>10, PeriodIs
<1> QED BY <1>8, <1>11 DEF FullPeriod, s

\* It holds when the generator is seeded.
LEMMA SeedingStarts ==
  ASSUME InitPcg
  PROVE  PInv
<1>1. case \in Cases /\ drawn = 0 /\ start = rng.state /\ tally = Untallied(case)
  BY DEF InitPcg
<1>2. rng \in States(case.width) /\ Sound(case, rng.state, rng.inc)
  BY <1>1, InitializerIs, SrandomIs DEF InitPcg
<1>3. Period(case) \in Nat \ {0} /\ case.width \in Widths
  BY <1>1, PeriodShare, CaseIs
<1>4. start \in Word(case.width) /\ start \in Nat /\ Size[case.width] \in Nat
  BY <1>1, <1>2, <1>3, WordIs DEF States
<1>5. DOMAIN tally = Values(case)
  BY <1>1 DEF Untallied
<1>6. TypeOK
  <2>1. drawn \in 0 .. Period(case)
    BY <1>1, <1>3
  <2> QED BY <1>2, <1>4, <1>5, <2>1 DEF TypeOK, States
<1>7. Follows
  <2> SUFFICES ASSUME NEW f, Sequence(case, start, rng.inc, f)
               PROVE  Alike(rng.state, f[drawn], Size[case.width])
    BY DEF Follows
  <2>1. f[0] = start
    BY DEF Sequence, Orbit
  <2>2. rng.state = f[drawn] + 0 * Size[case.width]
    BY <1>1, <1>4, <2>1
  <2> QED BY <2>2 DEF Alike
<1> QED BY <1>1, <1>2, <1>6, <1>7 DEF PInv

\* A draw, of whatever generator, keeps it.
LEMMA GenerateKeeps ==
  ASSUME PInv, NEW variant, NEW family, Generate(variant, family)
  PROVE  PInv'
<1> DEFINE w == case.width
           M == Size[w]
           a == Multiplier(w)
           e == Addend(case, rng.inc)
<1>1. /\ rng' = StepR(case, rng) /\ case' = case /\ start' = start
      /\ drawn' = IF drawn = Period(case) THEN 1 ELSE drawn + 1
  BY DEF Generate
<1>2. /\ case \in Cases /\ w \in Widths /\ rng \in States(w) /\ start \in Word(w)
      /\ drawn \in 0 .. Period(case) /\ DOMAIN tally = Values(case)
      /\ Sound(case, start, rng.inc)
  BY CaseIs DEF PInv, TypeOK, States
<1>3. rng' \in States(w) /\ rng'.inc = rng.inc /\ rng'.state = (rng.state * a + e) % M
  BY <1>1, <1>2, StepIs
<1>4. Period(case) \in Nat \ {0}
  BY <1>2, PeriodShare
<1>5. drawn' \in 0 .. Period(case)
  BY <1>1, <1>2, <1>4
<1>6. DOMAIN tally' = Values(case)
  <2> DEFINE old == IF drawn = Period(case) THEN Untallied(case) ELSE tally
  <2>1. DOMAIN old = Values(case)
    BY <1>2 DEF Untallied
  <2>2. tally' = old \/ \E n : tally' = [old EXCEPT ![n] = @ + 1]
    BY DEF Generate
  <2> HIDE DEF old
  <2> QED BY <2>1, <2>2
<1>7. TypeOK'
  BY <1>1, <1>2, <1>3, <1>5, <1>6 DEF TypeOK, States, Period, Values, Word
<1>8. Sound(case, start, rng.inc)'
  BY <1>1, <1>2, <1>3 DEF Sound
<1>9. Follows'
  <2> SUFFICES ASSUME NEW f, Sequence(case, start, rng.inc, f)
               PROVE  Alike(rng'.state, f[drawn'], M)
    BY <1>1, <1>3 DEF Follows, Sequence, Addend
  <2>1. rng.state \in Nat /\ rng.inc \in Nat /\ start \in Nat /\ M \in Nat \ {0}
    BY <1>2, WordIs DEF States
  <2>2. a \in Nat /\ e \in Nat
    BY <1>2, <2>1, StepConstants
  <2>3. f \in [Nat -> Nat] /\ Strides(f, Share(case))
    BY <1>2, <2>1, SoundStrides
  <2>4. \A n \in Nat : f[n + 1] = a * f[n] + e
    BY DEF Sequence, Orbit
  <2>5. Alike(rng.state, f[drawn], M)
    BY DEF PInv, Follows
  <2>6. ASSUME NEW n \in Nat, Alike(rng.state, f[n], M)
        PROVE  Alike(rng'.state, f[n + 1], M)
    <3> DEFINE x == rng.state
               x1 == f[n]
               y == x * a + e
               z == a * x1 + e
    <3> HIDE DEF M, a, e
    <3>1. x1 \in Nat /\ x \in Nat /\ Alike(x, x1, M) /\ a \in Nat /\ e \in Nat /\ M \in Nat
      BY <2>1, <2>2, <2>3, <2>6
    <3>2. z = f[n + 1]
      BY <2>4
    <3> HIDE DEF x, x1
    <3>3. y \in Nat /\ z \in Nat
      BY <3>1
    <3>4. Alike(y, z, M)
      BY <3>1, AlikeStep
    <3> HIDE DEF y, z
    <3>5. y % M \in 0 .. M - 1 /\ Alike(y % M, y, M)
      BY <2>1, <3>3, AlikeMod
    <3>6. Alike(y % M, z, M)
      BY <2>1, <3>4, <3>5, <3>3, AlikeTrans
    <3>7. rng'.state = y % M
      BY <1>3 DEF y, x
    <3> QED BY <3>6, <3>7, <3>2
  <2>7. CASE drawn = Period(case)
    <3>1. Alike(f[drawn], f[0], M)
      BY <1>2, <2>3, <2>7, PeriodShare, Return
    <3>2. f[drawn] \in Nat /\ f[0] \in Nat
      BY <1>2, <1>4, <2>3
    <3>3. Alike(rng.state, f[0], M)
      BY <2>1, <2>5, <3>1, <3>2, AlikeTrans
    <3>4. Alike(rng'.state, f[0 + 1], M)
      BY <2>6, <3>3
    <3>5. drawn' = 0 + 1
      BY <1>1, <2>7
    <3> QED BY <3>4, <3>5
  <2>8. CASE drawn # Period(case)
    <3>1. drawn \in Nat /\ drawn' = drawn + 1
      BY <1>1, <1>2, <1>4, <2>8
    <3> QED BY <2>5, <2>6, <3>1
  <2> QED BY <2>7, <2>8
<1> QED BY <1>1, <1>2, <1>7, <1>8, <1>9 DEF PInv

\* So does every step.
LEMMA PcgKeeps ==
  ASSUME PInv, [NextPcg]_varsPcg
  PROVE  PInv'
<1>1. CASE UNCHANGED varsPcg
  <2>1. case' = case /\ rng' = rng /\ start' = start /\ drawn' = drawn /\ tally' = tally
    BY <1>1 DEF varsPcg
  <2> QED BY <2>1 DEF PInv, TypeOK, Sound, Follows, Sequence, Addend, Period, Values,
                      Word, OutBits
<1>2. CASE NextPcg
  <2>1. \E variant, family : Generate(variant, family)
    BY <1>2 DEF NextPcg, OneseqXshRs, UniqueXshRs, SetseqXshRs, McgXshRs,
                OneseqXshRr, UniqueXshRr, SetseqXshRr, McgXshRr,
                OneseqRxsMXs, UniqueRxsMXs, SetseqRxsMXs,
                OneseqXslRr, UniqueXslRr, SetseqXslRr, McgXslRr,
                OneseqXslRrRr, UniqueXslRrRr, SetseqXslRrRr
  <2> QED BY <2>1, GenerateKeeps
<1> QED BY <1>1, <1>2

\* Every generator, at every width of the header, however it is seeded, keeps to
\* the sequence its step_r prescribes: odd increments stay odd, the state stays
\* the word that as many steps as words were drawn lead to.
THEOREM PcgInvariance == SpecPcg => []PInv
<1>1. InitPcg => PInv
  BY SeedingStarts
<1>2. PInv /\ [NextPcg]_varsPcg => PInv'
  BY PcgKeeps
<1> QED BY <1>1, <1>2, PTL DEF SpecPcg

\* step_r and srandom_r leave words of the struct's width in its fields, for every
\* width, seed, stream and address.
THEOREM WordsKeepTheirWidth == SpecPcg => []TypeOK
<1>1. PInv => TypeOK
  BY DEF PInv
<1> QED BY <1>1, PcgInvariance, PTL

\* Every generator comes back to the state it was seeded with after its period,
\* 2^w words or 2^(w-2) without an increment, and never before: for all the widths
\* of pcg_variants.h, and for every seed, stream and address.
THEOREM PeriodsAreFull == SpecPcg => []FullPeriod
<1>1. PInv => FullPeriod
  BY PeriodHolds
<1> QED BY <1>1, PcgInvariance, PTL

(***************************************************************************)
(* boundedrand_r.                                                          *)
(***************************************************************************)

\* The words of random_r that boundedrand_r returns as u.
Returned(c, u) == {r \in Word(OutBits(c)) : Accepts(c, r) /\ r % c.bound = u}

\* Those of S words that are not below the threshold T and leave the remainder u.
Kept(S, T, b, u) == {r \in 0 .. S - 1 : r >= T /\ r % b = u}

\* g counts S off: 0 .. n - 1, one to one and onto.
Counts(g, n, S) ==
  /\ g \in [0 .. n - 1 -> S]
  /\ \A i, j \in 0 .. n - 1 : g[i] = g[j] => i = j
  /\ \A r \in S : \E i \in 0 .. n - 1 : g[i] = r

\* What remains of a multiple and less than a unit is the latter.
LEMMA Remainder ==
  ASSUME NEW b \in Nat \ {0}, NEW q \in Nat, NEW u \in 0 .. b - 1
  PROVE  (q * b + u) % b = u
<1> DEFINE x == q * b + u
<1>1. x \in Nat /\ Alike(x, u, b)
  <2>1. x \in Nat /\ x = u + q * b /\ q \in Int
    OBVIOUS
  <2> HIDE DEF x
  <2> QED BY <2>1 DEF Alike
<1> HIDE DEF x
<1>2. x % b \in 0 .. b - 1 /\ Alike(x % b, x, b)
  BY <1>1, AlikeMod
<1>3. Alike(x % b, u, b)
  BY <1>1, <1>2, AlikeTrans
<1> QED BY <1>2, <1>3, AlikeWords DEF x

\* S words, of which those from T on are whole turns of b: every remainder is left
\* as often.
LEMMA WholeTurns ==
  ASSUME NEW b \in Nat \ {0}, NEW S \in Nat, NEW T \in 0 .. b - 1, NEW n \in Nat,
         S = T + n * b, NEW u \in 0 .. b - 1
  PROVE  \E g : Counts(g, n, Kept(S, T, b, u))
<1> DEFINE R == {r \in 0 .. S - 1 : r >= T /\ r % b = u}
           e == IF u >= T THEN 0 ELSE 1
           g == [i \in 0 .. n - 1 |-> (i + e) * b + u]
<1>1. e \in {0, 1} /\ (e = 0 => u >= T) /\ (e = 1 => u < T)
  OBVIOUS
<1> HIDE DEF e
<1>2. ASSUME NEW i \in 0 .. n - 1
      PROVE  (i + e) * b + u \in R
  <2>1. i + e \in Nat
    BY <1>1
  <2>2. ((i + e) * b + u) % b = u
    BY <2>1, Remainder
  <2> DEFINE y == i * b
             z == n * b
  <2>3. y \in Nat /\ z \in Nat /\ y + b <= z
    <3>1. i + 1 <= n
      OBVIOUS
    <3>2. (i + 1) * b <= n * b
      BY <3>1
    <3>3. (i + 1) * b = i * b + b
      OBVIOUS
    <3> QED BY <3>2, <3>3
  <2>4. (i + e) * b = y + e * b /\ S = T + z
    BY <1>1
  <2> HIDE DEF y, z
  <2>5. CASE e = 0
    <3>1. (i + e) * b + u = y + u /\ y + u \in 0 .. S - 1 /\ y + u >= T
      BY <1>1, <2>3, <2>4, <2>5
    <3> QED BY <2>2, <3>1
  <2>6. CASE e = 1
    <3>1. (i + e) * b + u = y + b + u /\ y + b + u \in 0 .. S - 1 /\ y + b + u >= T
      BY <1>1, <2>3, <2>4, <2>6
    <3> QED BY <2>2, <3>1
  <2> QED BY <1>1, <2>5, <2>6
<1>3. ASSUME NEW i \in 0 .. n - 1, NEW j \in 0 .. n - 1,
             (i + e) * b + u = (j + e) * b + u
      PROVE  i = j
  <2> DEFINE d == i - j
  <2>1. d \in Int /\ d * b = 0
    BY <1>1, <1>3
  <2>2. d = 0
    BY <2>1
  <2> QED BY <2>2
<1>4. ASSUME NEW r \in R
      PROVE  \E i \in 0 .. n - 1 : (i + e) * b + u = r
  <2>1. r \in 0 .. S - 1 /\ r >= T /\ r % b = u
    OBVIOUS
  <2>2. r \in Nat
    BY <2>1
  <2>3. Alike(u, r, b)
    BY <2>1, <2>2, AlikeMod
  <2>4. PICK p \in Int : u = r + p * b
    BY <2>3 DEF Alike
  <2> DEFINE q == -p
             i == q - e
  <2>5. q \in Int /\ r = q * b + u
    BY <2>2, <2>4
  <2> HIDE DEF q
  <2>6. q >= e
    <3>1. q <= -1 => q * b <= -b
      BY <2>5
    <3>2. q = 0 => q * b = 0
      BY <2>5
    <3> QED BY <1>1, <2>1, <2>5, <3>1, <3>2
  <2>7. q - e < n
    <3> DEFINE y == (q - e) * b
               z == n * b
    <3>1. q * b = y + e * b /\ S = T + z /\ y \in Int /\ z \in Int
      BY <1>1, <2>5
    <3>2. q - e >= n => y >= z
      BY <1>1, <2>5
    <3> HIDE DEF y, z
    <3>3. y < z
      BY <1>1, <2>1, <2>5, <3>1
    <3> QED BY <1>1, <2>5, <3>1, <3>2, <3>3
  <2>8. i \in 0 .. n - 1 /\ i + e = q
    BY <1>1, <2>5, <2>6, <2>7
  <2> QED BY <2>5, <2>8
<1> HIDE DEF R
<1>5. g \in [0 .. n - 1 -> R] /\ \A i \in 0 .. n - 1 : g[i] = (i + e) * b + u
  BY <1>2
<1> HIDE DEF g
<1>6. Counts(g, n, R)
  BY <1>3, <1>4, <1>5 DEF Counts
<1> QED BY <1>6 DEF R, Kept

\* A bound is a word; the threshold is what the words are more than whole turns of it.
LEMMA ThresholdIs ==
  ASSUME NEW c \in Cases, c.bound # 0
  PROVE  /\ c.bound \in Nat \ {0} /\ Size[OutBits(c)] \in Nat
         /\ Threshold(c) \in 0 .. c.bound - 1
         /\ \E n \in Nat \ {0} : Size[OutBits(c)] = Threshold(c) + n * c.bound
<1>1. c.width \in Widths /\ c.bound \in Word(OutBits(c))
  BY CasesAssumption
<1>2. OutBits(c) \in Nat
  <2>1. c.width \in Nat /\ c.width \div 2 \in Nat
    BY <1>1 DEF Widths
  <2> QED BY <2>1 DEF OutBits
<1> DEFINE b == c.bound
           S == Size[OutBits(c)]
           x == S - b
           T == x % b
<1>3. S \in Nat /\ b \in 0 .. S - 1
  BY <1>1, <1>2, SizeIs DEF Word
<1>4. b \in Nat \ {0} /\ T = Threshold(c)
  BY <1>3 DEF Threshold
<1> HIDE DEF S, b
<1>5. x \in Nat /\ x > 0
  BY <1>3, <1>4
<1>6. S = x + b
  BY <1>3, <1>4
<1> HIDE DEF x
<1>7. T \in 0 .. b - 1 /\ Alike(T, x, b)
  BY <1>4, <1>5, AlikeMod
<1> HIDE DEF T
<1>8. PICK p \in Int : T = x + p * b
  BY <1>7 DEF Alike
<1>9. 1 - p \in Int /\ S = T + (1 - p) * b
  BY <1>4, <1>5, <1>6, <1>7, <1>8
<1>10. 1 - p > 0
  <2> DEFINE n == 1 - p
  <2>1. n \in Int /\ n * b = S - T
    BY <1>3, <1>4, <1>7, <1>9
  <2> HIDE DEF n
  <2>2. S - T > 0
    BY <1>3, <1>4, <1>7
  <2>3. n <= 0 => n * b <= 0
    BY <1>4, <2>1
  <2> QED BY <1>3, <1>7, <2>1, <2>2, <2>3 DEF n
<1>11. \E n \in Nat \ {0} : S = T + n * b
  BY <1>9, <1>10
<1> QED BY <1>3, <1>4, <1>7, <1>11 DEF S, b

\* boundedrand_r has no bias of its own and can return: for every bound, each value
\* below it is what becomes of equally many words of random_r, and of one at least.
THEOREM BoundsAreFair ==
  ASSUME NEW c \in Cases, c.bound # 0
  PROVE  \E n \in Nat \ {0} : \A u \in Values(c) : \E g : Counts(g, n, Returned(c, u))
<1> DEFINE b == c.bound
           S == Size[OutBits(c)]
           T == Threshold(c)
<1>1. b \in Nat \ {0} /\ S \in Nat /\ T \in 0 .. b - 1
  BY ThresholdIs
<1>2. PICK n \in Nat \ {0} : S = T + n * b
  BY ThresholdIs
<1>3. \A u : Returned(c, u) = Kept(S, T, b, u)
  BY DEF Returned, Kept, Word, Accepts
<1>4. Values(c) = 0 .. b - 1
  BY DEF Values
<1> HIDE DEF b, S, T
<1>5. n \in Nat
  OBVIOUS
<1>6. ASSUME NEW u \in Values(c)
      PROVE  \E g : Counts(g, n, Returned(c, u))
  <2>1. u \in 0 .. b - 1
    BY <1>4
  <2>2. \E g : Counts(g, n, Kept(S, T, b, u))
    BY <1>1, <1>2, <1>5, <2>1, WholeTurns
  <2> QED BY <1>3, <2>2
<1> QED BY <1>6
=============================================================================
