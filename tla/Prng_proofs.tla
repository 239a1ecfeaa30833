----------------------------- MODULE Prng_proofs -----------------------------
(***************************************************************************)
(* The key of the generator, for keys, words and wrap-arounds of every     *)
(* size.                                                                   *)
(***************************************************************************)
EXTENDS Prng, TLAPS

(***************************************************************************)
(* Arithmetic of kInCount.                                                 *)
(***************************************************************************)

\* A product with a positive factor grows with the other one.
LEMMA ProductGrows ==
  ASSUME NEW n \in Nat \ {0}, NEW a \in Int, NEW b \in Int, a < b
  PROVE  a * n + n <= b * n
<1>1. (b - a - 1) * n >= 0
  BY SMT
<1>2. (b - a - 1) * n = b * n - a * n - n
  BY SMT
<1> QED BY <1>1, <1>2, SMT

\* Quotient and remainder are the only ones.
LEMMA Division ==
  ASSUME NEW n \in Nat \ {0}, NEW q \in Int, NEW r \in 0 .. n - 1
  PROVE  (q * n + r) \div n = q /\ (q * n + r) % n = r
<1> DEFINE x == q * n + r
           d == x \div n
           m == x % n
<1>1. x \in Int /\ d \in Int /\ m \in 0 .. n - 1 /\ x = n * d + m
  BY SMT
<1>2. ~(d < q) /\ ~(q < d)
  BY <1>1, ProductGrows, SMT
<1> QED BY <1>1, <1>2, SMT

LEMMA DivisionHolds ==
  ASSUME NEW n \in Nat \ {0}, NEW x \in Int
  PROVE  \E q \in Int, r \in 0 .. n - 1 :
           x \div n = q /\ x % n = r /\ x = q * n + r
<1> DEFINE q == x \div n
           r == x % n
<1>1. q \in Int
  BY SMT
<1>2. r \in 0 .. n - 1
  BY SMT
<1>3. x - n * q = r
  BY SMT
<1>4. x \div n = q /\ x % n = r
  OBVIOUS
<1> HIDE DEF q, r
<1>5. x = q * n + r
  BY <1>1, <1>2, <1>3, SMT
<1> QED BY <1>1, <1>2, <1>4, <1>5, Zenon

\* kInCount is a word of the key, taken Wraps times over, and a shift.
Places == 0 .. Words * Wraps - 1

LEMMA PlaceToCount ==
  ASSUME NEW p \in Places, NEW s \in 0 .. Shifts - 1
  PROVE  /\ p * Shifts + s \in Counts
         /\ Ndx(p * Shifts + s) = p % Words /\ Shift(p * Shifts + s) = s
<1> USE PrngAssumption
<1>1. (p * Shifts + s) \div Shifts = p /\ (p * Shifts + s) % Shifts = s
  BY Division DEF Places
<1>2. p * Shifts + Shifts <= (Words * Wraps) * Shifts
  BY ProductGrows DEF Places
<1>3. (Words * Wraps) * Shifts = Shifts * Words * Wraps
  BY SMT
<1>4. p * Shifts \in Nat
  BY SMT DEF Places
<1> QED BY <1>1, <1>2, <1>3, <1>4 DEF Counts, Ndx, Shift

LEMMA CountToPlace ==
  ASSUME NEW c \in Counts
  PROVE  \E p \in Places, s \in 0 .. Shifts - 1 : c = p * Shifts + s
<1> USE PrngAssumption
<1>0. c \in Int
  BY DEF Counts
<1>1. PICK p \in Int, s \in 0 .. Shifts - 1 : c = p * Shifts + s
  BY <1>0, DivisionHolds
<1>2. p >= 0
  BY <1>1, ProductGrows DEF Counts
<1>3. ~(p >= Words * Wraps)
  <2>1. (Words * Wraps) * Shifts = Shifts * Words * Wraps
    BY SMT
  <2>2. p >= Words * Wraps => p * Shifts >= (Words * Wraps) * Shifts
    BY ProductGrows
  <2> QED BY <1>1, <2>1, <2>2 DEF Counts
<1>4. Words * Wraps \in Int
  BY SMT
<1>5. p \in Places
  BY <1>2, <1>3, <1>4 DEF Places
<1> QED BY <1>1, <1>5

\* The word after word i of the key.
After(i) == IF i = Words - 1 THEN 0 ELSE i + 1

LEMMA NextPlace ==
  ASSUME NEW p \in Places
  PROVE  /\ p % Words \in Key
         /\ p + 1 < Words * Wraps => (p + 1) % Words = After(p % Words)
         /\ p + 1 = Words * Wraps => 0 % Words = After(p % Words)
<1> USE PrngAssumption
<1>0. p \in Int
  BY DEF Places
<1>1. PICK q \in Int, r \in 0 .. Words - 1 : p % Words = r /\ p = q * Words + r
  BY <1>0, DivisionHolds
<1>2. CASE r < Words - 1
  <2>0. r + 1 \in 0 .. Words - 1 /\ p + 1 = q * Words + (r + 1)
    BY <1>1, <1>2
  <2>1. (p + 1) % Words = r + 1
    BY <2>0, Division
  <2>2. (Wraps * Words + 0) % Words = 0
    BY Division
  <2>3. Wraps * Words + 0 = Words * Wraps
    BY SMT
  <2> QED BY <1>1, <1>2, <2>1, <2>2, <2>3 DEF After, Key
<1>3. CASE r = Words - 1
  <2>1. p + 1 = (q + 1) * Words + 0
    BY <1>1, <1>3
  <2>2. (p + 1) % Words = 0
    BY <2>1, <1>1, Division
  <2>3. (0 * Words + 0) % Words = 0
    BY Division
  <2> QED BY <1>1, <1>3, <2>2, <2>3 DEF After, Key
<1> QED BY <1>1, <1>2, <1>3

\* Adding to kInCount wraps around once at most.
LEMMA PlusWraps ==
  ASSUME NEW c \in Counts, NEW n \in 1 .. Shifts
  PROVE  /\ Plus(c, n) \in Counts
         /\ Plus(c, n) = IF c + n < Shifts * Words * Wraps THEN c + n
                         ELSE c + n - Shifts * Words * Wraps
<1> USE PrngAssumption
<1> DEFINE m == Shifts * Words * Wraps
<1>1. m \in Nat \ {0} /\ Shifts <= m
  <2>1. Words * Wraps \in Nat \ {0}
    BY SMT
  <2>2. 0 * Shifts + Shifts <= (Words * Wraps) * Shifts
    BY <2>1, ProductGrows
  <2>3. (Words * Wraps) * Shifts = m
    BY SMT
  <2> QED BY <2>1, <2>2, <2>3
<1>2. c \in 0 .. m - 1
  BY DEF Counts
<1> HIDE DEF m
<1>3. CASE c + n < m
  <2>1. (0 * m + (c + n)) % m = c + n
    BY <1>1, <1>2, <1>3, Division
  <2> QED BY <1>1, <1>2, <1>3, <2>1 DEF Plus, m, Counts
<1>4. CASE c + n >= m
  <2> DEFINE r == c + n - m
  <2>1. r \in 0 .. m - 1 /\ c + n = 1 * m + r
    BY <1>1, <1>2, <1>4
  <2> HIDE DEF r
  <2>2. (1 * m + r) % m = r
    BY <1>1, <2>1, Division
  <2> QED BY <1>1, <1>2, <1>4, <2>1, <2>2 DEF Plus, m, r, Counts
<1> QED BY <1>1, <1>2, <1>3, <1>4

\* CSPrngInjectRandom goes on to the next word of the key; CSPrngInjectLowbits
\* does when the shift of kInCount is zero again, and else stays at its word.
LEMMA WordAfterWord ==
  ASSUME NEW c \in Counts
  PROVE  /\ Ndx(c) \in Key
         /\ Ndx(Plus(c, Shifts)) = After(Ndx(c))
         /\ Ndx(Plus(c, 1)) = IF Shift(Plus(c, 1)) = 0 THEN After(Ndx(c)) ELSE Ndx(c)
<1> USE PrngAssumption
<1>1. PICK p \in Places, s \in 0 .. Shifts - 1 : c = p * Shifts + s
  BY CountToPlace
<1>2. Ndx(c) = p % Words /\ Ndx(c) \in Key
  BY <1>1, PlaceToCount, NextPlace
<1>3. /\ p \in Nat /\ p * Shifts \in Nat /\ Words * Wraps \in Nat
      /\ p + 1 <= Words * Wraps /\ (p + 1) * Shifts = p * Shifts + Shifts
  <2>1. p \in Nat /\ Words * Wraps \in Nat /\ p + 1 <= Words * Wraps
    BY SMT DEF Places
  <2>2. p * Shifts \in Nat /\ (p + 1) * Shifts = p * Shifts + Shifts
    BY <2>1, SMT
  <2> QED BY <2>1, <2>2
<1>4. /\ (Words * Wraps) * Shifts = Shifts * Words * Wraps
      /\ 0 \in Places
  <2>1. Words * Wraps \in Nat \ {0}
    BY SMT
  <2> QED BY <2>1, SMT DEF Places
<1> DEFINE m == Shifts * Words * Wraps
\* Where the count goes from the last shift of place p on.
<1>5. ASSUME NEW d \in 0 .. Shifts - 1, NEW n \in 1 .. Shifts,
             c + n = (p + 1) * Shifts + d
      PROVE  Ndx(Plus(c, n)) = After(Ndx(c)) /\ Shift(Plus(c, n)) = d
  <2>1. CASE p + 1 < Words * Wraps
    <3>1. p + 1 \in Places
      BY <1>3, <2>1 DEF Places
    <3>2. /\ c + n \in Counts
          /\ Ndx(c + n) = (p + 1) % Words /\ Shift(c + n) = d
      BY <1>5, <3>1, PlaceToCount
    <3>3. c + n < m
      BY <3>2 DEF Counts
    <3>4. Plus(c, n) = c + n
      BY <3>3, PlusWraps
    <3> QED BY <2>1, <3>2, <3>4, <1>2, NextPlace
  <2>2. CASE p + 1 = Words * Wraps
    <3>1. c + n = m + d
      BY <1>4, <1>5, <2>2
    <3>2. /\ m \in Nat
          /\ Plus(c, n) = IF c + n < m THEN c + n ELSE c + n - m
      BY <1>3, <1>4, PlusWraps, SMT
    <3> c \in Int
      BY DEF Counts
    <3> HIDE DEF m
    <3>3. Plus(c, n) = d
      BY <3>1, <3>2
    <3>4. 0 * Shifts + d = d
      BY SMT
    <3>5. Ndx(d) = 0 % Words /\ Shift(d) = d
      BY <1>4, <3>4, PlaceToCount
    <3> QED BY <2>2, <3>3, <3>5, <1>2, NextPlace
  <2> QED BY <1>3, <2>1, <2>2
<1>6. Ndx(Plus(c, Shifts)) = After(Ndx(c))
  BY <1>1, <1>3, <1>5
<1>7. CASE s + 1 = Shifts
  BY <1>1, <1>2, <1>3, <1>5, <1>6, <1>7
<1>8. CASE s + 1 < Shifts
  <2>1. c + 1 = p * Shifts + (s + 1) /\ s + 1 \in 0 .. Shifts - 1
    BY <1>1, <1>3, <1>8
  <2>2. /\ c + 1 \in Counts
        /\ Ndx(c + 1) = p % Words /\ Shift(c + 1) = s + 1
    BY <2>1, PlaceToCount
  <2>3. Plus(c, 1) = c + 1
    BY <2>2, PlusWraps DEF Counts
  <2> QED BY <2>2, <2>3, <1>1, <1>2, <1>6
<1> QED BY <1>1, <1>7, <1>8

(***************************************************************************)
(* Types.                                                                  *)
(***************************************************************************)
LEMMA CountsAndKey ==
  /\ 0 \in Counts /\ 0 \in Key
  /\ \A c \in Counts :
       Plus(c, 1) \in Counts /\ Plus(c, Shifts) \in Counts /\ Ndx(c) \in Key
<1> USE PrngAssumption
<1>1. 0 \in Key
  BY DEF Key
<1>2. 0 \in Places /\ 0 * Shifts + 0 = 0
  <2>1. Words * Wraps \in Nat \ {0}
    BY SMT
  <2> QED BY <2>1, SMT DEF Places
<1>3. 0 \in Counts
  BY <1>2, PlaceToCount
<1> QED BY <1>1, <1>3, PlusWraps, WordAfterWord

\* The main loop's steps change what they name and leave the handler alone.
LEMMA StepKeepsTypes == TypeOK /\ [Next]_vars => TypeOK'
<1> SUFFICES ASSUME TypeOK, [Next]_vars PROVE TypeOK'
  OBVIOUS
<1> USE PrngAssumption, CountsAndKey
    DEF TypeOK, keyVars, rngVars, handlerVars, mainVars
<1>1. CASE RngReady
  BY <1>1 DEF RngReady
<1>2. CASE RequestT
  BY <1>2 DEF RequestT
<1>3. CASE HandlerDraw
  <2>1. drdy' \in BOOLEAN /\ dr' \subseteq {"trng"}
    BY <1>3 DEF HandlerDraw, ReadRegister
  <2>2. want' \in 0 .. TWords
    BY <1>3 DEF HandlerDraw
  <2> QED BY <1>3, <2>1, <2>2 DEF HandlerDraw
<1>4. CASE Interrupt
  <2>1. PICK in \in {{}, {"tick"} \ followed} :
          CSPrngInjectLowbits(in) /\ followed' = followed \cup in
    BY <1>4 DEF Interrupt
  <2>2. in \subseteq {"tick"}
    OBVIOUS
  <2>3. kInject' \subseteq {"tick"} /\ followed' \subseteq {"tick", "trng"}
    BY <2>1, <2>2 DEF CSPrngInjectLowbits, Xor
  <2>4. kInCount' \in Counts
    BY <2>1 DEF CSPrngInjectLowbits
  <2>5. /\ kPrngKey' \in [Key -> SUBSET {"tick", "trng"}]
        /\ turns' \in [Key -> Nat]
    BY <2>1 DEF CSPrngInjectLowbits, Xor
  <2> QED BY <1>4, <2>3, <2>4, <2>5 DEF Interrupt
<1>5. CASE MainLoop /\ (LoadCount \/ StoreCount \/ SeeReady)
  BY <1>5 DEF MainLoop, LoadCount, StoreCount, SeeReady
<1>6. CASE MainLoop /\ (Draw \/ LoadKey)
  BY <1>6 DEF MainLoop, Draw, LoadKey, ReadRegister
<1>7. CASE MainLoop /\ StoreKey
  <2>1. /\ kPrngKey' \in [Key -> SUBSET {"tick", "trng"}]
        /\ turns' \in [Key -> Nat]
    BY <1>7 DEF MainLoop, StoreKey, Xor
  <2> QED BY <1>7, <2>1 DEF MainLoop, StoreKey
<1>8. CASE UNCHANGED vars
  BY <1>8 DEF vars
<1> QED BY <1>1, <1>2, <1>3, <1>4, <1>5, <1>6, <1>7, <1>8
       DEF Next, Handler, MainLoop

LEMMA TypesAtInit == Init => TypeOK
<1>1. 0 \in 0 .. TWords
  BY PrngAssumption
<1>2. ASSUME Init
      PROVE  /\ kPrngKey \in [Key -> SUBSET {"tick", "trng"}]
             /\ turns \in [Key -> Nat]
  BY <1>2 DEF Init
<1> QED BY <1>1, <1>2, CountsAndKey DEF Init, TypeOK

\* All variables have their types: no counter overflows, and no index leads out
\* of kPrngKey, whatever the handler makes of kInCount in mid-call.
THEOREM TypesHold == Spec => []TypeOK
  BY TypesAtInit, StepKeepsTypes, PTL DEF Spec

(***************************************************************************)
(* The followed word of the hardware generator goes into the key once: a   *)
(* second time it would take itself out again.                             *)
(***************************************************************************)
Mixed == \E w \in Key : "trng" \in kPrngKey[w]

\* The word is drawn once; while it waits in the register behind DRDY, or the
\* main loop is about to read it or holds it, the key has not had it.  What
\* LoadKey has read of it is what StoreKey overwrites.
RandomInv ==
  /\ TypeOK
  /\ "trng" \notin followed => ~Mixed /\ "trng" \notin dr \cup word
  /\ (drdy \/ mpc = "draw") /\ "trng" \in dr => ~Mixed /\ "trng" \notin word
  /\ "trng" \in word => ~Mixed
  /\ mpc \notin {"loadKey", "storeKey"} => word = {}
  /\ mpc = "storeKey" => ("trng" \in loaded <=> "trng" \in kPrngKey[ndx])

Stays == \A w \in Key : "trng" \in kPrngKey[w] => "trng" \in kPrngKey'[w]

\* A tick that is mixed in leaves the words of the hardware generator alone,
\* even in the word of the key that the main loop has loaded.
LEMMA TicksKeepRandom ==
  ASSUME TypeOK, Interrupt
  PROVE  /\ \A w \in Key : "trng" \in kPrngKey'[w] <=> "trng" \in kPrngKey[w]
         /\ "trng" \in followed' <=> "trng" \in followed
<1>1. PICK in \in {{}, {"tick"} \ followed} :
        CSPrngInjectLowbits(in) /\ followed' = followed \cup in
  BY DEF Interrupt
<1>2. "trng" \notin in /\ "trng" \notin kInject
  BY DEF TypeOK
<1> QED BY <1>1, <1>2 DEF CSPrngInjectLowbits, Xor, TypeOK

LEMMA RandomStep ==
  ASSUME RandomInv, [Next]_vars
  PROVE  RandomInv' /\ Stays
<1>1. TypeOK /\ TypeOK'
  BY StepKeepsTypes DEF RandomInv
<1> USE DEF keyVars, rngVars, handlerVars, mainVars, Mixed
<1>2. CASE RngReady
  BY <1>1, <1>2 DEF RngReady, RandomInv, Stays
<1>3. CASE RequestT
  BY <1>1, <1>3 DEF RequestT, RandomInv, Stays
<1>4. CASE HandlerDraw
  BY <1>1, <1>4 DEF HandlerDraw, ReadRegister, RandomInv, Stays
<1>5. CASE Interrupt
  <2>1. UNCHANGED <<rngVars, mainVars>>
    BY <1>5 DEF Interrupt
  <2>2. ndx \in Key
    BY <1>1 DEF TypeOK
  <2> QED BY <1>1, <1>5, <2>1, <2>2, TicksKeepRandom DEF RandomInv, Stays
<1>6. CASE MainLoop /\ (LoadCount \/ StoreCount \/ SeeReady)
  BY <1>1, <1>6 DEF MainLoop, LoadCount, StoreCount, SeeReady, RandomInv, Stays
<1>7. CASE MainLoop /\ Draw
  BY <1>1, <1>7 DEF MainLoop, Draw, ReadRegister, RandomInv, Stays
<1>8. CASE MainLoop /\ LoadKey
  BY <1>1, <1>8 DEF MainLoop, LoadKey, RandomInv, Stays
<1>9. CASE MainLoop /\ StoreKey
  <2>1. /\ kPrngKey' = [kPrngKey EXCEPT ![ndx] = Xor(loaded, word)]
        /\ word' = {} /\ mpc = "storeKey" /\ mpc' = "idle"
        /\ UNCHANGED <<drdy, dr, followed>>
    BY <1>9 DEF MainLoop, StoreKey
  <2>2. ndx \in Key /\ \A w \in Key :
          "trng" \in kPrngKey'[w] <=>
            IF w = ndx /\ "trng" \in word THEN ~("trng" \in kPrngKey[w])
            ELSE "trng" \in kPrngKey[w]
    BY <1>1, <2>1 DEF TypeOK, RandomInv, Xor
  <2>3. Stays
    BY <2>2 DEF RandomInv, Stays
  <2>4. "trng" \notin word => (Mixed' <=> Mixed)
    BY <2>2
  <2> QED BY <1>1, <2>1, <2>3, <2>4 DEF RandomInv
<1>10. CASE UNCHANGED vars
  BY <1>1, <1>10 DEF vars, RandomInv, Stays
<1> QED BY <1>2, <1>3, <1>4, <1>5, <1>6, <1>7, <1>8, <1>9, <1>10
       DEF Next, Handler, MainLoop

\* A word of the hardware generator that has gone into the key is not lost to
\* an update of the handler's that falls between the load and the store of
\* kPrngKey[ndx] ^= in CSPrngInjectRandom, or falls the other way around.
THEOREM RandomIsKept == Spec => RandomStays
<1>1. Init => RandomInv
  <2>1. Init => TypeOK
    BY TypesAtInit
  <2> QED BY <2>1 DEF Init, RandomInv, Mixed
<1>2. RandomInv /\ [Next]_vars => RandomInv' /\ [Stays]_vars
  BY RandomStep
<1> QED BY <1>1, <1>2, PTL DEF Spec, RandomStays, Stays

(***************************************************************************)
(* The erasure of the key.  A word w waits for as many calls as there are  *)
(* words from that of kInCount on to w, one less for every word that the   *)
(* handler moves kInCount ahead; to move it past w, the handler updates w. *)
(***************************************************************************)

\* Words from that of count c, which comes last, to w.
Ahead(c, w) == IF w > Ndx(c) THEN w - Ndx(c) ELSE w - Ndx(c) + Words

\* In a call of CSPrngInjectRandom the word it will update is out of turn.  An
\* idle main loop is one call late: the word the handler has just updated was
\* not updated in the call that ended after it.
EraseInv ==
  /\ TypeOK
  /\ mpc = "idle" => \A w \in Key : turns[w] + Ahead(kInCount, w) <= Words + 1
  /\ mpc = "storeCount" => \A w \in Key : turns[w] + Ahead(count, w) <= Words + 1
  /\ mpc \notin {"idle", "storeCount"} =>
       /\ turns[ndx] <= Words
       /\ \A w \in Key \ {ndx} : turns[w] + Ahead(kInCount, w) <= Words

LEMMA AheadRange ==
  ASSUME NEW c \in Counts, NEW w \in Key
  PROVE  Ahead(c, w) \in 1 .. Words /\ (Ahead(c, w) = Words <=> w = Ndx(c))
<1>1. Ndx(c) \in Key
  BY WordAfterWord
<1> QED BY <1>1, PrngAssumption DEF Ahead, Key

\* A step to the next word brings all others nearer by one.
LEMMA AheadOfNext ==
  ASSUME NEW c \in Counts, NEW d \in Counts, Ndx(d) = After(Ndx(c)), NEW w \in Key
  PROVE  Ahead(d, w) = IF w = Ndx(d) THEN Words ELSE Ahead(c, w) - 1
<1>1. Ndx(c) \in Key /\ Ndx(d) \in Key
  BY WordAfterWord
<1> QED BY <1>1, PrngAssumption DEF Ahead, After, Key

\* What an interrupt does to the turns: nothing, or it moves kInCount on to the
\* next word and updates that.
LEMMA InterruptEffect ==
  ASSUME TypeOK, Interrupt
  PROVE  /\ kInCount' \in Counts
         /\ \A w \in Key : turns'[w] <= turns[w]
         /\ \A w \in Key : \/ /\ turns'[w] = turns[w]
                              /\ Ahead(kInCount', w) <= Ahead(kInCount, w)
                           \/ turns'[w] = 0
<1>1. PICK in \in {{}, {"tick"} \ followed} : CSPrngInjectLowbits(in)
  BY DEF Interrupt
<1>2. /\ kInCount \in Counts /\ kInCount' \in Counts
      /\ kInCount' = Plus(kInCount, 1)
      /\ Ndx(kInCount') \in Key
  BY <1>1, CountsAndKey DEF TypeOK, CSPrngInjectLowbits
<1>3. CASE Shift(kInCount') = 0
  <2>1. \A w \in Key : turns'[w] = IF w = Ndx(kInCount') THEN 0 ELSE turns[w]
    BY <1>1, <1>2, <1>3 DEF CSPrngInjectLowbits, TypeOK
  <2>2. Ndx(kInCount') = After(Ndx(kInCount))
    BY <1>2, <1>3, WordAfterWord
  <2>3. ASSUME NEW w \in Key, w # Ndx(kInCount')
        PROVE  Ahead(kInCount', w) <= Ahead(kInCount, w)
    <3>1. Ahead(kInCount', w) = Ahead(kInCount, w) - 1
      BY <1>2, <2>2, <2>3, AheadOfNext
    <3> QED BY <3>1, <1>2, AheadRange
  <2> QED BY <1>2, <2>1, <2>3 DEF TypeOK
<1>4. CASE Shift(kInCount') # 0
  <2>1. turns' = turns
    BY <1>1, <1>4 DEF CSPrngInjectLowbits
  <2>2. Ndx(kInCount') = Ndx(kInCount)
    BY <1>2, <1>4, WordAfterWord
  <2>3. \A w \in Key : Ahead(kInCount', w) <= Ahead(kInCount, w)
    BY <1>2, <2>2, AheadRange DEF Ahead
  <2> QED BY <1>2, <2>1, <2>3 DEF TypeOK
<1> QED BY <1>3, <1>4

LEMMA EraseStep == EraseInv /\ [Next]_vars => EraseInv'
<1> SUFFICES ASSUME EraseInv, [Next]_vars PROVE EraseInv'
  OBVIOUS
<1>1. TypeOK /\ TypeOK'
  BY StepKeepsTypes DEF EraseInv
<1> USE DEF keyVars, rngVars, handlerVars, mainVars
<1>2. CASE RngReady
  BY <1>1, <1>2 DEF RngReady, EraseInv, Ahead
<1>3. CASE RequestT
  BY <1>1, <1>3 DEF RequestT, EraseInv, Ahead
<1>4. CASE HandlerDraw
  BY <1>1, <1>4 DEF HandlerDraw, EraseInv, Ahead
<1>5. CASE Interrupt
  <2>1. UNCHANGED <<mpc, count, ndx>>
    BY <1>5 DEF Interrupt
  <2>2. /\ kInCount \in Counts /\ kInCount' \in Counts /\ count \in Counts
        /\ ndx \in Key
        /\ \A w \in Key : turns[w] \in Nat /\ turns'[w] \in Nat
    BY <1>1 DEF TypeOK
  <2>3. /\ \A w \in Key : turns'[w] <= turns[w]
        /\ \A w \in Key : \/ /\ turns'[w] = turns[w]
                             /\ Ahead(kInCount', w) <= Ahead(kInCount, w)
                          \/ turns'[w] = 0
    BY <1>1, <1>5, InterruptEffect
  <2>4. \A w \in Key : /\ Ahead(kInCount, w) \in 1 .. Words
                       /\ Ahead(kInCount', w) \in 1 .. Words
                       /\ Ahead(count, w) \in 1 .. Words
    BY <2>2, AheadRange
  <2>5. \A w \in Key : Ahead(count', w) = Ahead(count, w)
    BY <2>1 DEF Ahead
  <2>6. ASSUME NEW w \in Key, NEW n \in {Words, Words + 1},
               turns[w] + Ahead(kInCount, w) <= n
        PROVE  turns'[w] + Ahead(kInCount', w) <= n
    BY <2>2, <2>3, <2>4, <2>6, PrngAssumption
  <2>7. ASSUME NEW w \in Key, turns[w] + Ahead(count, w) <= Words + 1
        PROVE  turns'[w] + Ahead(count, w) <= Words + 1
    BY <2>2, <2>3, <2>4, <2>7, PrngAssumption
  <2>8. turns[ndx] <= Words => turns'[ndx] <= Words
    BY <2>2, <2>3, PrngAssumption
  <2> QED BY <1>1, <2>1, <2>2, <2>5, <2>6, <2>7, <2>8 DEF EraseInv
<1>6. CASE MainLoop /\ LoadCount
  BY <1>1, <1>6 DEF MainLoop, LoadCount, EraseInv, Ahead
<1>7. CASE MainLoop /\ StoreCount
  <2>1. /\ mpc = "storeCount" /\ mpc' = "seeReady"
        /\ kInCount' = Plus(count, Shifts) /\ ndx' = Ndx(kInCount')
        /\ turns' = turns
    BY <1>7 DEF MainLoop, StoreCount
  <2>2. count \in Counts /\ kInCount' \in Counts /\ ndx' = After(Ndx(count))
        /\ \A w \in Key : turns[w] \in Nat
    BY <1>1, <2>1, WordAfterWord DEF TypeOK
  <2>3. ASSUME NEW w \in Key
        PROVE  /\ w # ndx' => turns[w] + Ahead(kInCount', w) <= Words
               /\ w = ndx' => turns[w] <= Words
    <3>1. turns[w] + Ahead(count, w) <= Words + 1
      BY <2>1 DEF EraseInv
    <3>2. Ahead(count, w) \in 1 .. Words
      BY <2>2, AheadRange
    <3>3. w # ndx' => Ahead(kInCount', w) = Ahead(count, w) - 1
      BY <2>1, <2>2, AheadOfNext
    <3> QED BY <2>2, <3>1, <3>2, <3>3, PrngAssumption
  <2>4. ndx' \in Key
    BY <1>1 DEF TypeOK
  <2> QED BY <1>1, <2>1, <2>3, <2>4 DEF EraseInv
<1>8. CASE MainLoop /\ (SeeReady \/ Draw \/ LoadKey)
  BY <1>1, <1>8 DEF MainLoop, SeeReady, Draw, LoadKey, EraseInv, Ahead
<1>9. CASE MainLoop /\ StoreKey
  <2>1. /\ mpc = "storeKey" /\ mpc' = "idle" /\ kInCount' = kInCount
        /\ turns' = [w \in Key |-> IF w = ndx THEN 0 ELSE turns[w] + 1]
    BY <1>9 DEF MainLoop, StoreKey
  <2>2. kInCount \in Counts /\ \A w \in Key : turns[w] \in Nat
    BY <1>1 DEF TypeOK
  <2>3. ASSUME NEW w \in Key
        PROVE  turns'[w] + Ahead(kInCount', w) <= Words + 1
    <3>1. Ahead(kInCount, w) \in 1 .. Words
      BY <2>2, AheadRange
    <3>2. w # ndx => turns[w] + Ahead(kInCount, w) <= Words
      BY <2>1 DEF EraseInv
    <3> QED BY <2>1, <2>2, <3>1, <3>2, PrngAssumption DEF Ahead
  <2> QED BY <1>1, <2>1, <2>3 DEF EraseInv
<1>10. CASE UNCHANGED vars
  BY <1>1, <1>10 DEF vars, EraseInv, Ahead
<1> QED BY <1>2, <1>3, <1>4, <1>5, <1>6, <1>7, <1>8, <1>9, <1>10
       DEF Next, Handler, MainLoop

\* No word of the key goes without an update for more calls than the key has
\* words, although kInCount is loaded and stored without a lock.
THEOREM KeyIsErased == Spec => []WholeKeyErased
<1>1. Init => EraseInv
  <2>1. Init => TypeOK
    BY TypesAtInit
  <2>2. \A w \in Key : Ahead(0, w) \in 1 .. Words
    BY CountsAndKey, AheadRange
  <2> QED BY <2>1, <2>2, PrngAssumption DEF Init, EraseInv
<1>2. EraseInv => WholeKeyErased
  <2> SUFFICES ASSUME EraseInv, NEW w \in Key PROVE turns[w] <= Words
    BY DEF WholeKeyErased
  <2>1. /\ turns[w] \in Nat /\ ndx \in Key
        /\ Ahead(kInCount, w) \in 1 .. Words /\ Ahead(count, w) \in 1 .. Words
    BY AheadRange DEF EraseInv, TypeOK
  <2>2. CASE mpc = "idle"
    BY <2>1, <2>2, PrngAssumption DEF EraseInv
  <2>3. CASE mpc = "storeCount"
    BY <2>1, <2>3, PrngAssumption DEF EraseInv
  <2>4. CASE mpc \notin {"idle", "storeCount"}
    BY <2>1, <2>4, PrngAssumption DEF EraseInv
  <2> QED BY <2>2, <2>3, <2>4
<1> QED BY <1>1, <1>2, EraseStep, PTL DEF Spec
=============================================================================
