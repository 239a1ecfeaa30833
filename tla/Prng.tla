-------------------------------- MODULE Prng --------------------------------
(***************************************************************************)
(* The key of the generator (src/src/prng.c): the main loop mixes words of *)
(* the hardware generator into it, CSPrngInjectRandom, and is preempted by *)
(* ETH_IRQHandler, which mixes in the times of interrupts,                 *)
(* CSPrngInjectLowbits.  Both advance kInCount and update kPrngKey with    *)
(* loads and stores of their own and without a lock, so the main loop is a *)
(* process cut between its loads and its stores.  Both draw on the         *)
(* hardware generator (src/src/random.c), the handler for chargen requests *)
(* of type 'T'.                                                            *)
(*                                                                         *)
(* Data abstraction.  Mixing is XOR, so what a word of the key holds is    *)
(* the set of inputs that went into it an odd number of times.  Two inputs *)
(* are followed: one word of the hardware generator and one tick, each     *)
(* drawn at most once; all others are left out of the sets.                *)
(***************************************************************************)
EXTENDS Integers

CONSTANTS
  Shifts,   \* 32: values of kInCount & 31
  Words,    \* 4: ARRAY_LEN(kPrngKey)
  Wraps,    \* kInCount counts to Shifts * Words * Wraps: 2^32
  TWords    \* ETHERMTU_UDP / 4: words in an answer of type 'T'

ASSUME PrngAssumption ==
  /\ Shifts \in Nat \ {0} /\ Words \in Nat \ {0} /\ Wraps \in Nat \ {0}
  /\ TWords \in Nat \ {0}

VARIABLES
  kPrngKey, kInject, kInCount,
  drdy, dr,  \* DRDY and the register of the hardware generator
  irq,       \* whether the handler is in, for a 'T' request
  want,      \* words that request still wants
  mpc,       \* where the main loop is in CSPrngInjectRandom
  count,     \* its loaded kInCount
  ndx,       \* its local ndx
  word,      \* its word of the hardware generator
  fresh,     \* whether that word was announced by DRDY when it was read
  loaded,    \* its loaded kPrngKey[ndx]
  followed,  \* the followed inputs that have been drawn
  turns      \* turns[w]: calls of CSPrngInjectRandom since w was updated

keyVars == <<kPrngKey, kInject, kInCount>>
rngVars == <<drdy, dr>>
handlerVars == <<irq, want>>
mainVars == <<mpc, count, ndx, word, fresh, loaded>>
vars == <<keyVars, rngVars, handlerVars, mainVars, followed, turns>>

Key == 0 .. Words - 1
Counts == 0 .. Shifts * Words * Wraps - 1

Xor(s, t) == (s \ t) \cup (t \ s)

\* Mutant of Plus: the counter keeps its carry.
PlusUnwrapped(c, n) == c + n

Plus(c, n) == (c + n) % (Shifts * Words * Wraps)

\* (kInCount >> 5) & (ARRAY_LEN(kPrngKey) - 1), and kInCount & 31
Ndx(c) == (c \div Shifts) % Words
Shift(c) == c % Shifts

\* The end of CSPrngInit, with the inputs of the boot left out.
Init ==
  /\ kPrngKey = [w \in Key |-> {}]
  /\ kInject = {} /\ kInCount = 0
  /\ mpc = "idle" /\ count = 0 /\ ndx = 0
  /\ word = {} /\ fresh = FALSE /\ loaded = {}
  /\ drdy = FALSE /\ dr = {} /\ irq = FALSE /\ want = 0
  /\ followed = {}
  /\ turns = [w \in Key |-> 0]

\* Mutant of CSPrngInjectLowbits: the key word is replaced.
CSPrngReplaceLowbits(in) ==
  LET c == Plus(kInCount, 1)
      carry == Shift(c) = 0
  IN  /\ kInCount' = c
      /\ kPrngKey' = IF carry THEN [kPrngKey EXCEPT ![Ndx(c)] = kInject]
                     ELSE kPrngKey
      /\ turns' = IF carry THEN [turns EXCEPT ![Ndx(c)] = 0] ELSE turns
      /\ kInject' = Xor(kInject, in)

\* In the handler, where nothing preempts it.
CSPrngInjectLowbits(in) ==
  LET c == Plus(kInCount, 1)
      carry == Shift(c) = 0
  IN  /\ kInCount' = c
      /\ kPrngKey' = IF carry THEN [kPrngKey EXCEPT ![Ndx(c)] = Xor(@, kInject)]
                     ELSE kPrngKey
      /\ turns' = IF carry THEN [turns EXCEPT ![Ndx(c)] = 0] ELSE turns
      /\ kInject' = Xor(kInject, in)

(***************************************************************************)
(* The hardware generator: it raises DRDY when a word is in the register,  *)
(* and drops it when the word is read.  What the register holds without    *)
(* DRDY is the last word or nothing.                                       *)
(***************************************************************************)
RngReady ==
  /\ ~drdy /\ drdy' = TRUE
  /\ dr' \in {{}, {"trng"} \ followed}
  /\ followed' = followed \cup dr'
  /\ UNCHANGED <<keyVars, handlerVars, mainVars, turns>>

ReadRegister == drdy' = FALSE /\ dr' \in {dr, {}}

(***************************************************************************)
(* The handler.  A chargen request of type 'T' takes words one by one,     *)
(* waiting for each; the main loop stands still till the handler returns,  *)
(* and its last call is CSPrngInjectLowbits.                               *)
(***************************************************************************)
RequestT ==
  /\ want = 0 /\ want' = TWords
  /\ irq' = TRUE
  /\ UNCHANGED <<keyVars, rngVars, followed, mainVars, turns>>

HandlerDraw ==
  /\ want > 0 /\ drdy
  /\ ReadRegister
  /\ want' = want - 1
  /\ UNCHANGED <<keyVars, irq, followed, mainVars, turns>>

\* The handler returns, from a request of type 'T' or from any other interrupt.
Interrupt ==
  /\ want = 0 /\ irq' = FALSE
  /\ \E in \in {{}, {"tick"} \ followed} :
       /\ CSPrngInjectLowbits(in)
       /\ followed' = followed \cup in
  /\ UNCHANGED <<rngVars, want, mainVars>>

(***************************************************************************)
(* CSPrngInjectRandom in the main loop.                                    *)
(***************************************************************************)

LoadCount ==
  /\ mpc = "idle"
  /\ count' = kInCount
  /\ mpc' = "storeCount"
  /\ UNCHANGED <<keyVars, ndx, word, fresh, loaded, turns>>

\* Mutant of StoreCount: a step of two words.
StoreCountTwice ==
  /\ mpc = "storeCount"
  /\ kInCount' = Plus(count, 2 * Shifts)
  /\ ndx' = Ndx(kInCount') /\ count' = 0
  /\ mpc' = "seeReady"
  /\ UNCHANGED <<kPrngKey, kInject, word, fresh, loaded, turns>>

\* kInCount += 32, and ndx from the sum.
StoreCount ==
  /\ mpc = "storeCount"
  /\ kInCount' = Plus(count, Shifts)
  /\ ndx' = Ndx(kInCount') /\ count' = 0
  /\ mpc' = "seeReady"
  /\ UNCHANGED <<kPrngKey, kInject, word, fresh, loaded, turns>>

\* Mutant of SeeReady: the flag is not waited for.
SeeAnything ==
  /\ mpc = "seeReady"
  /\ mpc' = "draw"
  /\ UNCHANGED <<keyVars, count, ndx, word, fresh, loaded, turns>>

\* RandomUInt32 leaves its loop on DRDY ...
SeeReady ==
  /\ mpc = "seeReady" /\ drdy
  /\ mpc' = "draw"
  /\ UNCHANGED <<keyVars, count, ndx, word, fresh, loaded, turns>>

\* ... and reads the register, from which the handler may have taken the word.
Draw ==
  /\ mpc = "draw"
  /\ word' = dr /\ fresh' = drdy
  /\ ReadRegister
  /\ mpc' = "loadKey"
  /\ UNCHANGED <<keyVars, count, ndx, loaded, turns>>

LoadKey ==
  /\ mpc = "loadKey"
  /\ loaded' = kPrngKey[ndx]
  /\ mpc' = "storeKey"
  /\ UNCHANGED <<keyVars, count, ndx, word, fresh, turns>>

\* kPrngKey[ndx] ^= ...: over what the handler may have stored since LoadKey.
StoreKey ==
  /\ mpc = "storeKey"
  /\ kPrngKey' = [kPrngKey EXCEPT ![ndx] = Xor(loaded, word)]
  /\ turns' = [w \in Key |-> IF w = ndx THEN 0 ELSE turns[w] + 1]
  /\ mpc' = "idle" /\ ndx' = 0 /\ word' = {} /\ fresh' = FALSE /\ loaded' = {}
  /\ UNCHANGED <<kInject, kInCount, count>>

\* The handler is out; the steps above say what they change of the rest.
MainLoop ==
  /\ ~irq
  /\ LoadCount \/ StoreCount \/ SeeReady \/ Draw \/ LoadKey \/ StoreKey
  /\ mpc # "draw" => UNCHANGED rngVars
  /\ UNCHANGED <<followed, handlerVars>>

Handler == RequestT \/ HandlerDraw \/ Interrupt

Next == RngReady \/ Handler \/ MainLoop

(***************************************************************************)
(* Fairness: the hardware goes on producing words, and the handler and the *)
(* main loop run whenever they do not wait.                                *)
(***************************************************************************)
Spec == /\ Init /\ [][Next]_vars
        /\ WF_vars(RngReady) /\ WF_vars(MainLoop)
        /\ WF_vars(HandlerDraw) /\ WF_vars(irq /\ Interrupt)

(***************************************************************************)
(* Properties.                                                             *)
(***************************************************************************)

\* The types of all variables.
TypeOK ==
  /\ kPrngKey \in [Key -> SUBSET {"tick", "trng"}]
  /\ kInject \subseteq {"tick"} /\ kInCount \in Counts
  /\ drdy \in BOOLEAN /\ dr \subseteq {"trng"} /\ irq \in BOOLEAN /\ want \in 0 .. TWords
  /\ mpc \in {"idle", "storeCount", "seeReady", "draw", "loadKey", "storeKey"}
  /\ count \in Counts /\ ndx \in Key
  /\ word \subseteq {"trng"} /\ fresh \in BOOLEAN /\ loaded \subseteq {"tick", "trng"}
  /\ followed \subseteq {"tick", "trng"}
  /\ turns \in [Key -> Nat]

\* Words of the hardware generator stay in the key: the handler, though it may
\* update the same word in the middle of the main loop's update, undoes none.
RandomStays ==
  [][\A w \in Key : "trng" \in kPrngKey[w] => "trng" \in kPrngKey'[w]]_vars

\* The erasure of the key (prng.h:8) reaches all of it: in as many calls as the
\* key has words, and one more, each word has been updated, however the handler's
\* increments of kInCount come in between or are lost.  The one more is needed:
\* the handler may update a word before the main loop ends the call that skips it.
WholeKeyErased == \A w \in Key : turns[w] <= Words

\* Once the 'T' requests stop, the waits of RandomUInt32 still end (a request
\* that came in the middle of one gets all of its words first), and every word
\* that goes into the key is a fresh one: the word that the main loop reads
\* after the handler has taken the announced one is the last that is stale.
FreshWordsCome ==
  <>[][~RequestT]_vars =>
    /\ []<><<StoreKey>>_vars
    /\ <>[](mpc \in {"loadKey", "storeKey"} => fresh)
=============================================================================
