------------------------- MODULE PacketRings_proofs -------------------------
(***************************************************************************)
(* The safety of PacketRings, and that it implements FrameService, for     *)
(* rings of every length and every set of frames.                          *)
(***************************************************************************)
EXTENDS PacketRings, TLAPS, Sequences

(***************************************************************************)
(* Arithmetic of a ring: Inc and Dist.                                     *)
(***************************************************************************)

\* PACKET_RING_INC stays in the ring, and wraps after the last index.
LEMMA IncWraps ==
  ASSUME NEW x \in Ring
  PROVE  /\ Inc(x) \in Ring
         /\ Inc(x) = IF x = PACKET_RING_LEN - 1 THEN 0 ELSE x + 1
  BY RingAssumption, SMT DEF Inc, Ring

\* A distance is less than the ring's length, and zero to itself only.
LEMMA DistRange ==
  ASSUME NEW p \in Ring, NEW q \in Ring
  PROVE  /\ Dist(p, q) \in Ring
         /\ Dist(p, q) = 0 <=> p = q
  BY RingAssumption, SMT DEF Dist, Ring

\* From one index, different indices are at different distances.
LEMMA DistInjective ==
  ASSUME NEW p \in Ring, NEW q \in Ring, NEW r \in Ring, Dist(p, q) = Dist(p, r)
  PROVE  q = r
  BY RingAssumption, SMT DEF Dist, Ring

\* Advancing the far index adds one step, short of a full turn.
LEMMA DistIncFar ==
  ASSUME NEW p \in Ring, NEW q \in Ring, Dist(p, q) + 1 < PACKET_RING_LEN
  PROVE  Dist(p, Inc(q)) = Dist(p, q) + 1
  BY IncWraps, RingAssumption, SMT DEF Dist, Ring

\* Advancing the near index takes one step away, or makes it a full turn.
LEMMA DistIncNear ==
  ASSUME NEW p \in Ring, NEW q \in Ring
  PROVE  Dist(Inc(p), q) = IF p = q THEN PACKET_RING_LEN - 1 ELSE Dist(p, q) - 1
  BY IncWraps, RingAssumption, SMT DEF Dist, Ring

\* Distances add up along the way.
LEMMA DistAdds ==
  ASSUME NEW p \in Ring, NEW q \in Ring, NEW r \in Ring,
         Dist(p, q) <= Dist(p, r)
  PROVE  Dist(p, r) = Dist(p, q) + Dist(q, r)
  BY RingAssumption, SMT DEF Dist, Ring

(***************************************************************************)
(* The inductive invariant.  The pool is never drawn from (kInPool can     *)
(* change only when it is empty), so it holds the last buffer for ever.    *)
(***************************************************************************)
PoolFull == kInPool = PACKET_RING_LEN

IInv ==
  /\ TypeOK /\ PoolFull
  /\ DescriptorsInOrder /\ RingsInStep
  /\ NoBufferShared /\ NoBufferLost

\* The arcs of the receive ring: what the handler and the engine find there.
LEMMA RxArcs ==
  ASSUME TypeOK, RxOrder
  PROVE  /\ rxStatus[rxDma] = "OWN"
         /\ rxStatus[kReceiveRd] # "OWN" <=> kReceiveRd # rxDma
         /\ RxTaken <= Dist(kReceiveWr, rxDma)
         /\ \A i \in Ring : RxHolds(i) <=> Dist(kReceiveWr, i) >= RxTaken
<1> USE RingAssumption
<1>1. kReceiveRd \in Ring /\ kReceiveWr \in Ring /\ rxDma \in Ring
  BY DEF TypeOK
<1>2. Dist(kReceiveWr, rxDma) = RxTaken + Dist(kReceiveRd, rxDma)
  BY DEF RxOrder
<1>3. /\ Dist(kReceiveWr, rxDma) \in Ring /\ RxTaken \in Ring
      /\ Dist(kReceiveRd, rxDma) \in Ring
      /\ Dist(kReceiveRd, rxDma) = 0 <=> kReceiveRd = rxDma
  BY <1>1, DistRange DEF RxTaken
<1>4. RxTaken <= Dist(kReceiveWr, rxDma)
  BY <1>2, <1>3 DEF Ring
<1>5. rxStatus[rxDma] = "OWN"
  BY <1>1, <1>3 DEF RxOrder, Ring
<1>6. rxStatus[kReceiveRd] # "OWN" <=> kReceiveRd # rxDma
  BY <1>1, <1>2, <1>3 DEF RxOrder, RxTaken, Ring
<1>7. ASSUME NEW i \in Ring
      PROVE  RxHolds(i) <=> Dist(kReceiveWr, i) >= RxTaken
  <2>1. rxStatus[i] = "OWN" <=> Dist(kReceiveWr, i) >= Dist(kReceiveWr, rxDma)
    BY DEF RxOrder
  <2>2. Dist(kReceiveWr, i) \in Ring /\ Dist(kReceiveRd, i) \in Ring
    BY <1>1, DistRange
  <2>3. CASE Dist(kReceiveWr, i) >= RxTaken
    <3>1. Dist(kReceiveWr, i) = RxTaken + Dist(kReceiveRd, i)
      BY <1>1, <2>2, <2>3, <1>3, DistAdds DEF RxTaken, Ring
    <3> QED BY <3>1, <2>1, <2>2, <2>3, <1>2, <1>3 DEF RxHolds, RxFilled, Ring
  <2>4. CASE Dist(kReceiveWr, i) < RxTaken
    <3>1. rxStatus[i] # "OWN"
      BY <2>1, <2>2, <2>4, <1>3, <1>4 DEF Ring
    <3>2. Dist(kReceiveRd, i) >= Dist(kReceiveRd, rxDma)
      BY <1>1, <1>2, <1>3, <2>2, <2>4 DEF RxTaken, Dist, Ring
    <3> QED BY <3>1, <3>2, <2>2, <2>4, <1>3 DEF RxHolds, RxFilled, Ring
  <2> QED BY <2>2, <2>3, <2>4, <1>3 DEF Ring
<1> QED BY <1>4, <1>5, <1>6, <1>7

\* The arcs of the transmit ring.
LEMMA TxArcs ==
  ASSUME TypeOK, TxOrder
  PROVE  /\ txStatus[kTransmitRd] # "OWN"
         /\ txStatus[txDma] = "OWN" <=> txDma # kTransmitRd
         /\ txBuf[kTransmitWr] # NoPacket <=> TxInUse # 0
         /\ TxQueued <= TxInUse
         /\ \A i \in Ring : txStatus[i] = "OWN" => txBuf[i] # NoPacket
<1> USE RingAssumption
<1>1. kTransmitRd \in Ring /\ kTransmitWr \in Ring /\ txDma \in Ring
  BY DEF TypeOK
<1>2. TxInUse = Dist(kTransmitWr, txDma) + TxQueued
  BY DEF TxOrder
<1>3. /\ Dist(kTransmitWr, txDma) \in Ring /\ TxQueued \in Ring /\ TxInUse \in Ring
      /\ TxQueued = 0 <=> txDma = kTransmitRd
      /\ Dist(txDma, txDma) = 0 /\ Dist(kTransmitWr, kTransmitWr) = 0
  BY <1>1, DistRange DEF TxQueued, TxInUse
<1>4. txStatus[kTransmitRd] # "OWN"
  BY <1>1, <1>3 DEF TxOrder, TxQueued, Ring
<1>5. txStatus[txDma] = "OWN" <=> txDma # kTransmitRd
  BY <1>1, <1>3 DEF TxOrder, Ring
<1>6. txBuf[kTransmitWr] # NoPacket <=> TxInUse # 0
  BY <1>1, <1>3 DEF TxOrder, Ring
<1>7. ASSUME NEW i \in Ring, txStatus[i] = "OWN"
      PROVE  txBuf[i] # NoPacket
  <2>1. Dist(txDma, i) < TxQueued
    BY <1>7 DEF TxOrder
  <2>2. Dist(kTransmitWr, i) < TxInUse
    BY <2>1, <1>1, <1>2, <1>3 DEF TxQueued, TxInUse, Dist, Ring
  <2> QED BY <2>2 DEF TxOrder
<1> QED BY <1>2, <1>3, <1>4, <1>5, <1>6, <1>7 DEF Ring

\* The transmit ring never overruns (EnqueueTxFromInterrupt, its FIXME): the
\* descriptor of the next reply belongs to the CPU and holds no buffer.
LEMMA NextDescriptorFree ==
  ASSUME TypeOK, TxOrder
  PROVE  txStatus[kTransmitRd] = "CPU" /\ txBuf[kTransmitRd] = NoPacket
<1>1. kTransmitRd \in Ring /\ kTransmitWr \in Ring
  BY DEF TypeOK
<1>2. txStatus[kTransmitRd] = "CPU"
  BY <1>1, TxArcs DEF TypeOK
<1>3. txBuf[kTransmitRd] = NoPacket
  <2>1. TxInUse \in Ring
    BY <1>1, DistRange DEF TxInUse
  <2>2. ~(Dist(kTransmitWr, kTransmitRd) < TxInUse)
    BY <2>1, RingAssumption DEF TxInUse, Ring
  <2> QED BY <1>1, <2>2 DEF TxOrder
<1> QED BY <1>2, <1>3

(***************************************************************************)
(* What the handler's actions do to the rings, given the invariant: the    *)
(* branches of PacketDoneFromInterrupt and EnqueueTxFromInterrupt that     *)
(* refill the pool or drop a buffer are not taken.                         *)
(***************************************************************************)

\* A buffer is given back: a descriptor of the receive ring is vacant.
LEMMA VacancyTaken ==
  ASSUME IInv, NEW pkt, NEW addr, PacketDoneFromInterrupt(pkt, addr),
         kReceiveWr # rxDma
  PROVE  /\ rxBuf' = [addr EXCEPT ![kReceiveWr] = pkt]
         /\ rxStatus' = [rxStatus EXCEPT ![kReceiveWr] = "OWN"]
         /\ kReceiveWr' = Inc(kReceiveWr)
         /\ kInPool' = kInPool
<1> USE RingAssumption
<1>1. kReceiveRd \in Ring /\ kReceiveWr \in Ring /\ rxDma \in Ring
  BY DEF IInv, TypeOK
<1>2. rxStatus[kReceiveWr] # "OWN"
  <2>1. /\ Dist(kReceiveWr, kReceiveWr) = 0
        /\ Dist(kReceiveWr, rxDma) \in Ring /\ Dist(kReceiveWr, rxDma) # 0
    BY <1>1, DistRange
  <2> QED BY <2>1, <1>1 DEF IInv, DescriptorsInOrder, RxOrder, Ring
<1>3. ~(kInPool < 0)
  BY DEF IInv, PoolFull
<1> QED BY <1>2, <1>3 DEF PacketDoneFromInterrupt

\* A frame can be read, so the ring has a vacancy once it has been.
LEMMA ReadableMakesVacancy ==
  ASSUME IInv, RxReadable
  PROVE  kReceiveRd # rxDma /\ kReceiveWr # rxDma
<1> USE RingAssumption
<1>1. kReceiveRd \in Ring /\ kReceiveWr \in Ring /\ rxDma \in Ring
  BY DEF IInv, TypeOK
<1>2. kReceiveRd # rxDma
  BY RxArcs DEF IInv, DescriptorsInOrder, RxReadable
<1>3. /\ Dist(kReceiveWr, rxDma) = RxTaken + Dist(kReceiveRd, rxDma)
      /\ RxTaken \in Ring /\ Dist(kReceiveRd, rxDma) \in Ring
      /\ Dist(kReceiveRd, rxDma) # 0
      /\ kReceiveWr = rxDma => Dist(kReceiveWr, rxDma) = 0
  BY <1>1, <1>2, DistRange DEF RxTaken, IInv, DescriptorsInOrder, RxOrder
<1> QED BY <1>2, <1>3 DEF Ring

\* RxDiscard: the buffer of the next filled descriptor goes to kReceiveWr's.
LEMMA DiscardEffect ==
  ASSUME IInv, RxDiscard
  PROVE  /\ kReceiveRd # rxDma /\ kReceiveWr # rxDma
         /\ rxBuf' = [rxBuf EXCEPT ![kReceiveWr] = rxBuf[kReceiveRd]]
         /\ rxStatus' = [rxStatus EXCEPT ![kReceiveWr] = "OWN"]
         /\ kReceiveWr' = Inc(kReceiveWr) /\ kReceiveRd' = Inc(kReceiveRd)
         /\ kInPool' = kInPool
  BY VacancyTaken, ReadableMakesVacancy DEF RxDiscard

\* RxAnswer: the buffer moves to kTransmitRd's descriptor.
LEMMA AnswerEffect ==
  ASSUME IInv, RxAnswer
  PROVE  /\ kReceiveRd # rxDma
         /\ rxBuf' = [rxBuf EXCEPT ![kReceiveRd] = NoPacket]
         /\ txBuf' = [txBuf EXCEPT ![kTransmitRd] = rxBuf[kReceiveRd]]
         /\ txStatus' = [txStatus EXCEPT ![kTransmitRd] = "OWN"]
         /\ kTransmitRd' = Inc(kTransmitRd) /\ kReceiveRd' = Inc(kReceiveRd)
         /\ UNCHANGED <<rxStatus, kReceiveWr, kInPool>>
         /\ pc' = "resume"
<1>1. txStatus[kTransmitRd] # "OWN"
  BY TxArcs DEF IInv, DescriptorsInOrder
<1>2. kReceiveRd # rxDma
  BY ReadableMakesVacancy DEF RxAnswer
<1> QED BY <1>1, <1>2 DEF RxAnswer, EnqueueTxFromInterrupt

\* TxReclaim: the buffer of the next sent descriptor goes to kReceiveWr's.
LEMMA ReclaimEffect ==
  ASSUME IInv, TxReclaim
  PROVE  /\ TxInUse # 0 /\ kReceiveWr # rxDma
         /\ kTransmitWr # txDma
         /\ rxBuf' = [rxBuf EXCEPT ![kReceiveWr] = txBuf[kTransmitWr]]
         /\ rxStatus' = [rxStatus EXCEPT ![kReceiveWr] = "OWN"]
         /\ txBuf' = [txBuf EXCEPT ![kTransmitWr] = NoPacket]
         /\ kReceiveWr' = Inc(kReceiveWr) /\ kTransmitWr' = Inc(kTransmitWr)
         /\ kInPool' = kInPool
<1> USE RingAssumption
<1>1. TxInUse # 0
  BY TxArcs DEF IInv, DescriptorsInOrder, TxReclaim, TxReclaimable
<1>2. kReceiveRd \in Ring /\ kReceiveWr \in Ring /\ rxDma \in Ring
      /\ kTransmitRd \in Ring /\ kTransmitWr \in Ring /\ txDma \in Ring
  BY DEF IInv, TypeOK
<1>3. kReceiveWr # rxDma
  <2>1. RxTaken <= Dist(kReceiveWr, rxDma) /\ RxTaken = TxInUse
    BY RxArcs DEF IInv, DescriptorsInOrder, RingsInStep
  <2>2. TxInUse \in Ring /\ (kReceiveWr = rxDma => Dist(kReceiveWr, rxDma) = 0)
    BY <1>2, DistRange DEF TxInUse
  <2> QED BY <1>1, <2>1, <2>2 DEF Ring
<1>4. kTransmitWr # txDma
  <2>1. SUFFICES ASSUME kTransmitWr = txDma PROVE FALSE
    OBVIOUS
  <2>2. kTransmitWr = kTransmitRd
    BY <2>1, TxArcs DEF IInv, DescriptorsInOrder, TxReclaim, TxReclaimable
  <2> QED BY <2>2, <1>1, <1>2, DistRange DEF TxInUse
<1> QED BY <1>1, <1>3, <1>4, VacancyTaken DEF TxReclaim

(***************************************************************************)
(* The actions keep the descriptors in order and the rings in step.        *)
(***************************************************************************)
Ordered == DescriptorsInOrder /\ RingsInStep

\* The indices, and the distances the order is about, as ring members.
LEMMA Distances ==
  ASSUME TypeOK
  PROVE  /\ kReceiveRd \in Ring /\ kReceiveWr \in Ring /\ rxDma \in Ring
         /\ kTransmitRd \in Ring /\ kTransmitWr \in Ring /\ txDma \in Ring
         /\ RxTaken \in Ring /\ TxInUse \in Ring /\ TxQueued \in Ring
         /\ Dist(kReceiveWr, rxDma) \in Ring /\ Dist(kReceiveRd, rxDma) \in Ring
         /\ Dist(kTransmitWr, txDma) \in Ring
  BY DistRange DEF TypeOK, RxTaken, TxInUse, TxQueued

\* Giving kReceiveWr's descriptor to the engine adds it to the engine's arc.
LEMMA GiveKeepsArc ==
  ASSUME TypeOK, RxOrder, kReceiveWr # rxDma,
         NEW status, status = [rxStatus EXCEPT ![kReceiveWr] = "OWN"]
  PROVE  /\ Dist(Inc(kReceiveWr), rxDma) = Dist(kReceiveWr, rxDma) - 1
         /\ \A i \in Ring :
              status[i] = "OWN" <=>
                Dist(Inc(kReceiveWr), i) >= Dist(Inc(kReceiveWr), rxDma)
<1> USE RingAssumption
<1>1. /\ kReceiveWr \in Ring /\ rxDma \in Ring
      /\ Dist(kReceiveWr, rxDma) \in Ring
  BY Distances
<1>2. Dist(Inc(kReceiveWr), rxDma) = Dist(kReceiveWr, rxDma) - 1
  BY <1>1, DistIncNear
<1>3. ASSUME NEW i \in Ring
      PROVE  status[i] = "OWN" <=>
               Dist(Inc(kReceiveWr), i) >= Dist(Inc(kReceiveWr), rxDma)
  <2>1. CASE i = kReceiveWr
    <3>1. status[i] = "OWN"
      BY <2>1 DEF TypeOK
    <3>2. Dist(Inc(kReceiveWr), i) = PACKET_RING_LEN - 1
      BY <2>1, <1>1, DistIncNear
    <3> QED BY <3>1, <3>2, <1>1, <1>2 DEF Ring
  <2>2. CASE i # kReceiveWr
    <3>1. status[i] = rxStatus[i]
      BY <2>2 DEF TypeOK
    <3>2. /\ Dist(Inc(kReceiveWr), i) = Dist(kReceiveWr, i) - 1
          /\ Dist(kReceiveWr, i) \in Ring
      BY <2>2, <1>1, DistIncNear, DistRange
    <3> QED BY <3>1, <3>2, <1>1, <1>2 DEF RxOrder, Ring
  <2> QED BY <2>1, <2>2
<1> QED BY <1>2, <1>3

LEMMA DiscardKeepsOrder ==
  ASSUME IInv, RxDiscard
  PROVE  Ordered'
<1> USE RingAssumption
<1>1. TypeOK /\ RxOrder /\ TxOrder
  BY DEF IInv, DescriptorsInOrder
<1>2. /\ kReceiveRd # rxDma /\ kReceiveWr # rxDma
      /\ rxStatus' = [rxStatus EXCEPT ![kReceiveWr] = "OWN"]
      /\ kReceiveWr' = Inc(kReceiveWr) /\ kReceiveRd' = Inc(kReceiveRd)
      /\ UNCHANGED <<txStatus, txBuf, kTransmitRd, kTransmitWr, rxDma, txDma, tps>>
  BY DiscardEffect DEF RxDiscard, engineVars
<1>3. Dist(kReceiveRd', rxDma) = Dist(kReceiveRd, rxDma) - 1
  BY <1>1, <1>2, Distances, DistIncNear
<1>4. RxTaken' = RxTaken
  <2>1. CASE kReceiveRd = kReceiveWr
    BY <2>1, <1>1, <1>2, Distances, IncWraps, DistRange DEF RxTaken
  <2>2. CASE kReceiveRd # kReceiveWr
    <3>1. /\ Dist(Inc(kReceiveWr), kReceiveRd) = RxTaken - 1
          /\ Inc(kReceiveWr) \in Ring
      BY <2>2, <1>1, Distances, DistIncNear, IncWraps DEF RxTaken
    <3>2. RxTaken \in Ring /\ kReceiveRd \in Ring
      BY <1>1, Distances
    <3>3. Dist(Inc(kReceiveWr), Inc(kReceiveRd)) = RxTaken
      BY <3>1, <3>2, DistIncFar DEF Ring
    <3> QED BY <3>3, <1>2 DEF RxTaken
  <2> QED BY <2>1, <2>2
<1>5. RxOrder'
  <2>1. RxTaken \in Ring /\ Dist(kReceiveRd, rxDma) \in Ring
    BY <1>1, Distances
  <2>2. /\ Dist(kReceiveWr', rxDma) = Dist(kReceiveWr, rxDma) - 1
        /\ \A i \in Ring : rxStatus'[i] = "OWN" <=>
             Dist(kReceiveWr', i) >= Dist(kReceiveWr', rxDma)
    BY <1>1, <1>2, GiveKeepsArc
  <2>3. Dist(kReceiveWr', rxDma) = RxTaken' + Dist(kReceiveRd', rxDma)
    BY <2>1, <2>2, <1>1, <1>3, <1>4 DEF RxOrder, Ring
  <2> QED BY <2>2, <2>3, <1>2 DEF RxOrder
<1>6. TxOrder' /\ TxInUse' = TxInUse /\ (tps = "Reading" => txStatus[txDma] = "OWN")'
  BY <1>1, <1>2 DEF TxOrder, TxInUse, TxQueued, IInv, DescriptorsInOrder
<1> QED BY <1>4, <1>5, <1>6
     DEF Ordered, DescriptorsInOrder, RingsInStep, IInv

LEMMA AnswerKeepsOrder ==
  ASSUME IInv, RxAnswer
  PROVE  Ordered'
<1> USE RingAssumption
<1>1. TypeOK /\ RxOrder /\ TxOrder /\ RingsInStep
  BY DEF IInv, DescriptorsInOrder
<1>2. /\ kReceiveRd # rxDma
      /\ txBuf' = [txBuf EXCEPT ![kTransmitRd] = rxBuf[kReceiveRd]]
      /\ txStatus' = [txStatus EXCEPT ![kTransmitRd] = "OWN"]
      /\ kTransmitRd' = Inc(kTransmitRd) /\ kReceiveRd' = Inc(kReceiveRd)
      /\ UNCHANGED <<rxStatus, kReceiveWr, kTransmitWr, rxDma, txDma, tps>>
  BY AnswerEffect DEF RxAnswer, engineVars
<1>3. rxBuf[kReceiveRd] # NoPacket
  BY DEF RxAnswer, RxReadable
<1>4. Dist(kReceiveRd', rxDma) = Dist(kReceiveRd, rxDma) - 1
  BY <1>1, <1>2, Distances, DistIncNear
\* The vacancy the frame leaves makes room: neither ring is full before.
<1>5. RxTaken + 1 < PACKET_RING_LEN
  <2>1. /\ Dist(kReceiveWr, rxDma) = RxTaken + Dist(kReceiveRd, rxDma)
        /\ Dist(kReceiveWr, rxDma) \in Ring /\ RxTaken \in Ring
        /\ Dist(kReceiveRd, rxDma) \in Ring /\ Dist(kReceiveRd, rxDma) # 0
    BY <1>1, <1>2, Distances, DistRange DEF RxOrder
  <2> QED BY <2>1 DEF Ring
<1>6. RxTaken' = RxTaken + 1 /\ TxInUse' = TxInUse + 1 /\ TxQueued' = TxQueued + 1
  <2>1. TxQueued <= TxInUse /\ TxInUse = RxTaken
    BY <1>1, TxArcs DEF RingsInStep
  <2>2. /\ RxTaken \in Ring /\ TxQueued \in Ring /\ kReceiveWr \in Ring
        /\ kReceiveRd \in Ring /\ kTransmitRd \in Ring /\ kTransmitWr \in Ring
        /\ txDma \in Ring
    BY <1>1, Distances
  <2>3. TxQueued + 1 < PACKET_RING_LEN /\ TxInUse + 1 < PACKET_RING_LEN
    BY <2>1, <2>2, <1>5 DEF Ring
  <2>4. /\ Dist(kReceiveWr, Inc(kReceiveRd)) = RxTaken + 1
        /\ Dist(kTransmitWr, Inc(kTransmitRd)) = TxInUse + 1
        /\ Dist(txDma, Inc(kTransmitRd)) = TxQueued + 1
    BY <2>2, <2>3, <1>5, DistIncFar DEF RxTaken, TxInUse, TxQueued
  <2> QED BY <2>4, <1>2 DEF RxTaken, TxInUse, TxQueued
<1>7. RxOrder'
  <2>1. /\ RxTaken \in Ring /\ Dist(kReceiveRd, rxDma) \in Ring
    BY <1>1, Distances
  <2>2. Dist(kReceiveWr, rxDma) = RxTaken' + Dist(kReceiveRd', rxDma)
    BY <2>1, <1>1, <1>4, <1>6 DEF RxOrder, Ring
  <2> QED BY <2>2, <1>1, <1>2 DEF RxOrder
<1>8. TxOrder'
  <2>1. /\ TxInUse \in Ring /\ TxQueued \in Ring /\ Dist(kTransmitWr, txDma) \in Ring
        /\ kTransmitRd \in Ring /\ kTransmitWr \in Ring /\ txDma \in Ring
    BY <1>1, Distances
  <2>2. TxInUse' = Dist(kTransmitWr, txDma) + TxQueued'
    BY <2>1, <1>1, <1>6 DEF TxOrder, Ring
  <2>3. ASSUME NEW i \in Ring
        PROVE  /\ txBuf'[i] # NoPacket <=> Dist(kTransmitWr, i) < TxInUse'
               /\ txStatus'[i] = "OWN" <=> Dist(txDma, i) < TxQueued'
    <3>1. Dist(kTransmitWr, i) \in Ring /\ Dist(txDma, i) \in Ring
      BY <2>1, DistRange
    <3>2. CASE i = kTransmitRd
      <4>1. txBuf'[i] # NoPacket /\ txStatus'[i] = "OWN"
        BY <3>2, <1>1, <1>2, <1>3 DEF TypeOK
      <4>2. Dist(kTransmitWr, i) = TxInUse /\ Dist(txDma, i) = TxQueued
        BY <3>2 DEF TxInUse, TxQueued
      <4> QED BY <4>1, <4>2, <1>6, <2>1 DEF Ring
    <3>3. CASE i # kTransmitRd
      <4>1. txBuf'[i] = txBuf[i] /\ txStatus'[i] = txStatus[i]
        BY <3>3, <1>1, <1>2 DEF TypeOK
      <4>2. Dist(kTransmitWr, i) # TxInUse /\ Dist(txDma, i) # TxQueued
        BY <3>3, <2>1, DistInjective DEF TxInUse, TxQueued
      <4> QED BY <4>1, <4>2, <3>1, <2>1, <1>1, <1>6 DEF TxOrder, Ring
    <3> QED BY <3>2, <3>3
  <2> QED BY <2>2, <2>3, <1>2 DEF TxOrder
<1>9. (tps = "Reading" => txStatus[txDma] = "OWN")'
  BY <1>1, <1>2, Distances DEF IInv, DescriptorsInOrder, TypeOK
<1>10. RingsInStep'
  BY <1>1, <1>5, <1>6 DEF RingsInStep
<1> QED BY <1>7, <1>8, <1>9, <1>10 DEF Ordered, DescriptorsInOrder

LEMMA ReclaimKeepsOrder ==
  ASSUME IInv, TxReclaim
  PROVE  Ordered'
<1> USE RingAssumption
<1>1. TypeOK /\ RxOrder /\ TxOrder /\ RingsInStep
  BY DEF IInv, DescriptorsInOrder
<1>2. /\ TxInUse # 0 /\ kReceiveWr # rxDma /\ kTransmitWr # txDma
      /\ rxStatus' = [rxStatus EXCEPT ![kReceiveWr] = "OWN"]
      /\ txBuf' = [txBuf EXCEPT ![kTransmitWr] = NoPacket]
      /\ kReceiveWr' = Inc(kReceiveWr) /\ kTransmitWr' = Inc(kTransmitWr)
      /\ UNCHANGED <<txStatus, kReceiveRd, kTransmitRd, rxDma, txDma, tps>>
  BY ReclaimEffect DEF TxReclaim, engineVars
<1>3. /\ RxTaken \in Ring /\ TxInUse \in Ring /\ TxQueued \in Ring
      /\ Dist(kReceiveWr, rxDma) \in Ring /\ Dist(kReceiveRd, rxDma) \in Ring
      /\ Dist(kTransmitWr, txDma) \in Ring
      /\ kReceiveRd \in Ring /\ kReceiveWr \in Ring /\ rxDma \in Ring
      /\ kTransmitRd \in Ring /\ kTransmitWr \in Ring /\ txDma \in Ring
  BY <1>1, Distances
<1>4. kReceiveWr # kReceiveRd /\ kTransmitWr # kTransmitRd
  BY <1>1, <1>2, <1>3, DistRange DEF RingsInStep, RxTaken, TxInUse
<1>5. /\ RxTaken' = RxTaken - 1 /\ TxInUse' = TxInUse - 1 /\ TxQueued' = TxQueued
      /\ Dist(kTransmitWr', txDma) = Dist(kTransmitWr, txDma) - 1
  BY <1>2, <1>3, <1>4, DistIncNear DEF RxTaken, TxInUse, TxQueued
<1>6. RxOrder'
  <2>1. /\ Dist(kReceiveWr', rxDma) = Dist(kReceiveWr, rxDma) - 1
        /\ \A i \in Ring : rxStatus'[i] = "OWN" <=>
             Dist(kReceiveWr', i) >= Dist(kReceiveWr', rxDma)
    BY <1>1, <1>2, GiveKeepsArc
  <2>2. Dist(kReceiveWr', rxDma) = RxTaken' + Dist(kReceiveRd, rxDma)
    BY <2>1, <1>1, <1>3, <1>5 DEF RxOrder, Ring
  <2> QED BY <2>1, <2>2, <1>2 DEF RxOrder
<1>7. TxOrder'
  <2>1. TxInUse' = Dist(kTransmitWr', txDma) + TxQueued'
    BY <1>1, <1>3, <1>5 DEF TxOrder, Ring
  <2>2. ASSUME NEW i \in Ring
        PROVE  txBuf'[i] # NoPacket <=> Dist(kTransmitWr', i) < TxInUse'
    <3>1. CASE i = kTransmitWr
      <4>1. Dist(kTransmitWr', i) = PACKET_RING_LEN - 1 /\ txBuf'[i] = NoPacket
        BY <3>1, <1>1, <1>2, <1>3, DistIncNear DEF TypeOK
      <4> QED BY <4>1, <1>3, <1>5 DEF Ring
    <3>2. CASE i # kTransmitWr
      <4>1. /\ Dist(kTransmitWr', i) = Dist(kTransmitWr, i) - 1
            /\ Dist(kTransmitWr, i) \in Ring /\ txBuf'[i] = txBuf[i]
        BY <3>2, <1>1, <1>2, <1>3, DistIncNear, DistRange DEF TypeOK
      <4> QED BY <4>1, <1>1, <1>3, <1>5 DEF TxOrder, Ring
    <3> QED BY <3>1, <3>2
  <2>3. \A i \in Ring : txStatus'[i] = "OWN" <=> Dist(txDma, i) < TxQueued'
    BY <1>1, <1>2, <1>5 DEF TxOrder
  <2> QED BY <2>1, <2>2, <2>3, <1>2 DEF TxOrder
<1>8. (tps = "Reading" => txStatus[txDma] = "OWN")'
  BY <1>2 DEF IInv, DescriptorsInOrder
<1>9. RingsInStep'
  BY <1>1, <1>3, <1>5 DEF RingsInStep, Ring
<1> QED BY <1>6, <1>7, <1>8, <1>9 DEF Ordered, DescriptorsInOrder

\* The engine never takes the last descriptor it has (the comment at the head
\* of EthernetRXInterrupt), so the arc of the CPU never closes the circle.
LEMMA ReceiveKeepsOrder ==
  ASSUME IInv, NEW f, NEW status \in {"GOOD", "BAD"}, RxDmaReceive(f, status)
  PROVE  Ordered'
<1> USE RingAssumption
<1>1. TypeOK /\ RxOrder /\ TxOrder
  BY DEF IInv, DescriptorsInOrder
<1>2. /\ rxStatus' = [rxStatus EXCEPT ![rxDma] = status]
      /\ rxDma' = Inc(rxDma)
      /\ UNCHANGED <<txStatus, txBuf, kReceiveRd, kReceiveWr, kTransmitRd,
                     kTransmitWr, txDma, tps>>
  BY DEF RxDmaReceive, cpuVars
<1>3. /\ RxTaken \in Ring
      /\ Dist(kReceiveWr, rxDma) \in Ring /\ Dist(kReceiveRd, rxDma) \in Ring
      /\ kReceiveRd \in Ring /\ kReceiveWr \in Ring /\ rxDma \in Ring
  BY <1>1, Distances
<1>4. Dist(kReceiveWr, rxDma) + 1 < PACKET_RING_LEN
  <2>1. PICK i \in Ring \ {rxDma} : rxStatus[i] = "OWN"
    BY DEF RxDmaReceive, RxDmaHasRoom
  <2>2. /\ Dist(kReceiveWr, i) >= Dist(kReceiveWr, rxDma)
        /\ Dist(kReceiveWr, i) # Dist(kReceiveWr, rxDma)
        /\ Dist(kReceiveWr, i) \in Ring
    BY <2>1, <1>1, <1>3, DistInjective, DistRange DEF RxOrder
  <2> QED BY <2>2, <1>3 DEF Ring
<1>5. Dist(kReceiveWr, rxDma') = Dist(kReceiveWr, rxDma) + 1
  BY <1>2, <1>3, <1>4, DistIncFar
<1>6. Dist(kReceiveRd, rxDma') = Dist(kReceiveRd, rxDma) + 1
  <2>1. Dist(kReceiveWr, rxDma) = RxTaken + Dist(kReceiveRd, rxDma)
    BY <1>1 DEF RxOrder
  <2>2. Dist(kReceiveRd, rxDma) + 1 < PACKET_RING_LEN
    BY <2>1, <1>3, <1>4 DEF Ring
  <2> QED BY <2>2, <1>2, <1>3, DistIncFar
<1>7. RxOrder'
  <2>1. Dist(kReceiveWr, rxDma') = RxTaken' + Dist(kReceiveRd, rxDma')
    BY <1>1, <1>2, <1>3, <1>5, <1>6 DEF RxOrder, RxTaken, Ring
  <2>2. ASSUME NEW i \in Ring
        PROVE  rxStatus'[i] = "OWN" <=>
                 Dist(kReceiveWr, i) >= Dist(kReceiveWr, rxDma')
    <3>1. CASE i = rxDma
      <4>1. rxStatus'[i] # "OWN"
        BY <3>1, <1>1, <1>2 DEF TypeOK
      <4> QED BY <4>1, <3>1, <1>3, <1>5 DEF Ring
    <3>2. CASE i # rxDma
      <4>1. /\ rxStatus'[i] = rxStatus[i]
            /\ Dist(kReceiveWr, i) # Dist(kReceiveWr, rxDma)
            /\ Dist(kReceiveWr, i) \in Ring
        BY <3>2, <1>1, <1>2, <1>3, DistInjective, DistRange DEF TypeOK
      <4> QED BY <4>1, <1>1, <1>3, <1>5 DEF RxOrder, Ring
    <3> QED BY <3>1, <3>2
  <2> QED BY <2>1, <2>2, <1>2 DEF RxOrder
<1>8. /\ TxOrder' /\ TxInUse' = TxInUse /\ RxTaken' = RxTaken
      /\ (tps = "Reading" => txStatus[txDma] = "OWN")'
  BY <1>1, <1>2 DEF TxOrder, TxInUse, TxQueued, RxTaken, IInv, DescriptorsInOrder
<1> QED BY <1>7, <1>8 DEF Ordered, DescriptorsInOrder, RingsInStep, IInv

LEMMA CloseKeepsOrder ==
  ASSUME IInv, TxDmaClose
  PROVE  Ordered'
<1> USE RingAssumption
<1>1. TypeOK /\ RxOrder /\ TxOrder
  BY DEF IInv, DescriptorsInOrder
<1>2. /\ txStatus' = [txStatus EXCEPT ![txDma] = "CPU"]
      /\ txDma' = Inc(txDma)
      /\ tps' = "Fetching"
      /\ UNCHANGED <<rxStatus, txBuf, kReceiveRd, kReceiveWr, kTransmitRd,
                     kTransmitWr, rxDma>>
  BY DEF TxDmaClose, cpuVars
<1>3. /\ TxInUse \in Ring /\ TxQueued \in Ring /\ Dist(kTransmitWr, txDma) \in Ring
      /\ kTransmitRd \in Ring /\ kTransmitWr \in Ring /\ txDma \in Ring
  BY <1>1, Distances
<1>4. txDma # kTransmitRd
  BY <1>1, TxArcs DEF IInv, DescriptorsInOrder, TxDmaClose
<1>5. TxQueued # 0 /\ TxQueued' = TxQueued - 1
  BY <1>2, <1>3, <1>4, DistRange, DistIncNear DEF TxQueued
<1>6. TxInUse = Dist(kTransmitWr, txDma) + TxQueued
  BY <1>1 DEF TxOrder
<1>7. Dist(kTransmitWr, txDma') = Dist(kTransmitWr, txDma) + 1
  <2>1. Dist(kTransmitWr, txDma) + 1 < PACKET_RING_LEN
    BY <1>3, <1>5, <1>6 DEF Ring
  <2> QED BY <2>1, <1>2, <1>3, DistIncFar
<1>8. TxOrder'
  <2>1. TxInUse' = Dist(kTransmitWr, txDma') + TxQueued'
    BY <1>2, <1>3, <1>5, <1>6, <1>7 DEF TxInUse, Ring
  <2>2. ASSUME NEW i \in Ring
        PROVE  txStatus'[i] = "OWN" <=> Dist(txDma', i) < TxQueued'
    <3>1. CASE i = txDma
      <4>1. txStatus'[i] = "CPU" /\ Dist(txDma', i) = PACKET_RING_LEN - 1
        BY <3>1, <1>1, <1>2, <1>3, DistIncNear DEF TypeOK
      <4> QED BY <4>1, <1>3, <1>5 DEF Ring
    <3>2. CASE i # txDma
      <4>1. /\ txStatus'[i] = txStatus[i]
            /\ Dist(txDma', i) = Dist(txDma, i) - 1 /\ Dist(txDma, i) \in Ring
        BY <3>2, <1>1, <1>2, <1>3, DistIncNear, DistRange DEF TypeOK
      <4> QED BY <4>1, <1>1, <1>3, <1>5 DEF TxOrder, Ring
    <3> QED BY <3>1, <3>2
  <2>3. \A i \in Ring : txBuf[i] # NoPacket <=> Dist(kTransmitWr, i) < TxInUse
    BY <1>1 DEF TxOrder
  <2> QED BY <2>1, <2>2, <2>3, <1>2 DEF TxOrder, TxInUse
<1>9. /\ RxOrder' /\ RxTaken' = RxTaken /\ TxInUse' = TxInUse
      /\ (tps = "Reading" => txStatus[txDma] = "OWN")'
  BY <1>1, <1>2 DEF RxOrder, RxTaken, TxInUse
<1> QED BY <1>8, <1>9 DEF Ordered, DescriptorsInOrder, RingsInStep, IInv

(***************************************************************************)
(* The actions move buffers and neither copy nor lose one.                 *)
(***************************************************************************)
Accounted == NoBufferShared /\ NoBufferLost

\* A vacant kReceiveWr descriptor holds no buffer that counts, unless it is
\* also the next to read.
LEMMA VacancyHoldsNothing ==
  ASSUME TypeOK, RxOrder
  PROVE  RxHolds(kReceiveWr) <=> kReceiveWr = kReceiveRd
<1>1. /\ kReceiveRd \in Ring /\ kReceiveWr \in Ring /\ RxTaken \in Ring
  BY Distances
<1>2. RxTaken = 0 <=> kReceiveWr = kReceiveRd
  BY <1>1, DistRange DEF RxTaken
<1>3. Dist(kReceiveWr, kReceiveWr) = 0
  BY <1>1, DistRange
<1>4. RxHolds(kReceiveWr) <=> 0 >= RxTaken
  BY <1>1, <1>3, RxArcs
<1> QED BY <1>1, <1>2, <1>4, RingAssumption DEF Ring

\* Past the descriptor just read, the filled descriptors stay the same.
LEMMA ReadOneFilled ==
  ASSUME TypeOK, kReceiveRd # rxDma, NEW i \in Ring
  PROVE  Dist(Inc(kReceiveRd), i) < Dist(Inc(kReceiveRd), rxDma)
           <=> RxFilled(i) /\ i # kReceiveRd
<1>1. /\ kReceiveRd \in Ring /\ rxDma \in Ring /\ Dist(kReceiveRd, rxDma) \in Ring
      /\ Dist(kReceiveRd, i) \in Ring
  BY Distances, DistRange
<1>2. Dist(Inc(kReceiveRd), rxDma) = Dist(kReceiveRd, rxDma) - 1
  BY <1>1, DistIncNear
<1>3. Dist(Inc(kReceiveRd), i) =
        IF kReceiveRd = i THEN PACKET_RING_LEN - 1 ELSE Dist(kReceiveRd, i) - 1
  BY <1>1, DistIncNear
<1> QED BY <1>1, <1>2, <1>3, RingAssumption DEF RxFilled, Ring

\* The descriptor about to be read is filled.
LEMMA ReadableHolds ==
  ASSUME TypeOK, RxOrder, kReceiveRd # rxDma
  PROVE  rxStatus[kReceiveRd] # "OWN" /\ RxHolds(kReceiveRd)
<1>1. /\ Dist(kReceiveRd, rxDma) \in Ring /\ Dist(kReceiveRd, rxDma) # 0
      /\ Dist(kReceiveRd, kReceiveRd) = 0
  BY Distances, DistRange
<1>2. RxFilled(kReceiveRd)
  BY <1>1, RingAssumption DEF RxFilled, Ring
<1> QED BY <1>2, RxArcs DEF RxHolds

LEMMA DiscardKeepsBuffers ==
  ASSUME IInv, RxDiscard
  PROVE  Accounted'
<1>1. TypeOK /\ RxOrder /\ NoBufferShared /\ NoBufferLost
  BY DEF IInv, DescriptorsInOrder
<1>2. /\ kReceiveRd # rxDma
      /\ rxBuf' = [rxBuf EXCEPT ![kReceiveWr] = rxBuf[kReceiveRd]]
      /\ rxStatus' = [rxStatus EXCEPT ![kReceiveWr] = "OWN"]
      /\ kReceiveRd' = Inc(kReceiveRd)
      /\ UNCHANGED <<txBuf, kInPool, rxDma>>
  BY DiscardEffect DEF RxDiscard, engineVars
<1>3. kReceiveRd \in Ring /\ kReceiveWr \in Ring
  BY <1>1, Distances
<1>4. rxStatus[kReceiveRd] # "OWN" /\ RxHolds(kReceiveRd)
  BY <1>1, <1>2, ReadableHolds
<1>5. ASSUME NEW i \in Ring
      PROVE  /\ RxHolds(i)' <=> i = kReceiveWr \/ (RxHolds(i) /\ i # kReceiveRd)
             /\ rxBuf'[i] = IF i = kReceiveWr THEN rxBuf[kReceiveRd] ELSE rxBuf[i]
  <2>1. RxFilled(i)' <=> RxFilled(i) /\ i # kReceiveRd
    BY <1>1, <1>2, ReadOneFilled DEF RxFilled
  <2> QED BY <2>1, <1>1, <1>2, <1>4 DEF RxHolds, TypeOK
<1>6. RxHolds(kReceiveWr) <=> kReceiveWr = kReceiveRd
  BY <1>1, VacancyHoldsNothing
<1>7. NoBufferShared'
  BY <1>1, <1>2, <1>3, <1>4, <1>5 DEF NoBufferShared
<1>8. NoBufferLost'
  BY <1>1, <1>2, <1>3, <1>4, <1>5, <1>6 DEF NoBufferLost
<1> QED BY <1>7, <1>8 DEF Accounted

LEMMA AnswerKeepsBuffers ==
  ASSUME IInv, RxAnswer
  PROVE  Accounted'
<1>1. TypeOK /\ RxOrder /\ TxOrder /\ NoBufferShared /\ NoBufferLost
  BY DEF IInv, DescriptorsInOrder
<1>2. /\ kReceiveRd # rxDma
      /\ rxBuf' = [rxBuf EXCEPT ![kReceiveRd] = NoPacket]
      /\ txBuf' = [txBuf EXCEPT ![kTransmitRd] = rxBuf[kReceiveRd]]
      /\ kReceiveRd' = Inc(kReceiveRd)
      /\ UNCHANGED <<rxStatus, kInPool, rxDma>>
  BY AnswerEffect DEF RxAnswer, engineVars
<1>3. kReceiveRd \in Ring /\ kTransmitRd \in Ring
  BY <1>1, Distances
<1>4. rxStatus[kReceiveRd] # "OWN" /\ RxHolds(kReceiveRd)
  BY <1>1, <1>2, ReadableHolds
<1>5. txBuf[kTransmitRd] = NoPacket
  BY <1>1, NextDescriptorFree
<1>6. ASSUME NEW i \in Ring
      PROVE  /\ RxHolds(i)' <=> RxHolds(i) /\ i # kReceiveRd
             /\ i # kReceiveRd => rxBuf'[i] = rxBuf[i]
             /\ txBuf'[i] = IF i = kTransmitRd THEN rxBuf[kReceiveRd] ELSE txBuf[i]
  <2>1. RxFilled(i)' <=> RxFilled(i) /\ i # kReceiveRd
    BY <1>1, <1>2, ReadOneFilled DEF RxFilled
  <2> QED BY <2>1, <1>1, <1>2, <1>4 DEF RxHolds, TypeOK
<1>7. NoBufferShared'
  BY <1>1, <1>2, <1>3, <1>4, <1>5, <1>6 DEF NoBufferShared
<1>8. NoBufferLost'
  BY <1>1, <1>2, <1>3, <1>4, <1>5, <1>6 DEF NoBufferLost, NoPacket, Pool
<1> QED BY <1>7, <1>8 DEF Accounted

LEMMA ReclaimKeepsBuffers ==
  ASSUME IInv, TxReclaim
  PROVE  Accounted'
<1>1. TypeOK /\ RxOrder /\ NoBufferShared /\ NoBufferLost
  BY DEF IInv, DescriptorsInOrder
<1>2. /\ TxInUse # 0
      /\ rxBuf' = [rxBuf EXCEPT ![kReceiveWr] = txBuf[kTransmitWr]]
      /\ rxStatus' = [rxStatus EXCEPT ![kReceiveWr] = "OWN"]
      /\ txBuf' = [txBuf EXCEPT ![kTransmitWr] = NoPacket]
      /\ UNCHANGED <<kReceiveRd, kInPool, rxDma>>
  BY ReclaimEffect DEF TxReclaim, engineVars
<1>3. kReceiveWr \in Ring /\ kReceiveRd \in Ring /\ kTransmitWr \in Ring
  BY <1>1, Distances
<1>4. txBuf[kTransmitWr] # NoPacket
  BY DEF TxReclaim, TxReclaimable
<1>5. ~RxHolds(kReceiveWr)
  BY <1>1, <1>2, <1>3, DistRange, VacancyHoldsNothing
     DEF IInv, RingsInStep, RxTaken
<1>6. ASSUME NEW i \in Ring
      PROVE  /\ RxHolds(i)' <=> i = kReceiveWr \/ RxHolds(i)
             /\ rxBuf'[i] = IF i = kReceiveWr THEN txBuf[kTransmitWr] ELSE rxBuf[i]
             /\ txBuf'[i] = IF i = kTransmitWr THEN NoPacket ELSE txBuf[i]
  BY <1>1, <1>2, <1>3 DEF RxHolds, RxFilled, TypeOK
<1>7. NoBufferShared'
  BY <1>1, <1>2, <1>3, <1>4, <1>6 DEF NoBufferShared
<1>8. NoBufferLost'
  BY <1>1, <1>2, <1>3, <1>4, <1>5, <1>6 DEF NoBufferLost
<1> QED BY <1>7, <1>8 DEF Accounted

LEMMA ReceiveKeepsBuffers ==
  ASSUME IInv, NEW f, NEW status \in {"GOOD", "BAD"}, RxDmaReceive(f, status)
  PROVE  Accounted'
<1> USE RingAssumption
<1>1. TypeOK /\ NoBufferShared /\ NoBufferLost /\ RxOrder
  BY DEF IInv, DescriptorsInOrder
<1>2. /\ rxStatus[rxDma] = "OWN"
      /\ rxStatus' = [rxStatus EXCEPT ![rxDma] = status]
      /\ rxDma' = Inc(rxDma)
      /\ UNCHANGED <<rxBuf, txBuf, kReceiveRd, kInPool>>
  BY DEF RxDmaReceive, RxDmaHasRoom, cpuVars
<1>3. /\ kReceiveRd \in Ring /\ rxDma \in Ring /\ Inc(rxDma) \in Ring
      /\ RxTaken \in Ring /\ Dist(kReceiveRd, rxDma) \in Ring
  BY <1>1, Distances, IncWraps
<1>4. Dist(kReceiveRd, rxDma') = Dist(kReceiveRd, rxDma) + 1
  <2>1. RxOrder'
    BY ReceiveKeepsOrder DEF Ordered, DescriptorsInOrder
  <2>2. rxDma' # kReceiveRd
    <3>1. SUFFICES ASSUME rxDma' = kReceiveRd PROVE FALSE
      OBVIOUS
    <3>2. /\ Dist(kReceiveWr, rxDma') = RxTaken
          /\ Dist(kReceiveWr, rxDma) = RxTaken + Dist(kReceiveRd, rxDma)
      BY <3>1, <1>1 DEF RxTaken, RxOrder
    <3>3. rxStatus'[rxDma] # "OWN"
      BY <1>1, <1>2, <1>3 DEF TypeOK
    <3>4. ~(Dist(kReceiveWr, rxDma) >= Dist(kReceiveWr, rxDma'))
      BY <2>1, <3>3, <1>3 DEF RxOrder, RxDmaReceive, cpuVars
    <3> QED BY <3>2, <3>4, <1>3 DEF Ring
  <2>3. Dist(kReceiveRd, rxDma) + 1 < PACKET_RING_LEN
    BY <2>2, <1>2, <1>3, IncWraps DEF Dist, Ring
  <2> QED BY <2>3, <1>2, <1>3, DistIncFar
<1>5. ASSUME NEW i \in Ring
      PROVE  RxHolds(i)' <=> RxHolds(i)
  <2>1. Dist(kReceiveRd, i) \in Ring
    BY <1>3, DistRange
  <2>2. CASE i = rxDma
    BY <2>2, <2>1, <1>2, <1>3, <1>4 DEF RxHolds, RxFilled, Ring
  <2>3. CASE i # rxDma
    <3>1. Dist(kReceiveRd, i) # Dist(kReceiveRd, rxDma)
      BY <2>3, <1>3, DistInjective
    <3>2. RxFilled(i)' <=> RxFilled(i)
      BY <3>1, <2>1, <1>2, <1>3, <1>4 DEF RxFilled, Ring
    <3> QED BY <3>2, <2>3, <1>1, <1>2 DEF RxHolds, TypeOK
  <2> QED BY <2>2, <2>3
<1>6. NoBufferShared'
  BY <1>1, <1>2, <1>5 DEF NoBufferShared
<1>7. NoBufferLost'
  BY <1>1, <1>2, <1>5 DEF NoBufferLost
<1> QED BY <1>6, <1>7 DEF Accounted

(***************************************************************************)
(* The invariant holds.                                                    *)
(***************************************************************************)
LEMMA InitEstablishes ==
  ASSUME Init
  PROVE  IInv
<1> USE RingAssumption
<1>1. TypeOK /\ PoolFull
  BY DEF Init, TypeOK, PoolFull, Pool, Ring, PACKET_POOL_LEN, Frames, NoPacket
<1>2. \A i \in Ring : Dist(0, i) = i
  BY DEF Dist, Ring
<1>3. RxTaken = 0 /\ TxInUse = 0 /\ TxQueued = 0
  BY DEF Init, RxTaken, TxInUse, TxQueued, Dist
<1>4. DescriptorsInOrder /\ RingsInStep
  BY <1>2, <1>3 DEF Init, DescriptorsInOrder, RingsInStep, RxOrder, TxOrder, Ring,
                    NoPacket, RxTaken, TxInUse, TxQueued
<1>5. NoBufferShared
  BY DEF Init, NoBufferShared, Ring, NoPacket, PACKET_POOL_LEN, RxHolds
<1>6. NoBufferLost
  BY DEF Init, NoBufferLost, Pool, Ring, PACKET_POOL_LEN, RxHolds
<1> QED BY <1>1, <1>4, <1>5, <1>6 DEF IInv

\* The steps that leave buffers and descriptors alone: the handler's control
\* flow and interrupt flags, and the transmit engine on its way.
Idle == UNCHANGED <<frame, ringVars, cpuVars, rxDma, txDma>>

LEMMA IdleSteps ==
  ASSUME IInv,
         \/ EnterHandler \/ ServeAbnormal \/ ResumeTx \/ RxReturn \/ ClearR
         \/ TxReturn \/ ClearT \/ RxDmaUnavailable \/ TxDmaFetch \/ TxDmaSuspend
  PROVE  /\ Idle
         /\ dmasr' \subseteq {"RS", "TS", "RBUS"}
         /\ irq' \subseteq {"RS", "TS", "RBUS"}
         /\ pc' \in {"main", "abnormal", "rx", "resume", "clearR", "tx", "clearT"}
         /\ tps' \in {"Fetching", "Missed", "Reading", "Suspended"}
         /\ tps' = "Reading" => txStatus[txDma] = "OWN"
<1>1. TypeOK /\ (tps = "Reading" => txStatus[txDma] = "OWN")
  BY DEF IInv, DescriptorsInOrder
<1>2. CASE EnterHandler
  BY <1>1, <1>2 DEF EnterHandler, Idle, engineVars, TypeOK
<1>3. CASE ServeAbnormal
  BY <1>1, <1>3 DEF ServeAbnormal, Dispatch, Idle, engineVars, TypeOK
<1>4. CASE ResumeTx
  BY <1>1, <1>4 DEF ResumeTx, Idle, TypeOK
<1>5. CASE RxReturn
  BY <1>1, <1>5 DEF RxReturn, Idle, engineVars, TypeOK
<1>6. CASE ClearR
  BY <1>1, <1>6 DEF ClearR, Dispatch, Idle, engineVars, TypeOK
<1>7. CASE TxReturn
  BY <1>1, <1>7 DEF TxReturn, Idle, engineVars, TypeOK
<1>8. CASE ClearT
  BY <1>1, <1>8 DEF ClearT, Idle, engineVars, TypeOK
<1>9. CASE RxDmaUnavailable
  BY <1>1, <1>9 DEF RxDmaUnavailable, Idle, engineVars, TypeOK
<1>10. CASE TxDmaFetch
  BY <1>1, <1>10 DEF TxDmaFetch, Idle, TypeOK
<1>11. CASE TxDmaSuspend
  BY <1>1, <1>11 DEF TxDmaSuspend, Idle, TypeOK
<1> QED BY <1>2, <1>3, <1>4, <1>5, <1>6, <1>7, <1>8, <1>9, <1>10, <1>11

\* The types are kept by the actions that move buffers.
LEMMA MovesKeepTypes ==
  ASSUME IInv,
         \/ RxDiscard \/ RxAnswer \/ TxReclaim \/ TxDmaClose
         \/ \E f \in Requests \cup Others, status \in {"GOOD", "BAD"} :
              RxDmaReceive(f, status)
  PROVE  TypeOK' /\ PoolFull'
<1>1. TypeOK /\ PoolFull
  BY DEF IInv
<1>2. /\ kReceiveRd \in Ring /\ kReceiveWr \in Ring /\ kTransmitRd \in Ring
      /\ kTransmitWr \in Ring /\ rxDma \in Ring /\ txDma \in Ring
      /\ Inc(kReceiveRd) \in Ring /\ Inc(kReceiveWr) \in Ring
      /\ Inc(kTransmitRd) \in Ring /\ Inc(kTransmitWr) \in Ring
      /\ Inc(rxDma) \in Ring /\ Inc(txDma) \in Ring
  BY <1>1, IncWraps DEF TypeOK
<1>3. CASE RxDiscard
  <2>1. rxBuf[kReceiveRd] \in Pool \cup {NoPacket}
    BY <1>1, <1>2 DEF TypeOK
  <2> QED BY <1>1, <1>2, <1>3, <2>1, DiscardEffect
         DEF RxDiscard, TypeOK, PoolFull, engineVars
<1>4. CASE RxAnswer
  <2>1. rxBuf[kReceiveRd] \in Pool /\ frame[rxBuf[kReceiveRd]] \in Requests
    BY <1>1, <1>2, <1>4 DEF RxAnswer, RxReadable, Answered, TypeOK
  <2>2. frame' \in [Pool -> Frames]
    BY <1>1, <1>4, <2>1 DEF RxAnswer, TypeOK, Frames
  <2> QED BY <1>1, <1>2, <1>4, <2>1, <2>2, AnswerEffect
         DEF RxAnswer, TypeOK, PoolFull, engineVars
<1>5. CASE TxReclaim
  <2>1. txBuf[kTransmitWr] \in Pool \cup {NoPacket}
    BY <1>1, <1>2 DEF TypeOK
  <2> QED BY <1>1, <1>2, <1>5, <2>1, ReclaimEffect
         DEF TxReclaim, TypeOK, PoolFull, engineVars
<1>6. CASE TxDmaClose
  BY <1>1, <1>2, <1>6 DEF TxDmaClose, TypeOK, PoolFull, cpuVars
<1>7. ASSUME NEW f \in Requests \cup Others, NEW status \in {"GOOD", "BAD"},
             RxDmaReceive(f, status)
      PROVE  TypeOK' /\ PoolFull'
  <2>1. frame' \in [Pool -> Frames]
    BY <1>1, <1>7 DEF RxDmaReceive, TypeOK, Frames
  <2> QED BY <1>1, <1>2, <1>7, <2>1 DEF RxDmaReceive, TypeOK, PoolFull, cpuVars
<1> QED BY <1>3, <1>4, <1>5, <1>6, <1>7

LEMMA StepKeeps ==
  ASSUME IInv, [Next]_vars
  PROVE  IInv'
<1>1. CASE \/ EnterHandler \/ ServeAbnormal \/ ResumeTx \/ RxReturn \/ ClearR
           \/ TxReturn \/ ClearT \/ RxDmaUnavailable \/ TxDmaFetch \/ TxDmaSuspend
  <2>1. /\ Idle
        /\ tps' = "Reading" => txStatus[txDma] = "OWN"
    BY <1>1, IdleSteps
  <2>2. TypeOK' /\ PoolFull'
    BY <1>1, IdleSteps DEF Idle, ringVars, cpuVars, TypeOK, PoolFull, IInv
  <2>3. DescriptorsInOrder' /\ RingsInStep'
    BY <2>1 DEF Idle, ringVars, cpuVars, DescriptorsInOrder, RingsInStep, RxOrder,
                TxOrder, RxTaken, TxInUse, TxQueued, IInv
  <2>4. NoBufferShared' /\ NoBufferLost'
    BY <2>1 DEF Idle, ringVars, cpuVars, NoBufferShared, NoBufferLost, RxHolds,
                RxFilled, IInv
  <2> QED BY <2>2, <2>3, <2>4 DEF IInv
<1>2. CASE RxDiscard
  BY <1>2, MovesKeepTypes, DiscardKeepsOrder, DiscardKeepsBuffers
     DEF IInv, Ordered, Accounted
<1>3. CASE RxAnswer
  BY <1>3, MovesKeepTypes, AnswerKeepsOrder, AnswerKeepsBuffers
     DEF IInv, Ordered, Accounted
<1>4. CASE TxReclaim
  BY <1>4, MovesKeepTypes, ReclaimKeepsOrder, ReclaimKeepsBuffers
     DEF IInv, Ordered, Accounted
<1>5. CASE TxDmaClose
  <2>1. NoBufferShared' /\ NoBufferLost'
    BY <1>5 DEF TxDmaClose, cpuVars, NoBufferShared, NoBufferLost, RxHolds,
                RxFilled, IInv
  <2> QED BY <1>5, <2>1, MovesKeepTypes, CloseKeepsOrder DEF IInv, Ordered
<1>6. ASSUME NEW f \in Requests \cup Others, NEW status \in {"GOOD", "BAD"},
             RxDmaReceive(f, status)
      PROVE  IInv'
  BY <1>6, MovesKeepTypes, ReceiveKeepsOrder, ReceiveKeepsBuffers
     DEF IInv, Ordered, Accounted
<1>7. CASE UNCHANGED vars
  BY <1>7 DEF vars, ringVars, cpuVars, engineVars, IInv, TypeOK, PoolFull,
              DescriptorsInOrder, RingsInStep, RxOrder, TxOrder, RxTaken, TxInUse,
              TxQueued, NoBufferShared, NoBufferLost, RxHolds, RxFilled
<1> QED BY <1>1, <1>2, <1>3, <1>4, <1>5, <1>6, <1>7
       DEF Next, Handler, Wire, Receive, TxEngine

\* The invariant, in every state of the driver with its engines.
THEOREM Invariance == Spec => []IInv
<1>1. Init => IInv
  BY InitEstablishes
<1>2. IInv /\ [Next]_vars => IInv'
  BY StepKeeps
<1> QED BY <1>1, <1>2, PTL DEF Spec

(***************************************************************************)
(* What follows for the driver.                                            *)
(***************************************************************************)

\* All variables have their types: in particular PACKET_RING_INC never leads
\* out of a ring, and no address but a buffer's or zero is ever stored.
THEOREM TypesHold == Spec => []TypeOK
  BY Invariance, PTL DEF IInv

\* The arcs of the rings: receive and transmit descriptors change hands in
\* order, whatever the interleaving of the handler with the two engines.
THEOREM OrderHolds == Spec => []DescriptorsInOrder
  BY Invariance, PTL DEF IInv

\* The rings turn in lockstep, so never are all buffers out for transmission.
THEOREM LockstepHolds == Spec => []RingsInStep
  BY Invariance, PTL DEF IInv

\* A buffer is in one place at a time.
THEOREM SharingExcluded == Spec => []NoBufferShared
  BY Invariance, PTL DEF IInv

\* No buffer leaks: "IMPOSSIBRU! PacketBuffer leaks" is indeed impossible.
THEOREM LeaksExcluded == Spec => []NoBufferLost
  BY Invariance, PTL DEF IInv

\* The overrun that EnqueueTxFromInterrupt does not account for cannot happen.
THEOREM OverrunExcluded == Spec => []TxNeverOverrun
<1>1. IInv => TxNeverOverrun
  BY NextDescriptorFree DEF IInv, DescriptorsInOrder, TxNeverOverrun
<1> QED BY <1>1, Invariance, PTL

\* A queued frame and the address of its descriptor stay as they are.
LEMMA QueuedStay ==
  ASSUME IInv, [Next]_vars
  PROVE  \A i \in Ring :
           txStatus[i] = "OWN" => /\ txBuf'[i] = txBuf[i]
                                  /\ frame'[txBuf[i]] = frame[txBuf[i]]
<1> SUFFICES ASSUME NEW i \in Ring, txStatus[i] = "OWN"
             PROVE  /\ txBuf'[i] = txBuf[i]
                    /\ frame'[txBuf[i]] = frame[txBuf[i]]
  OBVIOUS
<1>1. TypeOK /\ TxOrder /\ RxOrder /\ NoBufferShared
  BY DEF IInv, DescriptorsInOrder
<1>2. txBuf[i] # NoPacket
  BY <1>1, TxArcs
<1>3. txBuf[i] \in Pool
  BY <1>1, <1>2 DEF TypeOK
<1>4. ASSUME NEW j \in Ring, RxHolds(j)
      PROVE  rxBuf[j] # txBuf[i]
  BY <1>1, <1>4 DEF NoBufferShared
<1>5. CASE \/ EnterHandler \/ ServeAbnormal \/ ResumeTx \/ RxReturn \/ ClearR
           \/ TxReturn \/ ClearT \/ RxDmaUnavailable \/ TxDmaFetch \/ TxDmaSuspend
  BY <1>5, IdleSteps DEF Idle, ringVars
<1>6. CASE RxDiscard
  BY <1>6 DEF RxDiscard
<1>7. CASE RxAnswer
  <2>1. i # kTransmitRd
    BY <1>1, TxArcs
  <2>2. kReceiveRd \in Ring /\ RxHolds(kReceiveRd)
    BY <1>1, <1>7, Distances, ReadableHolds, AnswerEffect
  <2>3. /\ txBuf' = [txBuf EXCEPT ![kTransmitRd] = rxBuf[kReceiveRd]]
        /\ frame' = [frame EXCEPT ![rxBuf[kReceiveRd]] = Reply(@)]
    BY <1>7, AnswerEffect DEF RxAnswer
  <2> QED BY <1>1, <1>3, <1>4, <2>1, <2>2, <2>3 DEF TypeOK
<1>8. CASE TxReclaim
  <2>1. i # kTransmitWr /\ txBuf' = [txBuf EXCEPT ![kTransmitWr] = NoPacket]
    BY <1>8, ReclaimEffect DEF TxReclaim, TxReclaimable
  <2> QED BY <1>1, <1>8, <2>1 DEF TxReclaim, TypeOK
<1>9. CASE TxDmaClose
  BY <1>9 DEF TxDmaClose
<1>10. ASSUME NEW f \in Requests \cup Others, NEW status \in {"GOOD", "BAD"},
              RxDmaReceive(f, status)
       PROVE  /\ txBuf'[i] = txBuf[i]
              /\ frame'[txBuf[i]] = frame[txBuf[i]]
  <2>1. rxDma \in Ring /\ RxHolds(rxDma)
    BY <1>1, <1>10, Distances DEF RxDmaReceive, RxDmaHasRoom, RxHolds
  <2> QED BY <1>1, <1>3, <1>4, <1>10, <2>1 DEF RxDmaReceive, TypeOK
<1>11. CASE UNCHANGED vars
  BY <1>11 DEF vars, ringVars
<1> QED BY <1>5, <1>6, <1>7, <1>8, <1>9, <1>10, <1>11
       DEF Next, Handler, Wire, Receive, TxEngine

\* The frame of a queued descriptor and its address stay as they are until
\* the engine has sent it.
THEOREM QueuedFramesKept == Spec => QueuedFrameStable
<1> DEFINE Kept == \A i \in Ring :
      txStatus[i] = "OWN" => /\ txBuf'[i] = txBuf[i]
                             /\ frame'[txBuf[i]] = frame[txBuf[i]]
<1>1. IInv /\ [Next]_vars => [Kept]_vars
  BY QueuedStay
<1> QED BY <1>1, Invariance, PTL DEF Spec, QueuedFrameStable

(***************************************************************************)
(* Nothing is left behind when nothing happens in one of the three windows *)
(* of a few instructions.  While an index of the handler lags behind its   *)
(* engine's, the status bit that will bring the handler back is still set, *)
(* for a bit is cleared only when the loop has caught up; and an engine    *)
(* that sleeps has been caught up with, or is about to be woken.           *)
(***************************************************************************)
RxAttended ==
  /\ kReceiveRd # rxDma => "RS" \in dmasr
  /\ pc = "clearR" => kReceiveRd = rxDma

TxAttended ==
  /\ kTransmitWr # txDma => "TS" \in dmasr
  /\ pc = "clearT" => kTransmitWr = txDma

EngineAttended ==
  /\ tps = "Missed" => kTransmitRd = txDma
  /\ tps = "Suspended" /\ pc # "resume" => kTransmitRd = txDma

QuietInv == IInv /\ RxAttended /\ TxAttended /\ EngineAttended

\* A loop that stops has caught up with its engine.
LEMMA LoopsCatchUp ==
  ASSUME IInv
  PROVE  /\ ~RxReadable => kReceiveRd = rxDma
         /\ ~TxReclaimable => kTransmitWr = txDma
<1> USE RingAssumption
<1>1. TypeOK /\ RxOrder /\ TxOrder /\ NoBufferShared
  BY DEF IInv, DescriptorsInOrder
<1>2. ASSUME kReceiveRd # rxDma
      PROVE  RxReadable
  <2>1. rxStatus[kReceiveRd] # "OWN" /\ RxHolds(kReceiveRd)
    BY <1>1, <1>2, ReadableHolds
  <2>2. rxBuf[kReceiveRd] # NoPacket
    BY <1>1, <2>1, Distances DEF NoBufferShared
  <2> QED BY <2>1, <2>2 DEF RxReadable
<1>3. ASSUME kTransmitWr # txDma
      PROVE  TxReclaimable
  <2>1. /\ kTransmitRd \in Ring /\ kTransmitWr \in Ring /\ txDma \in Ring
        /\ Dist(kTransmitWr, txDma) \in Ring /\ Dist(kTransmitWr, txDma) # 0
        /\ Dist(kTransmitWr, kTransmitWr) = 0
        /\ TxQueued \in Ring /\ TxInUse \in Ring
    BY <1>1, <1>3, Distances, DistRange
  <2>2. TxInUse = Dist(kTransmitWr, txDma) + TxQueued
    BY <1>1 DEF TxOrder
  <2>3. txBuf[kTransmitWr] # NoPacket
    BY <1>1, <2>1, <2>2 DEF TxOrder, Ring
  <2>4. ~(Dist(txDma, kTransmitWr) < TxQueued)
    BY <1>3, <2>1, <2>2 DEF TxQueued, TxInUse, Dist, Ring
  <2>5. txStatus[kTransmitWr] # "OWN"
    BY <1>1, <2>1, <2>4 DEF TxOrder
  <2> QED BY <2>3, <2>5 DEF TxReclaimable
<1> QED BY <1>2, <1>3

\* The invariant survives every step that is not in a window.
LEMMA PromptKeeps ==
  ASSUME QuietInv, PromptNext
  PROVE  QuietInv'
<1> USE RingAssumption
<1>1. IInv /\ TypeOK /\ TxOrder
  BY DEF QuietInv, IInv, DescriptorsInOrder
<1>2. IInv'
  BY <1>1, StepKeeps DEF PromptNext
<1>3. RxAttended /\ TxAttended /\ EngineAttended
  BY DEF QuietInv
<1>4. /\ txStatus[txDma] = "OWN" <=> txDma # kTransmitRd
      /\ kTransmitRd \in Ring /\ txDma \in Ring /\ kReceiveRd \in Ring
      /\ rxDma \in Ring
  BY <1>1, TxArcs, Distances
<1>5. ASSUME NEW i \in Ring, NEW j \in Ring, i # j
      PROVE  Inc(i) # i /\ Inc(j) # j
  BY <1>5, IncWraps DEF Ring
<1>6. ~LateReceive /\ ~LateClose /\ ~LateEnqueue
  BY DEF PromptNext
<1> DEFINE Attended == RxAttended /\ TxAttended /\ EngineAttended
<1> SUFFICES Attended'
  BY <1>2 DEF QuietInv
<1>7. CASE EnterHandler \/ ServeAbnormal \/ ResumeTx \/ ClearR \/ ClearT
  BY <1>3, <1>7 DEF EnterHandler, ServeAbnormal, ResumeTx, ClearR, ClearT, Dispatch,
                    cpuVars, engineVars, RxAttended, TxAttended, EngineAttended
<1>8. CASE RxReturn \/ TxReturn
  BY <1>1, <1>3, <1>8, LoopsCatchUp
     DEF RxReturn, TxReturn, cpuVars, engineVars, RxAttended, TxAttended,
         EngineAttended
<1>9. CASE RxDiscard
  BY <1>1, <1>3, <1>9, DiscardEffect
     DEF RxDiscard, engineVars, RxAttended, TxAttended, EngineAttended
<1>10. CASE RxAnswer
  <2>1. /\ kReceiveRd # rxDma /\ pc' = "resume" /\ kTransmitRd' = Inc(kTransmitRd)
        /\ UNCHANGED <<kTransmitWr, dmasr, rxDma, txDma, tps>>
    BY <1>1, <1>10, AnswerEffect DEF RxAnswer, engineVars
  <2>2. Inc(kTransmitRd) # kTransmitRd
    BY <2>1, <1>4, IncWraps DEF Ring
  <2>3. tps # "Missed"
    BY <2>1, <2>2, <1>6 DEF LateEnqueue
  <2> QED BY <2>1, <2>3, <1>3 DEF RxAttended, TxAttended, EngineAttended
<1>11. CASE TxReclaim
  BY <1>1, <1>3, <1>11, ReclaimEffect
     DEF TxReclaim, engineVars, RxAttended, TxAttended, EngineAttended
<1>12. ASSUME NEW f \in Requests \cup Others, NEW status \in {"GOOD", "BAD"},
              RxDmaReceive(f, status)
       PROVE  Attended'
  <2>1. Inc(rxDma) # rxDma
    BY <1>4, <1>5, <1>12 DEF RxDmaReceive, RxDmaHasRoom
  <2>2. pc # "clearR"
    BY <2>1, <1>6, <1>12 DEF RxDmaReceive, LateReceive
  <2> QED BY <2>2, <1>3, <1>12
         DEF RxDmaReceive, cpuVars, RxAttended, TxAttended, EngineAttended
<1>13. CASE RxDmaUnavailable
  BY <1>3, <1>13 DEF RxDmaUnavailable, cpuVars, engineVars, RxAttended, TxAttended,
                     EngineAttended
<1>14. CASE TxDmaFetch \/ TxDmaSuspend
  BY <1>3, <1>4, <1>14 DEF TxDmaFetch, TxDmaSuspend, cpuVars, RxAttended, TxAttended,
                     EngineAttended
<1>15. CASE TxDmaClose
  <2>1. txDma # kTransmitRd
    BY <1>4, <1>15 DEF TxDmaClose, QuietInv, IInv, DescriptorsInOrder
  <2>2. pc # "clearT"
    BY <2>1, <1>4, <1>5, <1>6, <1>15 DEF TxDmaClose, LateClose
  <2> QED BY <2>2, <1>3, <1>15
         DEF TxDmaClose, cpuVars, RxAttended, TxAttended, EngineAttended
<1> QED BY <1>7, <1>8, <1>9, <1>10, <1>11, <1>12, <1>13, <1>14, <1>15
       DEF PromptNext, Next, Handler, Wire, Receive, TxEngine

THEOREM PromptInvariance == PromptSpec => []QuietInv
<1>1. Init => QuietInv
  BY InitEstablishes DEF Init, QuietInv, RxAttended, TxAttended, EngineAttended
<1>2. QuietInv /\ UNCHANGED vars => QuietInv'
  <2>1. IInv /\ UNCHANGED vars => IInv'
    BY StepKeeps
  <2> QED BY <2>1 DEF vars, cpuVars, engineVars, QuietInv, RxAttended, TxAttended,
                      EngineAttended
<1>3. QuietInv /\ [PromptNext]_vars => QuietInv'
  BY <1>2, PromptKeeps
<1> QED BY <1>1, <1>3, PTL DEF PromptSpec

\* When no interrupt is due, no received frame lies unread and no sent buffer
\* unreclaimed, unless something happened in a window.
THEOREM BuffersRest == PromptSpec => []QuietBuffersAtRest
<1> USE RingAssumption
<1>1. ASSUME QuietInv, pc = "main", dmasr = {}, NEW b \in Pool
      PROVE  AtRest(b)
  <2>1. TypeOK /\ TxOrder /\ NoBufferLost
    BY <1>1 DEF QuietInv, IInv, DescriptorsInOrder
  <2>2. kReceiveRd = rxDma /\ kTransmitWr = txDma
    BY <1>1 DEF QuietInv, RxAttended, TxAttended
  <2>3. TxInUse = TxQueued
    BY <2>2 DEF TxInUse, TxQueued
  <2>4. ASSUME NEW i \in Ring, RxHolds(i)
        PROVE  rxStatus[i] = "OWN"
    <3>1. Dist(kReceiveRd, rxDma) = 0 /\ Dist(kReceiveRd, i) \in Ring
      BY <2>1, <2>2, Distances, DistRange
    <3> QED BY <3>1, <2>4 DEF RxHolds, RxFilled, Ring
  <2>5. ASSUME NEW i \in Ring, txBuf[i] = b
        PROVE  txStatus[i] = "OWN"
    BY <2>1, <2>2, <2>3, <2>5 DEF TxOrder, Pool, NoPacket
  <2> QED BY <2>1, <2>4, <2>5 DEF NoBufferLost, AtRest
<1>2. QuietInv => QuietBuffersAtRest
  BY <1>1 DEF QuietBuffersAtRest
<1> QED BY <1>2, PromptInvariance, PTL

\* Nor does a queued frame wait for a transmit engine that sleeps.
THEOREM EngineRests == PromptSpec => []QuietEngineHasNoWork
<1> USE RingAssumption
<1>1. ASSUME QuietInv, pc = "main", tps = "Suspended", NEW i \in Ring
      PROVE  txStatus[i] = "CPU"
  <2>1. TypeOK /\ TxOrder
    BY <1>1 DEF QuietInv, IInv, DescriptorsInOrder
  <2>2. kTransmitRd = txDma
    BY <1>1 DEF QuietInv, EngineAttended
  <2>3. TxQueued = 0 /\ Dist(txDma, i) \in Ring
    BY <2>1, <2>2, Distances, DistRange DEF TxQueued
  <2>4. txStatus[i] # "OWN"
    BY <2>1, <2>3 DEF TxOrder, Ring
  <2> QED BY <2>1, <2>4 DEF TypeOK
<1>2. QuietInv => QuietEngineHasNoWork
  BY <1>1 DEF QuietEngineHasNoWork
<1> QED BY <1>2, PromptInvariance, PTL

(***************************************************************************)
(* PacketRings implements FrameService, for rings of every length: through *)
(* two rings of descriptors, stale addresses and the interleavings of the  *)
(* handler with the engines, frames are served and replies leave first in, *)
(* first out, none of them twice and none of them changed on the way.      *)
(***************************************************************************)

(***************************************************************************)
(* Sequences given as functions.                                           *)
(***************************************************************************)
IsList(s, n) == n \in Nat /\ s = [k \in 1 .. n |-> s[k]]

LEMMA ListIsSeq ==
  ASSUME NEW s, NEW n, IsList(s, n)
  PROVE  s \in Seq({s[k] : k \in 1 .. n}) /\ Len(s) = n
<1>1. s \in [1 .. n -> {s[k] : k \in 1 .. n}]
  BY DEF IsList
<1> QED BY <1>1 DEF IsList

LEMMA ListsEqual ==
  ASSUME NEW s, NEW t, NEW n, IsList(s, n), IsList(t, n),
         \A k \in 1 .. n : s[k] = t[k]
  PROVE  s = t
  BY DEF IsList

LEMMA ListAppend ==
  ASSUME NEW s, NEW t, NEW n, NEW e, IsList(s, n), IsList(t, n + 1),
         \A k \in 1 .. n : t[k] = s[k], t[n + 1] = e
  PROVE  t = Append(s, e)
<1>1. s \in Seq({s[k] : k \in 1 .. n}) /\ Len(s) = n
  BY ListIsSeq
<1>2. Append(s, e) = [k \in 1 .. n + 1 |-> IF k = n + 1 THEN e ELSE s[k]]
  BY <1>1 DEF IsList
<1>3. ASSUME NEW k \in 1 .. n + 1
      PROVE  t[k] = IF k = n + 1 THEN e ELSE s[k]
  <2>1. k = n + 1 \/ k \in 1 .. n
    BY DEF IsList
  <2> QED BY <2>1
<1>4. t = [k \in 1 .. n + 1 |-> t[k]]
  BY DEF IsList
<1>5. [k \in 1 .. n + 1 |-> t[k]] = [k \in 1 .. n + 1 |-> IF k = n + 1 THEN e ELSE s[k]]
  BY <1>3
<1> QED BY <1>2, <1>4, <1>5

LEMMA ListTail ==
  ASSUME NEW s, NEW t, NEW n, IsList(s, n), n > 0, IsList(t, n - 1),
         \A k \in 1 .. n - 1 : t[k] = s[k + 1]
  PROVE  s # <<>> /\ Head(s) = s[1] /\ t = Tail(s)
<1>1. s \in Seq({s[k] : k \in 1 .. n}) /\ Len(s) = n
  BY ListIsSeq
<1>2. s # <<>>
  BY <1>1
<1>3. Head(s) = s[1]
  BY <1>1, <1>2
<1>4. Tail(s) = [k \in 1 .. n - 1 |-> s[k + 1]]
  BY <1>1, <1>2 DEF IsList
<1> QED BY <1>2, <1>3, <1>4 DEF IsList

(***************************************************************************)
(* Walking a ring.                                                         *)
(***************************************************************************)
LEMMA Slots ==
  ASSUME NEW i \in Ring, NEW k \in Ring
  PROVE  /\ Slot(i, k) \in Ring
         /\ Dist(i, Slot(i, k)) = k
         /\ k = 0 => Slot(i, k) = i
         /\ k > 0 => Slot(Inc(i), k - 1) = Slot(i, k)
<1> USE RingAssumption
<1>1. Slot(i, k) = IF i + k < PACKET_RING_LEN THEN i + k ELSE i + k - PACKET_RING_LEN
  BY SMT DEF Slot, Ring
<1>2. Inc(i) \in Ring /\ Inc(i) = IF i = PACKET_RING_LEN - 1 THEN 0 ELSE i + 1
  BY IncWraps
<1>3. k > 0 => Slot(Inc(i), k - 1) = IF Inc(i) + (k - 1) < PACKET_RING_LEN
                                    THEN Inc(i) + (k - 1)
                                    ELSE Inc(i) + (k - 1) - PACKET_RING_LEN
  BY <1>2, SMT DEF Slot, Ring
<1> QED BY <1>1, <1>2, <1>3 DEF Dist, Ring

\* The descriptor at distance k is found k steps on.
LEMMA SlotAtDist ==
  ASSUME NEW i \in Ring, NEW j \in Ring
  PROVE  Slot(i, Dist(i, j)) = j
<1>1. Dist(i, j) \in Ring
  BY DistRange
<1> QED BY <1>1, Slots, DistInjective

(***************************************************************************)
(* What the two queues are made of.                                        *)
(***************************************************************************)

\* The frame in receive descriptor i as the driver will read it.
Intake(i) == [frame |-> frame[rxBuf[i]], status |-> rxStatus[i]]

\* The frame that the next state has there.
IntakeNext(i) == [frame |-> frame'[rxBuf'[i]], status |-> rxStatus'[i]]

LEMMA FilledSlots ==
  ASSUME IInv, NEW i \in Ring, RxFilled(i)
  PROVE  rxStatus[i] # "OWN" /\ RxHolds(i) /\ rxBuf[i] \in Pool
<1>1. TypeOK /\ RxOrder /\ NoBufferShared
  BY DEF IInv, DescriptorsInOrder
<1>2. /\ kReceiveRd \in Ring /\ kReceiveWr \in Ring /\ rxDma \in Ring
      /\ Dist(kReceiveWr, rxDma) \in Ring
  BY <1>1, Distances
<1>3. Dist(kReceiveWr, rxDma) = RxTaken + Dist(kReceiveRd, rxDma)
  BY <1>1 DEF RxOrder
<1>4. Dist(kReceiveWr, i) < Dist(kReceiveWr, rxDma)
  BY <1>2, <1>3, RingAssumption DEF RxFilled, RxTaken, Dist, Ring
<1>5. Dist(kReceiveWr, i) \in Ring
  BY <1>2, DistRange
<1>6. rxStatus[i] # "OWN"
  BY <1>1, <1>2, <1>4, <1>5 DEF RxOrder, Ring
<1>7. RxHolds(i)
  BY DEF RxHolds
<1>8. rxBuf[i] \in Pool
  BY <1>1, <1>7 DEF NoBufferShared, TypeOK
<1> QED BY <1>6, <1>7, <1>8

\* A received frame is not touched until its descriptor is read.
LEMMA FilledStay ==
  ASSUME IInv, [Next]_vars, NEW i \in Ring, RxFilled(i),
         i # kReceiveRd \/ kReceiveRd' = kReceiveRd
  PROVE  IntakeNext(i) = Intake(i)
<1> SUFFICES /\ rxBuf'[i] = rxBuf[i] /\ rxStatus'[i] = rxStatus[i]
             /\ frame'[rxBuf[i]] = frame[rxBuf[i]]
  BY DEF Intake, IntakeNext
<1>1. TypeOK /\ TxOrder /\ RxOrder /\ NoBufferShared /\ RingsInStep
  BY DEF IInv, DescriptorsInOrder
<1>2. RxHolds(i) /\ rxBuf[i] \in Pool
  BY FilledSlots
<1>3. ASSUME NEW j \in Ring, RxHolds(j), j # i
      PROVE  rxBuf[j] # rxBuf[i]
  BY <1>1, <1>2, <1>3 DEF NoBufferShared
<1>4. /\ kReceiveRd \in Ring /\ kReceiveWr \in Ring /\ rxDma \in Ring
      /\ kTransmitRd \in Ring /\ kTransmitWr \in Ring
      /\ Dist(kReceiveRd, rxDma) \in Ring
  BY <1>1, Distances
<1>5. kReceiveRd # rxDma => Inc(kReceiveRd) # kReceiveRd
  BY <1>4, IncWraps, RingAssumption DEF Ring
<1>6. CASE \/ EnterHandler \/ ServeAbnormal \/ ResumeTx \/ RxReturn \/ ClearR
           \/ TxReturn \/ ClearT \/ RxDmaUnavailable \/ TxDmaFetch \/ TxDmaSuspend
  BY <1>6, IdleSteps DEF Idle, ringVars
<1>7. CASE RxDiscard
  <2>1. i # kReceiveRd
    BY <1>5, <1>7, DiscardEffect
  <2>2. i # kReceiveWr
    BY <2>1, <1>1, <1>2, VacancyHoldsNothing
  <2> QED BY <2>2, <1>1, <1>7, DiscardEffect DEF RxDiscard, TypeOK
<1>8. CASE RxAnswer
  <2>1. i # kReceiveRd
    BY <1>5, <1>8, AnswerEffect
  <2>2. RxHolds(kReceiveRd)
    BY <1>1, <1>8, AnswerEffect, ReadableHolds
  <2>3. frame' = [frame EXCEPT ![rxBuf[kReceiveRd]] = Reply(@)]
    BY <1>8 DEF RxAnswer
  <2> QED BY <2>1, <2>2, <2>3, <1>1, <1>2, <1>3, <1>4, <1>8, AnswerEffect DEF TypeOK
<1>9. CASE TxReclaim
  <2>1. kReceiveWr # kReceiveRd
    BY <1>1, <1>4, <1>9, ReclaimEffect, DistRange DEF RingsInStep, RxTaken
  <2>2. i # kReceiveWr
    BY <2>1, <1>1, <1>2, VacancyHoldsNothing
  <2> QED BY <2>2, <1>1, <1>9, ReclaimEffect DEF TxReclaim, TypeOK
<1>10. CASE TxDmaClose
  BY <1>10 DEF TxDmaClose
<1>11. ASSUME NEW f \in Requests \cup Others, NEW status \in {"GOOD", "BAD"},
              RxDmaReceive(f, status)
       PROVE  /\ rxBuf'[i] = rxBuf[i] /\ rxStatus'[i] = rxStatus[i]
              /\ frame'[rxBuf[i]] = frame[rxBuf[i]]
  <2>1. i # rxDma
    BY <1>4 DEF RxFilled, Ring
  <2>2. RxHolds(rxDma)
    BY <1>11 DEF RxDmaReceive, RxDmaHasRoom, RxHolds
  <2> QED BY <2>1, <2>2, <1>1, <1>2, <1>3, <1>4, <1>11 DEF RxDmaReceive, TypeOK
<1>12. CASE UNCHANGED vars
  BY <1>12 DEF vars, ringVars
<1> QED BY <1>6, <1>7, <1>8, <1>9, <1>10, <1>11, <1>12
       DEF Next, Handler, Wire, Receive, TxEngine

\* The k-th frame of either queue lies k - 1 steps on.
LEMMA Boxes ==
  /\ IInv => /\ IsList(inbox, Dist(kReceiveRd, rxDma))
             /\ IsList(outbox, TxQueued)
  /\ \A k \in 1 .. Dist(kReceiveRd, rxDma) :
       inbox[k] = Intake(Slot(kReceiveRd, k - 1))
  /\ \A k \in 1 .. TxQueued : outbox[k] = frame[txBuf[Slot(txDma, k - 1)]]
  BY Distances, RingAssumption DEF IsList, inbox, outbox, Intake, IInv, Ring

LEMMA BoxesNext ==
  ASSUME IInv, [Next]_vars
  PROVE  /\ IsList(inbox', Dist(kReceiveRd', rxDma'))
         /\ IsList(outbox', Dist(txDma', kTransmitRd'))
         /\ \A k \in 1 .. Dist(kReceiveRd', rxDma') :
              inbox'[k] = IntakeNext(Slot(kReceiveRd', k - 1))
         /\ \A k \in 1 .. Dist(txDma', kTransmitRd') :
              outbox'[k] = frame'[txBuf'[Slot(txDma', k - 1)]]
<1>1. /\ kReceiveRd' \in Ring /\ rxDma' \in Ring
      /\ txDma' \in Ring /\ kTransmitRd' \in Ring
  BY StepKeeps DEF IInv, TypeOK
<1>2. Dist(kReceiveRd', rxDma') \in Nat /\ Dist(txDma', kTransmitRd') \in Nat
  BY <1>1, DistRange, RingAssumption DEF Ring
<1> QED BY <1>2 DEF IsList, inbox, outbox, TxQueued, IntakeNext

\* Where the k-th frame lies, and that it is filled or queued there.
LEMMA BoxSlots ==
  ASSUME IInv
  PROVE  /\ \A k \in 1 .. Dist(kReceiveRd, rxDma) :
              LET i == Slot(kReceiveRd, k - 1)
              IN  i \in Ring /\ RxFilled(i) /\ Dist(kReceiveRd, i) = k - 1
         /\ \A k \in 1 .. TxQueued :
              LET i == Slot(txDma, k - 1)
              IN  i \in Ring /\ txStatus[i] = "OWN" /\ Dist(txDma, i) = k - 1
<1> USE RingAssumption
<1>1. TypeOK /\ TxOrder
  BY DEF IInv, DescriptorsInOrder
<1>2. /\ Dist(kReceiveRd, rxDma) \in Ring /\ TxQueued \in Ring
      /\ kReceiveRd \in Ring /\ txDma \in Ring
  BY <1>1, Distances
<1>3. ASSUME NEW k \in 1 .. Dist(kReceiveRd, rxDma)
      PROVE  LET i == Slot(kReceiveRd, k - 1)
             IN  i \in Ring /\ RxFilled(i) /\ Dist(kReceiveRd, i) = k - 1
  <2>1. k - 1 \in Ring /\ k - 1 < Dist(kReceiveRd, rxDma)
    BY <1>2 DEF Ring
  <2> QED BY <2>1, <1>2, Slots DEF RxFilled
<1>4. ASSUME NEW k \in 1 .. TxQueued
      PROVE  LET i == Slot(txDma, k - 1)
             IN  i \in Ring /\ txStatus[i] = "OWN" /\ Dist(txDma, i) = k - 1
  <2>1. k - 1 \in Ring /\ k - 1 < TxQueued
    BY <1>2 DEF Ring
  <2> QED BY <2>1, <1>1, <1>2, Slots DEF TxOrder
<1> QED BY <1>3, <1>4

(***************************************************************************)
(* What moving an index does to a queue.                                   *)
(***************************************************************************)
LEMMA InboxStays ==
  ASSUME IInv, [Next]_vars, UNCHANGED <<kReceiveRd, rxDma>>
  PROVE  inbox' = inbox
<1> DEFINE n == Dist(kReceiveRd, rxDma)
<1>1. IsList(inbox, n) /\ IsList(inbox', n)
  BY Boxes, BoxesNext
<1>2. ASSUME NEW k \in 1 .. n
      PROVE  inbox'[k] = inbox[k]
  <2>1. inbox[k] = Intake(Slot(kReceiveRd, k - 1))
    BY Boxes
  <2>2. inbox'[k] = IntakeNext(Slot(kReceiveRd, k - 1))
    BY BoxesNext
  <2> QED BY <2>1, <2>2, BoxSlots, FilledStay
<1> HIDE DEF n
<1> QED BY <1>1, <1>2, ListsEqual

\* A descriptor is read: the oldest frame leaves the queue.
LEMMA InboxTail ==
  ASSUME IInv, [Next]_vars, kReceiveRd # rxDma,
         kReceiveRd' = Inc(kReceiveRd), rxDma' = rxDma
  PROVE  /\ inbox # <<>> /\ inbox' = Tail(inbox)
         /\ Head(inbox) = Intake(kReceiveRd)
<1> USE RingAssumption
<1> DEFINE n == Dist(kReceiveRd, rxDma)
<1>1. /\ kReceiveRd \in Ring /\ rxDma \in Ring /\ n \in Ring /\ n # 0
  BY Distances, DistRange DEF IInv
<1>2. Dist(kReceiveRd', rxDma') = n - 1
  BY <1>1, DistIncNear
<1>3. IsList(inbox, n) /\ IsList(inbox', n - 1)
  BY <1>2, Boxes, BoxesNext
<1>4. n > 0
  BY <1>1 DEF Ring
<1>5. ASSUME NEW k \in 1 .. n - 1
      PROVE  inbox'[k] = inbox[k + 1]
  <2>1. k \in Ring /\ k > 0 /\ k + 1 \in 1 .. n /\ (k + 1) - 1 = k
    BY <1>1 DEF Ring
  <2>2. inbox[k + 1] = Intake(Slot(kReceiveRd, k))
    BY <2>1, Boxes
  <2>3. inbox'[k] = IntakeNext(Slot(kReceiveRd', k - 1))
    BY <1>2, BoxesNext
  <2>4. Slot(Inc(kReceiveRd), k - 1) = Slot(kReceiveRd, k)
    BY <1>1, <2>1, Slots
  <2>5. /\ Slot(kReceiveRd, k) \in Ring /\ RxFilled(Slot(kReceiveRd, k))
        /\ Slot(kReceiveRd, k) # kReceiveRd
    BY <1>1, <2>1, BoxSlots, DistRange
  <2> QED BY <2>2, <2>3, <2>4, <2>5, FilledStay
<1>6. inbox[1] = Intake(kReceiveRd)
  <2>1. 1 \in 1 .. n /\ 0 \in Ring /\ 1 - 1 = 0
    BY <1>1 DEF Ring
  <2> QED BY <2>1, <1>1, Boxes, Slots
<1> HIDE DEF n
<1> QED BY <1>3, <1>4, <1>5, <1>6, ListTail

\* A descriptor is filled: a frame joins the queue.
LEMMA InboxAppend ==
  ASSUME IInv, [Next]_vars, Dist(kReceiveRd, rxDma) + 1 < PACKET_RING_LEN,
         kReceiveRd' = kReceiveRd, rxDma' = Inc(rxDma)
  PROVE  inbox' = Append(inbox, IntakeNext(rxDma))
<1> USE RingAssumption
<1> DEFINE n == Dist(kReceiveRd, rxDma)
<1>1. kReceiveRd \in Ring /\ rxDma \in Ring /\ n \in Ring
  BY Distances DEF IInv
<1>2. Dist(kReceiveRd', rxDma') = n + 1
  BY <1>1, DistIncFar
<1>3. IsList(inbox, n) /\ IsList(inbox', n + 1)
  BY <1>2, Boxes, BoxesNext
<1>4. ASSUME NEW k \in 1 .. n
      PROVE  inbox'[k] = inbox[k]
  <2>1. k \in 1 .. n + 1
    BY <1>1 DEF Ring
  <2>2. inbox[k] = Intake(Slot(kReceiveRd, k - 1))
    BY Boxes
  <2>3. inbox'[k] = IntakeNext(Slot(kReceiveRd, k - 1))
    BY <1>2, <2>1, BoxesNext
  <2> QED BY <2>2, <2>3, BoxSlots, FilledStay
<1>5. inbox'[n + 1] = IntakeNext(rxDma)
  <2>1. n + 1 \in 1 .. n + 1 /\ (n + 1) - 1 = n
    BY <1>1 DEF Ring
  <2>2. inbox'[n + 1] = IntakeNext(Slot(kReceiveRd, n))
    BY <1>2, <2>1, BoxesNext
  <2>3. Slot(kReceiveRd, n) = rxDma
    BY <1>1, SlotAtDist
  <2> QED BY <2>2, <2>3
<1> HIDE DEF n
<1> QED BY <1>3, <1>4, <1>5, ListAppend

LEMMA OutboxStays ==
  ASSUME IInv, [Next]_vars, UNCHANGED <<kTransmitRd, txDma>>
  PROVE  outbox' = outbox
<1> DEFINE n == Dist(txDma, kTransmitRd)
<1>1. IsList(outbox, n) /\ IsList(outbox', n)
  BY Boxes, BoxesNext DEF TxQueued
<1>2. ASSUME NEW k \in 1 .. n
      PROVE  outbox'[k] = outbox[k]
  <2>1. outbox[k] = frame[txBuf[Slot(txDma, k - 1)]]
    BY Boxes DEF TxQueued
  <2>2. outbox'[k] = frame'[txBuf'[Slot(txDma, k - 1)]]
    BY BoxesNext
  <2> QED BY <2>1, <2>2, BoxSlots, QueuedStay DEF TxQueued
<1> HIDE DEF n
<1> QED BY <1>1, <1>2, ListsEqual

\* A descriptor is closed: the oldest reply leaves.
LEMMA OutboxTail ==
  ASSUME IInv, [Next]_vars, txDma # kTransmitRd,
         kTransmitRd' = kTransmitRd, txDma' = Inc(txDma)
  PROVE  outbox # <<>> /\ outbox' = Tail(outbox)
<1> USE RingAssumption
<1> DEFINE n == Dist(txDma, kTransmitRd)
<1>1. /\ txDma \in Ring /\ kTransmitRd \in Ring /\ n \in Ring /\ n # 0
  BY Distances, DistRange DEF IInv
<1>2. Dist(txDma', kTransmitRd') = n - 1
  BY <1>1, DistIncNear
<1>3. IsList(outbox, n) /\ IsList(outbox', n - 1)
  BY <1>2, Boxes, BoxesNext DEF TxQueued
<1>4. n > 0
  BY <1>1 DEF Ring
<1>5. ASSUME NEW k \in 1 .. n - 1
      PROVE  outbox'[k] = outbox[k + 1]
  <2>1. k \in Ring /\ k > 0 /\ k + 1 \in 1 .. n /\ (k + 1) - 1 = k
    BY <1>1 DEF Ring
  <2>2. outbox[k + 1] = frame[txBuf[Slot(txDma, k)]]
    BY <2>1, Boxes DEF TxQueued
  <2>3. outbox'[k] = frame'[txBuf'[Slot(txDma', k - 1)]]
    BY <1>2, BoxesNext
  <2>4. Slot(Inc(txDma), k - 1) = Slot(txDma, k)
    BY <1>1, <2>1, Slots
  <2>5. Slot(txDma, k) \in Ring /\ txStatus[Slot(txDma, k)] = "OWN"
    BY <2>1, BoxSlots DEF TxQueued
  <2> QED BY <2>2, <2>3, <2>4, <2>5, QueuedStay
<1> HIDE DEF n
<1> QED BY <1>3, <1>4, <1>5, ListTail

\* A descriptor is given to the engine: a reply joins the queue.
LEMMA OutboxAppend ==
  ASSUME IInv, [Next]_vars, TxQueued + 1 < PACKET_RING_LEN,
         kTransmitRd' = Inc(kTransmitRd), txDma' = txDma
  PROVE  outbox' = Append(outbox, frame'[txBuf'[kTransmitRd]])
<1> USE RingAssumption
<1> DEFINE n == Dist(txDma, kTransmitRd)
<1>1. txDma \in Ring /\ kTransmitRd \in Ring /\ n \in Ring
  BY Distances, DistRange DEF IInv
<1>2. Dist(txDma', kTransmitRd') = n + 1
  BY <1>1, DistIncFar DEF TxQueued
<1>3. IsList(outbox, n) /\ IsList(outbox', n + 1)
  BY <1>2, Boxes, BoxesNext DEF TxQueued
<1>4. ASSUME NEW k \in 1 .. n
      PROVE  outbox'[k] = outbox[k]
  <2>1. k \in 1 .. n + 1
    BY <1>1 DEF Ring
  <2>2. outbox[k] = frame[txBuf[Slot(txDma, k - 1)]]
    BY Boxes DEF TxQueued
  <2>3. outbox'[k] = frame'[txBuf'[Slot(txDma, k - 1)]]
    BY <1>2, <2>1, BoxesNext
  <2> QED BY <2>2, <2>3, BoxSlots, QueuedStay DEF TxQueued
<1>5. outbox'[n + 1] = frame'[txBuf'[kTransmitRd]]
  <2>1. n + 1 \in 1 .. n + 1 /\ (n + 1) - 1 = n
    BY <1>1 DEF Ring
  <2>2. outbox'[n + 1] = frame'[txBuf'[Slot(txDma, n)]]
    BY <1>2, <2>1, BoxesNext
  <2>3. Slot(txDma, n) = kTransmitRd
    BY <1>1, SlotAtDist
  <2> QED BY <2>2, <2>3
<1> HIDE DEF n
<1> QED BY <1>3, <1>4, <1>5, ListAppend

(***************************************************************************)
(* Step by step.                                                           *)
(***************************************************************************)
LEMMA InitIsEmpty ==
  ASSUME Init
  PROVE  F!SvcInit
<1>1. IInv
  BY InitEstablishes
<1>2. Dist(kReceiveRd, rxDma) = 0 /\ TxQueued = 0
  BY DEF Init, TxQueued, Dist
<1>3. IsList(inbox, 0) /\ IsList(outbox, 0)
  BY <1>1, <1>2, Boxes
<1>4. Len(inbox) = 0 /\ Len(outbox) = 0
  BY <1>3, ListIsSeq
<1>5. inbox \in Seq({inbox[k] : k \in 1 .. 0}) /\ outbox \in Seq({outbox[k] : k \in 1 .. 0})
  BY <1>3, ListIsSeq
<1> QED BY <1>4, <1>5 DEF F!SvcInit

\* A frame that finds a descriptor finds room in the service: what is received
\* and not read, or queued and not sent, takes less than the ring.
LEMMA ReceiveArrives ==
  ASSUME IInv, NEW f \in Requests \cup Others, NEW status \in {"GOOD", "BAD"},
         RxDmaReceive(f, status)
  PROVE  F!Arrive
<1> USE RingAssumption
<1>1. TypeOK /\ RxOrder /\ RingsInStep /\ TxOrder
  BY DEF IInv, DescriptorsInOrder
<1>2. [Next]_vars
  BY DEF Next, Wire, Receive
<1>3. /\ rxDma' = Inc(rxDma) /\ kReceiveRd' = kReceiveRd
      /\ UNCHANGED <<kTransmitRd, txDma, rxBuf>>
      /\ frame' = [frame EXCEPT ![rxBuf[rxDma]] = f]
      /\ rxStatus' = [rxStatus EXCEPT ![rxDma] = status]
  BY DEF RxDmaReceive, cpuVars
<1>4. /\ kReceiveWr \in Ring /\ rxDma \in Ring /\ kReceiveRd \in Ring
      /\ RxTaken \in Ring /\ TxQueued \in Ring /\ TxInUse \in Ring
      /\ Dist(kReceiveRd, rxDma) \in Ring /\ Dist(kReceiveWr, rxDma) \in Ring
  BY <1>1, Distances
<1>5. Dist(kReceiveWr, rxDma) + 1 < PACKET_RING_LEN
  <2>1. PICK i \in Ring \ {rxDma} : rxStatus[i] = "OWN"
    BY DEF RxDmaReceive, RxDmaHasRoom
  <2>2. /\ Dist(kReceiveWr, i) >= Dist(kReceiveWr, rxDma)
        /\ Dist(kReceiveWr, i) # Dist(kReceiveWr, rxDma)
        /\ Dist(kReceiveWr, i) \in Ring
    BY <2>1, <1>1, <1>4, DistInjective, DistRange DEF RxOrder
  <2> QED BY <2>2, <1>4 DEF Ring
<1>6. TxQueued <= RxTaken
  BY <1>1, TxArcs DEF RingsInStep
<1>7. Dist(kReceiveRd, rxDma) + TxQueued < PACKET_RING_LEN - 1
  BY <1>1, <1>4, <1>5, <1>6 DEF RxOrder, Ring
<1>8. Len(inbox) = Dist(kReceiveRd, rxDma) /\ Len(outbox) = TxQueued
  BY Boxes, ListIsSeq
<1>9. IntakeNext(rxDma) = [frame |-> f, status |-> status]
  <2>1. rxBuf[rxDma] \in Pool
    BY <1>1, <1>4 DEF RxDmaReceive, RxDmaHasRoom, RxHolds, NoBufferShared, IInv, TypeOK
  <2> QED BY <2>1, <1>1, <1>3, <1>4 DEF IntakeNext, TypeOK
<1>10. inbox' = Append(inbox, IntakeNext(rxDma))
  BY <1>2, <1>3, <1>4, <1>7, InboxAppend DEF Ring
<1>11. outbox' = outbox
  BY <1>2, <1>3, OutboxStays
<1> QED BY <1>7, <1>8, <1>9, <1>10, <1>11 DEF F!Arrive

LEMMA DiscardServes ==
  ASSUME IInv, RxDiscard
  PROVE  F!Serve
<1>1. [Next]_vars
  BY DEF Next, Handler
<1>2. /\ kReceiveRd # rxDma /\ kReceiveRd' = Inc(kReceiveRd)
      /\ UNCHANGED <<rxDma, kTransmitRd, txDma>>
  BY DiscardEffect DEF RxDiscard, engineVars
<1>3. /\ inbox # <<>> /\ inbox' = Tail(inbox)
      /\ Head(inbox) = Intake(kReceiveRd)
  BY <1>1, <1>2, InboxTail
<1>4. outbox' = outbox
  BY <1>1, <1>2, OutboxStays
<1>5. ~(rxStatus[kReceiveRd] = "GOOD" /\ frame[rxBuf[kReceiveRd]] \in Requests)
  BY DEF RxDiscard, Answered
<1> QED BY <1>3, <1>4, <1>5 DEF F!Serve, Intake

LEMMA AnswerServes ==
  ASSUME IInv, RxAnswer
  PROVE  F!Serve
<1> USE RingAssumption
<1>1. [Next]_vars
  BY DEF Next, Handler
<1>2. /\ kReceiveRd # rxDma /\ kReceiveRd' = Inc(kReceiveRd)
      /\ kTransmitRd' = Inc(kTransmitRd)
      /\ UNCHANGED <<rxDma, txDma>>
      /\ txBuf' = [txBuf EXCEPT ![kTransmitRd] = rxBuf[kReceiveRd]]
      /\ frame' = [frame EXCEPT ![rxBuf[kReceiveRd]] = Reply(@)]
  BY AnswerEffect DEF RxAnswer, engineVars
<1>3. TypeOK /\ RxOrder /\ TxOrder /\ RingsInStep
  BY DEF IInv, DescriptorsInOrder
<1>4. /\ inbox # <<>> /\ inbox' = Tail(inbox)
      /\ Head(inbox) = Intake(kReceiveRd)
  BY <1>1, <1>2, InboxTail
<1>5. TxQueued + 1 < PACKET_RING_LEN
  <2>1. /\ kReceiveRd \in Ring /\ rxDma \in Ring
        /\ Dist(kReceiveWr, rxDma) \in Ring /\ RxTaken \in Ring
        /\ TxQueued \in Ring /\ TxInUse \in Ring
        /\ Dist(kReceiveRd, rxDma) \in Ring
    BY <1>3, Distances
  <2>2. Dist(kReceiveRd, rxDma) # 0
    BY <2>1, <1>2, DistRange
  <2>3. TxQueued <= RxTaken
    BY <1>3, TxArcs DEF RingsInStep
  <2> QED BY <2>1, <2>2, <2>3, <1>3 DEF RxOrder, Ring
<1>6. outbox' = Append(outbox, frame'[txBuf'[kTransmitRd]])
  BY <1>1, <1>2, <1>5, OutboxAppend
<1>7. frame'[txBuf'[kTransmitRd]] = Reply(frame[rxBuf[kReceiveRd]])
  <2>1. kReceiveRd \in Ring /\ kTransmitRd \in Ring
    BY <1>3, Distances
  <2>2. rxBuf[kReceiveRd] \in Pool
    BY <1>3, <2>1 DEF RxAnswer, RxReadable, TypeOK
  <2> QED BY <2>1, <2>2, <1>2, <1>3 DEF TypeOK
<1>8. rxStatus[kReceiveRd] = "GOOD" /\ frame[rxBuf[kReceiveRd]] \in Requests
  BY DEF RxAnswer, Answered
<1> QED BY <1>4, <1>6, <1>7, <1>8 DEF F!Serve, F!Answer, Intake, Reply

LEMMA CloseSends ==
  ASSUME IInv, TxDmaClose
  PROVE  F!Send
<1>1. [Next]_vars
  BY DEF Next, TxEngine
<1>2. /\ txDma' = Inc(txDma)
      /\ UNCHANGED <<kReceiveRd, rxDma, kTransmitRd>>
  BY DEF TxDmaClose, cpuVars
<1>3. txDma # kTransmitRd
  BY TxArcs DEF TxDmaClose, IInv, DescriptorsInOrder
<1> QED BY <1>1, <1>2, <1>3, InboxStays, OutboxTail DEF F!Send

\* Every step of the driver and its engines is a step of the service or none.
LEMMA StepServes ==
  ASSUME IInv, [Next]_vars
  PROVE  [F!SvcNext]_F!svcVars
<1>1. ASSUME UNCHANGED <<kReceiveRd, rxDma, kTransmitRd, txDma>>
      PROVE  UNCHANGED F!svcVars
  BY <1>1, InboxStays, OutboxStays DEF F!svcVars
<1>2. CASE \/ EnterHandler \/ ServeAbnormal \/ ResumeTx \/ RxReturn \/ ClearR
           \/ TxReturn \/ ClearT \/ RxDmaUnavailable \/ TxDmaFetch \/ TxDmaSuspend
  BY <1>1, <1>2, IdleSteps DEF Idle, cpuVars
<1>3. CASE RxDiscard
  BY <1>3, DiscardServes DEF F!SvcNext
<1>4. CASE RxAnswer
  BY <1>4, AnswerServes DEF F!SvcNext
<1>5. CASE TxReclaim
  BY <1>1, <1>5 DEF TxReclaim, engineVars
<1>6. CASE TxDmaClose
  BY <1>6, CloseSends DEF F!SvcNext
<1>7. ASSUME NEW f \in Requests \cup Others, NEW status \in {"GOOD", "BAD"},
             RxDmaReceive(f, status)
      PROVE  F!SvcNext
  BY <1>7, ReceiveArrives DEF F!SvcNext
<1>8. CASE UNCHANGED vars
  BY <1>1, <1>8 DEF vars, cpuVars, engineVars
<1> QED BY <1>2, <1>3, <1>4, <1>5, <1>6, <1>7, <1>8
       DEF Next, Handler, Wire, Receive, TxEngine

\* Received frames are served once and in order, and replies leave once, in
\* the order of their requests and as they were written: the driver is the
\* FrameService, for rings of every length.
THEOREM Implements == Spec => ImplementsFrameService
<1>1. Init => F!SvcInit
  BY InitIsEmpty
<1>2. IInv /\ [Next]_vars => [F!SvcNext]_F!svcVars
  BY StepServes
<1> QED BY <1>1, <1>2, Invariance, PTL DEF Spec, ImplementsFrameService, F!Service
=============================================================================
