---------------------------- MODULE PacketRings ----------------------------
(***************************************************************************)
(* The packet buffers of the Ethernet driver (src/src/ethernet.c): the     *)
(* receive and transmit descriptor rings, the interrupt handler that moves *)
(* buffers between them, and the two DMA engines that run beside it.       *)
(*                                                                         *)
(* The handler, ETH_IRQHandler, is the only code that touches the rings    *)
(* once EthernetInitialize has returned, and it is never preempted; but    *)
(* the DMA engines run between any two of its accesses to shared memory.   *)
(* So the handler is a process with a program counter, cut at the points   *)
(* where it looks at something the DMA may change or publishes something   *)
(* the DMA may look at: the OWN bit of a descriptor, DMASR, and the state  *)
(* of the transmit engine.                                                 *)
(*                                                                         *)
(* Data abstraction.  A frame is a member of a small set: PacketRxInterrupt*)
(* answers the Requests in place and leaves the Others alone.  Descriptor  *)
(* status words keep the OWN bit and, on receive, whether the descriptor   *)
(* holds one whole good frame.  DMASR keeps the bits that are enabled by   *)
(* EthernetInitializeDma and belong to the rings.                          *)
(***************************************************************************)
EXTENDS Integers

CONSTANTS
  PACKET_RING_LEN,  \* descriptors of each ring: 8 in the firmware
  Requests,         \* frames that PacketRxInterrupt turns into a reply
  Others            \* frames that it leaves alone (PACKET_PROCESSED)

ASSUME RingAssumption == PACKET_RING_LEN \in Nat \ {0}

PACKET_POOL_LEN == PACKET_RING_LEN + 1

Ring == 0 .. PACKET_RING_LEN - 1
Pool == 0 .. PACKET_POOL_LEN - 1
NoPacket == -1     \* a zero Buffer1Addr; as kInPool, "no buffer in the pool"

Reply(f) == <<"reply", f>>
Blank == <<"blank">>     \* kPacketPool starts zeroed
Frames == Requests \cup Others \cup {Reply(f) : f \in Requests} \cup {Blank}

VARIABLES
  frame,        \* memory: frame[b] is what buffer b holds
  rxStatus,     \* kReceiveRing[i].Status: "OWN", "GOOD" or "BAD"
  rxBuf,        \* kReceiveRing[i].Buffer1Addr
  txStatus,     \* kTransmitRing[i].Status: "OWN" or "CPU"
  txBuf,        \* kTransmitRing[i].Buffer1Addr
  kReceiveRd,   \* next receive descriptor to read
  kReceiveWr,   \* next receive descriptor to give an empty buffer to
  kTransmitRd,  \* next transmit descriptor to fill
  kTransmitWr,  \* next transmit descriptor to reclaim
  kInPool,      \* the buffer of the pool
  dmasr,        \* the enabled event bits of DMASR: "RS", "TS", "RBUS"
  irq,          \* bits of the handler's copy of DMASR it has still to serve
  pc,           \* where the handler is; "main" outside of the handler
  rxDma,        \* the descriptor the receive engine will use next
  txDma,        \* the descriptor the transmit engine will use next
  tps           \* state of the transmit engine

cpuVars == <<kReceiveRd, kReceiveWr, kTransmitRd, kTransmitWr, kInPool>>
ringVars == <<rxStatus, rxBuf, txStatus, txBuf>>
engineVars == <<rxDma, txDma, tps>>
vars == <<frame, ringVars, cpuVars, dmasr, irq, pc, engineVars>>

\* Mutant of Inc: the mask is forgotten.
IncUnmasked(x) == x + 1

(***************************************************************************)
(* PACKET_RING_INC.  The source masks with PACKET_RING_LEN - 1; for a      *)
(* power of two that is the remainder (checked in MCPacketRings).          *)
(***************************************************************************)
Inc(x) == (x + 1) % PACKET_RING_LEN

\* Steps from index i forward to index j of a ring.
Dist(i, j) == IF i <= j THEN j - i ELSE j - i + PACKET_RING_LEN

\* EthernetInitializeDma.  The last buffer is the pool; all descriptors of
\* the receive ring belong to the DMA, none of the transmit ring does.
Init ==
  /\ frame = [b \in Pool |-> Blank]
  /\ rxStatus = [i \in Ring |-> "OWN"]
  /\ rxBuf = [i \in Ring |-> i]
  /\ txStatus = [i \in Ring |-> "CPU"]
  /\ txBuf = [i \in Ring |-> NoPacket]
  /\ kReceiveRd = 0 /\ kReceiveWr = 0
  /\ kTransmitRd = 0 /\ kTransmitWr = 0
  /\ kInPool = PACKET_POOL_LEN - 1
  /\ dmasr = {} /\ irq = {} /\ pc = "main"
  /\ rxDma = 0 /\ txDma = 0 /\ tps = "Fetching"
(***************************************************************************)
(* The handler's procedures.                                               *)
(***************************************************************************)

\* Mutant of PacketDoneFromInterrupt: the descriptor is the one to be read.
PacketDoneAtRd(pkt, addr) ==
  IF rxStatus[kReceiveRd] = "OWN"
  THEN rxBuf' = addr /\ UNCHANGED <<rxStatus, kReceiveWr, kInPool>>
  ELSE /\ rxBuf' = [addr EXCEPT ![kReceiveRd] = pkt]
       /\ rxStatus' = [rxStatus EXCEPT ![kReceiveRd] = "OWN"]
       /\ kReceiveWr' = Inc(kReceiveWr)
       /\ UNCHANGED kInPool

\* Mutant of PacketDoneFromInterrupt: PACKET_RING_INC is forgotten.
PacketDoneNoInc(pkt, addr) ==
  IF rxStatus[kReceiveWr] = "OWN"
  THEN rxBuf' = addr /\ UNCHANGED <<rxStatus, kReceiveWr, kInPool>>
  ELSE /\ rxBuf' = [addr EXCEPT ![kReceiveWr] = pkt]
       /\ rxStatus' = [rxStatus EXCEPT ![kReceiveWr] = "OWN"]
       /\ UNCHANGED <<kReceiveWr, kInPool>>

\* PacketDoneFromInterrupt(pkt): give the buffer back to the receive engine.
\* addr is kReceiveRing's Buffer1Addr as the caller has left it.  A buffer
\* whose descriptor is still the engine's is dropped ("IMPOSSIBRU!").
PacketDoneFromInterrupt(pkt, addr) ==
  IF kInPool < 0
  THEN /\ kInPool' = pkt
       /\ rxBuf' = addr
       /\ UNCHANGED <<rxStatus, kReceiveWr>>
  ELSE /\ UNCHANGED kInPool
       /\ IF rxStatus[kReceiveWr] = "OWN"
          THEN /\ rxBuf' = addr
               /\ UNCHANGED <<rxStatus, kReceiveWr>>
          ELSE /\ rxBuf' = [addr EXCEPT ![kReceiveWr] = pkt]
               /\ rxStatus' = [rxStatus EXCEPT ![kReceiveWr] = "OWN"]
               /\ kReceiveWr' = Inc(kReceiveWr)

\* Mutant of EnqueueTxFromInterrupt: fills the descriptor to be reclaimed.
EnqueueAtWr(pkt, addr) ==
  IF txStatus[kTransmitWr] = "OWN"
  THEN /\ PacketDoneFromInterrupt(pkt, addr)
       /\ UNCHANGED <<txStatus, txBuf, kTransmitRd, pc>>
  ELSE /\ txBuf' = [txBuf EXCEPT ![kTransmitWr] = pkt]
       /\ txStatus' = [txStatus EXCEPT ![kTransmitWr] = "OWN"]
       /\ kTransmitRd' = Inc(kTransmitRd)
       /\ rxBuf' = addr
       /\ pc' = "resume"
       /\ UNCHANGED <<rxStatus, kReceiveWr, kInPool>>

\* EnqueueTxFromInterrupt(pkt, len) up to the store that gives the descriptor
\* to the transmit engine; IsTxDmaSuspended follows as a step of its own,
\* because the engine can run in between.  A full ring drops the frame.
EnqueueTxFromInterrupt(pkt, addr) ==
  IF txStatus[kTransmitRd] = "OWN"
  THEN /\ PacketDoneFromInterrupt(pkt, addr)
       /\ UNCHANGED <<txStatus, txBuf, kTransmitRd, pc>>
  ELSE /\ txBuf' = [txBuf EXCEPT ![kTransmitRd] = pkt]
       /\ txStatus' = [txStatus EXCEPT ![kTransmitRd] = "OWN"]
       /\ kTransmitRd' = Inc(kTransmitRd)
       /\ rxBuf' = addr
       /\ pc' = "resume"
       /\ UNCHANGED <<rxStatus, kReceiveWr, kInPool>>

\* Whether the driver hands the frame in descriptor i to PacketRxInterrupt
\* (no error, first and last byte) and gets a reply to send back.
Answered(i) == rxStatus[i] = "GOOD" /\ frame[rxBuf[i]] \in Requests

\* The phase of the handler that serves the first of the pending bits.
Dispatch(pending) ==
  IF "RS" \in pending THEN "rx" ELSE IF "TS" \in pending THEN "tx" ELSE "main"

(***************************************************************************)
(* ETH_IRQHandler.                                                         *)
(***************************************************************************)

\* The interrupt is taken and DMASR is read, once.
EnterHandler ==
  /\ pc = "main" /\ dmasr # {}
  /\ irq' = dmasr
  /\ pc' = "abnormal"
  /\ UNCHANGED <<frame, ringVars, cpuVars, dmasr, engineVars>>

\* The abnormal summary: "receive buffer unavailable" is cleared and no more.
ServeAbnormal ==
  /\ pc = "abnormal"
  /\ dmasr' = dmasr \ (irq \cap {"RBUS"})
  /\ irq' = irq \ {"RBUS"}
  /\ pc' = Dispatch(irq')
  /\ UNCHANGED <<frame, ringVars, cpuVars, engineVars>>

\* EthernetRXInterrupt, one turn of its loop each.
RxReadable == rxStatus[kReceiveRd] # "OWN" /\ rxBuf[kReceiveRd] # NoPacket

\* Mutant of RxDiscard: the early return of a bad frame keeps its buffer.
RxForget ==
  /\ pc = "rx" /\ RxReadable /\ ~Answered(kReceiveRd)
  /\ kReceiveRd' = Inc(kReceiveRd)
  /\ UNCHANGED <<frame, ringVars, kReceiveWr, kTransmitRd, kTransmitWr,
                 kInPool, dmasr, irq, pc, engineVars>>

\* The frame is bad or is not answered: its buffer is empty again.
RxDiscard ==
  /\ pc = "rx" /\ RxReadable /\ ~Answered(kReceiveRd)
  /\ kReceiveRd' = Inc(kReceiveRd)
  /\ PacketDoneFromInterrupt(rxBuf[kReceiveRd], rxBuf)
  /\ UNCHANGED <<frame, txStatus, txBuf, kTransmitRd, kTransmitWr, dmasr, irq,
                 pc, engineVars>>

\* The frame is rewritten in place into its reply, and its buffer moves on.
RxAnswer ==
  /\ pc = "rx" /\ RxReadable /\ Answered(kReceiveRd)
  /\ kReceiveRd' = Inc(kReceiveRd)
  /\ frame' = [frame EXCEPT ![rxBuf[kReceiveRd]] = Reply(@)]
  /\ EnqueueTxFromInterrupt(rxBuf[kReceiveRd],
                            [rxBuf EXCEPT ![kReceiveRd] = NoPacket])
  /\ UNCHANGED <<kTransmitWr, dmasr, irq, engineVars>>

\* Mutant of ResumeTx: the test is for an engine that is not suspended.
ResumeBusyTx ==
  /\ pc = "resume"
  /\ tps' = IF tps = "Missed" THEN "Fetching" ELSE tps
  /\ pc' = "rx"
  /\ UNCHANGED <<frame, ringVars, cpuVars, dmasr, irq, rxDma, txDma>>

\* IsTxDmaSuspended, and ETH_ResumeDMATransmission if it is.
ResumeTx ==
  /\ pc = "resume"
  /\ tps' = IF tps = "Suspended" THEN "Fetching" ELSE tps
  /\ pc' = "rx"
  /\ UNCHANGED <<frame, ringVars, cpuVars, dmasr, irq, rxDma, txDma>>

RxReturn ==
  /\ pc = "rx" /\ ~RxReadable
  /\ pc' = "clearR"
  /\ UNCHANGED <<frame, ringVars, cpuVars, dmasr, irq, engineVars>>

\* Mutant of ClearR: clears both bits.
ClearRAndT ==
  /\ pc = "clearR"
  /\ dmasr' = dmasr \ {"RS", "TS"}
  /\ irq' = irq \ {"RS"}
  /\ pc' = Dispatch(irq')
  /\ UNCHANGED <<frame, ringVars, cpuVars, engineVars>>

\* ETH_DMAClearITPendingBit(ETH_DMA_IT_R), after the loop has returned.
ClearR ==
  /\ pc = "clearR"
  /\ dmasr' = dmasr \ {"RS"}
  /\ irq' = irq \ {"RS"}
  /\ pc' = Dispatch(irq')
  /\ UNCHANGED <<frame, ringVars, cpuVars, engineVars>>

\* Mutants of TxReclaimable: one of its two tests is missing.
TxAddressed == txBuf[kTransmitWr] # NoPacket
TxNotOwned == txStatus[kTransmitWr] # "OWN"

\* EthernetTXInterrupt, one turn of its loop each.
TxReclaimable == txStatus[kTransmitWr] # "OWN" /\ txBuf[kTransmitWr] # NoPacket

\* Mutant of TxReclaim: the address is not cleared.
TxReclaimNoClear ==
  /\ pc = "tx" /\ TxReclaimable
  /\ PacketDoneFromInterrupt(txBuf[kTransmitWr], rxBuf)
  /\ kTransmitWr' = Inc(kTransmitWr)
  /\ UNCHANGED <<frame, txStatus, txBuf, kReceiveRd, kTransmitRd, dmasr, irq,
                 pc, engineVars>>

TxReclaim ==
  /\ pc = "tx" /\ TxReclaimable
  /\ PacketDoneFromInterrupt(txBuf[kTransmitWr], rxBuf)
  /\ txBuf' = [txBuf EXCEPT ![kTransmitWr] = NoPacket]
  /\ kTransmitWr' = Inc(kTransmitWr)
  /\ UNCHANGED <<frame, txStatus, kReceiveRd, kTransmitRd, dmasr, irq, pc,
                 engineVars>>

TxReturn ==
  /\ pc = "tx" /\ ~TxReclaimable
  /\ pc' = "clearT"
  /\ UNCHANGED <<frame, ringVars, cpuVars, dmasr, irq, engineVars>>

\* Mutant of ClearT: clears both bits.
ClearTAndR ==
  /\ pc = "clearT"
  /\ dmasr' = dmasr \ {"RS", "TS"}
  /\ irq' = irq \ {"TS"}
  /\ pc' = "main"
  /\ UNCHANGED <<frame, ringVars, cpuVars, engineVars>>

ClearT ==
  /\ pc = "clearT"
  /\ dmasr' = dmasr \ {"TS"}
  /\ irq' = irq \ {"TS"}
  /\ pc' = "main"
  /\ UNCHANGED <<frame, ringVars, cpuVars, engineVars>>

Handler ==
  \/ EnterHandler \/ ServeAbnormal
  \/ RxDiscard \/ RxAnswer \/ ResumeTx \/ RxReturn \/ ClearR
  \/ TxReclaim \/ TxReturn \/ ClearT

(***************************************************************************)
(* The DMA engines (hardware, as the driver relies on it).                 *)
(***************************************************************************)

\* What the comment at the head of EthernetRXInterrupt records: the engine
\* does not fill the last descriptor it has, when the CPU has all others.
RxDmaHasRoom ==
  /\ rxStatus[rxDma] = "OWN"
  /\ \E i \in Ring \ {rxDma} : rxStatus[i] = "OWN"

RxDmaReceive(f, status) ==
  /\ RxDmaHasRoom
  /\ frame' = [frame EXCEPT ![rxBuf[rxDma]] = f]
  /\ rxStatus' = [rxStatus EXCEPT ![rxDma] = status]
  /\ rxDma' = Inc(rxDma)
  /\ dmasr' = dmasr \cup {"RS"}
  /\ UNCHANGED <<rxBuf, txStatus, txBuf, cpuVars, irq, pc, txDma, tps>>

\* A frame arrives and there is no buffer for it.
RxDmaUnavailable ==
  /\ ~RxDmaHasRoom
  /\ dmasr' = dmasr \cup {"RBUS"}
  /\ UNCHANGED <<frame, ringVars, cpuVars, irq, pc, engineVars>>

\* The transmit engine reads its next descriptor ...
TxDmaFetch ==
  /\ tps = "Fetching"
  /\ tps' = IF txStatus[txDma] = "OWN" THEN "Reading" ELSE "Missed"
  /\ UNCHANGED <<frame, ringVars, cpuVars, dmasr, irq, pc, rxDma, txDma>>

\* ... and suspends if it is not its own.  DMASR shows "fetching" till then.
TxDmaSuspend ==
  /\ tps = "Missed"
  /\ tps' = "Suspended"
  /\ UNCHANGED <<frame, ringVars, cpuVars, dmasr, irq, pc, rxDma, txDma>>

\* The frame is out: the descriptor is closed and TS raised (every transmit
\* descriptor has ETH_DMATxDesc_IC).
TxDmaClose ==
  /\ tps = "Reading"
  /\ txStatus' = [txStatus EXCEPT ![txDma] = "CPU"]
  /\ txDma' = Inc(txDma)
  /\ tps' = "Fetching"
  /\ dmasr' = dmasr \cup {"TS"}
  /\ UNCHANGED <<frame, rxStatus, rxBuf, txBuf, cpuVars, irq, pc, rxDma>>

Receive == \E f \in Requests \cup Others, status \in {"GOOD", "BAD"} :
             RxDmaReceive(f, status)

Requested == \E f \in Requests : RxDmaReceive(f, "GOOD")

Wire == Receive \/ RxDmaUnavailable

TxEngine == TxDmaFetch \/ TxDmaSuspend \/ TxDmaClose

Next == Handler \/ Wire \/ TxEngine

Spec == Init /\ [][Next]_vars
(***************************************************************************)
(* What is in use.                                                         *)
(***************************************************************************)

\* Receive descriptors from kReceiveRd up to the engine's: filled, not read.
RxFilled(i) == Dist(kReceiveRd, i) < Dist(kReceiveRd, rxDma)

\* Receive descriptors whose Buffer1Addr counts: the engine's and the filled
\* ones.  The others have a zero address, or a stale one (the address of a
\* discarded buffer stays in the descriptor it was received in).
RxHolds(i) == rxStatus[i] = "OWN" \/ RxFilled(i)

\* Buffers that have left the receive ring and are not back.
RxTaken == Dist(kReceiveWr, kReceiveRd)
\* Transmit descriptors filled and not reclaimed, and those not yet sent.
TxInUse == Dist(kTransmitWr, kTransmitRd)
TxQueued == Dist(txDma, kTransmitRd)

(***************************************************************************)
(* Safety.                                                                 *)
(***************************************************************************)

\* The types of all variables.
TypeOK ==
  /\ frame \in [Pool -> Frames]
  /\ rxStatus \in [Ring -> {"OWN", "GOOD", "BAD"}]
  /\ rxBuf \in [Ring -> Pool \cup {NoPacket}]
  /\ txStatus \in [Ring -> {"OWN", "CPU"}]
  /\ txBuf \in [Ring -> Pool \cup {NoPacket}]
  /\ kReceiveRd \in Ring /\ kReceiveWr \in Ring
  /\ kTransmitRd \in Ring /\ kTransmitWr \in Ring
  /\ kInPool \in Pool \cup {NoPacket}
  /\ dmasr \subseteq {"RS", "TS", "RBUS"} /\ irq \subseteq {"RS", "TS", "RBUS"}
  /\ pc \in {"main", "abnormal", "rx", "resume", "clearR", "tx", "clearT"}
  /\ rxDma \in Ring /\ txDma \in Ring
  /\ tps \in {"Fetching", "Missed", "Reading", "Suspended"}

\* No buffer is in two places: no two descriptors that count, of either ring,
\* and not the pool and a descriptor, hold the same buffer.  Otherwise the
\* engine would receive into a frame that is read or being sent (prdk.h:12,
\* the states of a buffer; the stale addresses EthernetRXInterrupt leaves).
NoBufferShared ==
  /\ \A i, j \in Ring :
       RxHolds(i) /\ RxHolds(j) /\ rxBuf[i] = rxBuf[j] => i = j
  /\ \A i, j \in Ring :
       txBuf[i] # NoPacket /\ txBuf[i] = txBuf[j] => i = j
  /\ \A i, j \in Ring : RxHolds(i) => rxBuf[i] # txBuf[j]
  /\ \A i \in Ring : RxHolds(i) => rxBuf[i] \notin {kInPool, NoPacket}
  /\ \A i \in Ring : txBuf[i] # NoPacket => txBuf[i] # kInPool

\* No buffer leaks: each is in the pool or in a descriptor that counts.  The
\* branch of PacketDoneFromInterrupt that prints "IMPOSSIBRU! PacketBuffer
\* leaks" would lose one, and so would EnqueueTxFromInterrupt if it reused a
\* descriptor that has been sent and not reclaimed (it tests OWN only).
NoBufferLost ==
  \A b \in Pool : \/ kInPool = b
                  \/ (\E i \in Ring : RxHolds(i) /\ rxBuf[i] = b)
                  \/ (\E i \in Ring : txBuf[i] = b)

\* The transmit ring never overruns (the FIXME of EnqueueTxFromInterrupt):
\* when a reply is due, the descriptor it goes to is the CPU's and reclaimed.
TxNeverOverrun ==
  pc = "rx" /\ RxReadable =>
    txStatus[kTransmitRd] = "CPU" /\ txBuf[kTransmitRd] = NoPacket

\* The two rings turn in lockstep: as many buffers are out of the receive
\* ring as the transmit ring has descriptors in use, never all of them.
RingsInStep == RxTaken = TxInUse /\ TxInUse < PACKET_RING_LEN

\* Walked from kReceiveWr, the receive ring is the descriptors that gave their
\* buffer away, then the filled ones from kReceiveRd on, then those of the
\* engine, of which there is one at least; the transmit ring, from kTransmitWr,
\* those sent and not reclaimed, those of the engine, and the empty ones.  The
\* handler looks at the next descriptor only, so its loops rest on this.
RxOrder ==
  /\ Dist(kReceiveWr, rxDma) = RxTaken + Dist(kReceiveRd, rxDma)
  /\ \A i \in Ring :
       rxStatus[i] = "OWN" <=> Dist(kReceiveWr, i) >= Dist(kReceiveWr, rxDma)

TxOrder ==
  /\ TxInUse = Dist(kTransmitWr, txDma) + TxQueued
  /\ \A i \in Ring :
       /\ txBuf[i] # NoPacket <=> Dist(kTransmitWr, i) < TxInUse
       /\ txStatus[i] = "OWN" <=> Dist(txDma, i) < TxQueued

DescriptorsInOrder ==
  /\ RxOrder /\ TxOrder
  /\ tps = "Reading" => txStatus[txDma] = "OWN"

\* A frame given to the transmit engine is not touched until it has been
\* sent: neither the receive engine nor PacketRxInterrupt writes its buffer.
QueuedFrameStable ==
  [][\A i \in Ring :
       txStatus[i] = "OWN" => /\ txBuf'[i] = txBuf[i]
                              /\ frame'[txBuf[i]] = frame[txBuf[i]]]_vars

(***************************************************************************)
(* The rings implement FrameService.                                       *)
(***************************************************************************)
Slot(i, k) == (i + k) % PACKET_RING_LEN

inbox == [k \in 1 .. Dist(kReceiveRd, rxDma) |->
            LET i == Slot(kReceiveRd, k - 1)
            IN  [frame |-> frame[rxBuf[i]], status |-> rxStatus[i]]]
outbox == [k \in 1 .. TxQueued |-> frame[txBuf[Slot(txDma, k - 1)]]]

F == INSTANCE FrameService WITH Capacity <- PACKET_RING_LEN - 1

\* Through the rings, stale descriptors and interleavings the driver still is
\* the first-in first-out service of FrameService.
ImplementsFrameService == F!Service
(***************************************************************************)
(* Timing.  A status bit is cleared after the loop that serves it has      *)
(* looked at the ring for the last time, so a descriptor completed between *)
(* the two (pc = "clearR" or "clearT") leaves no interrupt behind.  In the *)
(* same way, a frame queued while the transmit engine is on its way to     *)
(* suspend (tps = "Missed") finds the engine not suspended, and is not     *)
(* resumed.  Three windows of a few instructions each.                     *)
(***************************************************************************)
LateReceive == pc = "clearR" /\ rxDma' # rxDma
LateClose == pc = "clearT" /\ txDma' # txDma
LateEnqueue == tps = "Missed" /\ kTransmitRd' # kTransmitRd

\* Nothing happens in a window: what the driver does everywhere else.
PromptNext == Next /\ ~LateReceive /\ ~LateClose /\ ~LateEnqueue
PromptSpec == Init /\ [][PromptNext]_vars

\* Requests come in, and at most one thing happens in a window: the shortest
\* frame takes 67 microseconds at 10 Mbit/s, a window some tens of nanoseconds
\* at 144 MHz.
PacedNext ==
  /\ Handler \/ Requested \/ RxDmaUnavailable \/ TxEngine
  /\ LateReceive => rxDma = kReceiveRd
  /\ LateClose => txDma = kTransmitWr
  /\ LateEnqueue => txStatus[txDma] # "OWN"

(***************************************************************************)
(* Fairness.  The handler runs on until it returns, and is entered when    *)
(* an enabled bit is set; the transmit engine does its work.  Frames need  *)
(* not come, so only the progress that traffic drives assumes that good    *)
(* requests keep coming.                                                   *)
(***************************************************************************)
HardwareFairness == WF_vars(Handler) /\ WF_vars(TxEngine)
Traffic == SF_vars(Requested)

PromptFairSpec == PromptSpec /\ HardwareFairness
PacedTrafficSpec == Init /\ [][PacedNext]_vars /\ HardwareFairness /\ Traffic

(***************************************************************************)
(* Progress.                                                               *)
(***************************************************************************)

\* The buffer is in a place prdk.h lists for a buffer no CPU process has: the
\* RxDMA queue, the TxDMA queue or the pool.
AtRest(b) ==
  \/ kInPool = b
  \/ \E i \in Ring : rxStatus[i] = "OWN" /\ rxBuf[i] = b
  \/ \E i \in Ring : txStatus[i] = "OWN" /\ txBuf[i] = b

\* With the handler out and no interrupt due, every buffer is in one of the
\* states of prdk.h:12: no received frame lies unread, no sent buffer lies
\* unreclaimed.  The windows above break it, and nothing else does.
QuietBuffersAtRest == pc = "main" /\ dmasr = {} => \A b \in Pool : AtRest(b)

\* Nor does a queued frame wait for an engine that sleeps.
QuietEngineHasNoWork ==
  pc = "main" /\ tps = "Suspended" => \A i \in Ring : txStatus[i] = "CPU"

\* When frames stop coming, the handler returns: its two loops, which end on
\* a descriptor that is the engine's or empty, come to such a descriptor.
HandlerReturns == <>[][~Receive]_vars => []<>(pc = "main")

\* As long as requests come, every buffer of the rings keeps coming back to
\* the receive engine: no frame is left unread, unsent or unreclaimed for
\* good by an interrupt or a resume that was lost in a window.
BuffersCirculate ==
  \A b \in Pool :
    []<>(kInPool = b \/ \E i \in Ring : rxStatus[i] = "OWN" /\ rxBuf[i] = b)
=============================================================================
