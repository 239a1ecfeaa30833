# A TLA+ model of the wchratum1 firmware

The program is the firmware of an Ethernet device on a WCH CH32V307: a driver
with two DMA descriptor rings, an interrupt handler that answers ICMP echo, ARP
and chargen requests in place, a PHY link and DHCP client, and random number
generators fed by the hardware and by the times of interrupts. About 1200 lines
of C under `src/src/`; `pcg_variants.h` (2200 lines of inline functions) and
`src/include/` are vendored, and the
vendor's SDK (registers, `ETH_*`, `RNG_*`, `Delay_Ms`) is not in the repository.

One core, no operating system, two contexts: the main loop, and `ETH_IRQHandler`
that preempts it anywhere and is itself never preempted. Beside them run the
receive and the transmit DMA engine, the PHY and the tick counter. Nothing takes
a lock. That is where the hard behaviour is.

## Inventory

| component | source | state | operations | modules |
|---|---|---|---|---|
| packet buffers | `ethernet.c` 19-28, 140-181, 236-319, 371-398, 435-486 | `kPacketPool`, `kReceiveRing`, `kTransmitRing`, `kReceiveRd/Wr`, `kTransmitRd/Wr`, `kInPool`, `DMASR` | `EthernetInitializeDma`, `ETH_IRQHandler`, `EthernetRXInterrupt`, `EthernetTXInterrupt`, `PacketDoneFromInterrupt`, `EnqueueTxFromInterrupt` | `PacketRings`, `FrameService` |
| PHY link | `ethernet.c` 321-369, 487-491 | `phy_link_ready`, `MACCR`, the PHY | `EthernetProcessPHYLinkInterrupt`, `Internal10MPhyReset` | `LinkDhcp` |
| DHCP client, main loop | `dhcp.c`, `main.c` 16-23, 55-62, 187-192 | `dhcp_state`, `current_transaction_id`; the bytes of a discover | `DHCPReset`, `DHCPSendDiscover`, `ProcessDHCP` | `LinkDhcp`, `Discover` |
| headers of frames | `packet.c`, `packet.h`; of `include/`, the structures used | none; a buffer | layouts, `FillEthernetHeader`, `FillIPv4Header`, `FillUDPHeader`, byte swaps | `Headers`, `Discover` |
| tick counter | `systick.h` | none (hardware counter) | `SysTickCnt64`, `SysTickCnt32` | `SysTick64` |
| generator key | `prng.c` 11-66, `random.c` | `kPrngKey`, `kInject`, `kInCount`; DRDY | `CSPrngInit`, `CSPrngInjectLowbits`, `CSPrngInjectRandom`, `RandomUInt32`, `CSPrngUInt64`, `CSPrngUInt64x2` | `Prng`, `Chaskey` |
| Chaskey, MAC address | `chaskey.c`, `ethaddr.c`, `esig.h` | four words, for the call | `chaskey8` and its two short forms, `MacAddressInitialize` | `Chaskey` |
| PCG generators | `pcg_variants.h`, `prng.c` 68-76 | `state`, `inc` | `step_r`, `srandom_r`, `random_r`, `boundedrand_r` of every variant | `Pcg` |
| frame responder, its client | `prdk.c`, `bin/chargen` | none; datagrams under way | `PacketRxInterrupt`; the client's send and receive | `Responder` |
| register set-up, benchmark, boot, rest of `include/` | rest of `ethernet.c`, `main.c` | | straight-line code | not modelled |

How they interact:

* A received frame's buffer goes from the receive ring either straight back
  (`PacketDoneFromInterrupt`) or, answered in place, to the transmit ring, and
  from there back to the receive ring when the transmit interrupt reclaims it.
  The rings share buffers by address; the CPU and the engines share descriptors
  by their OWN bit, and events by the bits of `DMASR`, which the handler reads
  once, serves, and then clears.
* The PHY interrupt reads three registers of the PHY one after another, sets
  `phy_link_ready`, calls back into `main.c`, and so resets the state that the
  main loop's `DHCPSendDiscover` may be about to store.
* The main loop mixes random words into `kPrngKey`; at the end of each
  `ETH_IRQHandler` the time of the interrupt is mixed into the same array. Both
  contexts wait for, and take, words of the one hardware generator.
* `PacketRxInterrupt` fills its answers from the generators: the hardware's, the
  two PCG ones, and Chaskey over the tick counter keyed with `kPrngKey`.
* The headers are declared twice: `packet.h`, packed, for the frames that are
  written, and the BSD structures for those that are read and answered.

What makes each correct, and hard to test:

* rings: no buffer in two places, none lost, none overwritten while it is sent;
  both loops of the handler look only at the next descriptor, so everything
  rests on the order of the descriptors; the discarded frame's stale address
  stays in its descriptor; an interrupt bit is cleared after the last look at
  the ring, so an event in between is lost; an engine on its way to suspend is
  not resumed;
* link: the last change of the PHY must not be missed, the registers must not be
  mixed from two links, and the driver's own resets of the PHY must come to an end;
* DHCP: a reset of the state by the handler must not be lost for good;
* ticks: two halves of a running counter;
* key: read-modify-write of shared words in both contexts; a flag seen by one and
  a word taken by the other;
* Chaskey, MAC address, PCG: bits lost, laid over each other or favoured, by a
  wrong shift among many hand-written ones; none of it fails visibly;
* headers: offsets, byte orders and nested lengths of frames that are assembled
  with one family of structures and never received;
* responder: an answer is built in the frame it answers, so what is read must be
  read before it is overwritten; all boards have one IP address, so one's answer
  may come to another; and the client repeats nothing over a network that loses.

`PROJECT.json` lists these as hazards, each at its line with its properties.

## Modules

`PacketRings` — the core. The handler is a process with a program counter `pc`,
cut where it looks at something an engine may change or publishes something an
engine may look at; each loop turn is one action. `RxDiscard` and `RxAnswer` are
a turn of `EthernetRXInterrupt`, `TxReclaim` one of `EthernetTXInterrupt`;
`ResumeTx` is the look at `DMASR.TPS` that ends `EnqueueTxFromInterrupt`;
`ServeAbnormal`, `ClearR`, `ClearT` clear bits. The engines are
actions of their own (external: the hardware as the driver relies on it),
`RxDmaHasRoom` being what the comment at `ethernet.c:254` records. A frame is a
model value; a reply is `Reply(f)`. Choices worth knowing:

* a turn of a loop is one step: within it the handler reads one status word and
  then touches only descriptors that are its own, and no engine does. The store
  that gives a descriptor away is the turn's last one that an engine can see;
* the summary bits NIS and AIS are taken to be the OR of the enabled events, so
  writing them clears nothing more;
* the SDK's `ETH_DMAClearITPendingBit` clears exactly its bit;
* stores are seen in program order (the "fence ?" of `ethernet.c:389` is not
  modelled);
* the receive engine, when it has no room, raises RBUS and goes on as soon as it
  is given a descriptor (the handler never writes the receive poll register; the
  engine looks again at the next frame).

`FrameService` — what the driver promises, without rings: an inbox and an outbox,
first in first out, bounded together. `PacketRings!F` maps the rings on it: the
inbox is the filled receive descriptors from `kReceiveRd`, the outbox the
transmit descriptors from the engine's to `kTransmitRd`.

`MCPacketRings` — instantiates `PacketRings` for TLC and checks that the mask in
`PACKET_RING_INC` is the remainder.

`PacketRings_proofs` — theorems about `PacketRings`, and that it implements
`FrameService`. `Generators_proofs` holds the theorems about `Chaskey` and `Pcg`; the
other `..._proofs` modules go with the module they are named for.

`SysTick64`, `SysTick64_proofs` — `SysTickCnt64` as three readings of a running
pair of halves. `MaxGap`, the ticks between two readings, is the assumption the
comment in `systick.h` hints at; `MaxGap <= Half` is all that is needed.

`LinkDhcp` — the PHY branch of the handler, register by register, with the cable
and the partner changing in between, at any moment; and the main loop, store by
store. A transaction id is "new" if drawn since the link last came up. The variable
`missed` is history and guards no action: it records that the PHY has changed after
this pass of the handler took its last look at what changed (`Late`), so that the
PHYLINK bit it clears at the end (`ethernet.c:490`) hides the change.
The main loop steps only when the handler is out (`pc = "main"`).

`Headers` — layouts only: a structure is the sequence of its members, and
`Ends`, `SizeOf` and `Span` lay it out with alignment or, `Packed`, without. Both
families of structures are in it; `Discover` and `Responder` extend it.

`Discover` — `DHCPSendDiscover` and the `Fill` functions as stores into a buffer of
bytes. `Read`, `OptionsFrom` are the reader's side, with the other family.

`Responder` — `PacketRxInterrupt` as a function from a frame to the frames it
answers (none or one), written test by test and store by store, with the length it
returns; the network, a set of frames on their way that it may lose or reorder; a
host's kernel (external: ARP cache, socket) and the client `bin/chargen`. A device
takes a frame and answers it in one step: what lies in between is `PacketRings`, and
`FrameService` is what the two modules agree on. All tests of constant header fields
are one bit, `plain`. `Init` chooses between a network with clients and one board,
and a `Quiet` one with several boards, in which `Anything` sends single frames with
any header. Such a frame has three lengths, one it was received with and two it
names, and nothing makes them agree: `Lengths` is any set of such triples, the names
being any half-words. `PacketRxInterrupt` compares none of them but `uh_ulen` with one
byte of payload ("TODO: check `len` here and there", `prdk.c:31`). `LengthsAgree` says
what that leaves: ARP and chargen answers have lengths of their own, so that what goes
out is exact whatever came in; the length of an echo reply is the request's `ip_len`
(`prdk.c:47`), cut to 13 bits by the descriptor, so it is exact, and no longer than the
request, only if the request was whole. (`prdk.c:87` calls a check of `len` pointless
"as it's always 64+"; `getRxFrameLength`, `ethernet.c:39`, has taken four bytes off by
then, and undersized frames are forwarded, `ethernet.c:222`; an ARP answer does not
depend on it.)

`MCResponder` — seven such triples for TLC: three that agree, with and without padding,
and four that contradict each other, each in one way.

`Prng` — the two injections into the key. XOR makes a key word the set of
inputs that went into it an odd number of times; one hardware word and one tick
are followed. `RngReady` and `ReadRegister` are the hardware generator (external);
`SeeReady` and `Draw` are `RandomUInt32` in the main loop, `HandlerDraw` in the
handler, for a chargen request of type 'T'. `kPrngKey[ndx] ^= RandomUInt32()` is taken
with the call first and the load of the key after it; C leaves the order open, and a
compiler that loads before the call would widen the window.

`Chaskey`, `MCChaskey` — the permutation at its own width: a word is the set of its
bits, so addition is a carry relation and TLC's 32-bit integers are no limit. A call
runs round by round for one of its four callers. The source writes the loop out three
times, and so does the model: `Round`, `Round_64x64` and `Round_64x128`, each with an
action of its own, so that a slip in one of them can be told (`ShortFormsAgree`). The
option bytes of a board are half-words, as `main.c:65` prints them: where they are wider
than a byte, the three numbers in the first word of its key overlap (`BoardKey`).
`Unround` is the reference.

`Pcg`, `MCPcg` — `pcg_variants.h` writes each generator out once per width; `Pcg` has
the width as a parameter, a generator being a variant of the step and a family of the
output. `tally` counts what was returned since the state was last `start`. Powers of two
are the recursive function `Size` wherever a proof computes with them, and constants of
64 bits and more are put together by `Decimal` and `Constant128`, since the tools'
integers are narrower. The firmware uses `setseq` with XSH RS and RXS M XS, seeded, and
`random_r`; the rest of the header is modelled for completeness. The static
initializers (cases not `seeded`) and the 128-bit generators (`late`) exist in the header
only for compilers with `__int128`, which this target's is not.

## Runs

| run | specification and instance | what it shows |
|---|---|---|
| `rings` | `Spec`, 3 descriptors, two requests | `TypeOK`, `NoBufferShared`, `NoBufferLost`, `TxNeverOverrun`, `RingsInStep`, `DescriptorsInOrder`, `QueuedFrameStable` and the refinement `ImplementsFrameService` under every interleaving |
| `prompt` | `PromptFairSpec`, 3 descriptors, a request and another frame | nothing is left behind outside the three windows (`QuietBuffersAtRest`, `QuietEngineHasNoWork`), and `HandlerReturns` |
| `traffic` | `PacedTrafficSpec`, 8 descriptors | `BuffersCirculate` |
| `window` | `Spec`, 3 descriptors | violation: what a window leaves behind |
| `systick` | halves of 8, 5 high values | `ReadIsExact`, `TimeNeverRunsBack` |
| `link` | `FairSpec`: the PHY changes at any time | `LinkFlagTrue`, `DuplexMatches`, `LinkSettles`, `DiscoverFollowsLink` |
| `discover` | all ids of bytes 0, 1, 128, 255, two addresses | `HeadersAgree`, `DiscoverParses`, `NothingOverwritten` |
| `responder` | `FairSpec`, two boards, two clients of two datagrams, one loss; frames with seven triples of lengths | `AnswersAsAsked`, `LengthsAgree`, `DataKeepsComing`, `ExchangesEnd` |
| `stall` | `FairSpec`, one client, two losses | violation: the client waits for ever |
| `prng` | key of 2 words, 3 shifts, 2 wraps | `WholeKeyErased`, `RandomStays`, `FreshWordsCome` |
| `chaskey` | 32 bits, 8 boards, 4 times, 2 quadruples of hardware words | `RoundsCanBeUndone`, `ShortFormsAgree`, `AddressesDiffer`, `EveryBitReached` |
| `pcg` | all variants and families; 16 bits for XSH, 8 for the others | `FullPeriod`, `EquallyOften` |

Bounds. Three descriptors are the fewest for which the receive ring can hold a
taken, a filled and an engine's descriptor at once, and for which all wrap-arounds
of the six indices occur; the proofs below cover every length, so the small ring
costs nothing. `traffic` uses the firmware's eight: the three windows can strand
up to three buffers between them, which a ring of four does not survive (one
descriptor is left, and the engine does not fill its last one) and the firmware's
ring does. `Prng` has three shifts for 32 and two key words for four; the shape of
the counter (low bits shift, next bits index, then wrap) is kept. `SysTick64` stops
at `Horizon`; a call may straddle every carry before it. `LinkDhcp` has no
constants. In `Responder`, two clients are enough for an answer to go astray, two
boards for an exchange between boards (every frame header of the abstraction is
tried, with seven triples of lengths; the proof is for all of them), and `Losses` against `Pipe` is the boundary between `responder` and `stall`.
`Pcg` runs whole periods, which fixes its widths: the 16-bit XSH generators are the
header's own, as are the 8-bit RXS M XS ones, and XSL, which the header has from 64
bits on, is scaled down, as are the 128-bit generators (`late`: they return the output
of the new state; this target has none). The 32-bit constants that `prng.c` uses, and
the wider ones, are beyond a run through the period; the proofs take over there. In `Chaskey`, words have long carries, single bits
at both ends and mixed ones, and the boards differ from the first in one number each,
with option bytes wider than a byte, and one in two numbers, so that an overlap of
unshifted numbers would hide it; `CSPrngInit` draws the same four words in all its turns,
and follows all 32 pairs of neighbouring bits.

Fairness. `WF(Handler)`: the handler is code that is never preempted, and the
interrupt controller enters it while an enabled bit is set. `WF(TxEngine)`: the
engine does its work. `Traffic`, strong fairness of good requests, is an
assumption on the network, made by `traffic` only: a stranded buffer is only
found by the next event of its kind, so without traffic it may lie for ever
(`window`). In `Prng`, the
hardware produces words, and either context runs when it does not wait; that 'T'
requests stop is the premise of `FreshWordsCome`, since they may starve the main loop.
`Partner` in `link`, weak fairness of a link coming up, is made with
`SoundCable`, an explicit premise of `LinkSettles`. `WF(MainLoop)`: the main loop
is only stopped by the handler, which returns. In `Responder`, clients run on and
the frames of each host arrive unless lost; losses are bounded by `Losses`.

Timing. `LinkDhcp` assumes none: the PHY changes between any two steps. A change between
the handler's last look at it and the clearing of PHYLINK is missed, and flag and duplex
mode may then be wrong until the next change; that is the code's behaviour, and
`LinkFlagTrue` and `DuplexMatches` say that it is the only way they can be wrong, and that
the first pass of the handler that misses nothing sets both right, whatever link abilities
and mode were mixed from before. `LinkSettles` has as a premise that the handler does not
miss changes for ever. In `PacketRings`, `PromptSpec` and `PacedTrafficSpec` say what
timing is assumed: `PromptNext` excludes an event in a window of some tens of nanoseconds;
`PacedNext` allows one event per window, since the shortest frame takes 67 microseconds on
the wire. `Spec` assumes nothing: all safety of the rings holds whatever the timing.

### Findings

* `window` — `ETH_IRQHandler` clears R and T after it has drained the ring
  (`ethernet.c:481`, `:485`). A descriptor closed in between has no interrupt.
  The next event of the kind picks it up, so it costs latency, not correctness,
  unless events stop; clearing the bit before draining would close the window.
* `stall` — `bin/chargen` receives without a timeout and sends one datagram for
  each it receives, so a loss lowers the number under way for good; after `--pipe`
  losses it waits for ever, though the number is there to "keep TxRx busy".

What was met on the way and is not a finding: the body of `EthernetTransmit` is
compiled out (`ethernet.c:400`), so `dhcp_state` and "sent dhcp discover" say that
something was sent when nothing was queued; the discover has source port 67 and
destination port 68, those of a server's answer, and leaves its checksums zero
(`dhcp.c:86`); when a 'T' request takes the hardware word that the main loop saw announced,
the main loop reads the register with no new word in it, and what it mixes into the key
has already gone out in an answer (`FreshWordsCome` bounds how often);
`uBench` reads `SysTick->CNT` as a whole (`main.c:105`), which the comment in
`systick.h` warns of, for a figure that is printed once; the ninth buffer, `kInPool`, never
moves, since `PacketDoneFromInterrupt` fills the pool only when it is empty and
nothing empties it (proved, `PoolFull` in the invariant); `kInject` is not
cleared after it has been mixed in; `PACKET_TO_MAINLOOP` would leak its buffer but is
never returned; a link that is reported without completed negotiation is reset,
and negotiation may then be restarted again and again; the SDK's delay routine
may itself use the tick counter, which `SysTick64` takes to be free-running.

## Proofs

The modules `..._proofs` are checked by TLAPS for every value of the constants. The
assumptions are those the modules declare: the ring has a length (`RingAssumption`),
no gap between two readings of the counter is longer than half a period
(`TickAssumption`), a key has words and a counter that goes round them
(`PrngAssumption`), numbers of boards, addresses, ids and lengths are as wide as they are
in the code, and a frame fits the buffer it is received in (`ChaskeyAssumption`,
`DiscoverAssumption`, `LengthsAssumption`), a generator is one of the header's
variants and families at one of its widths, with a seed, stream, address and bound of
that width (`CasesAssumption`), and no host has the address of a board
or that of all boards (`ResponderAssumption`, `AddressAssumption`: addresses of the
network, `kIPv4Net`, and the value that stands for "no entry" in a cache).

### Packet buffers

The safety properties of the rings are not inductive. The inductive invariant
`IInv` adds to `TypeOK`

* the order of the descriptors (`DescriptorsInOrder`): from `kReceiveWr` round to
  itself, receive descriptors are taken, filled, the engine's; from
  `kTransmitWr`, transmit descriptors are sent, queued, empty;
* the lockstep of the rings (`RingsInStep`): a taken receive descriptor is
  exactly a used transmit descriptor, so the guard of `PacketDoneFromInterrupt`
  never meets the engine's OWN bit and `EnqueueTxFromInterrupt` never a full ring;
* at least one descriptor is always the receive engine's: the quirk of
  `ethernet.c:254`, without which a full turn of the ring would be
  indistinguishable from none and the stale addresses would be served;
* where every buffer is: the map from places (pool, receive descriptors that
  count, transmit descriptors in use) to buffers is one to one and onto.

`Invariance` proves `Spec => []IInv` with one step per action; the index
arithmetic is in lemmas on `Dist` and `Inc`, which are stated without
reference to the state. From it follow `TypesHold`, `OrderHolds`, `LockstepHolds`,
`SharingExcluded`, `LeaksExcluded`, `OverrunExcluded` and, as an action property,
`QueuedFramesKept`.

`Implements` proves that the rings implement `FrameService`. A mapped sequence is given
by a function from positions (`ListIsSeq`, `ListAppend`, `ListsEqual`), the positions by
distances from an index of the ring. For each action one lemma says what it does to the
mapped lists: the engine's completion appends to the inbox, the handler takes the
inbox's head and appends the reply, if there is one, to the outbox, the other engine's completion takes
the outbox's head, and all else is a stutter. That no step touches the rest of
either list is where `RingsInStep` and `NoBufferShared` of `IInv` are needed.

The two properties of a quiet driver hold under `PromptSpec` only. `QuietInv` adds to
`IInv` that an engine's index differs from the handler's only while the status bit that
brings the handler back is set, that the loop has caught up when it clears the bit
(`RxAttended`, `TxAttended`), and that a transmit engine which sleeps has nothing
queued unless the handler is about to resume it (`EngineAttended`). `BuffersRest` and
`EngineRests` follow. A step in one of the three windows that `PromptSpec` rules out
breaks one of these parts; the run `window` shows what comes of it.

### Tick counter

`Inv` says how far the counter can have moved since each reading of the call under way;
`ReadsExact` follows by cases on the top bit of the low half, and `ReadsInOrder` since
the moment `at` never runs back.

### Link

`LinkInv` follows the handler through its early returns: while there is a
link, the copy of `PHY_ANLPAR` is the link's or zero; once `PHY_BSR` has been read, the
link is one the driver accepts and the copy is the link's; during the reset the PHY is
off; and when the handler is about to clear the interrupt, or is out with no change
to serve, flag and duplex mode are settled; all of it unless the pass has missed a change.
`FlagIsTrue` and `DuplexIsRight` follow from the last part, under `Spec`, with no
assumption on when the PHY changes.

### Key of the generator

`RandomStays` needs to know where the hardware word is: `RandomInv` says that it is in
the register behind DRDY, in the main loop's hands or in the key, never in two of them, so
exclusive or cannot take it out again, and that what `LoadKey` has read of it is what
`StoreKey` overwrites, whatever the handler has done between the two. `WholeKeyErased`
needs a measure: `Ahead` is how many words are before w in turn, and `EraseInv` bounds the
sum of a word's missed turns and what is ahead of it, in each place of the main loop.

### Responder

`RInv` has four parts: types; every frame on the wire has the fields of its protocol, with
lengths that are numbers (`WireInv`); when clients run, every datagram on the wire is a query of a client on
its way to a board or the answer on its way back (`KnownInv`); and the datagrams of a
client that are under way or in its socket are no more than it counts as due
(`CountInv`). What `PacketRxInterrupt` makes of a frame is in lemmas without the state,
one for each answer (`ArpFields`, `EchoFields`, `ChargenFields`), and `AnswersExact`
compares its lengths with the request's; `LengthsDoAgree` is that for every step, and all
lengths. `BoardAnswers` and
`QueryAnswered` put them together, and one lemma per action counts what it adds to the wire
and takes from it.

### Headers and the discover

`Headers_proofs` proves what the compiler decides: `Layout` says that the recursive
function `Ends`, which lays a structure out, is whatever list of ends satisfies the rule
of alignment member by member; the sizes and places of all members used follow for the
structures of both families. `Discover_proofs` says what a store changes
(`StoreChanges`), then what every `Fill` function leaves, byte by byte, and
`DInv` which bytes are final and which are zero at each place of the code. From it follow
`NothingOverwritten`, and, through the layouts of the other family, `HeadersAgree`. For
`DiscoverParses` the walk through the options must be shown to be defined at all:
`OptionsAreDefined` builds it from the end of the frame backwards.

### Chaskey

`PlusUndone` is the lemma that counts: with `Minus` the borrows are where the carries
were, by the least bit at which they would not be. `RoundUndone` takes the eight
assignments of a round back in turn. `CInv` says that the registers are the block after
as many rounds as are done, by the caller's own loop: `CopiesAgree` compares the three
loops as written, and `FormsAgree` follows for all words; and where the turns of
`CSPrngInit` have taken its two bits, from which `BitsSpread` follows. `BlocksTell` takes all
eight rounds back: under one key, two blocks never become one. `KeysTellBoards` is the part of
`AddressesDiffer` that holds for all boards. Unique ids go into words of their own. The
capacity and the two option bytes share a word; as half-words they overlap there, so the
theorem is that boards with one key agree in all three or differ in two at least
(`ShlTells`, `FirstWordNotesOne`), and that they are the same board if no option byte has
bits beyond the byte.

### PCG

`PeriodsAreFull` is proved for every width of the header, 8 to 128 bits, and every seed,
stream and address, where the run goes through the periods of 8 and 16 bits.

The argument is about the sequence before it is cut to words (`Orbit`, which
`OrbitExists` builds from finite beginnings). Its *strides* are what 2^k steps add:
doubling a stride by `JumpTwice` shows by the least k that with a multiplier that is 5
modulo 8 they are an odd multiple of E * 2^k, where E is 1 if the increment is odd
(`MixedStrides`) and 4 for the multiplicative generators with an odd state
(`MultipliedStrides`). So 2^k steps come back for the word of size E * 2^k (`Return`),
and no fewer do: n = 2^j * odd steps, j < k, change the word (`NoReturn`).

The inductive invariant `PInv` says that increment or state are odd as their variant
needs (`Sound`: what `| 1` and the initializers are for) and that the state is the word
of the sequence that `drawn` steps lead to (`Follows`); `PcgInvariance` proves it with
one lemma for all generators, as they differ only in what `StepR` adds.

The header's own constants enter by their remainders modulo 8 and by their widths.
Those of 64 bits and more are never written out in a proof, as the prover computes
closed terms in machine integers: `DecimalFits`, `DecimalIs` and `Constant128Is` argue
from the parts.

`BoundsAreFair` is the other half of `boundedrand_r`: for every bound, `Counts` gives each
value the same number of words of `random_r`, and one at least. Together with outputs that
are equally frequent this is `EquallyOften`.

### Only model-checked

* All liveness (`HandlerReturns`, `BuffersCirculate`, `LinkSettles`,
  `DiscoverFollowsLink`, `FreshWordsCome`, `ExchangesEnd`, `DataKeepsComing`): fairness and
  `ENABLED` are out of the prover's reach.
* `AddressesDiffer` of `Chaskey`: six bytes cannot be different for all boards there could
  be; the property is about the boards of the instance.
* `EquallyOften` of `Pcg`: that the output functions return all words equally often over a
  period needs the preimages of each of them counted, bit by bit. The period and the
  bound, its other two parts, are proved.

## Not modelled, and the plan

Not modelled, and why:

* register set-up of MAC, PHY and clocks: straight-line writes with no state of the
  program's own; what they enable is in the `Init` of `PacketRings` and `LinkDhcp`;
* `uBench`, `SysTickDebugMain`, `PrintUniID`: diagnostics, disabled or run before the
  driver starts; what the second looks for is `TimeNeverRunsBack`;
* `main` up to its loop, and `HardFault_Handler`: initialisers called in order, in one
  context, and a loop that prints;
* `EthernetTransmit` and `DHCPProcessPacket`: compiled out, and empty;
* `advance_r` of PCG: the header only declares what it calls;
* the rest of `include/`: constants and structures that the firmware does not use;
* the script `bitbias-u32`: statistics on a host;
* the order in which stores reach memory (the "fence ?" of `ethernet.c:389`): it
  depends on the core, the bus and the SDK's declarations, none of which is here;
* one handler composed of `PacketRings` and the PHY branch of `LinkDhcp`: the two
  branches share no variable of the program. They share `DMASR`, of which each clears
  its own bits, and time: a reset of the PHY in the handler holds up the rings, which
  `PacketRings` allows, as its handler may stand still anywhere. What the summary bits
  do when one branch clears them while the other's event arrives is the hardware's
  behaviour and would be invented.

The order followed was `FrameService` and `PacketRings` (the buffers are what everything
else stands on), their proofs, `SysTick64` and its proofs, `LinkDhcp`, `Prng`,
`Responder`; then the hardware generator in `Prng`, the lengths in `Responder`, `Pcg`,
`Headers` and `Discover`, `Chaskey`.

Proved last: the periods of `Pcg` and its bounds, and what `Chaskey` keeps apart. Left to
prove, of the safety properties the runs check: that the output functions of `Pcg` favour
no word.
