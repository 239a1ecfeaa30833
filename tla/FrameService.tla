---------------------------- MODULE FrameService ----------------------------
(***************************************************************************)
(* What the Ethernet driver promises, with no rings, buffers, interrupts   *)
(* or DMA: a frame that was received is served once, in the order of       *)
(* arrival, by PacketRxInterrupt; a reply leaves in the order in which the *)
(* requests came, as it was written; and nothing else ever leaves.         *)
(***************************************************************************)
EXTENDS Naturals, Sequences

CONSTANTS
  Capacity,   \* frames the service can hold
  Requests,   \* frames that are answered
  Others      \* frames that are not

VARIABLES
  inbox,      \* received and not yet served
  outbox      \* replies on their way out

svcVars == <<inbox, outbox>>

Answer(f) == <<"reply", f>>

SvcInit == inbox = <<>> /\ outbox = <<>>

\* A frame comes in, whole or damaged.  One that finds no room is lost.
Arrive ==
  /\ Len(inbox) + Len(outbox) < Capacity
  /\ \E f \in Requests \cup Others, status \in {"GOOD", "BAD"} :
       inbox' = Append(inbox, [frame |-> f, status |-> status])
  /\ UNCHANGED outbox

\* The oldest frame is served; a good request is answered.
Serve ==
  /\ inbox # <<>>
  /\ inbox' = Tail(inbox)
  /\ LET m == Head(inbox)
     IN  outbox' = IF m.status = "GOOD" /\ m.frame \in Requests
                   THEN Append(outbox, Answer(m.frame))
                   ELSE outbox

\* The oldest reply leaves.
Send ==
  /\ outbox # <<>>
  /\ outbox' = Tail(outbox)
  /\ UNCHANGED inbox

SvcNext == Arrive \/ Serve \/ Send

Service == SvcInit /\ [][SvcNext]_svcVars
=============================================================================
