-------------------------- MODULE LinkDhcp_proofs --------------------------
(***************************************************************************)
(* The types of LinkDhcp in all its behaviours; and what the driver knows  *)
(* of the link after a pass of the handler that missed no change of the    *)
(* PHY, whatever was missed before.                                        *)
(***************************************************************************)
EXTENDS LinkDhcp, TLAPS

(***************************************************************************)
(* Types.                                                                  *)
(***************************************************************************)

\* What the registers of the PHY may say.
LEMMA PhyReads ==
  ASSUME TypeOK
  PROVE  /\ phy.link \in BOOLEAN /\ phy.nego \in BOOLEAN /\ phy.full \in BOOLEAN
         /\ phy.anlpar \in {"zero", "csmacd", "other"}
<1>1. CASE phy \in PhyUps
  <2>1. PICK link \in {TRUE}, nego \in BOOLEAN,
             anlpar \in {"zero", "csmacd", "other"}, full \in BOOLEAN :
          phy = [link |-> link, nego |-> nego, anlpar |-> anlpar, full |-> full]
    BY <1>1, Zenon DEF PhyUps
  <2> QED BY <2>1
<1>2. CASE phy = PhyDown
  BY <1>2 DEF PhyDown
<1> QED BY <1>1, <1>2 DEF TypeOK

LEMMA StepKeepsTypes == TypeOK /\ [Next]_vars => TypeOK'
<1> SUFFICES ASSUME TypeOK, [Next]_vars PROVE TypeOK'
  OBVIOUS
<1> USE DEF TypeOK, phyVars, linkVars, dhcpVars
<1>1. CASE Cable
  BY <1>1 DEF Cable, LinkGoesDown, LinkComesUp
<1>2. CASE EnterHandler \/ ReadAnlpar \/ ReadBsr
  BY <1>2, PhyReads DEF EnterHandler, ReadAnlpar, ReadBsr
<1>3. CASE LinkUp
  BY <1>3 DEF LinkUp, DHCPReset
<1>4. CASE PhyOff
  BY <1>4 DEF PhyOff, PhyUps, PhyDown
<1>5. CASE PhyBackOn \/ ClearPhylink
  BY <1>5 DEF PhyBackOn, ClearPhylink
<1>6. CASE MainLoop
  BY <1>6 DEF MainLoop, ProcessDHCP, DrawTransactionId, TransmitDiscover,
              SetSentDiscover
<1>7. CASE UNCHANGED vars
  BY <1>7 DEF vars
<1> QED BY <1>1, <1>2, <1>3, <1>4, <1>5, <1>6, <1>7 DEF Next, Handler

\* All variables have their types, whenever the cable changes and wherever the
\* handler preempts the main loop: dhcp_state has the two values that
\* dhcp.c stores, of the four it declares.
THEOREM TypesHold == Spec => []TypeOK
<1>1. Init => TypeOK
  BY DEF Init, TypeOK, PhyDown
<1> QED BY <1>1, StepKeepsTypes, PTL DEF Spec

(***************************************************************************)
(* What the handler knows of the PHY on its way.                           *)
(***************************************************************************)

\* The flag and the duplex mode are those of the link there is.
Settled ==
  /\ phy_link_ready = Sound(phy)
  /\ phy_link_ready =>
       duplex = IF phy.full \/ phy.anlpar # "csmacd" THEN "full" ELSE "half"

\* Unless the pass has missed a change, the copy of PHY_ANLPAR is that of the
\* link, if there is one and the copy leads to it.  Nothing is said of the time
\* before the handler reads it: a pass starts with no knowledge.  A PHY that is
\* off has no link.
LinkInv ==
  /\ TypeOK
  /\ pc = "wait" => phy = PhyDown /\ ~phyOn
  /\ ~missed =>
       /\ pc = "bsr" /\ phy.link => phy_anlpar \in {"zero", phy.anlpar}
       /\ pc = "status" => Sound(phy) /\ phy_anlpar = phy.anlpar
       /\ pc = "clear" \/ Quiet => Settled

\* The PHY with no link is none the driver accepts.
LEMMA DownIsNotSound == PhyDown.link = FALSE /\ Sound(PhyDown) = FALSE
  BY DEF PhyDown, Sound

\* A change of the PHY is noted in PHYLINK, and in mid-handler it is either of
\* no use to the handler, or seen by it, or missed.
LEMMA CableKeeps ==
  ASSUME LinkInv, Cable
  PROVE  LinkInv'
<1>1. TypeOK'
  BY StepKeepsTypes DEF LinkInv, Next
<1>2. /\ phylink' = TRUE
      /\ UNCHANGED <<pc, phy_anlpar>>
      /\ missed' = (missed \/ Late(phy'))
      /\ phy.link => phy' = PhyDown
      /\ ~phy.link => phyOn /\ phy' \in PhyUps
  BY DownIsNotSound DEF Cable, LinkGoesDown, LinkComesUp, linkVars, PhyUps
<1>3. pc' # "wait"
  BY <1>2, DownIsNotSound DEF LinkInv, Cable, LinkGoesDown, LinkComesUp
<1>4. ~missed' => ~Late(phy') /\ pc' # "status" /\ ~(pc' = "clear" \/ Quiet')
  BY <1>2 DEF Late, Quiet
<1>5. ~missed' => (pc' = "bsr" /\ phy'.link => phy_anlpar' \in {"zero", phy'.anlpar})
  BY <1>2, <1>4 DEF Late
<1> QED BY <1>1, <1>3, <1>4, <1>5 DEF LinkInv

LEMMA HandlerKeeps ==
  ASSUME LinkInv, Handler
  PROVE  LinkInv'
<1>1. TypeOK'
  BY StepKeepsTypes DEF LinkInv, Next
<1> USE DEF LinkInv, Quiet, phyVars, linkVars, dhcpVars
<1>2. CASE EnterHandler
  BY <1>1, <1>2 DEF EnterHandler
<1>3. CASE ReadAnlpar
  BY <1>1, <1>3 DEF ReadAnlpar
<1>4. CASE ReadBsr
  BY <1>1, <1>4 DEF ReadBsr, Sound
<1>5. CASE LinkUp
  BY <1>1, <1>5 DEF LinkUp, Settled
<1>6. CASE PhyOff
  BY <1>1, <1>6 DEF PhyOff
<1>7. CASE PhyBackOn
  BY <1>1, <1>7, DownIsNotSound DEF PhyBackOn, Settled
<1>8. CASE ClearPhylink
  BY <1>1, <1>8 DEF ClearPhylink, Settled
<1> QED BY <1>2, <1>3, <1>4, <1>5, <1>6, <1>7, <1>8 DEF Handler

LEMMA MainLoopKeeps ==
  ASSUME LinkInv, MainLoop
  PROVE  LinkInv'
<1>1. TypeOK'
  BY StepKeepsTypes DEF LinkInv, Next
<1>2. UNCHANGED <<phy, phyOn, phylink, pc, phy_anlpar, duplex, phy_link_ready, missed>>
  BY DEF MainLoop, ProcessDHCP, DrawTransactionId, TransmitDiscover,
         SetSentDiscover, phyVars, linkVars
<1> QED BY <1>1, <1>2 DEF LinkInv, Settled, Quiet

THEOREM LinkInvariance == Spec => []LinkInv
<1>1. Init => LinkInv
  BY DownIsNotSound DEF Init, LinkInv, TypeOK, PhyDown, Quiet, Settled
<1>2. ASSUME LinkInv, [Next]_vars
      PROVE  LinkInv'
  <2>1. CASE Next
    BY <1>2, <2>1, CableKeeps, HandlerKeeps, MainLoopKeeps DEF Next
  <2>2. CASE UNCHANGED vars
    BY <1>2, <2>2 DEF vars, LinkInv, TypeOK, Settled, Quiet
  <2> QED BY <1>2, <2>1, <2>2
<1> QED BY <1>1, <1>2, PTL DEF Spec

\* Whenever the cable changes: phy_link_ready is right when no change waits to
\* be served and the last pass of EthernetProcessPHYLinkInterrupt missed none,
\* through each of its early returns and whatever earlier passes left behind.
THEOREM FlagIsTrue == Spec => []LinkFlagTrue
<1>1. LinkInv => LinkFlagTrue
  BY DEF LinkInv, Settled, LinkFlagTrue
<1> QED BY <1>1, LinkInvariance, PTL

\* So is the duplex mode in MACCR, whenever the cable changes: if it mixes the
\* abilities of one link with the mode of another, the pass that made it has
\* missed a change, and the first pass that misses none sets it right.
THEOREM DuplexIsRight == Spec => []DuplexMatches
<1>1. LinkInv => DuplexMatches
  BY DEF LinkInv, Settled, DuplexMatches
<1> QED BY <1>1, LinkInvariance, PTL
=============================================================================
