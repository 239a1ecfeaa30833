------------------------------ MODULE LinkDhcp ------------------------------
(***************************************************************************)
(* The link and the DHCP client: EthernetProcessPHYLinkInterrupt           *)
(* (src/src/ethernet.c), which runs in ETH_IRQHandler, and the main loop   *)
(* with ProcessDHCP (src/src/main.c, src/src/dhcp.c), which it preempts.   *)
(*                                                                         *)
(* The two share phy_link_ready and dhcp_state, and the handler shares the *)
(* PHY with the cable and the partner at its other end: the PHY may change *)
(* between any two of the registers the handler reads.                     *)
(*                                                                         *)
(* Data abstraction.  Of the PHY's registers: link, autonegotiation, the   *)
(* partner's abilities (zero, CSMA/CD, other) and the duplex bit.  A DHCP  *)
(* transaction id is "new" if it was drawn since the link last came up.    *)
(* The rings are those of PacketRings and are left out: EthernetTransmit,  *)
(* which would fill them, is compiled out.  The discover is in Discover.   *)
(***************************************************************************)

VARIABLES
  phy,             \* what the PHY's registers say
  phyOn,           \* EXTEN_ETH_10M_EN
  phylink,         \* DMASR bit 31: connection state change
  pc,              \* where the handler is; "main" outside of it
  phy_anlpar,      \* the handler's copy of PHY_ANLPAR
  duplex,          \* MACCR: "full" or "half"
  started,         \* ETH_Start has been called
  phy_link_ready,
  mpc,             \* where the main loop is
  dhcp_state,
  current_transaction_id,
  discovered,      \* the id of the last discover handed to EthernetTransmit
  missed           \* history: this pass of the handler missed a change of the PHY

phyVars == <<phy, phyOn>>
linkVars == <<duplex, started, phy_link_ready>>
dhcpVars == <<dhcp_state, current_transaction_id, discovered>>
vars == <<phy, phyOn, phylink, pc, phy_anlpar, duplex, started, phy_link_ready,
          mpc, dhcp_state, current_transaction_id, discovered, missed>>

PhyDown == [link |-> FALSE, nego |-> FALSE, anlpar |-> "zero", full |-> FALSE]
PhyUps == [link : {TRUE}, nego : BOOLEAN, anlpar : {"zero", "csmacd", "other"},
           full : BOOLEAN]

\* A link the driver accepts: negotiated, with a partner that names abilities.
Sound(p) == p.link /\ p.nego /\ p.anlpar # "zero"

\* The end of EthernetInitialize.  The MAC is set up in full duplex mode.
Init ==
  /\ phy = PhyDown /\ phyOn = TRUE /\ phylink = FALSE
  /\ pc = "main" /\ phy_anlpar = "zero"
  /\ duplex = "full" /\ started = FALSE /\ phy_link_ready = FALSE
  /\ mpc = "process"
  /\ dhcp_state = "NONE"
  /\ current_transaction_id = "old" /\ discovered = "old"
  /\ missed = FALSE

(***************************************************************************)
(* The PHY, the cable and the partner.  The PHY may change at any time.    *)
(* PHYLINK is cleared when the handler has long read the PHY's registers,  *)
(* so that a change after the last look at what it changes is lost.        *)
(* `missed` records this and decides nothing.                              *)
(***************************************************************************)

\* Whether the handler misses a change of the PHY to p.  Between PHY_ANLPAR and
\* PHY_BSR it misses a link with other abilities than those it has read; it
\* sees a loss, and with no abilities read it resets the PHY anyway.
Late(p) ==
  \/ pc \in {"status", "clear"}
  \/ pc = "bsr" /\ p.link /\ phy_anlpar \notin {"zero", p.anlpar}

LinkComesUp(p) ==
  /\ phyOn /\ ~phy.link
  /\ phy' = p
  /\ phylink' = TRUE
  /\ missed' = (missed \/ Late(p))
  /\ UNCHANGED <<phyOn, pc, phy_anlpar, linkVars, mpc, dhcpVars>>

LinkGoesDown ==
  /\ phy.link
  /\ phy' = PhyDown
  /\ phylink' = TRUE
  /\ missed' = (missed \/ Late(PhyDown))
  /\ UNCHANGED <<phyOn, pc, phy_anlpar, linkVars, mpc, dhcpVars>>

Cable == LinkGoesDown \/ \E p \in PhyUps : LinkComesUp(p)

(***************************************************************************)
(* EthernetProcessPHYLinkInterrupt, within ETH_IRQHandler.                 *)
(***************************************************************************)

EnterHandler ==
  /\ pc = "main" /\ phylink
  /\ pc' = "anlpar"
  /\ missed' = FALSE
  /\ UNCHANGED <<phyVars, phylink, phy_anlpar, linkVars, mpc, dhcpVars>>

ReadAnlpar ==
  /\ pc = "anlpar"
  /\ phy_anlpar' = phy.anlpar
  /\ pc' = "bsr"
  /\ UNCHANGED <<phyVars, phylink, linkVars, mpc, dhcpVars, missed>>

\* Mutant of ReadBsr: the test of the partner's abilities is missing.
ReadBsrOnly ==
  /\ pc = "bsr"
  /\ pc' = IF phy.link /\ phy.nego THEN "status" ELSE "reset"
  /\ UNCHANGED <<phyVars, phylink, phy_anlpar, linkVars, mpc, dhcpVars, missed>>

\* PHY_BSR: link and negotiation, one register.  Together with the abilities
\* read before it decides between a reset and the way up.
ReadBsr ==
  /\ pc = "bsr"
  /\ pc' = IF phy.link /\ phy_anlpar # "zero" /\ phy.nego THEN "status" ELSE "reset"
  /\ UNCHANGED <<phyVars, phylink, phy_anlpar, linkVars, mpc, dhcpVars, missed>>

\* DHCPReset.  All ids of before the link came up are old ones now.
DHCPReset ==
  /\ dhcp_state' = "NONE"
  /\ current_transaction_id' = "old" /\ discovered' = "old"

\* Mutant of LinkUp: a half duplex link leaves the MAC as it is.
LinkUpKeepsDuplex ==
  /\ pc = "status"
  /\ duplex' = IF phy.full \/ phy_anlpar # "csmacd" THEN "full" ELSE duplex
  /\ phy_link_ready' = TRUE /\ started' = TRUE
  /\ DHCPReset
  /\ pc' = "clear"
  /\ UNCHANGED <<phyVars, phylink, phy_anlpar, mpc, missed>>

\* PHY_STATUS: the duplex mode; then the flag, the callback in main.c and
\* ETH_Start.
LinkUp ==
  /\ pc = "status"
  /\ duplex' = IF phy.full \/ phy_anlpar # "csmacd" THEN "full" ELSE "half"
  /\ phy_link_ready' = TRUE /\ started' = TRUE
  /\ DHCPReset
  /\ pc' = "clear"
  /\ UNCHANGED <<phyVars, phylink, phy_anlpar, mpc, missed>>

\* Internal10MPhyReset: the PHY is reset and off, for a busy wait; the drop
\* of the link is a change of its own.
PhyOff ==
  /\ pc = "reset"
  /\ phy' = PhyDown /\ phyOn' = FALSE
  /\ phylink' = (phylink \/ phy.link)
  /\ pc' = "wait"
  /\ UNCHANGED <<phy_anlpar, linkVars, mpc, dhcpVars, missed>>

\* Mutant of PhyBackOn: EXTEN_ETH_10M_EN is not set again.
PhyStaysOff ==
  /\ pc = "wait"
  /\ phy_link_ready' = FALSE
  /\ pc' = "clear"
  /\ UNCHANGED <<phyVars, phylink, phy_anlpar, duplex, started, mpc, dhcpVars, missed>>

PhyBackOn ==
  /\ pc = "wait"
  /\ phyOn' = TRUE
  /\ phy_link_ready' = FALSE
  /\ pc' = "clear"
  /\ UNCHANGED <<phy, phylink, phy_anlpar, duplex, started, mpc, dhcpVars, missed>>

\* ETH_DMAClearITPendingBit(ETH_DMA_IT_PHYLINK), and the handler returns.
ClearPhylink ==
  /\ pc = "clear"
  /\ phylink' = FALSE
  /\ pc' = "main"
  /\ UNCHANGED <<phyVars, phy_anlpar, linkVars, mpc, dhcpVars, missed>>

Handler ==
  \/ EnterHandler \/ ReadAnlpar \/ ReadBsr \/ LinkUp
  \/ PhyOff \/ PhyBackOn \/ ClearPhylink

(***************************************************************************)
(* The main loop.                                                          *)
(***************************************************************************)

\* Mutant of ProcessDHCP: a discover that has been sent is not sent again.
ProcessDHCPOnce ==
  /\ pc = "main" /\ mpc = "process"
  /\ mpc' = IF dhcp_state = "NONE" THEN "draw" ELSE "process"
  /\ UNCHANGED <<phyVars, phylink, pc, phy_anlpar, linkVars, dhcpVars, missed>>

\* ProcessDHCP reads the state.
ProcessDHCP ==
  /\ pc = "main" /\ mpc = "process"
  /\ mpc' = IF dhcp_state \in {"NONE", "SENT_DISCOVER"} THEN "draw" ELSE "process"
  /\ UNCHANGED <<phyVars, phylink, pc, phy_anlpar, linkVars, dhcpVars, missed>>

\* DHCPSendDiscover draws the transaction id, ...
DrawTransactionId ==
  /\ pc = "main" /\ mpc = "draw"
  /\ current_transaction_id' = "new"
  /\ mpc' = "transmit"
  /\ UNCHANGED <<phyVars, phylink, pc, phy_anlpar, linkVars, dhcp_state, discovered, missed>>

\* ... hands the packet to EthernetTransmit, ...
TransmitDiscover ==
  /\ pc = "main" /\ mpc = "transmit"
  /\ discovered' = current_transaction_id
  /\ mpc' = "set"
  /\ UNCHANGED <<phyVars, phylink, pc, phy_anlpar, linkVars, dhcp_state,
                 current_transaction_id, missed>>

\* Mutant of SetSentDiscover: the wrong enumerator.
SetSentRequest ==
  /\ pc = "main" /\ mpc = "set"
  /\ dhcp_state' = "SENT_REQUEST"
  /\ mpc' = "process"
  /\ UNCHANGED <<phyVars, phylink, pc, phy_anlpar, linkVars,
                 current_transaction_id, discovered, missed>>

\* ... and stores the state, whatever the handler has stored meanwhile.
SetSentDiscover ==
  /\ pc = "main" /\ mpc = "set"
  /\ dhcp_state' = "SENT_DISCOVER"
  /\ mpc' = "process"
  /\ UNCHANGED <<phyVars, phylink, pc, phy_anlpar, linkVars,
                 current_transaction_id, discovered, missed>>

MainLoop == ProcessDHCP \/ DrawTransactionId \/ TransmitDiscover \/ SetSentDiscover

Next == Cable \/ Handler \/ MainLoop

Spec == Init /\ [][Next]_vars

(***************************************************************************)
(* Fairness.  The handler runs to its end and the main loop runs on; a PHY *)
(* that is on finds a partner at last.                                     *)
(***************************************************************************)
Running == WF_vars(Handler) /\ WF_vars(MainLoop)
Partner == WF_vars(\E p \in PhyUps : LinkComesUp(p))

FairSpec == Spec /\ Running /\ Partner

(***************************************************************************)
(* Safety.                                                                 *)
(***************************************************************************)

\* The types of all variables.
TypeOK ==
  /\ phy \in PhyUps \cup {PhyDown} /\ phyOn \in BOOLEAN /\ phylink \in BOOLEAN
  /\ pc \in {"main", "anlpar", "bsr", "status", "reset", "wait", "clear"}
  /\ phy_anlpar \in {"zero", "csmacd", "other"}
  /\ duplex \in {"full", "half"} /\ started \in BOOLEAN
  /\ phy_link_ready \in BOOLEAN
  /\ mpc \in {"process", "draw", "transmit", "set"}
  /\ dhcp_state \in {"NONE", "SENT_DISCOVER"}
  /\ current_transaction_id \in {"old", "new"} /\ discovered \in {"old", "new"}
  /\ missed \in BOOLEAN

Quiet == pc = "main" /\ ~phylink

\* With no change to serve, phy_link_ready says whether there is a link the
\* driver accepts, unless the last pass of the handler missed a change: the
\* early returns and the reset of the PHY in mid-handler, with the change it
\* causes itself, leave neither flag nor PHY behind, and a pass that misses
\* nothing repairs whatever the passes before it left wrong.
LinkFlagTrue == Quiet /\ ~missed => phy_link_ready = Sound(phy)

\* And the MAC has the duplex mode of that link: full if PHY_STATUS says so or
\* if the partner's selector is not CSMA/CD, else half.  Changes come at any
\* time; a pass that mixes the abilities of one link with the mode of another
\* has missed a change, and the next pass that does not sets the mode right.
DuplexMatches ==
  Quiet /\ ~missed /\ phy_link_ready =>
    duplex = IF phy.full \/ phy.anlpar # "csmacd" THEN "full" ELSE "half"

(***************************************************************************)
(* Progress.                                                               *)
(***************************************************************************)

\* The link is only lost because the driver resets the PHY, and comes up only
\* with partners the driver accepts.
SoundCable ==
  /\ phy.link /\ ~phy'.link => pc = "reset"
  /\ ~phy.link /\ phy'.link => Sound(phy')

\* With such a cable the driver settles on a link, unless it misses changes for
\* ever: its resets of the PHY come to an end, and none of them hides the change
\* that follows it.
LinkSettles == (<>[][SoundCable]_vars /\ <>[]~missed) => <>[]phy_link_ready

\* When the cable is left alone, a link that is up has had a discover of its
\* own: DHCPReset is not lost on a main loop that was in the middle of
\* DHCPSendDiscover and then stores DHCP_STATE_SENT_DISCOVER over it.
DiscoverFollowsLink ==
  <>[][~Cable]_vars => <>[](phy_link_ready => discovered = "new")
=============================================================================
