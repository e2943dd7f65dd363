-------------------------------- MODULE Csi2 --------------------------------
(***************************************************************************)
(* The CSI-2 receivers and the PHYs in front of them: s_stream() of the    *)
(* sub-device CSI-2 (ipu6-isys/ipu-isys-csi2.c, .../ipu6/ipu6-isys-csi2.c, *)
(* ipu6-isys-phy.c, ipu6-isys-dwc-phy.c).                                  *)
(*                                                                         *)
(* IPU 6 has a PHY per four ports, shared and counted (MCD); MTL a PHY per *)
(* port, of which four lanes take two (DWC); 6SE one PHY and, per pair of  *)
(* ports, a port configuration.                                            *)
(* Every call runs under graph_mutex of the media device.                  *)
(***************************************************************************)
EXTENDS OvSensor, FiniteSets, Functions

CONSTANTS
  Versions,    \* among "6", "6SE" and "MTL", ipu_ver
  Boards       \* how the sensors may be wired: [sensor -> wire]

Port == 0 .. 7
Phy == 0 .. 1           \* the MCD PHYs
Sip == 0 .. 1           \* the pairs of ports of 6SE

Wire == [port : Port, lanes : {1, 2, 4}, freq : {"listed", "unlisted", "none"},
         end : {"be", "soc"}, own : BOOLEAN]

\* Two sensors have different ports; four lanes on MTL leave the PHY of the next
\* port alone; the ports of a pair of 6SE have the same lanes, as they share
\* their configuration; one sensor at most goes through the raw back end.
WellWired(v, b) ==
  /\ IsInjective([s \in DOMAIN b |-> b[s].port])
  /\ \A s, t \in DOMAIN b : s # t =>
       /\ v = "MTL" /\ b[s].lanes = 4 => b[t].port # b[s].port + 1
       /\ v = "6SE" /\ b[s].port \div 2 = b[t].port \div 2 => b[s].lanes = b[t].lanes
       /\ "soc" \in {b[s].end, b[t].end}
  /\ v = "6SE" => \A s \in DOMAIN b : b[s].port < 4

ASSUME BoardAssumption ==
  /\ Versions \subseteq {"6", "6SE", "MTL"}
  /\ \A b \in Boards : DOMAIN b \subseteq Sensor /\ Range(b) \subseteq Wire

VARIABLES
  ver,          \* ipu_ver
  board,        \* the wiring, with the sensors there are
  bound,        \* sensors in the notifier's done_list
  streamCount,  \* csi2.stream_count
  rx,           \* lanes of a receiver that is on, 0 when off
  clock,        \* ports with a clock
  phyRef,       \* phy_power_ref_count
  phyUp,        \* PHYs that came up and were not taken down: MCD 0 and 1, DWC
                \*   one per port
  configured,   \* ports an MCD PHY has its registers for since it is up
  sip,          \* lanes in the port configuration of 6SE
  stuck         \* ports whose PHY failed: stream_count was raised nevertheless,
                \*   and the next starts only count

receivers == << streamCount, rx, clock, phyRef, phyUp, configured, sip, stuck >>
csi2Vars == << ver, board, bound, receivers >>

PhyOf(p) == p \div 4
PortOf(s) == board[s].port
Lanes(s) == board[s].lanes

Csi2Init ==
  /\ ver \in Versions
  /\ board \in {b \in Boards : WellWired(ver, b)}
  /\ bound = {}
  /\ streamCount = [p \in Port |-> 0] /\ rx = [p \in Port |-> 0]
  /\ clock = {} /\ stuck = {}
  /\ phyRef = [h \in Phy |-> 0] /\ phyUp = {} /\ configured = {}
  /\ sip = [i \in Sip |-> 0]

(***************************************************************************)
(* The MCD PHY: ipu6_csi2_phy_power_set().                                 *)
(***************************************************************************)

\* ipu6_isys_driver_port_to_phy_port(): ports 0 and 1 of a PHY are swapped, and
\* four lanes start at PHY port 0 or 2.
PhyPort(p) == CASE p % 4 = 0 -> 1 [] p % 4 = 1 -> 0 [] OTHER -> p % 4
Routable(s) == Lanes(s) = 4 => PhyPort(PortOf(s)) \in {0, 2}

\* ipu6_isys_phy_config(): every sensor of the notifier, on every PHY.
McdConfigured(h) ==
  configured \union {p \in {PortOf(s) : s \in bound} : PhyOf(p) = h \/ PhyOf(p) \in phyUp}

\* Mutant: a failing call has counted already.
McdOnCountsFirst(p, ok) ==
  /\ ok \/ Fails("phy") \/ \E s \in bound : ~Routable(s)
  /\ phyRef' = [phyRef EXCEPT ![PhyOf(p)] = @ + 1]
  /\ phyUp' = IF ok THEN phyUp \union {PhyOf(p)} ELSE phyUp
  /\ configured' = IF ok THEN McdConfigured(PhyOf(p)) ELSE configured

\* ok is what the call returns; nothing is undone when it fails.
McdOn(p, ok) ==
  LET h == PhyOf(p) IN
  IF phyRef[h] > 0
  THEN /\ ok = TRUE
       /\ phyRef' = [phyRef EXCEPT ![h] = @ + 1]
       /\ UNCHANGED << phyUp, configured >>
  ELSE /\ ok => \A s \in bound : Routable(s)
       /\ ok \/ Fails("phy") \/ \E s \in bound : ~Routable(s)
       /\ phyRef' = IF ok THEN [phyRef EXCEPT ![h] = 1] ELSE phyRef
       /\ phyUp' = IF ok THEN phyUp \union {h} ELSE phyUp
       /\ configured' = IF ok THEN McdConfigured(h) ELSE configured

\* A power-down that is not acknowledged is only reported.
McdOff(p) ==
  LET h == PhyOf(p) IN
  /\ phyRef' = [phyRef EXCEPT ![h] = @ - 1]
  /\ phyUp' = IF phyRef[h] = 1 THEN phyUp \ {h} ELSE phyUp
  /\ configured' = IF phyRef[h] = 1 THEN {q \in configured : PhyOf(q) # h} ELSE configured

(***************************************************************************)
(* The DWC PHYs: ipu6_csi2_dwc_phy_power_set(), which resets them before   *)
(* it configures them.                                                     *)
(***************************************************************************)
DwcPhys(s) == IF Lanes(s) = 4 THEN {PortOf(s), PortOf(s) + 1} ELSE {PortOf(s)}
DwcPossible(s) == Lanes(s) = 4 => PortOf(s) % 2 = 0

DwcOn(s, ok) ==
  /\ ok => DwcPossible(s) /\ board[s].freq = "listed"
  /\ ok \/ Fails("phy") \/ ~DwcPossible(s) \/ board[s].freq # "listed"
  /\ phyUp' = IF ok THEN phyUp \union DwcPhys(s)
              ELSE IF DwcPossible(s) THEN phyUp \ DwcPhys(s) ELSE phyUp
  /\ UNCHANGED << phyRef, configured >>

DwcOff(s) ==
  /\ phyUp' = phyUp \ DwcPhys(s)
  /\ UNCHANGED << phyRef, configured >>

(***************************************************************************)
(* s_stream() of a receiver.                                               *)
(***************************************************************************)
PhyOn(s, ok) ==
  CASE ver = "6" -> McdOn(PortOf(s), ok) /\ UNCHANGED sip
    [] ver = "MTL" -> DwcOn(s, ok) /\ UNCHANGED sip
    [] ver = "6SE" -> /\ ok = TRUE
                      /\ sip' = [sip EXCEPT ![PortOf(s) \div 2] = Lanes(s)]
                      /\ UNCHANGED << phyRef, phyUp, configured >>

\* The first stream of a port: lanes, the clock of every port, the PHY.  The
\* count is raised even if the PHY fails.
FirstOn(s, ok) ==
  LET p == PortOf(s)
      ports == IF ver = "6SE" THEN 0 .. 3 ELSE Port IN
  /\ streamCount' = [streamCount EXCEPT ![p] = 1]
  /\ rx' = [rx EXCEPT ![p] = Lanes(s)]
  /\ clock' = clock \union ports
  /\ PhyOn(s, ok)
  /\ stuck' = IF ok THEN stuck ELSE stuck \union {p}

ReceiverOn(s, ok) ==
  LET p == PortOf(s) IN
  CASE streamCount[p] > 0 ->
         /\ ok = TRUE
         /\ streamCount' = [streamCount EXCEPT ![p] = @ + 1]
         /\ UNCHANGED << rx, clock, phyRef, phyUp, configured, sip, stuck >>
    [] streamCount[p] = 0 /\ board[s].freq = "none" ->
         ok = FALSE /\ UNCHANGED receivers
    [] OTHER -> FirstOn(s, ok)

\* Mutant: a receiver that stops takes the clock of all ports.
LastOffAllClocks(s) ==
  /\ rx' = [rx EXCEPT ![PortOf(s)] = 0]
  /\ CASE ver = "6" -> McdOff(PortOf(s))
       [] ver = "MTL" -> DwcOff(s)
       [] ver = "6SE" -> UNCHANGED << phyRef, phyUp, configured >>
  /\ clock' = {}

LastOff(s) ==
  /\ rx' = [rx EXCEPT ![PortOf(s)] = 0]
  /\ CASE ver = "6" -> McdOff(PortOf(s))
       [] ver = "MTL" -> DwcOff(s)
       [] ver = "6SE" -> UNCHANGED << phyRef, phyUp, configured >>
  /\ clock' = clock \ {PortOf(s)}

ReceiverOff(s) ==
  LET p == PortOf(s) IN
  /\ streamCount' = [streamCount EXCEPT ![p] = @ - 1]
  /\ IF streamCount[p] = 1 THEN LastOff(s)
     ELSE UNCHANGED << rx, clock, phyRef, phyUp, configured >>
  /\ UNCHANGED << sip, stuck >>

(***************************************************************************)
(* Safety.                                                                 *)
(***************************************************************************)
PhyReady(s) ==
  CASE ver = "6" -> PhyOf(PortOf(s)) \in phyUp /\ PortOf(s) \in configured
    [] ver = "MTL" -> DwcPhys(s) \subseteq phyUp
    [] ver = "6SE" -> sip[PortOf(s) \div 2] = Lanes(s)

\* What a sensor sends is received: as long as it streams, its receiver has its
\* lanes and its clock, and the PHY in front is up and configured for its port,
\* whichever other sensors start, fail to start and stop meanwhile.  Excepted:
\* a port whose PHY once failed.  (ipu_isys_csi2_set_stream)
ReceivesWhatStreams ==
  \A s \in DOMAIN board :
    streaming[s] /\ PortOf(s) \notin stuck =>
      /\ rx[PortOf(s)] = Lanes(s) /\ PortOf(s) \in clock
      /\ PhyReady(s)

\* The power of a shared PHY is counted right: it has one reference for every
\* port behind it that receives, so that it goes down with the last of them and
\* not before.  (phy_power_ref_count, ipu6-isys-csi2.c)
PhyCountsPorts ==
  \A h \in Phy :
    /\ phyRef[h] = Cardinality({p \in Port \ stuck : ver = "6" /\ PhyOf(p) = h /\ rx[p] # 0})
    /\ ver = "6" => (h \in phyUp <=> phyRef[h] > 0)
=============================================================================
