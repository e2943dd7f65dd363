--------------------------- MODULE IsysCameraProofs ---------------------------
(***************************************************************************)
(* For any number of sensors, however wired, on each version of the        *)
(* hardware and whatever fails: what streams is received and as its users  *)
(* set it, PHYs are counted, and nobody is linked to receivers that are    *)
(* gone.                                                                   *)
(***************************************************************************)
EXTENDS IsysCamera, FiniteSetTheorems, TLAPS

\* No sensor binds while the PHY of its port is up.
BindsInTime == "lateBind" \notin Faults

(* Wiring *)

Wired == ver \in Versions /\ board \in Boards /\ WellWired(ver, board)

(* The input system *)

Parts == {"isysDebugfs", "qos", "msgs", "media", "v4l2", "csi2", "beSoc", "be", "links",
          "notifier", "nodes"}

\* Until the notifier there is no sensor, and before it there are the receivers.
Probing ==
  /\ step \in 1 .. 11
  /\ step > 5 => "v4l2" \in held
  /\ step > 6 => "csi2" \in held
  /\ step < 11 => "notifier" \notin held /\ bound = {}

\* The notifier lets go of the sensors before the receivers go.
Removing ==
  /\ step \in 1 .. 7
  /\ step <= 3 => {"csi2", "v4l2"} \subseteq held
  /\ step > 3 => "notifier" \notin held /\ bound = {}
  /\ step > 4 => held \cap {"csi2", "beSoc", "be", "links"} = {}
  /\ step > 5 => held \cap {"v4l2", "nodes"} = {}
  /\ step > 6 => "media" \notin held

LifeInv ==
  /\ isys \in {"waiting", "probing", "bound", "removing"}
  /\ held \subseteq Parts /\ linked \subseteq bound
  /\ driver \in [Sensor -> {"absent", "bound"}]
  /\ bound \subseteq {s \in Present : driver[s] = "bound"}
  /\ isys = "waiting" => held \subseteq LeftBehind /\ bound = {}
  /\ isys = "probing" => Probing
  /\ isys = "bound" => {"csi2", "v4l2"} \subseteq held
  /\ isys = "removing" => Removing

(* The streams *)

Receiving == {"receiving", "told", "started", "on", "stopping", "unwinding"}

\* Only bound sensors of a bound input system stream.
StreamInv ==
  /\ at \in [Sensor -> {"off", "prepared"} \cup Receiving]
  /\ \A s \in Present : at[s] # "off" => isys = "bound" /\ s \in linked

(* The sensors *)

CtrlType == [mode : DOMAIN Height, vblank : Int, exposure : Int, expMax : Int, gain : {0, 1},
             flip : {0, 1}]
RegType == [on : BOOLEAN, mode : Int, vts : Int, exposure : Int, gain : {0, 1}, flip : {0, 1}]

SensorTyped ==
  /\ usage \in [Sensor -> Nat] /\ streaming \in [Sensor -> BOOLEAN]
  /\ dirty \in [Sensor -> BOOLEAN]
  /\ ctrl \in [Sensor -> CtrlType] /\ reg \in [Sensor -> RegType]

\* The registers of s hold its settings, and its exposure is known to fit.
Settled(s) ==
  LET c == ctrl[s]
      r == reg[s] IN
  /\ r.mode = c.mode /\ r.vts = Height[c.mode] + c.vblank
  /\ r.exposure = c.exposure /\ r.gain = c.gain /\ r.flip = c.flip
  /\ c.expMax = Fitting(c.mode, c.vblank) /\ c.exposure <= c.expMax

OneSensor(s) ==
  /\ reg[s].on => streaming[s] /\ (dirty[s] \/ Settled(s))
  /\ streaming[s] => usage[s] > 0 /\ s \in Present /\ at[s] \in {"started", "on", "stopping"}

SensorInv == SensorTyped /\ \A s \in Sensor : OneSensor(s)

(* The receivers *)

InUsePort(p) == \E s \in Present : PortOf(s) = p /\ at[s] \in Receiving

PortInv(p) ==
  /\ streamCount[p] \in Nat
  /\ p \notin stuck => /\ streamCount[p] = IF InUsePort(p) THEN 1 ELSE 0
                       /\ ~ InUsePort(p) => rx[p] = 0
  /\ p \in stuck => streamCount[p] >= IF InUsePort(p) THEN 2 ELSE 1

\* What the receiver of s has while it is on; the MCD PHYs apart.
Served(s) ==
  /\ rx[PortOf(s)] = Lanes(s) /\ PortOf(s) \in clock
  /\ ver = "MTL" => DwcPhys(s) \subseteq phyUp
  /\ ver = "6SE" => sip[PortOf(s) \div 2] = Lanes(s)

ReceiverTyped ==
  /\ streamCount \in [Port -> Nat] /\ rx \in [Port -> {0, 1, 2, 4}]
  /\ phyRef \in [Phy -> Nat] /\ sip \in [Sip -> {0, 1, 2, 4}] /\ stuck \subseteq Port

ReceiverInv ==
  /\ ReceiverTyped
  /\ \A p \in Port : PortInv(p)
  /\ \A s \in Present : at[s] \in Receiving /\ PortOf(s) \notin stuck => Served(s)
  /\ PhyCountsPorts

\* A PHY that is up knows the sensors that are bound.
ConfiguredInv ==
  ver = "6" => \A s \in bound : phyRef[PhyOf(PortOf(s))] > 0 => PortOf(s) \in configured

(* The formats *)

PadsType == [rxIn : PadFormat, rxOut : PadFormat, in : PadFormat, out : PadFormat, crop : Rect]

\* The source of the raw back end is as large as its crop, with the order of the
\* colours at its corner.
GoodPads(s, p) ==
  /\ p \in PadsType
  /\ End(s) = "be" => /\ p.in.code \in Bayer
                      /\ p.out.w = p.crop.w /\ p.out.h = p.crop.h /\ p.crop.h <= p.in.h
                      /\ p.out.code = Shifted(p.in.code, p.crop)

\* Where a start that has succeeded goes on.
Started(s) == IF board[s].own THEN "on" ELSE "started"

\* The race that a node of another node's pipeline can lose.
NodeLate(s) == "node" \in touched[s] /\ ~ board[s].own

OneFormat(s) ==
  /\ GoodPads(s, pads[s])
  /\ told[s] # NotTold => at[s] \in {"told", "started", "on"} /\ (told[s] = node[s] \/ NodeLate(s))
  /\ at[s] # "off" /\ "pads" \notin touched[s] => Valid(s)

FormatsInv ==
  /\ pads \in [Sensor -> PadsType]
  /\ node \in [Sensor -> PadFormat] /\ told \in [Sensor -> PadFormat \cup {NotTold}]
  /\ touched \in [Sensor -> SUBSET {"pads", "node"}]
  /\ \A s \in Present : OneFormat(s)

IInv == Wired /\ LifeInv /\ StreamInv /\ SensorInv /\ ReceiverInv /\ FormatsInv

------------------------------------------------------------------------------
(* Wiring *)

LEMMA WiringKept == ASSUME Next PROVE ver' = ver /\ board' = board
<1>1. CASE IsysProbe
  BY <1>1 DEF IsysProbe
<1>2. CASE IsysStep \/ IsysStepFails \/ IsysRemoveStep
  BY <1>2 DEF IsysStep, IsysStepFails, IsysRemoveStep
<1>3. CASE IsysRemove
  BY <1>3 DEF IsysRemove, csi2Vars
<1>4. ASSUME NEW s \in Present, SensorComes(s) \/ SensorGoes(s)
      PROVE  ver' = ver /\ board' = board
  BY <1>4 DEF SensorComes, SensorGoes
<1>5. ASSUME NEW s \in Present, Suspends(s) \/ Sleeps(s) \/ SetControl(s) \/ SetFormat(s)
      PROVE  ver' = ver /\ board' = board
  BY <1>5 DEF Suspends, Sleeps, SetControl, SetFormat, csi2Vars
<1>6. ASSUME NEW s \in Present, Prepare(s) \/ FirmwareStarts(s) \/ SensorOn(s) \/ StartReturns(s) \/ FirmwareStops(s) \/ SensorOff(s)
      PROVE  ver' = ver /\ board' = board
  BY <1>6 DEF Prepare, FirmwareStarts, SensorOn, StartReturns, FirmwareStops, SensorOff, csi2Vars
<1>7. ASSUME NEW s \in Present, ReceiverStarts(s) \/ ReceiverStops(s)
      PROVE  ver' = ver /\ board' = board
  BY <1>7 DEF ReceiverStarts, ReceiverStops
<1> QED
  BY <1>1, <1>2, <1>3, <1>4, <1>5, <1>6, <1>7 DEF Next

LEMMA WiredHolds == Wired /\ [Next]_vars => Wired'
<1>1. ASSUME Wired, Next PROVE Wired'
  BY <1>1, WiringKept DEF Wired, WellWired, Lanes, PortOf
<1>2. ASSUME Wired, UNCHANGED vars PROVE Wired'
  BY <1>2 DEF Wired, vars, csi2Vars
<1> QED
  BY <1>1, <1>2

\* What a board promises.
LEMMA WireFacts ==
  ASSUME Wired
  PROVE  /\ Present \subseteq Sensor
         /\ \A s \in Present : /\ board[s] \in Wire /\ PortOf(s) \in Port /\ Lanes(s) \in {1, 2, 4}
                               /\ ver = "6SE" => PortOf(s) < 4
         /\ \A s, t \in Present : PortOf(s) = PortOf(t) => s = t
         /\ \A s, t \in Present : s # t =>
              /\ ver = "MTL" /\ Lanes(s) = 4 => PortOf(t) # PortOf(s) + 1
              /\ ver = "6SE" /\ PortOf(s) \div 2 = PortOf(t) \div 2 => Lanes(s) = Lanes(t)
<1>1. DOMAIN board \subseteq Sensor /\ Range(board) \subseteq Wire
  BY BoardAssumption DEF Wired
<1>2. \A s \in DOMAIN board : board[s] \in Wire
  BY <1>1 DEF Range
<1>3. \A s \in Present : PortOf(s) \in Port /\ Lanes(s) \in {1, 2, 4}
  BY <1>2 DEF Wire, PortOf, Lanes, Present
<1>4. \A s, t \in DOMAIN board : board[s].port = board[t].port => s = t
  BY DEF Wired, WellWired, IsInjective
<1>5. \A s, t \in DOMAIN board : s # t =>
        /\ ver = "MTL" /\ board[s].lanes = 4 => board[t].port # board[s].port + 1
        /\ ver = "6SE" /\ board[s].port \div 2 = board[t].port \div 2 =>
             board[s].lanes = board[t].lanes
  BY DEF Wired, WellWired
<1>6. ver = "6SE" => \A s \in DOMAIN board : board[s].port < 4
  BY DEF Wired, WellWired
<1> QED
  BY <1>1, <1>2, <1>3, <1>4, <1>5, <1>6 DEF PortOf, Lanes, Present

------------------------------------------------------------------------------
(* The input system *)

LEMMA LifeKept ==
  ASSUME LifeInv, board' = board, bound' = bound, driver' = driver, UNCHANGED life
  PROVE  LifeInv'
<1>1. isys' = isys /\ step' = step /\ held' = held /\ linked' = linked
  BY DEF life
<1> QED
  BY <1>1 DEF LifeInv, Probing, Removing, Present

\* The steps of a probe and of a removal, one by one.
LEMMA StepFacts ==
  /\ Len(IsysSteps) = 11 /\ Len(RemoveSteps) = 7
  /\ \A i \in 1 .. 11 : /\ IsysSteps[i] \in Parts
                        /\ IsysSteps[i] = "notifier" <=> i = 10
                        /\ IsysSteps[i] = "v4l2" <=> i = 5
                        /\ IsysSteps[i] = "csi2" <=> i = 6
                        /\ IsysSteps[i] \in NotFatal <=> i <= 3
  /\ \A i \in 1 .. 7 : RemoveSteps[i] = "notifier" <=> i = 3
  /\ RemoveSteps[4] = "subdevs" /\ RemoveSteps[5] = "v4l2" /\ RemoveSteps[6] = "media"
  /\ RemoveSteps[7] = "qos" /\ RemoveSteps[1] = "isysDebugfs" /\ RemoveSteps[2] = "msgs"
BY DEF IsysSteps, RemoveSteps, Parts, NotFatal

LEMMA LifeHolds ==
  ASSUME Wired, LifeInv, StreamInv, Next
  PROVE  LifeInv'
<1>0. board' = board /\ Present \subseteq Sensor
  BY WiringKept, WireFacts
<1>1. CASE IsysProbe
  BY <1>0, <1>1 DEF IsysProbe, sensorVars, LifeInv, Probing, LeftBehind, Present
<1>2. CASE IsysStep
  <2>1. isys = "probing" /\ Probing
    BY <1>2 DEF IsysStep, LifeInv
  <2> DEFINE s == IsysSteps[step]
  <2>2. /\ held' = held \cup {s}
        /\ isys' = IF step = 11 THEN "bound" ELSE isys
        /\ step' = IF step = 11 THEN step ELSE step + 1
        /\ IF s = "notifier" THEN BindAll ELSE bound' = bound /\ linked' = linked
        /\ driver' = driver
    BY <1>2, StepFacts DEF IsysStep, sensorVars
  <2>3. step \in 1 .. 11
    BY <2>1 DEF Probing
  <2>4. linked' \subseteq bound' /\ bound' \subseteq {r \in Present : driver[r] = "bound"} /\ (step < 10 => bound' = {})
    BY <2>1, <2>2, <2>3, StepFacts DEF BindAll, LifeInv, Probing, Present
  <2>5. held' \subseteq Parts
    BY <2>2, <2>3, StepFacts DEF LifeInv
  <2>6. CASE step = 11
    BY <1>0, <2>1, <2>2, <2>4, <2>5, <2>6 DEF LifeInv, Probing, Present
  <2>7. CASE step # 11
    <3>1. Probing'
      BY <2>1, <2>2, <2>3, <2>4, <2>7, StepFacts DEF Probing
    <3> QED
      BY <1>0, <2>1, <2>2, <2>4, <2>5, <2>7, <3>1 DEF LifeInv, Present
  <2> QED
    BY <2>6, <2>7
<1>3. CASE IsysStepFails
  <2>1. isys = "probing" /\ Probing
    BY <1>3 DEF IsysStepFails, sensorVars, LifeInv
  <2>2. step \in 1 .. 11
    BY <2>1 DEF Probing
  <2>3. CASE IsysSteps[step] \in NotFatal
    BY <1>0, <1>3, <2>1, <2>2, <2>3, StepFacts DEF IsysStepFails, sensorVars, LifeInv, Probing, Present
  <2>4. CASE IsysSteps[step] \notin NotFatal
    BY <1>0, <1>3, <2>1, <2>4 DEF IsysStepFails, sensorVars, LifeInv, Present, Unwound, LeftBehind
  <2> QED
    BY <2>3, <2>4
<1>4. CASE IsysRemove
  BY <1>0, <1>4 DEF IsysRemove, LifeInv, Removing, Present, csi2Vars, sensorVars
<1>5. CASE IsysRemoveStep
  <2>1. isys = "removing" /\ Removing
    BY <1>5 DEF IsysRemoveStep, LifeInv
  <2>2. step \in 1 .. 7
    BY <2>1 DEF Removing
  <2> DEFINE s == RemoveSteps[step]
  <2>3. /\ held' = held \ RemoveTakes(s)
        /\ bound' = IF step = 3 THEN {} ELSE bound
        /\ linked' = IF step = 3 THEN {} ELSE linked
        /\ isys' = IF step = 7 THEN "waiting" ELSE isys
        /\ step' = IF step = 7 THEN step ELSE step + 1
        /\ driver' = driver
    BY <1>5, <2>2, StepFacts DEF IsysRemoveStep, sensorVars
  <2>4. held' \subseteq Parts /\ linked' \subseteq bound' /\ bound' \subseteq {r \in Present : driver[r] = "bound"}
    BY <2>3 DEF LifeInv
  <2>5. CASE step <= 2
    BY <1>0, <2>1, <2>2, <2>3, <2>4, <2>5, StepFacts DEF LifeInv, Removing, RemoveTakes, Present
  <2>6. CASE step \in 3 .. 6
    BY <1>0, <2>1, <2>2, <2>3, <2>4, <2>6, StepFacts DEF LifeInv, Removing, RemoveTakes, Present
  <2>7. CASE step = 7
    BY <1>0, <2>1, <2>2, <2>3, <2>4, <2>7, StepFacts
       DEF LifeInv, Removing, RemoveTakes, Present, Parts, LeftBehind
  <2> QED
    BY <2>2, <2>5, <2>6, <2>7
<1>6. ASSUME NEW s \in Present, SensorComes(s) PROVE LifeInv'
  BY <1>0, <1>6 DEF SensorComes, SensorProbe, LifeInv, Probing, Removing, Present, LeftBehind
<1>7. ASSUME NEW s \in Present, SensorGoes(s) PROVE LifeInv'
  BY <1>0, <1>7 DEF SensorGoes, SensorRemove, LifeInv, Probing, Removing, Present
<1>8. ASSUME NEW s \in Present,
             Suspends(s) \/ Sleeps(s) \/ SetControl(s) \/ SetFormat(s)
             \/ Prepare(s) \/ FirmwareStarts(s) \/ SensorOn(s) \/ StartReturns(s) \/ FirmwareStops(s) \/ SensorOff(s)
      PROVE  LifeInv'
  <2>1. bound' = bound /\ UNCHANGED life
    BY <1>8 DEF Suspends, Sleeps, SetControl, SetFormat, Prepare, FirmwareStarts, SensorOn,
       StartReturns, FirmwareStops, SensorOff, csi2Vars
  <2>2. driver' = driver
    BY <1>8 DEF Suspends, Sleeps, SetControl, SetFormat, Prepare, FirmwareStarts, SensorOn,
       StartReturns, FirmwareStops, SensorOff, sensorVars, SensorSuspends, SensorSleeps, Controls, SensorSetFmt,
       SensorStarts, SensorStartFails, SensorStops
  <2> QED
    BY <1>0, <2>1, <2>2, LifeKept
<1>9. ASSUME NEW s \in Present, ReceiverStarts(s) \/ ReceiverStops(s) PROVE LifeInv'
  <2>1. bound' = bound /\ driver' = driver /\ UNCHANGED life
    BY <1>9 DEF ReceiverStarts, ReceiverStops, sensorVars
  <2> QED
    BY <1>0, <2>1, LifeKept
<1> QED
  BY <1>1, <1>2, <1>3, <1>4, <1>5, <1>6, <1>7, <1>8, <1>9 DEF Next

(* Streams *)

LEMMA StreamsHold ==
  ASSUME Wired, LifeInv, StreamInv, Next
  PROVE  StreamInv'
<1>0. board' = board /\ Present \subseteq Sensor
  BY WiringKept, WireFacts
<1>1. ASSUME at' = at, isys # "bound"
      PROVE  StreamInv'
  BY <1>0, <1>1 DEF StreamInv, Present
<1>2. ASSUME at' = at, isys' = isys, linked \subseteq linked'
      PROVE  StreamInv'
  BY <1>0, <1>2 DEF StreamInv, Present
<1>3. CASE IsysProbe \/ IsysStep \/ IsysStepFails \/ IsysRemoveStep
  BY <1>1, <1>3 DEF IsysProbe, IsysStep, IsysStepFails, IsysRemoveStep
<1>4. CASE IsysRemove
  BY <1>0, <1>4 DEF IsysRemove, StreamInv, Present
<1>5. ASSUME NEW s \in Present, SensorComes(s) PROVE StreamInv'
  BY <1>2, <1>5 DEF SensorComes
<1>6. ASSUME NEW s \in Present, SensorGoes(s) PROVE StreamInv'
  BY <1>0, <1>6 DEF SensorGoes, StreamInv, Present
<1>7. ASSUME NEW s \in Present, Suspends(s) \/ Sleeps(s) \/ SetControl(s) \/ SetFormat(s)
      PROVE  StreamInv'
  BY <1>2, <1>7 DEF Suspends, Sleeps, SetControl, SetFormat, life
<1>8. ASSUME NEW s \in Present, NEW a, NEW b \in {"off", "prepared"} \cup Receiving, Moves(s, a, b),
             UNCHANGED life, Usable(s) \/ a # "off"
      PROVE  StreamInv'
  <2>1. isys' = isys /\ linked' = linked
    BY <1>8 DEF life
  <2>2. isys = "bound" /\ s \in linked
    BY <1>8 DEF Usable, Moves, StreamInv
  <2> QED
    BY <1>0, <1>8, <2>1, <2>2 DEF StreamInv, Present, Moves
<1>9. ASSUME NEW s \in Present, Prepare(s) PROVE StreamInv'
  <2>1. CASE Moves(s, "off", "prepared")
    BY <1>8, <1>9, <2>1 DEF Prepare
  <2>2. CASE at' = at
    BY <1>2, <1>9, <2>2 DEF Prepare, life
  <2> QED
    BY <1>9, <2>1, <2>2 DEF Prepare
<1>10. ASSUME NEW s \in Present,
              ReceiverStarts(s) \/ FirmwareStarts(s) \/ SensorOn(s) \/ StartReturns(s) \/ FirmwareStops(s)
              \/ SensorOff(s) \/ ReceiverStops(s)
       PROVE  StreamInv'
  <2>1. PICK a \in {"prepared"} \cup Receiving, b \in {"off"} \cup Receiving : Moves(s, a, b)
    BY <1>10 DEF ReceiverStarts, FirmwareStarts, SensorOn, StartReturns, FirmwareStops, SensorOff, ReceiverStops,
       Receiving
  <2>2. UNCHANGED life
    BY <1>10 DEF ReceiverStarts, FirmwareStarts, SensorOn, StartReturns, FirmwareStops, SensorOff, ReceiverStops
  <2> QED
    BY <1>8, <2>1, <2>2 DEF Receiving
<1> QED
  BY <1>3, <1>4, <1>5, <1>6, <1>7, <1>9, <1>10 DEF Next

------------------------------------------------------------------------------
(* The sensors *)

LEMMA ModeFacts ==
  /\ DOMAIN Height = 1 .. 6
  /\ \A m \in 1 .. 6 : Height[m] \in Int /\ VtsDef[m] \in Int
BY DEF Height, VtsDef

LEMMA RangedFacts ==
  ASSUME NEW c \in CtrlType
  PROVE  /\ Ranged(c) \in CtrlType
         /\ Ranged(c).mode = c.mode /\ Ranged(c).vblank = c.vblank
         /\ Ranged(c).gain = c.gain /\ Ranged(c).flip = c.flip
         /\ Ranged(c).expMax = Fitting(c.mode, c.vblank)
         /\ Ranged(c).exposure <= Ranged(c).expMax
<1>1. Fitting(c.mode, c.vblank) \in Int
  BY ModeFacts DEF CtrlType, Fitting
<1> DEFINE m == Fitting(c.mode, c.vblank)
<1> DEFINE e == IF c.exposure > m THEN m ELSE c.exposure
<1>2. Ranged(c) = [c EXCEPT !.expMax = m, !.exposure = e]
  BY DEF Ranged
<1>3. m \in Int /\ e \in Int /\ e <= m
  BY <1>1 DEF CtrlType
<1> HIDE DEF m, e
<1>4. /\ Ranged(c) \in CtrlType
      /\ Ranged(c).mode = c.mode /\ Ranged(c).vblank = c.vblank
      /\ Ranged(c).gain = c.gain /\ Ranged(c).flip = c.flip
      /\ Ranged(c).expMax = m /\ Ranged(c).exposure = e
  BY <1>2, <1>3 DEF CtrlType
<1> QED
  BY <1>3, <1>4 DEF m

LEMMA WrittenFacts ==
  ASSUME NEW c \in CtrlType, NEW r \in RegType
  PROVE  LET w == Written(r, c) IN
         /\ w \in RegType /\ w.on = r.on /\ w.mode = r.mode
         /\ w.vts = Height[c.mode] + c.vblank
         /\ w.exposure = c.exposure /\ w.gain = c.gain /\ w.flip = c.flip
<1>1. Height[c.mode] + c.vblank \in Int
  BY ModeFacts DEF CtrlType
<1> QED
  BY <1>1 DEF CtrlType, RegType, Written

LEMMA DefaultsTyped == DefaultCtrl \in CtrlType /\ Standby \in RegType /\ ~ Standby.on
<1>1. Standby \in RegType /\ ~ Standby.on
  BY DEF Standby, RegType
<1>2. VblankDef(1) \in Int /\ VtsDef[1] - 8 \in Int /\ 1 \in DOMAIN Height
  BY ModeFacts DEF VblankDef
<1>3. DefaultCtrl \in CtrlType
  BY <1>2 DEF DefaultCtrl, CtrlType, ExposureDefault
<1> QED
  BY <1>1, <1>3

\* A call of sensor s says nothing about the others.
LEMMA OneSensorMoves ==
  ASSUME Wired, SensorInv, board' = board, NEW s \in Sensor, SensorTyped', OneSensor(s)',
         \A r \in Sensor \ {s} :
           /\ usage'[r] = usage[r] /\ streaming'[r] = streaming[r] /\ dirty'[r] = dirty[r]
           /\ ctrl'[r] = ctrl[r] /\ reg'[r] = reg[r] /\ at'[r] = at[r]
  PROVE  SensorInv'
<1>1. ASSUME NEW r \in Sensor \ {s} PROVE OneSensor(r)'
  <2>1. OneSensor(r)
    BY DEF SensorInv
  <2> QED
    BY <2>1 DEF OneSensor, Settled, Fitting, Present
<1> QED
  BY <1>1 DEF SensorInv

\* Sensors that stream go on as long as their streams do.
LEMMA SensorsRest ==
  ASSUME Wired, SensorInv, board' = board, UNCHANGED sensorVars,
         \A s \in Sensor : streaming[s] => at'[s] \in {"started", "on", "stopping"}
  PROVE  SensorInv'
<1>1. /\ usage' = usage /\ streaming' = streaming /\ dirty' = dirty /\ ctrl' = ctrl /\ reg' = reg
  BY DEF sensorVars
<1>2. SensorTyped'
  BY <1>1 DEF SensorTyped, SensorInv
<1>3. ASSUME NEW s \in Sensor PROVE OneSensor(s)'
  <2>1. OneSensor(s)
    BY DEF SensorInv
  <2> QED
    BY <1>1, <2>1 DEF OneSensor, Settled, Fitting, Present
<1> QED
  BY <1>2, <1>3 DEF SensorInv

\* A control gets a value that fits, and reaches the registers of a sensor in use;
\* or it does not and the registers are not to be trusted.
LEMMA ControlSet ==
  ASSUME Wired, SensorInv, board' = board, at' = at, NEW s \in Sensor, NEW c \in CtrlType,
         c.mode = ctrl[s].mode, c.flip = ctrl[s].flip,
         UNCHANGED << driver, usage, powered, identified, streaming >>,
         ctrl[s].expMax = Fitting(ctrl[s].mode, ctrl[s].vblank) /\ ctrl[s].exposure <= ctrl[s].expMax
           => c.expMax = Fitting(c.mode, c.vblank) /\ c.exposure <= c.expMax,
         Apply(s, c)
  PROVE  SensorInv'
<1>1. /\ ctrl' = [ctrl EXCEPT ![s] = c] /\ dirty' = dirty
      /\ usage' = usage /\ streaming' = streaming
  BY DEF Apply
<1> DEFINE d == [c EXCEPT !.flip = reg[s].flip]
<1>2. /\ ctrl \in [Sensor -> CtrlType] /\ reg \in [Sensor -> RegType] /\ OneSensor(s)
      /\ usage \in [Sensor -> Nat] /\ streaming \in [Sensor -> BOOLEAN] /\ dirty \in [Sensor -> BOOLEAN]
  BY DEF SensorInv, SensorTyped
<1>3. /\ d \in CtrlType /\ d.mode = c.mode /\ d.vblank = c.vblank
      /\ d.exposure = c.exposure /\ d.gain = c.gain /\ d.flip = reg[s].flip
  BY <1>2 DEF CtrlType, RegType
<1> DEFINE w == Written(reg[s], d)
<1>4. /\ w \in RegType /\ w.on = reg[s].on /\ w.mode = reg[s].mode
      /\ w.vts = Height[c.mode] + c.vblank
      /\ w.exposure = c.exposure /\ w.gain = c.gain /\ w.flip = reg[s].flip
  <2> HIDE DEF d
  <2> QED
    BY <1>2, <1>3, WrittenFacts
<1>5. reg' = IF usage[s] > 0 THEN [reg EXCEPT ![s] = w] ELSE reg
  BY <1>2 DEF Apply, InUse
<1> HIDE DEF w
<1>6. SensorTyped'
  BY <1>1, <1>2, <1>4, <1>5 DEF SensorTyped
<1>7. OneSensor(s)'
  <2>1. CASE usage[s] > 0 /\ reg[s].on /\ ~ dirty[s]
    <3>1. Settled(s) /\ streaming[s]
      BY <1>2, <2>1 DEF OneSensor
    <3>2. ctrl'[s] = c /\ reg'[s] = w
      BY <1>1, <1>2, <1>5, <2>1
    <3>3. Settled(s)'
      BY <1>4, <3>1, <3>2 DEF Settled, Fitting
    <3> QED
      BY <1>1, <1>2, <3>1, <3>3 DEF OneSensor, Present
  <2>2. CASE ~ (usage[s] > 0 /\ reg[s].on /\ ~ dirty[s])
    <3>1. reg'[s].on = reg[s].on
      BY <1>2, <1>4, <1>5
    <3> QED
      BY <1>1, <1>2, <2>2, <3>1 DEF OneSensor, Present
  <2> QED
    BY <2>1, <2>2
<1>8. \A r \in Sensor \ {s} :
        /\ usage'[r] = usage[r] /\ streaming'[r] = streaming[r] /\ dirty'[r] = dirty[r]
        /\ ctrl'[r] = ctrl[r] /\ reg'[r] = reg[r] /\ at'[r] = at[r]
  BY <1>1, <1>2, <1>5
<1> QED
  BY <1>6, <1>7, <1>8, OneSensorMoves

LEMMA ControlFails ==
  ASSUME Wired, SensorInv, board' = board, at' = at, NEW s \in Sensor, NEW c \in CtrlType,
         UNCHANGED << driver, usage, powered, identified, streaming, reg >>,
         ctrl' = [ctrl EXCEPT ![s] = c],
         InUse(s) => dirty' = [dirty EXCEPT ![s] = TRUE],
         ~ InUse(s) => dirty' = dirty
  PROVE  SensorInv'
<1>1. usage' = usage /\ streaming' = streaming /\ reg' = reg
  OBVIOUS
<1>2. /\ ctrl \in [Sensor -> CtrlType] /\ reg \in [Sensor -> RegType] /\ OneSensor(s)
      /\ usage \in [Sensor -> Nat] /\ streaming \in [Sensor -> BOOLEAN] /\ dirty \in [Sensor -> BOOLEAN]
  BY DEF SensorInv, SensorTyped
<1>3. SensorTyped'
  BY <1>1, <1>2 DEF SensorTyped
<1>4. OneSensor(s)'
  BY <1>1, <1>2 DEF OneSensor, Present, InUse
<1>5. \A r \in Sensor \ {s} :
        /\ usage'[r] = usage[r] /\ streaming'[r] = streaming[r] /\ dirty'[r] = dirty[r]
        /\ ctrl'[r] = ctrl[r] /\ reg'[r] = reg[r] /\ at'[r] = at[r]
  BY <1>1, <1>2
<1> QED
  BY <1>3, <1>4, <1>5, OneSensorMoves

LEMMA ControlsHold ==
  ASSUME Wired, SensorInv, board' = board, at' = at, NEW s \in Sensor, Controls(s)
  PROVE  SensorInv'
<1> DEFINE old == ctrl[s]
<1>1. old \in CtrlType /\ ctrl \in [Sensor -> CtrlType]
  BY DEF SensorInv, SensorTyped
<1>2. UNCHANGED << driver, usage, powered, identified, streaming >>
  BY DEF Controls
<1>3. ASSUME NEW c \in CtrlType, ApplyFails(s, {c}) PROVE SensorInv'
  BY <1>2, <1>3, ControlFails DEF ApplyFails
<1>4. ASSUME NEW v \in Int, SetVblank(s, v) PROVE SensorInv'
  <2> DEFINE w == [old EXCEPT !.vblank = v]
  <2> DEFINE new == Ranged(w)
  <2> DEFINE f1 == [new EXCEPT !.vblank = old.vblank]
  <2> DEFINE f2 == [new EXCEPT !.vblank = old.vblank, !.exposure = old.exposure]
  <2>1. w \in CtrlType /\ w.mode = old.mode /\ w.flip = old.flip
    BY <1>1 DEF CtrlType
  <2>2. /\ new \in CtrlType /\ new.mode = old.mode /\ new.flip = old.flip
        /\ new.expMax = Fitting(new.mode, new.vblank) /\ new.exposure <= new.expMax
    <3> HIDE DEF w
    <3> QED
      BY <2>1, RangedFacts
  <2>3. Apply(s, new) \/ ApplyFails(s, {f1, f2})
    BY <1>4 DEF SetVblank
  <2>4. CASE Apply(s, new)
    <3> HIDE DEF new
    <3> QED
      BY <1>2, <2>2, <2>4, ControlSet
  <2>5. CASE ApplyFails(s, {f1, f2})
    <3>1. f1 \in CtrlType /\ f2 \in CtrlType
      <4> HIDE DEF new
      <4> QED
        BY <1>1, <2>2 DEF CtrlType
    <3> HIDE DEF f1, f2
    <3>2. PICK c \in {f1, f2} : ctrl' = [ctrl EXCEPT ![s] = c]
      BY <2>5 DEF ApplyFails
    <3>3. InUse(s) /\ dirty' = [dirty EXCEPT ![s] = TRUE] /\ reg' = reg
      BY <2>5 DEF ApplyFails
    <3> QED
      BY <1>2, <3>1, <3>2, <3>3, ControlFails
  <2> QED
    BY <2>3, <2>4, <2>5
<1>5. ASSUME NEW v \in Int, SetExposure(s, v) PROVE SensorInv'
  <2> DEFINE c == [old EXCEPT !.exposure = v]
  <2>1. /\ c \in CtrlType /\ c.mode = old.mode /\ c.vblank = old.vblank /\ c.flip = old.flip
        /\ c.expMax = old.expMax /\ c.exposure = v
    BY <1>1 DEF CtrlType
  <2>2. v <= old.expMax
    BY <1>1, <1>5 DEF SetExposure, CtrlType, ExposureMin
  <2>3. Apply(s, c) \/ ApplyFails(s, {old})
    BY <1>5 DEF SetExposure
  <2>4. CASE Apply(s, c)
    <3> HIDE DEF c
    <3> QED
      BY <1>2, <2>1, <2>2, <2>4, ControlSet
  <2> QED
    BY <1>1, <1>3, <2>3, <2>4
<1>6. ASSUME NEW v \in {0, 1}, SetGain(s, v) PROVE SensorInv'
  <2> DEFINE c == [old EXCEPT !.gain = v]
  <2>1. /\ c \in CtrlType /\ c.mode = old.mode /\ c.vblank = old.vblank /\ c.flip = old.flip
        /\ c.expMax = old.expMax /\ c.exposure = old.exposure
    BY <1>1 DEF CtrlType
  <2>3. Apply(s, c) \/ ApplyFails(s, {old})
    BY <1>6 DEF SetGain
  <2>4. CASE Apply(s, c)
    <3> HIDE DEF c
    <3> QED
      BY <1>2, <2>1, <2>4, ControlSet
  <2> QED
    BY <1>1, <1>3, <2>3, <2>4
<1>7. ASSUME NEW v \in {0, 1}, SetFlip(s, v) PROVE SensorInv'
  <2> DEFINE c == [old EXCEPT !.flip = v]
  <2>1. c \in CtrlType /\ ctrl' = [ctrl EXCEPT ![s] = c]
    BY <1>1, <1>7 DEF SetFlip, CtrlType
  <2>2. /\ c.mode = old.mode /\ c.vblank = old.vblank /\ c.expMax = old.expMax
        /\ c.exposure = old.exposure /\ c.gain = old.gain /\ c.flip = v
    BY <1>1 DEF CtrlType
  <2>3. PICK done \in BOOLEAN :
          /\ reg' = IF InUse(s) /\ done /\ v = 1 THEN [reg EXCEPT ![s].flip = 1] ELSE reg
          /\ dirty' = IF InUse(s) /\ (~done \/ v = 0) THEN [dirty EXCEPT ![s] = TRUE] ELSE dirty
    BY <1>7 DEF SetFlip
  <2>4. CASE ~ (InUse(s) /\ done /\ v = 1)
    <3>1. reg' = reg
      BY <2>3, <2>4
    <3>2. InUse(s) => dirty' = [dirty EXCEPT ![s] = TRUE]
      BY <2>3, <2>4
    <3>3. ~ InUse(s) => dirty' = dirty
      BY <2>3
    <3> HIDE DEF c
    <3> QED
      BY <1>2, <2>1, <3>1, <3>2, <3>3, ControlFails
  <2>5. CASE InUse(s) /\ done /\ v = 1
    <3> DEFINE r == [reg[s] EXCEPT !.flip = 1]
    <3>1. /\ reg' = [reg EXCEPT ![s] = r] /\ dirty' = dirty
          /\ usage' = usage /\ streaming' = streaming
      BY <1>2, <2>3, <2>5
    <3>2. /\ reg \in [Sensor -> RegType] /\ OneSensor(s)
          /\ usage \in [Sensor -> Nat] /\ streaming \in [Sensor -> BOOLEAN]
          /\ dirty \in [Sensor -> BOOLEAN]
      BY DEF SensorInv, SensorTyped
    <3>3. /\ r \in RegType /\ r.on = reg[s].on /\ r.mode = reg[s].mode /\ r.vts = reg[s].vts
          /\ r.exposure = reg[s].exposure /\ r.gain = reg[s].gain /\ r.flip = 1
      BY <3>2 DEF RegType
    <3> HIDE DEF r, c
    <3>4. SensorTyped'
      BY <1>1, <2>1, <3>1, <3>2, <3>3 DEF SensorTyped
    <3>5. OneSensor(s)'
      <4>1. ctrl'[s] = c /\ reg'[s] = r
        BY <1>1, <2>1, <3>1, <3>2
      <4>2. Settled(s) => Settled(s)'
        BY <2>2, <2>5, <3>3, <4>1 DEF Settled, Fitting
      <4> QED
        BY <3>1, <3>2, <3>3, <4>1, <4>2 DEF OneSensor, Present
    <3>6. \A q \in Sensor \ {s} :
            /\ usage'[q] = usage[q] /\ streaming'[q] = streaming[q] /\ dirty'[q] = dirty[q]
            /\ ctrl'[q] = ctrl[q] /\ reg'[q] = reg[q] /\ at'[q] = at[q]
      BY <1>1, <2>1, <3>1, <3>2
    <3> QED
      BY <3>4, <3>5, <3>6, OneSensorMoves
  <2> QED
    BY <2>4, <2>5
<1>8. \A m \in Mode : VblankDef(m) \in Int
  BY SensorAssumption, ModeFacts DEF VblankDef
<1>9. VblankMax(old.mode) \in Int /\ ExposureMin \in Int /\ old.expMax \in Int
  BY <1>1, ModeFacts DEF VblankMax, VtsMax, ExposureMin, CtrlType
<1> QED
  BY <1>4, <1>5, <1>6, <1>7, <1>8, <1>9 DEF Controls

LEMMA SetFmtHolds ==
  ASSUME Wired, SensorInv, board' = board, at' = at, NEW s \in Sensor, SensorSetFmt(s)
  PROVE  SensorInv'
<1>1. ctrl[s] \in CtrlType
  BY DEF SensorInv, SensorTyped
<1>2. UNCHANGED << driver, usage, powered, identified, streaming >>
  BY DEF SensorSetFmt
<1>3. PICK m \in Mode : SetMode(s, m)
  BY DEF SensorSetFmt
<1> DEFINE moved == [ctrl[s] EXCEPT !.mode = m]
<1> DEFINE w == [moved EXCEPT !.vblank = VblankDef(m)]
<1>4. moved \in CtrlType
  BY <1>1, SensorAssumption DEF CtrlType
<1>5. w \in CtrlType
  <2>1. VblankDef(m) \in Int
    BY SensorAssumption, ModeFacts DEF VblankDef
  <2> HIDE DEF moved
  <2> QED
    BY <1>4, <2>1 DEF CtrlType
<1>6. Ranged(w) \in CtrlType
  <2> HIDE DEF w
  <2> QED
    BY <1>5, RangedFacts
<1>7. PICK c \in {moved, Ranged(w)} : ctrl' = [ctrl EXCEPT ![s] = c]
  BY <1>3 DEF SetMode
<1>8. reg' = reg /\ dirty' = IF InUse(s) THEN [dirty EXCEPT ![s] = TRUE] ELSE dirty
  BY <1>3 DEF SetMode
<1> HIDE DEF moved, w
<1> QED
  BY <1>2, <1>4, <1>6, <1>7, <1>8, ControlFails

\* What a start writes, and what the registers are then.
LEMMA StartFacts ==
  ASSUME SensorTyped, NEW s \in Sensor, StartRegisters(s)
  PROVE  /\ ctrl' \in [Sensor -> CtrlType] /\ reg' \in [Sensor -> RegType]
         /\ dirty' \in [Sensor -> BOOLEAN] /\ Settled(s)'
         /\ \A r \in Sensor \ {s} : ctrl'[r] = ctrl[r] /\ reg'[r] = reg[r] /\ dirty'[r] = dirty[r]
<1> DEFINE c == Ranged(ctrl[s])
<1>1. /\ c \in CtrlType
      /\ c.expMax = Fitting(c.mode, c.vblank) /\ c.exposure <= c.expMax
  BY RangedFacts DEF SensorTyped
<1> DEFINE w == Written(Standby, c)
<1> DEFINE r == [w EXCEPT !.on = TRUE, !.mode = c.mode]
<1>2. /\ ctrl' = [ctrl EXCEPT ![s] = c] /\ reg' = [reg EXCEPT ![s] = r]
      /\ dirty' = [dirty EXCEPT ![s] = FALSE]
  BY DEF StartRegisters
<1> HIDE DEF c
<1>3. /\ w \in RegType /\ w.vts = Height[c.mode] + c.vblank
      /\ w.exposure = c.exposure /\ w.gain = c.gain /\ w.flip = c.flip
  BY <1>1, WrittenFacts, DefaultsTyped
<1> HIDE DEF w
<1>4. /\ r \in RegType /\ r.mode = c.mode /\ r.vts = Height[c.mode] + c.vblank
      /\ r.exposure = c.exposure /\ r.gain = c.gain /\ r.flip = c.flip
  <2>1. c.mode \in Int
    BY <1>1, ModeFacts DEF CtrlType
  <2>2. r \in RegType /\ r.mode = c.mode /\ r.vts = w.vts /\ r.exposure = w.exposure
        /\ r.gain = w.gain /\ r.flip = w.flip
    BY <1>3, <2>1 DEF RegType
  <2> QED
    BY <1>3, <2>2
<1> HIDE DEF r
<1>5. ctrl'[s] = c /\ reg'[s] = r
  BY <1>2 DEF SensorTyped
<1>6. Settled(s)'
  BY <1>1, <1>4, <1>5 DEF Settled, Fitting
<1> QED
  BY <1>1, <1>2, <1>4, <1>6 DEF SensorTyped

LEMMA StartFailsFacts ==
  ASSUME SensorTyped, NEW s \in Sensor, StartFails(s)
  PROVE  /\ ctrl' \in [Sensor -> CtrlType] /\ reg' \in [Sensor -> RegType] /\ dirty' = dirty
         /\ ~ reg'[s].on
         /\ \A r \in Sensor \ {s} : ctrl'[r] = ctrl[r] /\ reg'[r] = reg[r]
<1>1. ctrl[s] \in CtrlType /\ Ranged(ctrl[s]) \in CtrlType
  BY RangedFacts DEF SensorTyped
<1>2. PICK c \in {ctrl[s], Ranged(ctrl[s])} : ctrl' = [ctrl EXCEPT ![s] = c]
  BY DEF StartFails
<1>3. c \in CtrlType
  BY <1>1, <1>2
<1>4. reg' = [reg EXCEPT ![s] = Standby] /\ dirty' = dirty
  BY DEF StartFails
<1> QED
  BY <1>2, <1>3, <1>4, DefaultsTyped DEF SensorTyped

\* The calls that streams, runtime PM and the driver core make.
LEMMA SensorCallsHold ==
  ASSUME Wired, LifeInv, StreamInv, SensorInv, board' = board, NEW s \in Present, s \in Sensor,
         \/ SensorStarts(s) /\ Moves(s, "told", Started(s))
         \/ SensorStartFails(s) /\ Moves(s, "told", "unwinding")
         \/ SensorStops(s) /\ Moves(s, "stopping", "unwinding")
         \/ (SensorSuspends(s) \/ SensorSleeps(s)) /\ at' = at
         \/ SensorProbe(s) /\ at' = at
         \/ SensorRemove(s) /\ at[s] = "off" /\ at' = at
  PROVE  SensorInv'
<1>1. /\ SensorTyped /\ OneSensor(s)
      /\ usage \in [Sensor -> Nat] /\ streaming \in [Sensor -> BOOLEAN]
      /\ dirty \in [Sensor -> BOOLEAN]
      /\ ctrl \in [Sensor -> CtrlType] /\ reg \in [Sensor -> RegType]
  BY DEF SensorInv, SensorTyped
<1>2. Standby \in RegType /\ ~ Standby.on /\ DefaultCtrl \in CtrlType
  BY DefaultsTyped
<1>3. at \in [Sensor -> {"off", "prepared"} \cup Receiving]
  BY DEF StreamInv
<1>4. CASE SensorStarts(s) /\ Moves(s, "told", Started(s))
  <2>1. /\ usage' = [usage EXCEPT ![s] = @ + 1] /\ streaming' = [streaming EXCEPT ![s] = TRUE]
        /\ StartRegisters(s) /\ at' = [at EXCEPT ![s] = Started(s)]
    BY <1>4 DEF SensorStarts, Moves
  <2>2. SensorTyped'
    BY <1>1, <2>1, StartFacts DEF SensorTyped
  <2>3. OneSensor(s)'
    <3>1. Settled(s)'
      BY <1>1, <2>1, StartFacts
    <3>2. usage'[s] > 0 /\ streaming'[s] /\ at'[s] \in {"started", "on"} /\ s \in Present'
      BY <1>1, <1>3, <2>1 DEF Present, Started
    <3> QED
      BY <3>1, <3>2 DEF OneSensor
  <2>4. \A r \in Sensor \ {s} :
          /\ usage'[r] = usage[r] /\ streaming'[r] = streaming[r] /\ dirty'[r] = dirty[r]
          /\ ctrl'[r] = ctrl[r] /\ reg'[r] = reg[r] /\ at'[r] = at[r]
    BY <1>1, <1>3, <2>1, StartFacts
  <2> QED
    BY <2>2, <2>3, <2>4, OneSensorMoves
<1>5. CASE SensorStartFails(s) /\ Moves(s, "told", "unwinding")
  <2>1. ~ streaming[s]
    BY <1>1, <1>5 DEF OneSensor, Moves
  <2>2. CASE UNCHANGED sensorVars
    BY <1>1, <1>3, <1>5, <2>1, <2>2, SensorsRest DEF SensorInv, OneSensor, Moves
  <2>3. CASE StartFails(s) /\ UNCHANGED << driver, usage, streaming >>
    <3>1. /\ usage' = usage /\ streaming' = streaming /\ StartFails(s)
          /\ at' = [at EXCEPT ![s] = "unwinding"]
      BY <1>5, <2>3 DEF Moves
    <3>2. SensorTyped'
      BY <1>1, <3>1, StartFailsFacts DEF SensorTyped
    <3>3. OneSensor(s)'
      BY <1>1, <2>1, <3>1, StartFailsFacts DEF OneSensor
    <3>4. \A r \in Sensor \ {s} :
            /\ usage'[r] = usage[r] /\ streaming'[r] = streaming[r] /\ dirty'[r] = dirty[r]
            /\ ctrl'[r] = ctrl[r] /\ reg'[r] = reg[r] /\ at'[r] = at[r]
      BY <1>1, <1>3, <3>1, StartFailsFacts
    <3> QED
      BY <3>2, <3>3, <3>4, OneSensorMoves
  <2> QED
    BY <1>5, <2>2, <2>3 DEF SensorStartFails
<1>6. CASE SensorStops(s) /\ Moves(s, "stopping", "unwinding")
  <2>1. CASE ~ streaming[s]
    <3>1. UNCHANGED sensorVars
      BY <1>6, <2>1 DEF SensorStops
    <3> QED
      BY <1>1, <1>3, <1>6, <2>1, <3>1, SensorsRest DEF SensorInv, OneSensor, Moves
  <2>2. CASE streaming[s]
    <3> DEFINE off == [reg[s] EXCEPT !.on = FALSE]
    <3>1. /\ usage' = [usage EXCEPT ![s] = @ - 1] /\ streaming' = [streaming EXCEPT ![s] = FALSE]
          /\ reg' = [reg EXCEPT ![s] = off] /\ ctrl' = ctrl /\ dirty' = dirty
          /\ at' = [at EXCEPT ![s] = "unwinding"]
      BY <1>6, <2>2 DEF SensorStops, Moves
    <3>2. off \in RegType /\ ~ off.on
      BY <1>1 DEF RegType
    <3> HIDE DEF off
    <3>3. usage[s] > 0
      BY <1>1, <2>2 DEF OneSensor
    <3>4. SensorTyped'
      BY <1>1, <3>1, <3>2, <3>3 DEF SensorTyped
    <3>5. OneSensor(s)'
      BY <1>1, <3>1, <3>2 DEF OneSensor
    <3>6. \A r \in Sensor \ {s} :
            /\ usage'[r] = usage[r] /\ streaming'[r] = streaming[r] /\ dirty'[r] = dirty[r]
            /\ ctrl'[r] = ctrl[r] /\ reg'[r] = reg[r] /\ at'[r] = at[r]
      BY <1>1, <1>3, <3>1
    <3> QED
      BY <3>4, <3>5, <3>6, OneSensorMoves
  <2> QED
    BY <2>1, <2>2
<1>7. CASE SensorSuspends(s) /\ at' = at
  <2>1. /\ usage' = usage /\ streaming' = streaming /\ ctrl' = ctrl /\ dirty' = dirty
        /\ reg' = [reg EXCEPT ![s] = Standby]
    BY <1>7 DEF SensorSuspends
  <2>2. SensorTyped' /\ OneSensor(s)'
    BY <1>1, <1>2, <1>7, <2>1 DEF SensorTyped, OneSensor, Present
  <2>3. \A r \in Sensor \ {s} :
            /\ usage'[r] = usage[r] /\ streaming'[r] = streaming[r] /\ dirty'[r] = dirty[r]
            /\ ctrl'[r] = ctrl[r] /\ reg'[r] = reg[r] /\ at'[r] = at[r]
    BY <1>1, <1>7, <2>1
  <2> QED
    BY <2>2, <2>3, OneSensorMoves
<1>8. CASE SensorSleeps(s) /\ at' = at
  <2>1. streaming[s] /\ usage' = usage
    BY <1>8 DEF SensorSleeps
  <2>2. CASE StartRegisters(s) /\ streaming' = streaming
    <3>1. SensorTyped'
      BY <1>1, <2>1, <2>2, StartFacts DEF SensorTyped
    <3>2. OneSensor(s)'
      BY <1>1, <1>8, <2>1, <2>2, StartFacts DEF OneSensor, Present
    <3>3. \A r \in Sensor \ {s} :
            /\ usage'[r] = usage[r] /\ streaming'[r] = streaming[r] /\ dirty'[r] = dirty[r]
            /\ ctrl'[r] = ctrl[r] /\ reg'[r] = reg[r] /\ at'[r] = at[r]
      BY <1>1, <1>8, <2>1, <2>2, StartFacts
    <3> QED
      BY <3>1, <3>2, <3>3, OneSensorMoves
  <2>3. CASE StartFails(s) /\ streaming' = [streaming EXCEPT ![s] = FALSE]
    <3>1. SensorTyped'
      BY <1>1, <2>1, <2>3, StartFailsFacts DEF SensorTyped
    <3>2. OneSensor(s)'
      BY <1>1, <2>1, <2>3, StartFailsFacts DEF OneSensor
    <3>3. \A r \in Sensor \ {s} :
            /\ usage'[r] = usage[r] /\ streaming'[r] = streaming[r] /\ dirty'[r] = dirty[r]
            /\ ctrl'[r] = ctrl[r] /\ reg'[r] = reg[r] /\ at'[r] = at[r]
      BY <1>1, <1>8, <2>1, <2>3, StartFailsFacts
    <3> QED
      BY <3>1, <3>2, <3>3, OneSensorMoves
  <2> QED
    BY <1>8, <2>2, <2>3 DEF SensorSleeps
<1>9. CASE SensorProbe(s) /\ at' = at
  <2>1. ~ streaming[s]
    BY <1>1, <1>9 DEF OneSensor, StreamInv, LifeInv, SensorProbe
  <2>2. /\ usage' = [usage EXCEPT ![s] = 0] /\ streaming' = streaming
        /\ ctrl' = [ctrl EXCEPT ![s] = DefaultCtrl] /\ reg' = [reg EXCEPT ![s] = Standby]
        /\ dirty' = [dirty EXCEPT ![s] = FALSE]
    BY <1>9 DEF SensorProbe
  <2>3. SensorTyped' /\ OneSensor(s)'
    BY <1>1, <1>2, <2>1, <2>2 DEF SensorTyped, OneSensor
  <2>4. \A r \in Sensor \ {s} :
            /\ usage'[r] = usage[r] /\ streaming'[r] = streaming[r] /\ dirty'[r] = dirty[r]
            /\ ctrl'[r] = ctrl[r] /\ reg'[r] = reg[r] /\ at'[r] = at[r]
    BY <1>1, <1>9, <2>2
  <2> QED
    BY <2>3, <2>4, OneSensorMoves
<1>10. CASE SensorRemove(s) /\ at[s] = "off" /\ at' = at
  <2>1. /\ usage' = usage /\ streaming' = streaming /\ ctrl' = ctrl /\ dirty' = dirty
        /\ reg' = [reg EXCEPT ![s] = Standby]
    BY <1>10 DEF SensorRemove
  <2>2. SensorTyped' /\ OneSensor(s)'
    BY <1>1, <1>2, <1>10, <2>1 DEF SensorTyped, OneSensor
  <2>3. \A r \in Sensor \ {s} :
            /\ usage'[r] = usage[r] /\ streaming'[r] = streaming[r] /\ dirty'[r] = dirty[r]
            /\ ctrl'[r] = ctrl[r] /\ reg'[r] = reg[r] /\ at'[r] = at[r]
    BY <1>1, <1>10, <2>1
  <2> QED
    BY <2>2, <2>3, OneSensorMoves
<1> QED
  BY <1>4, <1>5, <1>6, <1>7, <1>8, <1>9, <1>10

LEMMA SensorsHold ==
  ASSUME Wired, LifeInv, StreamInv, SensorInv, Next
  PROVE  SensorInv'
<1>0. board' = board /\ Present \subseteq Sensor
  BY WiringKept, WireFacts
<1>1. \A s \in Sensor : streaming[s] => at[s] \in {"started", "on", "stopping"}
  BY DEF SensorInv, OneSensor
<1>2. at \in [Sensor -> {"off", "prepared"} \cup Receiving]
  BY DEF StreamInv
<1>3. ASSUME UNCHANGED << sensorVars, at >> PROVE SensorInv'
  BY <1>0, <1>1, <1>3, SensorsRest
<1>4. CASE IsysProbe \/ IsysStep \/ IsysStepFails \/ IsysRemove \/ IsysRemoveStep
  BY <1>3, <1>4 DEF IsysProbe, IsysStep, IsysStepFails, IsysRemove, IsysRemoveStep
<1>5. ASSUME NEW s \in Present, SensorComes(s) \/ SensorGoes(s) \/ Suspends(s) \/ Sleeps(s)
      PROVE  SensorInv'
  BY <1>0, <1>5, SensorCallsHold DEF SensorComes, SensorGoes, Suspends, Sleeps
<1>6. ASSUME NEW s \in Present, SetControl(s) PROVE SensorInv'
  BY <1>0, <1>6, ControlsHold, SetFmtHolds DEF SetControl
<1>7. ASSUME NEW s \in Present, SetFormat(s) PROVE SensorInv'
  BY <1>3, <1>7 DEF SetFormat
<1>8. ASSUME NEW s \in Present, NEW a \in {"off", "prepared", "started", "on", "receiving", "unwinding"},
             NEW b, Moves(s, a, b), a = "started" => b = "on", a = "on" => b = "stopping",
             UNCHANGED sensorVars
      PROVE  SensorInv'
  <2>1. \A r \in Sensor : streaming[r] => at'[r] \in {"started", "on", "stopping"}
    BY <1>0, <1>1, <1>2, <1>8 DEF Moves
  <2> QED
    BY <1>0, <1>8, <2>1, SensorsRest
<1>9. ASSUME NEW s \in Present, Prepare(s) PROVE SensorInv'
  BY <1>3, <1>8, <1>9 DEF Prepare
<1>10. ASSUME NEW s \in Present,
              ReceiverStarts(s) \/ FirmwareStarts(s) \/ StartReturns(s) \/ FirmwareStops(s) \/ ReceiverStops(s)
       PROVE  SensorInv'
  BY <1>8, <1>10 DEF ReceiverStarts, FirmwareStarts, StartReturns, FirmwareStops, ReceiverStops
<1>11. ASSUME NEW s \in Present, SensorOn(s) \/ SensorOff(s) PROVE SensorInv'
  BY <1>0, <1>11, SensorCallsHold DEF SensorOn, SensorOff, Started
<1> QED
  BY <1>4, <1>5, <1>6, <1>7, <1>9, <1>10, <1>11 DEF Next

------------------------------------------------------------------------------
(* The receivers *)

LEMMA PhyFacts ==
  /\ \A p \in Port : PhyOf(p) \in Phy
  /\ \A p \in Port : p < 4 => p \div 2 \in Sip
  /\ IsFiniteSet(Port)
<1>1. \A p \in Port : PhyOf(p) \in Phy
  BY DEF Port, Phy, PhyOf
<1>2. \A p \in Port : p < 4 => p \div 2 \in Sip
  BY DEF Port, Sip
<1>3. IsFiniteSet(Port)
  <2>1. 0 \in Int /\ 7 \in Int
    OBVIOUS
  <2> QED
    BY <2>1, FS_Interval, Zenon DEF Port
<1> QED
  BY <1>1, <1>2, <1>3

\* Two sensors on MTL have no PHY in common.
LEMMA DwcApart ==
  ASSUME Wired, ver = "MTL", NEW s \in Present, NEW t \in Present, s # t
  PROVE  DwcPhys(s) \cap DwcPhys(t) = {}
<1>1. PortOf(s) \in Int /\ PortOf(t) \in Int /\ PortOf(s) # PortOf(t)
  BY WireFacts DEF Port
<1>2. /\ Lanes(s) = 4 => PortOf(t) # PortOf(s) + 1
      /\ Lanes(t) = 4 => PortOf(s) # PortOf(t) + 1
  BY WireFacts
<1> QED
  BY <1>1, <1>2 DEF DwcPhys

\* The ports behind an MCD PHY that receive.
RxPorts(h) == {p \in Port \ stuck : ver = "6" /\ PhyOf(p) = h /\ rx[p] # 0}

LEMMA RxPortsFinite == \A h : IsFiniteSet(RxPorts(h)) /\ Cardinality(RxPorts(h)) \in Nat
<1> TAKE h
<1>1. IsFiniteSet(RxPorts(h))
  BY PhyFacts, FS_Subset DEF RxPorts
<1> QED
  BY <1>1, FS_CardinalityType

\* Nothing happens to the receivers, and no stream comes to or leaves one.
LEMMA ReceiversRest ==
  ASSUME ReceiverInv, ver' = ver, board' = board, UNCHANGED receivers,
         \A s \in Present : at'[s] \in Receiving <=> at[s] \in Receiving
  PROVE  ReceiverInv'
<1>1. /\ streamCount' = streamCount /\ rx' = rx /\ clock' = clock /\ phyRef' = phyRef
      /\ phyUp' = phyUp /\ sip' = sip /\ stuck' = stuck
  BY DEF receivers
<1>2. \A p : InUsePort(p)' <=> InUsePort(p)
  BY DEF InUsePort, PortOf, Present
<1>3. \A p \in Port : PortInv(p)'
  BY <1>1, <1>2 DEF ReceiverInv, PortInv
<1>4. PhyCountsPorts'
  BY <1>1 DEF ReceiverInv, PhyCountsPorts
<1>5. ASSUME NEW s \in Present, at'[s] \in Receiving, PortOf(s)' \notin stuck'
      PROVE  Served(s)'
  BY <1>1, <1>5 DEF ReceiverInv, Served, PortOf, Lanes, DwcPhys
<1>6. ReceiverTyped'
  BY <1>1 DEF ReceiverInv, ReceiverTyped
<1> QED
  BY <1>3, <1>4, <1>5, <1>6 DEF ReceiverInv, Present

\* The port of a stream, before and after it comes to its receiver or leaves it.
LEMMA OnePort ==
  ASSUME Wired, StreamInv, ver' = ver, board' = board, NEW s \in Present, NEW a, NEW b, Moves(s, a, b),
         NEW p, p = PortOf(s)
  PROVE  /\ InUsePort(p) <=> a \in Receiving
         /\ InUsePort(p)' <=> b \in Receiving
         /\ \A q : q # p => (InUsePort(q)' <=> InUsePort(q))
         /\ \A t \in Present \ {s} : PortOf(t) # p /\ at'[t] = at[t]
         /\ at'[s] = b
<1>1. at[s] = a /\ at' = [at EXCEPT ![s] = b] /\ at \in [Sensor -> {"off", "prepared"} \cup Receiving]
  BY DEF Moves, StreamInv
<1>2. \A t \in Present : t # s => PortOf(t) # p
  BY WireFacts
<1>3. Present \subseteq Sensor /\ Present' = Present /\ \A t : PortOf(t)' = PortOf(t)
  BY WireFacts DEF Present, PortOf
<1>4. at'[s] = b /\ \A t \in Present \ {s} : at'[t] = at[t]
  BY <1>1, <1>3
<1>5. InUsePort(p) <=> a \in Receiving
  BY <1>1, <1>2 DEF InUsePort
<1>6. \A q : InUsePort(q)' <=> \E t \in Present : PortOf(t) = q /\ at'[t] \in Receiving
  BY <1>3 DEF InUsePort
<1>7. InUsePort(p)' <=> b \in Receiving
  BY <1>2, <1>4, <1>6
<1>8. ASSUME NEW q, q # p PROVE InUsePort(q)' <=> InUsePort(q)
  BY <1>4, <1>6, <1>8 DEF InUsePort
<1> QED
  BY <1>2, <1>4, <1>5, <1>7, <1>8

\* The first stream of a port whose PHY did not fail.
LEMMA FirstOnHolds ==
  ASSUME Wired, StreamInv, ReceiverInv, ver' = ver, board' = board,
         NEW s \in Present, NEW ok \in BOOLEAN,
         Moves(s, "prepared", IF ok THEN "receiving" ELSE "off"),
         NEW p, p = PortOf(s), NEW h, h = PhyOf(p), streamCount[p] = 0, FirstOn(s, ok)
  PROVE  ReceiverInv'
<1>0. /\ p \in Port /\ Lanes(s) \in {1, 2, 4} /\ (ver = "6SE" => p < 4) /\ ver \in {"6", "6SE", "MTL"}
      /\ h \in Phy
  BY WireFacts, PhyFacts, BoardAssumption DEF Wired
<1>1. /\ ~ InUsePort(p) /\ (InUsePort(p)' <=> ok)
      /\ \A q : q # p => (InUsePort(q)' <=> InUsePort(q))
      /\ \A t \in Present \ {s} : PortOf(t) # p /\ at'[t] = at[t]
      /\ at'[s] \in Receiving => ok
  BY OnePort DEF Receiving
<1>2. ReceiverTyped /\ \A q \in Port : PortInv(q)
  BY DEF ReceiverInv
<1>3. p \notin stuck /\ rx[p] = 0
  BY <1>0, <1>1, <1>2 DEF PortInv
<1>4. /\ streamCount' = [streamCount EXCEPT ![p] = 1] /\ rx' = [rx EXCEPT ![p] = Lanes(s)]
      /\ stuck' = IF ok THEN stuck ELSE stuck \cup {p}
      /\ clock' = clock \cup (IF ver = "6SE" THEN 0 .. 3 ELSE Port)
      /\ PhyOn(s, ok)
  BY DEF FirstOn
<1>7. \A q \in Port : PortInv(q)'
  BY <1>0, <1>1, <1>2, <1>3, <1>4 DEF ReceiverTyped, PortInv
<1>5. CASE ver = "6"
  <2>1. McdOn(p, ok) /\ sip' = sip
    BY <1>4, <1>5 DEF PhyOn
  <2>2. phyRef \in [Phy -> Nat]
    BY <1>2 DEF ReceiverTyped
  <2>3. \/ ok /\ phyRef[h] > 0 /\ phyRef' = [phyRef EXCEPT ![h] = @ + 1] /\ phyUp' = phyUp
        \/ ok /\ phyRef[h] = 0 /\ phyRef' = [phyRef EXCEPT ![h] = @ + 1] /\ phyUp' = phyUp \cup {h}
        \/ ~ ok /\ phyRef' = phyRef /\ phyUp' = phyUp
    BY <1>0, <2>1, <2>2 DEF McdOn
  <2>4. ReceiverTyped'
    BY <1>0, <1>2, <1>4, <2>1, <2>3 DEF ReceiverTyped
  <2>6. ASSUME NEW t \in Present, at'[t] \in Receiving, PortOf(t)' \notin stuck' PROVE Served(t)'
    BY <1>0, <1>1, <1>2, <1>4, <1>5, <2>6, WireFacts DEF ReceiverTyped, ReceiverInv, Served, PortOf, Lanes
  <2>7. PhyCountsPorts'
    <3>1. ASSUME NEW g \in Phy, g # h \/ ~ ok PROVE RxPorts(g)' = RxPorts(g) /\ phyRef'[g] = phyRef[g]
      BY <1>0, <1>2, <1>3, <1>4, <2>2, <2>3, <3>1 DEF RxPorts, ReceiverTyped, PhyOf
    <3>2. ASSUME ok PROVE RxPorts(h)' = RxPorts(h) \cup {p} /\ p \notin RxPorts(h)
      BY <1>0, <1>2, <1>3, <1>4, <1>5, <3>2 DEF RxPorts, ReceiverTyped, PhyOf
    <3>3. ASSUME ok PROVE Cardinality(RxPorts(h)') = Cardinality(RxPorts(h)) + 1
      BY <3>2, <3>3, RxPortsFinite, FS_AddElement
    <3>4. \A g \in Phy : /\ phyRef[g] = Cardinality(RxPorts(g))
                         /\ ver = "6" => (g \in phyUp <=> phyRef[g] > 0)
      BY DEF ReceiverInv, PhyCountsPorts, RxPorts
    <3>5. \A g \in Phy : /\ phyRef'[g] = Cardinality(RxPorts(g)')
                         /\ g \in phyUp' <=> phyRef'[g] > 0
      BY <1>0, <1>5, <2>2, <2>3, <3>1, <3>3, <3>4
    <3> QED
      BY <3>5 DEF PhyCountsPorts, RxPorts
  <2> QED
    BY <1>7, <2>4, <2>6, <2>7 DEF ReceiverInv, Present
<1>6. CASE ver # "6"
  <2>1. phyRef' = phyRef
    BY <1>0, <1>4, <1>6 DEF PhyOn, DwcOn
  <2>2. ver = "MTL" => DwcOn(s, ok) /\ sip' = sip
    BY <1>4 DEF PhyOn
  <2>3. ver = "6SE" => ok /\ sip' = [sip EXCEPT ![p \div 2] = Lanes(s)] /\ phyUp' = phyUp
    BY <1>4 DEF PhyOn
  <2>4. ReceiverTyped'
    BY <1>0, <1>2, <1>4, <1>6, <2>1, <2>2, <2>3 DEF ReceiverTyped
  <2>6. ASSUME NEW t \in Present, at'[t] \in Receiving, PortOf(t)' \notin stuck' PROVE Served(t)'
    <3>1. PortOf(t) \in Port /\ PortOf(t)' = PortOf(t) /\ Lanes(t)' = Lanes(t)
      BY WireFacts DEF PortOf, Lanes
    <3>2. CASE t = s
      <4>1. ok /\ rx'[p] = Lanes(s) /\ p \in clock'
        BY <1>0, <1>1, <1>2, <1>4, <2>6, <3>2 DEF ReceiverTyped, Port
      <4>2. ver = "MTL" => DwcPhys(s) \subseteq phyUp'
        BY <2>2, <4>1 DEF DwcOn
      <4>3. ver = "6SE" => sip'[p \div 2] = Lanes(s)
        BY <1>0, <1>2, <2>3, PhyFacts DEF ReceiverTyped
      <4> QED
        BY <3>1, <3>2, <4>1, <4>2, <4>3 DEF Served, DwcPhys, PortOf, Lanes
    <3>3. CASE t # s
      <4>1. Served(t) /\ PortOf(t) # p
        BY <1>1, <1>4, <2>6, <3>1, <3>3 DEF ReceiverInv
      <4>2. rx'[PortOf(t)] = Lanes(t) /\ PortOf(t) \in clock'
        BY <1>2, <1>4, <3>1, <4>1 DEF ReceiverTyped, Served
      <4>3. ver = "MTL" => DwcPhys(t) \subseteq phyUp'
        BY <2>2, <3>3, <4>1, DwcApart DEF DwcOn, Served
      <4>4. ver = "6SE" => sip'[PortOf(t) \div 2] = Lanes(t)
        <5>1. ASSUME ver = "6SE" PROVE sip'[PortOf(t) \div 2] = Lanes(t)
          <6>1. PortOf(t) \div 2 \in Sip /\ sip[PortOf(t) \div 2] = Lanes(t)
            BY <4>1, <5>1, WireFacts, PhyFacts DEF Served
          <6>2. p \div 2 = PortOf(t) \div 2 => Lanes(s) = Lanes(t)
            BY <3>3, <5>1, WireFacts
          <6> QED
            BY <1>2, <2>3, <5>1, <6>1, <6>2 DEF ReceiverTyped
        <5> QED
          BY <5>1
      <4> QED
        BY <3>1, <4>2, <4>3, <4>4 DEF Served, DwcPhys, PortOf, Lanes
    <3> QED
      BY <3>2, <3>3
  <2>7. PhyCountsPorts'
    <3>1. \A g \in Phy : RxPorts(g) = {} /\ RxPorts(g)' = {}
      BY <1>6 DEF RxPorts
    <3>2. \A g \in Phy : phyRef[g] = Cardinality(RxPorts(g))
      BY DEF ReceiverInv, PhyCountsPorts, RxPorts
    <3>3. \A g \in Phy : phyRef'[g] = Cardinality(RxPorts(g)')
      BY <2>1, <3>1, <3>2
    <3> QED
      BY <1>6, <3>3 DEF PhyCountsPorts, RxPorts
  <2> QED
    BY <1>7, <2>4, <2>6, <2>7 DEF ReceiverInv, Present
<1> QED
  BY <1>5, <1>6

LEMMA ReceiverOnHolds ==
  ASSUME Wired, StreamInv, ReceiverInv, ver' = ver, board' = board,
         NEW s \in Present, NEW ok \in BOOLEAN,
         Moves(s, "prepared", IF ok THEN "receiving" ELSE "off"), ReceiverOn(s, ok),
         NEW p, p = PortOf(s)
  PROVE  ReceiverInv'
<1>1. p \in Port /\ streamCount[p] \in Nat
  BY WireFacts DEF ReceiverInv, PortInv
<1>2. CASE streamCount[p] > 0
  <2>1. /\ ok /\ streamCount' = [streamCount EXCEPT ![p] = @ + 1]
        /\ UNCHANGED << rx, clock, phyRef, phyUp, configured, sip, stuck >>
    BY <1>2 DEF ReceiverOn
  <2>2. /\ ~ InUsePort(p) /\ InUsePort(p)'
        /\ \A q : q # p => (InUsePort(q)' <=> InUsePort(q))
        /\ \A t \in Present \ {s} : PortOf(t) # p /\ at'[t] = at[t]
    BY <2>1, OnePort DEF Receiving
  <2>3. p \in stuck
    BY <1>1, <1>2, <2>2 DEF ReceiverInv, PortInv
  <2>4. ReceiverTyped'
    BY <1>1, <2>1 DEF ReceiverInv, ReceiverTyped
  <2>5. \A q \in Port : PortInv(q)'
    BY <1>1, <2>1, <2>2, <2>3 DEF ReceiverInv, ReceiverTyped, PortInv
  <2>6. ASSUME NEW t \in Present, at'[t] \in Receiving, PortOf(t)' \notin stuck' PROVE Served(t)'
    <3>1. t # s /\ at[t] \in Receiving /\ PortOf(t) \notin stuck
      BY <2>1, <2>2, <2>3, <2>6 DEF PortOf
    <3> QED
      BY <2>1, <3>1 DEF ReceiverInv, Served, PortOf, Lanes, DwcPhys
  <2>7. PhyCountsPorts'
    BY <2>1 DEF ReceiverInv, PhyCountsPorts
  <2> QED
    BY <2>4, <2>5, <2>6, <2>7 DEF ReceiverInv, Present
<1>3. CASE streamCount[p] = 0 /\ board[s].freq = "none"
  <2>1. ~ ok /\ UNCHANGED receivers
    BY <1>3 DEF ReceiverOn
  <2>2. \A t \in Present : at'[t] \in Receiving <=> at[t] \in Receiving
    BY <2>1, OnePort DEF Receiving, Moves
  <2> QED
    BY <2>1, <2>2, ReceiversRest
<1>4. CASE streamCount[p] = 0 /\ board[s].freq # "none"
  BY <1>4, FirstOnHolds DEF ReceiverOn
<1> QED
  BY <1>1, <1>2, <1>3, <1>4

LEMMA ReceiverOffHolds ==
  ASSUME Wired, StreamInv, ReceiverInv, ver' = ver, board' = board, NEW s \in Present,
         Moves(s, "unwinding", "off"), ReceiverOff(s),
         NEW p, p = PortOf(s), NEW h, h = PhyOf(p)
  PROVE  ReceiverInv'
<1>0. /\ p \in Port /\ Lanes(s) \in {1, 2, 4} /\ ver \in {"6", "6SE", "MTL"} /\ h \in Phy
  BY WireFacts, PhyFacts, BoardAssumption DEF Wired
<1>1. /\ InUsePort(p) /\ ~ InUsePort(p)'
      /\ \A q : q # p => (InUsePort(q)' <=> InUsePort(q))
      /\ \A t \in Present \ {s} : PortOf(t) # p /\ at'[t] = at[t]
      /\ at'[s] = "off"
  BY OnePort DEF Receiving
<1>2. ReceiverTyped /\ PortInv(p) /\ \A q \in Port : PortInv(q)
  BY <1>0 DEF ReceiverInv
<1>3. streamCount' = [streamCount EXCEPT ![p] = @ - 1] /\ sip' = sip /\ stuck' = stuck
  BY DEF ReceiverOff
<1>4. streamCount[p] > 0 /\ (streamCount[p] = 1 <=> p \notin stuck)
  BY <1>0, <1>1, <1>2 DEF PortInv
<1>5. CASE p \in stuck
  <2>1. rx' = rx /\ clock' = clock /\ phyRef' = phyRef /\ phyUp' = phyUp
    BY <1>4, <1>5 DEF ReceiverOff
  <2>2. ReceiverTyped'
    BY <1>0, <1>2, <1>3, <1>4, <2>1 DEF ReceiverTyped
  <2>3. \A q \in Port : PortInv(q)'
    BY <1>0, <1>1, <1>2, <1>3, <1>5, <2>1 DEF ReceiverTyped, PortInv
  <2>4. ASSUME NEW t \in Present, at'[t] \in Receiving, PortOf(t)' \notin stuck' PROVE Served(t)'
    <3>1. t # s /\ at[t] \in Receiving /\ PortOf(t) \notin stuck
      BY <1>1, <1>3, <2>4 DEF PortOf, Receiving
    <3> QED
      BY <1>3, <2>1, <3>1 DEF ReceiverInv, Served, PortOf, Lanes, DwcPhys
  <2>5. PhyCountsPorts'
    BY <1>3, <2>1 DEF ReceiverInv, PhyCountsPorts
  <2> QED
    BY <2>2, <2>3, <2>4, <2>5 DEF ReceiverInv, Present
<1>6. CASE p \notin stuck
  <2>1. /\ rx' = [rx EXCEPT ![p] = 0] /\ clock' = clock \ {p}
        /\ ver = "6" => McdOff(p)
        /\ ver = "MTL" => DwcOff(s)
        /\ ver = "6SE" => phyRef' = phyRef /\ phyUp' = phyUp
    BY <1>4, <1>6 DEF ReceiverOff, LastOff
  <2>2. rx[p] = Lanes(s) /\ rx[p] # 0
    BY <1>0, <1>6 DEF ReceiverInv, Served, Moves, Receiving
  <2>3. \A q \in Port : PortInv(q)'
    BY <1>0, <1>1, <1>2, <1>3, <1>6, <2>1 DEF ReceiverTyped, PortInv
  <2>4. \A g \in Phy : /\ phyRef[g] = Cardinality(RxPorts(g)) /\ phyRef[g] \in Nat
                       /\ ver = "6" => (g \in phyUp <=> phyRef[g] > 0)
    BY <1>2 DEF ReceiverInv, ReceiverTyped, PhyCountsPorts, RxPorts
  <2>5. ASSUME ver = "6" PROVE p \in RxPorts(h) /\ RxPorts(h)' = RxPorts(h) \ {p}
    BY <1>0, <1>2, <1>3, <1>6, <2>1, <2>2, <2>5 DEF RxPorts, ReceiverTyped, PhyOf
  <2>6. ASSUME ver = "6" PROVE Cardinality(RxPorts(h)') = phyRef[h] - 1
    BY <1>0, <2>4, <2>5, <2>6, RxPortsFinite, FS_RemoveElement
  <2>7. ASSUME ver = "6" PROVE phyRef[h] > 0
    BY <1>0, <2>4, <2>5, <2>6, <2>7, RxPortsFinite, FS_EmptySet, FS_CardinalityType
  <2>8. ver = "6" => /\ phyRef' = [phyRef EXCEPT ![h] = @ - 1]
                     /\ phyUp' = IF phyRef[h] = 1 THEN phyUp \ {h} ELSE phyUp
    BY <2>1 DEF McdOff
  <2>9. ver # "6" => phyRef' = phyRef
    BY <1>0, <2>1 DEF DwcOff
  <2>10. ReceiverTyped'
    <3>1. phyRef' \in [Phy -> Nat]
      BY <1>0, <1>2, <2>7, <2>8, <2>9 DEF ReceiverTyped
    <3>2. streamCount' \in [Port -> Nat]
      BY <1>0, <1>2, <1>3, <1>4 DEF ReceiverTyped
    <3> QED
      BY <1>0, <1>2, <1>3, <2>1, <3>1, <3>2 DEF ReceiverTyped
  <2>11. ASSUME NEW t \in Present, at'[t] \in Receiving, PortOf(t)' \notin stuck' PROVE Served(t)'
    <3>1. t # s /\ at[t] \in Receiving /\ PortOf(t) \notin stuck /\ PortOf(t) # p /\ PortOf(t) \in Port
      BY <1>1, <1>3, <2>11, WireFacts DEF PortOf, Receiving
    <3>2. Served(t) /\ PortOf(t)' = PortOf(t) /\ Lanes(t)' = Lanes(t) /\ DwcPhys(t)' = DwcPhys(t)
      BY <3>1 DEF ReceiverInv, PortOf, Lanes, DwcPhys
    <3>3. rx'[PortOf(t)] = Lanes(t) /\ PortOf(t) \in clock'
      BY <1>2, <2>1, <3>1, <3>2 DEF ReceiverTyped, Served
    <3>4. ver = "MTL" => DwcPhys(t) \subseteq phyUp'
      BY <2>1, <3>1, <3>2, DwcApart DEF DwcOff, Served
    <3> QED
      BY <1>3, <3>2, <3>3, <3>4 DEF Served
  <2>12. PhyCountsPorts'
    <3>1. ASSUME NEW g \in Phy, g # h \/ ver # "6" PROVE RxPorts(g)' = RxPorts(g)
      BY <1>0, <1>2, <1>3, <2>1, <3>1 DEF RxPorts, ReceiverTyped, PhyOf
    <3>2. ASSUME ver = "6", NEW g \in Phy
          PROVE  phyRef'[g] = Cardinality(RxPorts(g)') /\ (g \in phyUp' <=> phyRef'[g] > 0)
      <4>1. CASE g = h
        BY <1>0, <1>2, <2>4, <2>6, <2>7, <2>8, <3>2, <4>1 DEF ReceiverTyped
      <4>2. CASE g # h
        BY <1>0, <1>2, <2>4, <2>8, <3>1, <3>2, <4>2 DEF ReceiverTyped
      <4> QED
        BY <4>1, <4>2
    <3>3. ASSUME ver # "6", NEW g \in Phy PROVE phyRef'[g] = Cardinality(RxPorts(g)')
      BY <2>4, <2>9, <3>1, <3>3
    <3> QED
      BY <3>2, <3>3 DEF PhyCountsPorts, RxPorts
  <2> QED
    BY <2>3, <2>10, <2>11, <2>12 DEF ReceiverInv, Present
<1> QED
  BY <1>5, <1>6

\* With no stream on, no PHY counts a port.
LEMMA NobodyStreams ==
  ASSUME ReceiverInv, \A s \in Present : at[s] \notin Receiving
  PROVE  \A h \in Phy : phyRef[h] = 0
<1> TAKE h \in Phy
<1>1. RxPorts(h) = {}
  BY DEF ReceiverInv, PortInv, InUsePort, RxPorts
<1>2. phyRef[h] = Cardinality(RxPorts(h))
  BY DEF ReceiverInv, PhyCountsPorts, RxPorts
<1> QED
  BY <1>1, <1>2, FS_EmptySet

LEMMA ReceiversHold ==
  ASSUME Wired, LifeInv, StreamInv, ReceiverInv, Next
  PROVE  ReceiverInv'
<1>0. ver' = ver /\ board' = board /\ Present \subseteq Sensor
  BY WiringKept, WireFacts
<1>1. ASSUME UNCHANGED << receivers, at >> PROVE ReceiverInv'
  <2>1. at' = at /\ UNCHANGED receivers
    BY <1>1
  <2> QED
    BY <1>0, <2>1, ReceiversRest
<1>2. CASE IsysProbe
  <2>1. \A s \in Present : at[s] = "off"
    BY <1>2 DEF IsysProbe, StreamInv
  <2>2. \A h \in Phy : phyRef[h] = 0
    BY <2>1, NobodyStreams DEF Receiving
  <2>3. /\ streamCount' = [p \in Port |-> 0] /\ rx' = [p \in Port |-> 0] /\ stuck' = {}
        /\ phyRef' = phyRef /\ phyUp' = phyUp /\ sip' = sip /\ at' = at
    BY <1>2 DEF IsysProbe
  <2>4. ReceiverTyped'
    BY <2>3 DEF ReceiverInv, ReceiverTyped
  <2>5. \A p : ~ InUsePort(p)'
    BY <1>0, <2>1, <2>3 DEF InUsePort, Present, Receiving
  <2>6. \A p \in Port : PortInv(p)'
    BY <2>3, <2>5 DEF PortInv
  <2>7. PhyCountsPorts'
    <3>1. \A h \in Phy : RxPorts(h)' = {}
      BY <2>3 DEF RxPorts
    <3>2. \A h \in Phy : /\ phyRef'[h] = Cardinality(RxPorts(h)')
                         /\ ver' = "6" => (h \in phyUp' <=> phyRef'[h] > 0)
      BY <1>0, <2>2, <2>3, <3>1, FS_EmptySet DEF ReceiverInv, PhyCountsPorts
    <3> QED
      BY <3>2 DEF PhyCountsPorts, RxPorts
  <2> QED
    BY <1>0, <2>1, <2>3, <2>4, <2>6, <2>7 DEF ReceiverInv, Present, Receiving
<1>3. CASE IsysStep \/ IsysStepFails \/ IsysRemove \/ IsysRemoveStep
  BY <1>1, <1>3 DEF IsysStep, IsysStepFails, IsysRemove, IsysRemoveStep, csi2Vars
<1>4. ASSUME NEW s \in Present, SensorComes(s) \/ SensorGoes(s) \/ Suspends(s) \/ Sleeps(s)
      PROVE  ReceiverInv'
  BY <1>1, <1>4 DEF SensorComes, SensorGoes, Suspends, Sleeps, csi2Vars
<1>5. ASSUME NEW s \in Present, SetControl(s) \/ SetFormat(s) PROVE ReceiverInv'
  BY <1>1, <1>5 DEF SetControl, SetFormat, csi2Vars
<1>6. ASSUME NEW s \in Present, NEW a, NEW b, Moves(s, a, b), a \in Receiving <=> b \in Receiving,
             UNCHANGED csi2Vars
      PROVE  ReceiverInv'
  <2>1. \A t \in Present : at'[t] \in Receiving <=> at[t] \in Receiving
    BY <1>0, <1>6 DEF Moves, StreamInv
  <2>2. UNCHANGED receivers
    BY <1>6 DEF csi2Vars
  <2> QED
    BY <1>0, <2>1, <2>2, ReceiversRest
<1>7. ASSUME NEW s \in Present,
             Prepare(s) \/ FirmwareStarts(s) \/ SensorOn(s) \/ StartReturns(s) \/ FirmwareStops(s) \/ SensorOff(s)
      PROVE  ReceiverInv'
  <2>1. CASE at' = at
    <3>1. UNCHANGED csi2Vars
      BY <1>7 DEF Prepare, FirmwareStarts, SensorOn, StartReturns, FirmwareStops, SensorOff
    <3> QED
      BY <1>1, <2>1, <3>1 DEF csi2Vars
  <2>2. CASE at' # at
    BY <1>6, <1>7, <2>2 DEF Prepare, FirmwareStarts, SensorOn, StartReturns, FirmwareStops, SensorOff, Receiving
  <2> QED
    BY <2>1, <2>2
<1>8. ASSUME NEW s \in Present, ReceiverStarts(s) PROVE ReceiverInv'
  <2>1. CASE ReceiverOn(s, TRUE) /\ Moves(s, "prepared", "receiving")
    BY <1>0, <2>1, ReceiverOnHolds
  <2>2. CASE ReceiverOn(s, FALSE) /\ Moves(s, "prepared", "off")
    BY <1>0, <2>2, ReceiverOnHolds
  <2> QED
    BY <1>8, <2>1, <2>2 DEF ReceiverStarts
<1>9. ASSUME NEW s \in Present, ReceiverStops(s) PROVE ReceiverInv'
  BY <1>0, <1>9, ReceiverOffHolds DEF ReceiverStops
<1> QED
  BY <1>2, <1>3, <1>4, <1>5, <1>7, <1>8, <1>9 DEF Next

\* A PHY that comes up learns of the sensors that are bound, and while it is up
\* none binds.
LEMMA ConfiguredHolds ==
  ASSUME BindsInTime, Wired, LifeInv, StreamInv, ReceiverInv, ConfiguredInv, Next
  PROVE  ConfiguredInv'
<1>0. /\ ver' = ver /\ board' = board /\ bound \subseteq Present
      /\ \A s : PhyOf(PortOf(s))' = PhyOf(PortOf(s)) /\ PortOf(s)' = PortOf(s)
  BY WiringKept DEF LifeInv, PhyOf, PortOf
<1>1. phyRef \in [Phy -> Nat]
  BY DEF ReceiverInv, ReceiverTyped
<1>2. ASSUME phyRef' = phyRef, configured' = configured, bound' \subseteq bound PROVE ConfiguredInv'
  BY <1>0, <1>2 DEF ConfiguredInv
<1>3. CASE IsysProbe \/ IsysStepFails \/ IsysRemove \/ IsysRemoveStep
  BY <1>2, <1>3 DEF IsysProbe, IsysStepFails, IsysRemove, IsysRemoveStep, csi2Vars, receivers
<1>4. CASE IsysStep
  <2>1. \A s \in Present : at[s] = "off"
    BY <1>4 DEF IsysStep, StreamInv
  <2>2. \A h \in Phy : phyRef[h] = 0
    BY <2>1, NobodyStreams DEF Receiving
  <2>3. phyRef' = phyRef
    BY <1>4 DEF IsysStep, receivers
  <2>4. bound' \subseteq Present
    BY <1>0, <1>4 DEF IsysStep, BindAll
  <2>5. \A s \in Present : PhyOf(PortOf(s)) \in Phy
    BY WireFacts, PhyFacts
  <2> QED
    BY <1>0, <2>2, <2>3, <2>4, <2>5 DEF ConfiguredInv
<1>5. ASSUME NEW s \in Present, SensorComes(s) PROVE ConfiguredInv'
  <2>1. phyRef' = phyRef /\ configured' = configured
    BY <1>5 DEF SensorComes, receivers
  <2>2. bound' \subseteq bound \/ (bound' = bound \cup {s} /\ NotTooLate(s))
    BY <1>5 DEF SensorComes
  <2>3. NotTooLate(s) => ver # "6" \/ phyRef[PhyOf(PortOf(s))] = 0
    BY DEF NotTooLate, Fails, BindsInTime
  <2> QED
    BY <1>0, <2>1, <2>2, <2>3 DEF ConfiguredInv
<1>6. ASSUME NEW s \in Present, SensorGoes(s) \/ Suspends(s) \/ Sleeps(s) \/ SetControl(s) \/ SetFormat(s)
      PROVE  ConfiguredInv'
  BY <1>2, <1>6 DEF SensorGoes, Suspends, Sleeps, SetControl, SetFormat, csi2Vars, receivers
<1>7. ASSUME NEW s \in Present,
             Prepare(s) \/ FirmwareStarts(s) \/ SensorOn(s) \/ StartReturns(s) \/ FirmwareStops(s) \/ SensorOff(s)
      PROVE  ConfiguredInv'
  <2>1. UNCHANGED csi2Vars
    BY <1>7 DEF Prepare, FirmwareStarts, SensorOn, StartReturns, FirmwareStops, SensorOff
  <2> QED
    BY <1>2, <2>1 DEF csi2Vars, receivers
<1>8. ASSUME NEW s \in Present, NEW ok \in BOOLEAN, ReceiverOn(s, ok), bound' = bound,
             NEW p, p = PortOf(s), NEW h, h = PhyOf(p)
      PROVE  ConfiguredInv'
  <2>1. CASE phyRef' = phyRef /\ configured' = configured
    BY <1>2, <1>8, <2>1
  <2>2. CASE ver # "6"
    BY <1>0, <2>2 DEF ConfiguredInv
  <2>3. CASE ver = "6" /\ McdOn(p, ok)
    <3>1. h \in Phy
      BY <1>8, WireFacts, PhyFacts
    <3>2. CASE phyRef[h] > 0
      <4>1. phyRef' = [phyRef EXCEPT ![h] = @ + 1] /\ configured' = configured
        BY <1>8, <2>3, <3>2 DEF McdOn
      <4>2. \A g \in Phy : phyRef'[g] > 0 <=> phyRef[g] > 0
        BY <1>1, <3>1, <3>2, <4>1
      <4>3. \A t \in bound : PhyOf(PortOf(t)) \in Phy
        BY <1>0, WireFacts, PhyFacts
      <4>4. \A t \in bound : phyRef'[PhyOf(PortOf(t))] > 0 => PortOf(t) \in configured'
        BY <2>3, <4>1, <4>2, <4>3 DEF ConfiguredInv
      <4> QED
        BY <1>0, <1>8, <4>4 DEF ConfiguredInv
    <3>3. CASE phyRef[h] = 0
      <4>1. CASE ok
        <5>1. phyRef' = [phyRef EXCEPT ![h] = 1] /\ configured' = McdConfigured(h)
          BY <1>8, <2>3, <3>3, <4>1 DEF McdOn
        <5>2. /\ configured \subseteq configured'
              /\ \A t \in bound : PhyOf(PortOf(t)) = h => PortOf(t) \in configured'
          BY <5>1 DEF McdConfigured
        <5>3. \A t \in bound : phyRef'[PhyOf(PortOf(t))] > 0 => PortOf(t) \in configured'
          BY <1>1, <2>3, <5>1, <5>2 DEF ConfiguredInv
        <5> QED
          BY <1>0, <1>8, <5>3 DEF ConfiguredInv
      <4>2. CASE ~ ok
        BY <1>8, <2>1, <2>3, <3>3, <4>2 DEF McdOn
      <4> QED
        BY <4>1, <4>2
    <3> QED
      BY <1>1, <3>1, <3>2, <3>3
  <2>4. streamCount[p] \in Nat
    BY <1>8, WireFacts DEF ReceiverInv, PortInv
  <2> QED
    BY <1>8, <2>1, <2>2, <2>3, <2>4 DEF ReceiverOn, FirstOn, PhyOn, receivers
<1>9. ASSUME NEW s \in Present, ReceiverStarts(s) PROVE ConfiguredInv'
  BY <1>8, <1>9 DEF ReceiverStarts
<1>10. ASSUME NEW s \in Present, ReceiverStops(s) PROVE ConfiguredInv'
  <2>1. bound' = bound /\ ReceiverOff(s)
    BY <1>10 DEF ReceiverStops
  <2> SUFFICES ASSUME NEW h, h = PhyOf(PortOf(s)) PROVE ConfiguredInv'
    OBVIOUS
  <2>2. CASE ver # "6"
    BY <1>0, <2>2 DEF ConfiguredInv
  <2>3. CASE phyRef' = phyRef /\ configured' = configured
    BY <1>2, <2>1, <2>3
  <2>4. CASE ver = "6" /\ McdOff(PortOf(s))
    <3>1. h \in Phy
      BY WireFacts, PhyFacts
    <3>2. /\ phyRef' = [phyRef EXCEPT ![h] = @ - 1]
          /\ configured' = IF phyRef[h] = 1 THEN {q \in configured : PhyOf(q) # h} ELSE configured
      BY <2>4 DEF McdOff
    <3>3. \A t \in bound : phyRef'[PhyOf(PortOf(t))] > 0 => PortOf(t) \in configured'
      BY <1>0, <1>1, <2>4, <3>1, <3>2, WireFacts, PhyFacts DEF ConfiguredInv
    <3> QED
      BY <1>0, <2>1, <3>3 DEF ConfiguredInv
  <2> QED
    BY <2>1, <2>2, <2>3, <2>4 DEF ReceiverOff, LastOff
<1> QED
  BY <1>3, <1>4, <1>5, <1>6, <1>7, <1>9, <1>10 DEF Next

------------------------------------------------------------------------------
(* The formats *)

LEMMA ShiftedType == \A c \in Bayer, r \in Rect : Shifted(c, r) \in Bayer
<1> SUFFICES ASSUME NEW a \in {0, 1}, NEW b \in {0, 1}, NEW t \in {0, 1}, NEW l \in {0, 1}
             PROVE  (a + t) % 2 \in {0, 1} /\ (b + l) % 2 \in {0, 1}
  BY DEF Bayer, Rect, Shifted
<1> QED
  OBVIOUS

LEMMA FormatFacts ==
  /\ \A f \in PadFormat : Full(f) \in Rect /\ Full(f).w = f.w /\ Full(f).h = f.h
  /\ \A s, f : f \in PadFormat => Supported(s, f) \in PadFormat
  /\ \A s, f : f \in PadFormat /\ End(s) = "be" => Supported(s, f).code \in Bayer
<1>1. ASSUME NEW f \in PadFormat PROVE Full(f) \in Rect /\ Full(f).w = f.w /\ Full(f).h = f.h
  BY DEF PadFormat, Rect, Full
<1>2. << 0, 0 >> \in Bayer /\ Bayer \subseteq Code
  BY DEF Bayer, Code
<1>3. ASSUME NEW s, NEW f \in PadFormat
      PROVE  /\ Supported(s, f) \in PadFormat
             /\ End(s) = "be" => Supported(s, f).code \in Bayer
  <2> DEFINE g == [f EXCEPT !.code = << 0, 0 >>]
  <2> DEFINE z == << 0, 0 >>
  <2>1. g = [f EXCEPT !.code = z]
    OBVIOUS
  <2>2. z \in Bayer /\ z \in Code
    BY <1>2
  <2> HIDE DEF z, g
  <2>3. g \in PadFormat /\ g.code = z
    BY <2>1, <2>2 DEF PadFormat
  <2>4. Supported(s, f) = IF End(s) = "be" /\ f.code \notin Bayer THEN g ELSE f
    BY DEF Supported, g
  <2> QED
    BY <2>2, <2>3, <2>4
<1> QED
  BY <1>1, <1>3

LEMMA SourceFacts ==
  ASSUME NEW s, NEW p \in PadsType, NEW c \in Code, End(s) = "be" => p.in.code \in Bayer
  PROVE  /\ Source(s, p, c) \in PadFormat
         /\ Source(s, p, c).w = p.crop.w /\ Source(s, p, c).h = p.crop.h
         /\ End(s) = "be" => Source(s, p, c).code = Shifted(p.in.code, p.crop)
<1> DEFINE k == IF End(s) = "be" THEN Shifted(p.in.code, p.crop) ELSE c
<1>1. k \in Code
  <2>1. CASE End(s) = "be"
    <3>1. p.crop \in Rect /\ p.in.code \in Bayer
      BY <2>1 DEF PadsType
    <3> QED
      BY <2>1, <3>1, ShiftedType DEF Code
  <2> QED
    BY <2>1
<1>2. p.crop \in Rect /\ p.crop.w \in Size /\ p.crop.h \in Size
  BY DEF PadsType, Rect
<1>3. Source(s, p, c) = [w |-> p.crop.w, h |-> p.crop.h, code |-> k]
  BY DEF Source
<1>4. End(s) = "be" => k = Shifted(p.in.code, p.crop)
  OBVIOUS
<1> HIDE DEF k
<1> QED
  BY <1>1, <1>2, <1>3, <1>4 DEF PadFormat

\* The pads with a new source.
LEMMA SourceGood ==
  ASSUME NEW s, NEW p \in PadsType, NEW c \in Code,
         End(s) = "be" => p.in.code \in Bayer /\ p.crop.h <= p.in.h
  PROVE  GoodPads(s, [p EXCEPT !.out = Source(s, p, c)])
<1> DEFINE o == Source(s, p, c)
<1> DEFINE q == [p EXCEPT !.out = o]
<1>1. o \in PadFormat /\ o.w = p.crop.w /\ o.h = p.crop.h
      /\ (End(s) = "be" => o.code = Shifted(p.in.code, p.crop))
  BY SourceFacts
<1> HIDE DEF o
<1>2. q \in PadsType /\ q.out = o /\ q.in = p.in /\ q.crop = p.crop
  BY <1>1 DEF PadsType
<1> HIDE DEF q
<1>3. GoodPads(s, q)
  BY <1>1, <1>2 DEF GoodPads
<1> QED
  BY <1>3 DEF q, o

LEMMA FormatCallFacts ==
  ASSUME NEW s, GoodPads(s, pads[s]), FormatCall(s)
  PROVE  \E p : /\ GoodPads(s, p) /\ pads' = [pads EXCEPT ![s] = p]
                /\ touched' = [touched EXCEPT ![s] = @ \cup {"pads"}] /\ node' = node /\ told' = told
<1> DEFINE old == pads[s]
<1>1. ASSUME NEW p, GoodPads(s, p), SetPads(s, p)
      PROVE  \E r : /\ GoodPads(s, r) /\ pads' = [pads EXCEPT ![s] = r]
                    /\ touched' = [touched EXCEPT ![s] = @ \cup {"pads"}] /\ node' = node /\ told' = told
  BY <1>1 DEF SetPads
<1>2. old \in PadsType
  BY DEF GoodPads
<1>3. ASSUME NEW f \in PadFormat, SetReceiverIn(s, f) \/ SetReceiverOut(s, f)
      PROVE  \E p : GoodPads(s, p) /\ SetPads(s, p)
  <2> DEFINE p1 == [old EXCEPT !.rxIn = f, !.rxOut = f]
  <2> DEFINE p2 == [old EXCEPT !.rxOut = f]
  <2>1. /\ p1 \in PadsType /\ p1.in = old.in /\ p1.out = old.out /\ p1.crop = old.crop
        /\ p2 \in PadsType /\ p2.in = old.in /\ p2.out = old.out /\ p2.crop = old.crop
    BY <1>2 DEF PadsType
  <2>2. SetPads(s, p1) \/ SetPads(s, p2)
    BY <1>3 DEF SetReceiverIn, SetReceiverOut
  <2> HIDE DEF p1, p2
  <2>3. GoodPads(s, p1) /\ GoodPads(s, p2)
    BY <2>1 DEF GoodPads
  <2> QED
    BY <2>2, <2>3
<1>4. ASSUME NEW f \in PadFormat, SetBackEndIn(s, f) PROVE \E p : GoodPads(s, p) /\ SetPads(s, p)
  <2> DEFINE g == Supported(s, f)
  <2> DEFINE k == Full(g)
  <2> DEFINE p == [old EXCEPT !.in = g, !.crop = k]
  <2> DEFINE c == g.code
  <2>1. SetPads(s, [p EXCEPT !.out = Source(s, p, c)])
    BY <1>4 DEF SetBackEndIn
  <2>2. g \in PadFormat /\ (End(s) = "be" => g.code \in Bayer)
    BY FormatFacts
  <2> HIDE DEF g
  <2>3. k \in Rect /\ k.h = g.h
    BY <2>2, FormatFacts
  <2>4. c \in Code
    BY <2>2 DEF PadFormat
  <2> HIDE DEF k, c
  <2>5. p \in PadsType /\ p.in = g /\ p.crop = k
    BY <1>2, <2>2, <2>3 DEF PadsType
  <2>6. p.crop.h <= p.in.h
    <3>1. g.h \in Int
      BY <2>2 DEF PadFormat, Size
    <3> QED
      BY <2>3, <2>5, <3>1
  <2> HIDE DEF p
  <2>7. GoodPads(s, [p EXCEPT !.out = Source(s, p, c)])
    BY <2>2, <2>4, <2>5, <2>6, SourceGood
  <2> QED
    BY <2>1, <2>7
<1>5. ASSUME NEW f \in PadFormat, SetBackEndOut(s, f) PROVE \E p : GoodPads(s, p) /\ SetPads(s, p)
  <2> DEFINE c == Supported(s, f).code
  <2>1. SetPads(s, [old EXCEPT !.out = Source(s, old, c)])
    BY <1>5 DEF SetBackEndOut
  <2>2. c \in Code
    BY FormatFacts DEF PadFormat
  <2>3. GoodPads(s, [old EXCEPT !.out = Source(s, old, c)])
    <3>1. End(s) = "be" => old.in.code \in Bayer /\ old.crop.h <= old.in.h
      BY DEF GoodPads
    <3> HIDE DEF c, old
    <3> QED
      BY <1>2, <2>2, <3>1, SourceGood
  <2> QED
    BY <2>1, <2>3
<1>6. ASSUME NEW r \in Rect, SetCrop(s, r) PROVE \E p : GoodPads(s, p) /\ SetPads(s, p)
  <2> DEFINE k == Cropped(s, r)
  <2> DEFINE p == [old EXCEPT !.crop = k]
  <2> DEFINE c == p.out.code
  <2>1. SetPads(s, [p EXCEPT !.out = Source(s, p, c)])
    BY <1>6 DEF SetCrop
  <2>2. /\ old.in \in PadFormat /\ old.out \in PadFormat
        /\ old.in.h \in Size /\ old.out.code \in Code
    BY <1>2 DEF PadsType, PadFormat
  <2>3. k \in Rect /\ (End(s) = "be" => k.h <= old.in.h)
    <3> HIDE DEF old
    <3>1. CASE End(s) = "be"
      <4> DEFINE m == IF r.h > old.in.h THEN old.in.h ELSE r.h
      <4>1. m \in Size /\ m <= old.in.h
        BY <2>2 DEF Rect, Size
      <4>2. k = [r EXCEPT !.h = m]
        BY <3>1 DEF Cropped, old
      <4> HIDE DEF m, k
      <4>3. k \in Rect /\ k.h = m
        BY <4>1, <4>2 DEF Rect
      <4> QED
        BY <4>1, <4>3
    <3>2. CASE End(s) # "be"
      <4> DEFINE z == [r EXCEPT !.left = 0, !.top = 0]
      <4>1. k = r \/ k = z
        BY <3>2 DEF Cropped
      <4> HIDE DEF p, c, k
      <4>2. z \in Rect
        <5>1. 0 \in 0 .. 1
          OBVIOUS
        <5> QED
          BY <5>1 DEF Rect
      <4> HIDE DEF z
      <4> QED
        BY <3>2, <4>1, <4>2
    <3> QED
      BY <3>1, <3>2
  <2> HIDE DEF k
  <2>4. p \in PadsType /\ p.in = old.in /\ p.out = old.out /\ p.crop = k
    BY <1>2, <2>3 DEF PadsType
  <2>5. End(s) = "be" => p.in.code \in Bayer /\ p.crop.h <= p.in.h
    BY <2>3, <2>4 DEF GoodPads
  <2>6. c \in Code
    BY <2>2, <2>4
  <2> HIDE DEF p, c
  <2>7. GoodPads(s, [p EXCEPT !.out = Source(s, p, c)])
    BY <2>4, <2>5, <2>6, SourceGood
  <2> QED
    BY <2>1, <2>7
<1>7. \E p : GoodPads(s, p) /\ SetPads(s, p)
  BY <1>3, <1>4, <1>5, <1>6, FormatsAssumption DEF FormatCall
<1> QED
  BY <1>1, <1>7

LEMMA PadsStayGood ==
  ASSUME board' = board, NEW s, NEW p, GoodPads(s, p), pads'[s] = p
  PROVE  GoodPads(s, pads[s])'
<1>1. End(s)' = End(s)
  BY DEF End
<1> QED
  BY <1>1 DEF GoodPads

\* Nothing of the formats of s changes.
LEMMA FormatKept ==
  ASSUME board' = board, NEW s, OneFormat(s), pads'[s] = pads[s], node'[s] = node[s],
         told'[s] = told[s], touched'[s] = touched[s], at'[s] = at[s]
  PROVE  OneFormat(s)'
<1>1. GoodPads(s, pads[s])'
  BY PadsStayGood DEF OneFormat
<1>2. (Valid(s)' <=> Valid(s)) /\ (NodeLate(s)' <=> NodeLate(s))
  BY DEF Valid, End, NodeLate
<1> QED
  BY <1>1, <1>2 DEF OneFormat

LEMMA FormatsHold ==
  ASSUME Wired, StreamInv, FormatsInv, Next
  PROVE  FormatsInv'
<1>0. board' = board /\ Present \subseteq Sensor
  BY WiringKept, WireFacts
<1>1. /\ pads \in [Sensor -> PadsType] /\ node \in [Sensor -> PadFormat]
      /\ told \in [Sensor -> PadFormat \cup {NotTold}] /\ touched \in [Sensor -> SUBSET {"pads", "node"}]
      /\ at \in [Sensor -> {"off", "prepared"} \cup Receiving]
  BY DEF FormatsInv, StreamInv
<1>2. ASSUME pads' = pads, node' = node, NEW s \in Present,
             told' \in {told, [told EXCEPT ![s] = node[s]], [told EXCEPT ![s] = NotTold]},
             \/ touched' = touched
             \/ touched' = [touched EXCEPT ![s] = {}] /\ Valid(s) /\ told' = [told EXCEPT ![s] = NotTold],
             \A t \in Present \ {s} : at'[t] = at[t],
             told'[s] # NotTold => at'[s] \in {"told", "started", "on"},
             at'[s] # "off" => at[s] # "off" \/ Valid(s)
      PROVE  FormatsInv'
  <2>1. /\ told' \in [Sensor -> PadFormat \cup {NotTold}] /\ touched' \in [Sensor -> SUBSET {"pads", "node"}]
    BY <1>0, <1>1, <1>2
  <2>2. ASSUME NEW t \in Present \ {s} PROVE OneFormat(t)'
    BY <1>0, <1>1, <1>2, FormatKept DEF FormatsInv
  <2>3. OneFormat(s)'
    <3>1. OneFormat(s) /\ s \in Sensor
      BY <1>0 DEF FormatsInv
    <3>2. GoodPads(s, pads[s])'
      BY <1>0, <1>2, <3>1, PadsStayGood DEF OneFormat
    <3>3. told'[s] # NotTold => told'[s] = node'[s] \/ NodeLate(s)'
      <4>1. CASE touched' = touched
        BY <1>0, <1>1, <1>2, <3>1, <4>1 DEF OneFormat, NodeLate
      <4>2. CASE touched' = [touched EXCEPT ![s] = {}] /\ told' = [told EXCEPT ![s] = NotTold]
        BY <1>1, <3>1, <4>2
      <4> QED
        BY <1>2, <4>1, <4>2
    <3>4. at'[s] # "off" /\ "pads" \notin touched'[s] => Valid(s)
      BY <1>1, <1>2, <3>1 DEF OneFormat
    <3>5. Valid(s)' <=> Valid(s)
      BY <1>0, <1>2 DEF Valid, End
    <3> QED
      BY <1>2, <3>2, <3>3, <3>4, <3>5 DEF OneFormat
  <2> QED
    BY <1>0, <1>1, <1>2, <2>1, <2>2, <2>3 DEF FormatsInv, Present
<1>3. ASSUME UNCHANGED << formats, at >> PROVE FormatsInv'
  <2>1. /\ pads' = pads /\ node' = node /\ told' = told /\ touched' = touched /\ at' = at
    BY <1>3 DEF formats
  <2>2. \A t \in Present : OneFormat(t)'
    BY <1>0, <2>1, FormatKept DEF FormatsInv
  <2> QED
    BY <1>0, <2>1, <2>2 DEF FormatsInv, Present
<1>4. CASE IsysProbe \/ IsysStep \/ IsysStepFails \/ IsysRemove \/ IsysRemoveStep
  BY <1>3, <1>4 DEF IsysProbe, IsysStep, IsysStepFails, IsysRemove, IsysRemoveStep
<1>5. ASSUME NEW s \in Present, SensorComes(s) \/ SensorGoes(s) \/ Suspends(s) \/ Sleeps(s) \/ SetControl(s)
      PROVE  FormatsInv'
  BY <1>3, <1>5 DEF SensorComes, SensorGoes, Suspends, Sleeps, SetControl
<1>6. ASSUME NEW s \in Present, SetFormat(s) PROVE FormatsInv'
  <2>0. at' = at
    BY <1>6 DEF SetFormat
  <2>1. CASE FormatCall(s)
    <3>1. PICK p : /\ GoodPads(s, p) /\ pads' = [pads EXCEPT ![s] = p]
                   /\ touched' = [touched EXCEPT ![s] = @ \cup {"pads"}] /\ node' = node /\ told' = told
      BY <2>1, FormatCallFacts DEF FormatsInv, OneFormat
    <3>2. p \in PadsType
      BY <3>1 DEF GoodPads
    <3>3. pads' \in [Sensor -> PadsType] /\ touched' \in [Sensor -> SUBSET {"pads", "node"}]
      BY <1>1, <3>1, <3>2
    <3>4. ASSUME NEW t \in Present \ {s} PROVE OneFormat(t)'
      BY <1>0, <1>1, <2>0, <3>1, FormatKept DEF FormatsInv
    <3>5. OneFormat(s)'
      <4>1. OneFormat(s) /\ s \in Sensor
        BY <1>0 DEF FormatsInv
      <4>2. pads'[s] = p /\ "pads" \in touched'[s]
        BY <1>1, <3>1, <4>1
      <4>3. GoodPads(s, pads[s])'
        BY <1>0, <3>1, <4>2, PadsStayGood
      <4> QED
        BY <1>0, <1>1, <2>0, <3>1, <4>1, <4>2, <4>3 DEF OneFormat, NodeLate
    <3> QED
      BY <1>0, <1>1, <3>1, <3>3, <3>4, <3>5 DEF FormatsInv, Present
  <2>2. CASE QueueIdle(s) /\ \E f \in PadFormats : SetNode(s, f, at[s] \in {"told", "started"})
    <3> DEFINE late == at[s] \in {"told", "started"}
    <3> DEFINE now == IF late THEN touched[s] \cup {"node"} ELSE touched[s]
    <3>1. PICK f \in PadFormats : /\ node' = [node EXCEPT ![s] = Supported(s, f)]
                                 /\ touched' = [touched EXCEPT ![s] = now]
                                 /\ pads' = pads /\ told' = told
      BY <2>2 DEF SetNode, NodeFormat
    <3>2. s \in Sensor /\ OneFormat(s) /\ now \in SUBSET {"pads", "node"}
      BY <1>0, <1>1 DEF FormatsInv
    <3>3. node' \in [Sensor -> PadFormat] /\ touched' \in [Sensor -> SUBSET {"pads", "node"}]
      BY <1>1, <3>1, <3>2, FormatFacts, FormatsAssumption
    <3>4. told[s] # NotTold => late /\ ~ board[s].own
      BY <2>2, <3>2 DEF QueueIdle, Starting, OneFormat
    <3>5. ASSUME NEW t \in Present \ {s} PROVE OneFormat(t)'
      BY <1>0, <1>1, <2>0, <3>1, FormatKept DEF FormatsInv
    <3>6. OneFormat(s)'
      <4>1. GoodPads(s, pads[s])'
        BY <1>0, <3>1, <3>2, PadsStayGood DEF OneFormat
      <4>2. touched'[s] = now
        BY <1>1, <3>1, <3>2
      <4>3. told'[s] # NotTold => NodeLate(s)'
        BY <1>0, <3>1, <3>4, <4>2 DEF NodeLate
      <4>4. "pads" \notin touched'[s] => "pads" \notin touched[s]
        BY <4>2
      <4>5. Valid(s)' <=> Valid(s)
        BY <1>0, <3>1 DEF Valid, End
      <4> QED
        BY <2>0, <3>1, <3>2, <4>1, <4>3, <4>4, <4>5 DEF OneFormat
    <3> QED
      BY <1>0, <1>1, <3>1, <3>3, <3>5, <3>6 DEF FormatsInv, Present
  <2> QED
    BY <1>6, <2>1, <2>2 DEF SetFormat
<1>7. ASSUME NEW s \in Present, NEW a, NEW b, Moves(s, a, b)
      PROVE  at[s] = a /\ at'[s] = b /\ \A t \in Present \ {s} : at'[t] = at[t]
  BY <1>0, <1>1, <1>7 DEF Moves
<1>8. \A s \in Present : told[s] # NotTold => at[s] \in {"told", "started", "on"}
  BY DEF FormatsInv, OneFormat
<1>9. ASSUME NEW s \in Present, Prepare(s) PROVE FormatsInv'
  <2>1. pads' = pads /\ node' = node /\ told' = told
    BY <1>9 DEF Prepare
  <2>2. CASE Compare(s) /\ Moves(s, "off", "prepared")
    <3>1. at[s] = "off" /\ at'[s] = "prepared" /\ \A t \in Present \ {s} : at'[t] = at[t]
      BY <1>7, <2>2
    <3>2. Valid(s) /\ touched' = [touched EXCEPT ![s] = {}]
      BY <2>2 DEF Compare
    <3>3. told'[s] = NotTold /\ told' = [told EXCEPT ![s] = NotTold]
      BY <1>0, <1>1, <1>8, <2>1, <3>1
    <3> QED
      BY <1>2, <2>1, <3>1, <3>2, <3>3
  <2>3. CASE UNCHANGED << touched, at >>
    BY <1>3, <2>1, <2>3 DEF formats
  <2> QED
    BY <1>9, <2>2, <2>3 DEF Prepare
<1>10. ASSUME NEW s \in Present, ReceiverStarts(s) \/ SensorOff(s) \/ ReceiverStops(s) PROVE FormatsInv'
  <2>1. pads' = pads /\ node' = node /\ told' = told /\ touched' = touched
    BY <1>10 DEF ReceiverStarts, SensorOff, ReceiverStops, formats
  <2>2. /\ at[s] \in {"prepared", "stopping", "unwinding"}
        /\ \A t \in Present \ {s} : at'[t] = at[t]
    BY <1>7, <1>10 DEF ReceiverStarts, SensorOff, ReceiverStops
  <2>3. told'[s] = NotTold
    BY <1>8, <2>1, <2>2
  <2> QED
    BY <1>2, <2>1, <2>2, <2>3
<1>11. ASSUME NEW s \in Present, FirmwareStarts(s) \/ SensorOn(s) \/ StartReturns(s) \/ FirmwareStops(s) PROVE FormatsInv'
  <2>1. pads' = pads /\ node' = node /\ touched' = touched
    BY <1>11 DEF FirmwareStarts, SensorOn, StartReturns, FirmwareStops, formats
  <2>2. \/ Moves(s, "receiving", "told") /\ told' = [told EXCEPT ![s] = node[s]]
        \/ Moves(s, "receiving", "unwinding") /\ told' = told
        \/ Moves(s, "told", Started(s)) /\ told' = told
        \/ Moves(s, "started", "on") /\ told' = told
        \/ Moves(s, "told", "unwinding") /\ told' = [told EXCEPT ![s] = NotTold]
        \/ Moves(s, "on", "stopping") /\ told' = [told EXCEPT ![s] = NotTold]
    BY <1>11 DEF FirmwareStarts, SensorOn, StartReturns, FirmwareStops, Tell, Untell, Started, formats
  <2>3. \A t \in Present \ {s} : at'[t] = at[t]
    BY <1>7, <2>2
  <2>4. at[s] # "off"
    BY <1>7, <2>2
  <2>5. told' \in {told, [told EXCEPT ![s] = node[s]], [told EXCEPT ![s] = NotTold]}
    BY <2>2
  <2>6. told'[s] # NotTold => at'[s] \in {"told", "started", "on"}
    BY <1>0, <1>1, <1>7, <1>8, <2>2 DEF Started
  <2> QED
    BY <1>2, <2>1, <2>3, <2>4, <2>5, <2>6
<1> QED
  BY <1>4, <1>5, <1>6, <1>9, <1>10, <1>11 DEF Next

------------------------------------------------------------------------------
(* The invariant *)

LEMMA InitHolds == CameraInit => IInv /\ ConfiguredInv
<1> SUFFICES ASSUME CameraInit PROVE IInv /\ ConfiguredInv
  OBVIOUS
<1>0. /\ isys = "waiting" /\ step = 1 /\ held = {} /\ linked = {} /\ bound = {}
      /\ at = [s \in Sensor |-> "off"]
  BY DEF CameraInit, Csi2Init
<1>1. Wired
  BY DEF CameraInit, Csi2Init, Wired
<1>2. LifeInv
  BY <1>0 DEF CameraInit, SensorInit, LifeInv
<1>3. StreamInv
  BY <1>0, <1>1, WireFacts DEF StreamInv
<1>4. SensorInv
  <2>1. /\ usage = [s \in Sensor |-> 0] /\ streaming = [s \in Sensor |-> FALSE]
        /\ ctrl = [s \in Sensor |-> DefaultCtrl] /\ reg = [s \in Sensor |-> Standby]
        /\ dirty = [s \in Sensor |-> FALSE]
    BY DEF CameraInit, SensorInit
  <2> QED
    BY <2>1, DefaultsTyped DEF SensorInv, SensorTyped, OneSensor
<1>5. ReceiverInv /\ ConfiguredInv
  <2>1. /\ streamCount = [p \in Port |-> 0] /\ rx = [p \in Port |-> 0] /\ stuck = {} /\ phyUp = {}
        /\ phyRef = [h \in Phy |-> 0] /\ sip = [i \in Sip |-> 0]
    BY DEF CameraInit, Csi2Init
  <2>2. \A s \in Present : at[s] = "off"
    BY <1>0, <1>1, WireFacts
  <2>3. \A p \in Port : PortInv(p)
    BY <2>1, <2>2 DEF PortInv, InUsePort, Receiving
  <2>4. \A h \in Phy : RxPorts(h) = {}
    BY <2>1 DEF RxPorts
  <2>5. \A h \in Phy : phyRef[h] = Cardinality(RxPorts(h)) /\ phyRef[h] = 0
    BY <2>1, <2>4, FS_EmptySet
  <2>6. PhyCountsPorts
    BY <2>1, <2>5 DEF PhyCountsPorts, RxPorts
  <2>7. ReceiverTyped
    BY <2>1 DEF ReceiverTyped
  <2>8. ConfiguredInv
    BY <1>0 DEF ConfiguredInv
  <2> QED
    BY <2>2, <2>3, <2>6, <2>7, <2>8 DEF ReceiverInv, Receiving
<1>6. FormatsInv
  <2> DEFINE raw == << 0, 0 >>
  <2> DEFINE first(s) == IF s \in DOMAIN board /\ End(s) = "be" THEN raw ELSE Yuv
  <2> DEFINE k(s) == Full(Default(first(s)))
  <2> DEFINE p(s) == [rxIn |-> Default(Yuv), rxOut |-> Default(Yuv), in |-> Default(first(s)),
                      out |-> Default(first(s)), crop |-> k(s)]
  <2>1. /\ pads = [s \in Sensor |-> p(s)] /\ node = [s \in Sensor |-> Smallest]
        /\ told = [s \in Sensor |-> NotTold] /\ touched = [s \in Sensor |-> {}]
    BY DEF CameraInit, FormatsInit
  <2>2. raw \in Bayer /\ raw \in Code /\ Yuv \in Code
    BY DEF Bayer, Code
  <2>3. \A c \in Code : /\ Default(c) \in PadFormat
                        /\ Default(c).w = 2 /\ Default(c).h = 2 /\ Default(c).code = c
    BY DEF Default, PadFormat, Size, MaxSize
  <2>4. Smallest \in PadFormat
    BY <2>2 DEF Smallest, PadFormat, Size, MaxSize
  <2>5. \A s : first(s) \in Code
    BY <2>2
  <2> HIDE DEF first
  <2>6. \A s : /\ k(s) \in Rect /\ k(s).w = 2 /\ k(s).h = 2 /\ k(s).left = 0 /\ k(s).top = 0
    BY <2>3, <2>5 DEF Full, Rect, Size, MaxSize
  <2>7. \A s : Shifted(raw, k(s)) = raw
    BY <2>6 DEF Shifted
  <2> HIDE DEF k
  <2>8. \A s : p(s) \in PadsType
    BY <2>2, <2>3, <2>5, <2>6 DEF PadsType
  <2>9. \A s \in Present : GoodPads(s, p(s))
    <3> SUFFICES ASSUME NEW s \in Present, End(s) = "be"
                 PROVE  LET q == p(s) IN
                        /\ q.in.code \in Bayer
                        /\ q.out.w = q.crop.w /\ q.out.h = q.crop.h /\ q.crop.h <= q.in.h
                        /\ q.out.code = Shifted(q.in.code, q.crop)
      BY <2>8 DEF GoodPads
    <3>1. first(s) = raw
      BY DEF first, Present
    <3> QED
      BY <2>2, <2>3, <2>6, <2>7, <3>1
  <2>10. \A s \in Present : OneFormat(s)
    <3> HIDE DEF p
    <3> QED
      BY <1>0, <1>1, <2>1, <2>9, WireFacts DEF OneFormat
  <2> QED
    BY <2>1, <2>4, <2>8, <2>10 DEF FormatsInv
<1> QED
  BY <1>1, <1>2, <1>3, <1>4, <1>5, <1>6 DEF IInv

LEMMA StutterHolds == (IInv /\ UNCHANGED vars => IInv') /\ (ConfiguredInv /\ UNCHANGED vars => ConfiguredInv')
<1> SUFFICES ASSUME UNCHANGED vars PROVE (IInv => IInv') /\ (ConfiguredInv => ConfiguredInv')
  OBVIOUS
<1>0. /\ UNCHANGED sensorVars /\ UNCHANGED csi2Vars /\ UNCHANGED formats /\ UNCHANGED life /\ at' = at
  BY DEF vars
<1>1. ver' = ver /\ board' = board /\ bound' = bound /\ UNCHANGED receivers
  BY <1>0 DEF csi2Vars
<1>2. ASSUME IInv PROVE IInv'
  <2>0. Present \subseteq Sensor
    BY <1>2, WireFacts DEF IInv
  <2>1. Wired'
    BY <1>2, WiredHolds DEF IInv
  <2>2. LifeInv'
    BY <1>0, <1>1, <1>2, LifeKept DEF IInv, sensorVars
  <2>3. StreamInv'
    BY <1>0, <1>1, <1>2 DEF IInv, StreamInv, life, Present
  <2>4. SensorInv'
    BY <1>0, <1>1, <1>2, SensorsRest DEF IInv, SensorInv, OneSensor
  <2>5. ReceiverInv'
    BY <1>0, <1>1, <1>2, ReceiversRest DEF IInv
  <2>6. FormatsInv'
    <3>1. pads' = pads /\ node' = node /\ told' = told /\ touched' = touched
      BY <1>0 DEF formats
    <3>2. \A s \in Present : OneFormat(s)'
      BY <1>0, <1>1, <1>2, <3>1, FormatKept DEF IInv, FormatsInv
    <3> QED
      BY <1>1, <1>2, <3>1, <3>2 DEF IInv, FormatsInv, Present
  <2> QED
    BY <2>1, <2>2, <2>3, <2>4, <2>5, <2>6 DEF IInv
<1>3. ASSUME ConfiguredInv PROVE ConfiguredInv'
  <2>1. phyRef' = phyRef /\ configured' = configured
    BY <1>1 DEF receivers
  <2> QED
    BY <1>1, <1>3, <2>1 DEF ConfiguredInv, PortOf, PhyOf
<1> QED
  BY <1>2, <1>3

\* Everything above, of every state.
THEOREM Invariant == Spec => []IInv
<1>1. IInv /\ [Next]_vars => IInv'
  <2>1. ASSUME IInv, Next PROVE IInv'
    BY <2>1, WiredHolds, LifeHolds, StreamsHold, SensorsHold, ReceiversHold, FormatsHold DEF IInv
  <2> QED
    BY <2>1, StutterHolds
<1> QED
  BY <1>1, InitHolds, PTL DEF Spec

\* An MCD PHY that is up has its registers for every sensor that is bound, if no sensor
\* binds while it is up.
THEOREM Configured == ASSUME BindsInTime PROVE Spec => []ConfiguredInv
<1>1. IInv /\ ConfiguredInv /\ [Next]_vars => ConfiguredInv'
  <2>1. ASSUME IInv, ConfiguredInv, Next PROVE ConfiguredInv'
    BY <2>1, ConfiguredHolds DEF IInv
  <2> QED
    BY <2>1, StutterHolds
<1> QED
  BY <1>1, InitHolds, Invariant, PTL DEF Spec

------------------------------------------------------------------------------
(* What it says *)

LEMMA RecordIsItsFields ==
  ASSUME NEW r \in RegType, NEW c \in CtrlType, r.vts = Height[c.mode] + c.vblank,
         r.exposure = c.exposure, r.gain = c.gain, r.flip = c.flip
  PROVE  r = Written(r, c)
<1>1. Written(r, c) \in RegType
  BY WrittenFacts
<1> DEFINE w == Written(r, c)
<1>2. /\ w.on = r.on /\ w.mode = r.mode /\ w.vts = r.vts
      /\ w.exposure = r.exposure /\ w.gain = r.gain /\ w.flip = r.flip
  BY WrittenFacts
<1> HIDE DEF w
<1>3. w \in RegType
  BY <1>1 DEF w
<1>4. w = r
  BY <1>2, <1>3 DEF RegType
<1> QED
  BY <1>4 DEF w

\* Whatever writes fail, a sensor that streams has its users' settings in its registers
\* and an exposure that ends before the frame does.
THEOREM SettingsReachRegisters == Spec => []RegistersAreSettings
<1>1. ASSUME IInv PROVE RegistersAreSettings
  <2> SUFFICES ASSUME NEW s \in Sensor, reg[s].on, ~ dirty[s]
               PROVE  /\ reg[s].mode = ctrl[s].mode /\ reg[s] = Written(reg[s], ctrl[s])
                      /\ reg[s].exposure <= reg[s].vts - 8
    BY DEF RegistersAreSettings
  <2>1. Settled(s) /\ reg[s] \in RegType /\ ctrl[s] \in CtrlType
    BY <1>1 DEF IInv, SensorInv, SensorTyped, OneSensor
  <2>2. reg[s] = Written(reg[s], ctrl[s])
    BY <2>1, RecordIsItsFields DEF Settled
  <2>3. reg[s].exposure <= reg[s].vts - 8
    <3>1. reg[s].vts = Height[ctrl[s].mode] + ctrl[s].vblank
      BY <2>1 DEF Settled
    <3>2. reg[s].exposure <= Height[ctrl[s].mode] + ctrl[s].vblank - 8
      BY <2>1 DEF Settled, Fitting
    <3>3. Height[ctrl[s].mode] \in Int /\ ctrl[s].vblank \in Int
      BY <2>1, ModeFacts DEF CtrlType
    <3> QED
      BY <3>1, <3>2, <3>3
  <2> QED
    BY <2>1, <2>2, <2>3 DEF Settled
<1> QED
  BY <1>1, Invariant, PTL

\* Sensors are linked to receivers that exist, and an input system that is not bound
\* holds none of them.
THEOREM ReceiversExist == Spec => []SensorsHaveReceivers
<1>1. ASSUME IInv PROVE SensorsHaveReceivers
  <2>1. LifeInv
    BY <1>1 DEF IInv
  <2>2. linked # {} => {"csi2", "v4l2"} \subseteq held
    <3>1. linked \subseteq bound
      BY <2>1 DEF LifeInv
    <3>2. CASE isys = "waiting" \/ isys = "bound"
      BY <2>1, <3>1, <3>2 DEF LifeInv
    <3>3. CASE isys = "probing"
      BY <2>1, <3>1, <3>3 DEF LifeInv, Probing
    <3>4. CASE isys = "removing"
      BY <2>1, <3>1, <3>4 DEF LifeInv, Removing
    <3> QED
      BY <2>1, <3>2, <3>3, <3>4 DEF LifeInv
  <2> QED
    BY <2>1, <2>2 DEF LifeInv, SensorsHaveReceivers
<1> QED
  BY <1>1, Invariant, PTL

\* An MCD PHY has one reference for every port behind it that receives.
THEOREM PhysCounted == Spec => []PhyCountsPorts
<1>1. IInv => PhyCountsPorts
  BY DEF IInv, ReceiverInv
<1> QED
  BY <1>1, Invariant, PTL

\* What a sensor sends meets a receiver with its lanes and clock behind a PHY that is
\* up and configured for it, if no sensor binds while that PHY is up.
THEOREM StreamsReceived == ASSUME BindsInTime PROVE Spec => []ReceivesWhatStreams
<1>1. ASSUME IInv, ConfiguredInv PROVE ReceivesWhatStreams
  <2> SUFFICES ASSUME NEW s \in Present, streaming[s], PortOf(s) \notin stuck
               PROVE  /\ rx[PortOf(s)] = Lanes(s) /\ PortOf(s) \in clock /\ PhyReady(s)
    BY DEF ReceivesWhatStreams, Present
  <2>1. Wired /\ LifeInv /\ StreamInv /\ SensorInv /\ ReceiverInv
    BY <1>1 DEF IInv
  <2>2. at[s] \in {"started", "on", "stopping"}
    BY <2>1, WireFacts DEF SensorInv, OneSensor
  <2>3. Served(s) /\ s \in bound
    BY <2>1, <2>2 DEF ReceiverInv, Receiving, StreamInv, LifeInv
  <2>4. PortOf(s) \in Port /\ Lanes(s) # 0 /\ PhyOf(PortOf(s)) \in Phy /\ ver \in {"6", "6SE", "MTL"}
    BY <2>1, WireFacts, PhyFacts, BoardAssumption DEF Wired
  <2>5. ASSUME ver = "6" PROVE PhyOf(PortOf(s)) \in phyUp /\ PortOf(s) \in configured
    <3> DEFINE h == PhyOf(PortOf(s))
    <3>1. PortOf(s) \in RxPorts(h)
      BY <2>3, <2>4, <2>5 DEF RxPorts, Served
    <3>2. phyRef[h] = Cardinality(RxPorts(h)) /\ (h \in phyUp <=> phyRef[h] > 0)
      BY <2>1, <2>4, <2>5 DEF ReceiverInv, PhyCountsPorts, RxPorts
    <3>3. phyRef[h] > 0
      <4> HIDE DEF h
      <4> QED
        BY <3>1, <3>2, RxPortsFinite, FS_EmptySet
    <3> QED
      BY <1>1, <2>3, <2>5, <3>2, <3>3 DEF ConfiguredInv
  <2> QED
    BY <2>3, <2>4, <2>5 DEF Served, PhyReady
<1> QED
  BY <1>1, Invariant, Configured, PTL

\* In whatever order pads and crops are set, the source of the raw back end follows its
\* sink: as large as the crop, no taller than what comes in, with the order of the
\* colours at the corner of the crop.
THEOREM SourceFollows == Spec => []BackEndFollowsItsInput
<1>1. IInv => BackEndFollowsItsInput
  BY DEF IInv, FormatsInv, OneFormat, GoodPads, BackEndFollowsItsInput, Present
<1> QED
  BY <1>1, Invariant, PTL

\* While the firmware writes pictures they are as the node describes them, but for the
\* S_FMT that the STREAMON of a node of another's pipeline lets through; and those of
\* the raw back end follow what the receiver lets through, as long as no pad is set.
THEOREM NodeTold == Spec => []FirmwareToldTheNode
<1>1. ASSUME IInv PROVE FirmwareToldTheNode
  <2> SUFFICES ASSUME NEW s \in Present, told[s] # NotTold
               PROVE  /\ told[s] = node[s] \/ NodeLate(s)
                      /\ End(s) = "be" /\ "pads" \notin touched[s] =>
                           /\ pads[s].crop.h <= pads[s].rxOut.h
                           /\ pads[s].out.code = Shifted(pads[s].rxOut.code, pads[s].crop)
    BY DEF FirmwareToldTheNode, Present, NodeLate
  <2>1. OneFormat(s)
    BY <1>1 DEF IInv, FormatsInv
  <2>2. /\ GoodPads(s, pads[s]) /\ (told[s] = node[s] \/ NodeLate(s))
        /\ "pads" \notin touched[s] => Valid(s)
    BY <2>1 DEF OneFormat
  <2> QED
    BY <2>2 DEF Valid, GoodPads
<1> QED
  BY <1>1, Invariant, PTL
=============================================================================
