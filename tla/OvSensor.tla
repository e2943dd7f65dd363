------------------------------ MODULE OvSensor ------------------------------
(***************************************************************************)
(* The driver of the image sensor ov13b10 (ov13b10/ov13b10.c): its power,  *)
(* its modes, its controls and what of them has reached the registers.     *)
(*                                                                         *)
(* Every call of the driver runs under ov13b->mutex, which is also the     *)
(* lock of its controls, so a call is one action.  A control reaches the   *)
(* hardware only while runtime PM says the sensor is in use; a start sends *)
(* a software reset and then all of them.                                  *)
(*                                                                         *)
(* Gains and the test pattern, which are written as they are, are one      *)
(* control "gain"; the two flips, which are read, changed and written      *)
(* back, are one control "flip".                                           *)
(* External: I2C, the control framework, runtime PM, clocks, regulators.   *)
(***************************************************************************)
EXTENDS Integers

CONSTANTS
  Sensor,      \* the sensors
  Mode,        \* the modes users ask for, among the indices of supported_modes
  Faults       \* what may fail

Fails(f) == f \in Faults

\* supported_modes
Width  == << 4208, 4160, 4160, 2104, 2080, 1364 >>
Height == << 3120, 3120, 2340, 1560, 1170, 768 >>
VtsDef == << 3196, 3196, 3196, 1598, 1598, 800 >>
VtsMax == 32767
ExposureMin == 4
ExposureDefault == 64

ASSUME SensorAssumption == Mode \subseteq DOMAIN Height

VARIABLES
  driver,      \* "absent", or "bound": probed and known to V4L2
  usage,       \* runtime PM usage count
  powered,     \* clock, supply and reset line of the sensor
  identified,  \* ov13b10.identified
  streaming,   \* ov13b10.streaming
  ctrl,        \* cur_mode and the values of the controls
  reg,         \* the registers
  dirty        \* the registers need not match ctrl, and reg is not followed
               \*   any more, until the next start: a write has failed, cur_mode
               \*   was set or a flip cleared while the sensor was in use

sensorVars == << driver, usage, powered, identified, streaming, ctrl, reg, dirty >>
settings == << ctrl, reg, dirty >>

VblankDef(m) == VtsDef[m] - Height[m]    \* and the least
VblankMax(m) == VtsMax - Height[m]
Fitting(m, vblank) == Height[m] + vblank - 8

\* ov13b10_init_controls()
DefaultCtrl == [mode |-> 1, vblank |-> VblankDef(1), exposure |-> ExposureDefault,
                expMax |-> VtsDef[1] - 8, gain |-> 0, flip |-> 0]

\* The registers after power-up and software reset.
Standby == [on |-> FALSE, mode |-> 0, vts |-> 0, exposure |-> 0, gain |-> 0, flip |-> 0]

SensorInit ==
  /\ driver = [s \in Sensor |-> "absent"]
  /\ usage = [s \in Sensor |-> 0]
  /\ powered = [s \in Sensor |-> FALSE]
  /\ identified = [s \in Sensor |-> FALSE]
  /\ streaming = [s \in Sensor |-> FALSE]
  /\ ctrl = [s \in Sensor |-> DefaultCtrl]
  /\ reg = [s \in Sensor |-> Standby]
  /\ dirty = [s \in Sensor |-> FALSE]

InUse(s) == usage[s] > 0

(***************************************************************************)
(* The controls.                                                           *)
(***************************************************************************)

\* Mutant: a new blanking leaves the range of the exposure as it is.
NotRanged(c) == c

\* V4L2_CID_VBLANK of ov13b10_set_ctrl(): the exposure has to end 8 lines before
\* the frame does; the framework brings a longer one into the new range.
Ranged(c) ==
  LET max == Fitting(c.mode, c.vblank) IN
  [c EXCEPT !.expMax = max, !.exposure = IF @ > max THEN max ELSE @]

\* What the registers hold once the controls are written.
Written(r, c) == [r EXCEPT !.vts = Height[c.mode] + c.vblank, !.exposure = c.exposure,
                           !.gain = c.gain, !.flip = c.flip]

\* A control that takes a value: it is written if the sensor is in use.
Apply(s, c) ==
  /\ ctrl' = [ctrl EXCEPT ![s] = c]
  /\ reg' = IF InUse(s) THEN [reg EXCEPT ![s] = Written(@, [c EXCEPT !.flip = reg[s].flip])] ELSE reg
  /\ UNCHANGED dirty

\* A write of a register fails: the control keeps its value, but what was done
\* before, to the range of the exposure, stays done.
ApplyFails(s, cs) ==
  /\ InUse(s) /\ Fails("i2c")
  /\ \E c \in cs : ctrl' = [ctrl EXCEPT ![s] = c]
  /\ dirty' = [dirty EXCEPT ![s] = TRUE]
  /\ UNCHANGED reg

SetVblank(s, v) ==
  LET old == ctrl[s]
      new == Ranged([old EXCEPT !.vblank = v]) IN
  /\ v \in VblankDef(old.mode) .. VblankMax(old.mode) /\ v # old.vblank
  /\ \/ Apply(s, new)
     \/ ApplyFails(s, {[new EXCEPT !.vblank = old.vblank],
                       [new EXCEPT !.vblank = old.vblank, !.exposure = old.exposure]})

SetExposure(s, v) ==
  /\ v \in ExposureMin .. ctrl[s].expMax /\ v # ctrl[s].exposure
  /\ \/ Apply(s, [ctrl[s] EXCEPT !.exposure = v])
     \/ ApplyFails(s, {ctrl[s]})

SetGain(s, v) ==
  /\ v # ctrl[s].gain
  /\ \/ Apply(s, [ctrl[s] EXCEPT !.gain = v])
     \/ ApplyFails(s, {ctrl[s]})

\* ov13b10_set_ctrl_hflip(), _vflip(): clearing writes back what was read; that
\* a write fails is not told to anybody.
SetFlip(s, v) ==
  /\ v # ctrl[s].flip
  /\ ctrl' = [ctrl EXCEPT ![s].flip = v]
  /\ \E done \in IF Fails("i2c") THEN BOOLEAN ELSE {TRUE} :
       /\ reg' = IF InUse(s) /\ done /\ v = 1 THEN [reg EXCEPT ![s].flip = 1] ELSE reg
       /\ dirty' = IF InUse(s) /\ (~done \/ v = 0) THEN [dirty EXCEPT ![s] = TRUE] ELSE dirty

\* ov13b10_set_pad_format(): the mode, then the vertical blanking to its
\* default, which does nothing if that is the value it has.  Nothing is refused
\* while the sensor streams.
SetMode(s, m) ==
  LET moved == [ctrl[s] EXCEPT !.mode = m]
      new == IF moved.vblank = VblankDef(m) THEN moved
             ELSE Ranged([moved EXCEPT !.vblank = VblankDef(m)]) IN
  /\ ctrl' = [ctrl EXCEPT ![s] = new]
  /\ dirty' = IF InUse(s) THEN [dirty EXCEPT ![s] = TRUE] ELSE dirty
  /\ UNCHANGED reg

Controls(s) ==
  /\ driver[s] = "bound"
  /\ \/ \E v \in {VblankDef(m) : m \in Mode} \union {VblankMax(ctrl[s].mode)} : SetVblank(s, v)
     \/ \E v \in {ExposureMin, ctrl[s].expMax} : SetExposure(s, v)
     \/ \E v \in {0, 1} : SetGain(s, v) \/ SetFlip(s, v)
  /\ UNCHANGED << driver, usage, powered, identified, streaming >>

SensorSetFmt(s) ==
  /\ driver[s] = "bound"
  /\ \E m \in Mode : SetMode(s, m)
  /\ UNCHANGED << driver, usage, powered, identified, streaming >>

(***************************************************************************)
(* Streaming: ov13b10_set_stream().                                        *)
(***************************************************************************)

\* ov13b10_start_streaming(): reset, PLL, mode, all controls (which corrects
\* the range of the exposure), mode select.
StartRegisters(s) ==
  LET c == Ranged(ctrl[s]) IN
  /\ ctrl' = [ctrl EXCEPT ![s] = c]
  /\ reg' = [reg EXCEPT ![s] = [Written(Standby, c) EXCEPT !.on = TRUE, !.mode = c.mode]]
  /\ dirty' = [dirty EXCEPT ![s] = FALSE]

\* One of the writes fails: the controls may have been visited or not.
StartFails(s) ==
  /\ Fails("i2c")
  /\ \E c \in {ctrl[s], Ranged(ctrl[s])} : ctrl' = [ctrl EXCEPT ![s] = c]
  /\ reg' = [reg EXCEPT ![s] = Standby]
  /\ UNCHANGED dirty

\* s_stream(1) of a sensor that does not stream: the runtime PM resume may fail.
SensorStarts(s) ==
  /\ powered' = [powered EXCEPT ![s] = TRUE]
  /\ usage' = [usage EXCEPT ![s] = @ + 1]
  /\ identified' = [identified EXCEPT ![s] = TRUE]
  /\ StartRegisters(s)
  /\ streaming' = [streaming EXCEPT ![s] = TRUE]
  /\ UNCHANGED driver

SensorStartFails(s) ==
  \/ Fails("power") /\ ~powered[s] /\ UNCHANGED sensorVars
  \/ /\ StartFails(s)
     /\ powered' = [powered EXCEPT ![s] = TRUE]
     /\ \E known \in {identified[s], TRUE} : identified' = [identified EXCEPT ![s] = known]
     /\ UNCHANGED << driver, usage, streaming >>

\* s_stream(0); what stopping returns is not looked at.
SensorStops(s) ==
  IF ~streaming[s] THEN UNCHANGED sensorVars
  ELSE /\ streaming' = [streaming EXCEPT ![s] = FALSE]
       /\ usage' = [usage EXCEPT ![s] = @ - 1]
       /\ reg' = [reg EXCEPT ![s].on = FALSE]
       /\ UNCHANGED << driver, powered, identified, ctrl, dirty >>

\* Runtime PM suspends a sensor that is not in use.
SensorSuspends(s) ==
  /\ powered[s] /\ ~InUse(s)
  /\ powered' = [powered EXCEPT ![s] = FALSE]
  /\ reg' = [reg EXCEPT ![s] = Standby]
  /\ UNCHANGED << driver, usage, identified, streaming, ctrl, dirty >>

\* The system sleeps and wakes, or falls back from a sleep that was refused.
\* User space is frozen in between.  A sensor that cannot start again stays in
\* use but does not stream.
SensorSleeps(s) ==
  /\ driver[s] = "bound" /\ streaming[s]
  /\ \/ StartRegisters(s) /\ UNCHANGED streaming
     \/ /\ usage[s] < 2   \* bound: it keeps its use for ever
        /\ StartFails(s) /\ streaming' = [streaming EXCEPT ![s] = FALSE]
  /\ UNCHANGED << driver, usage, powered, identified >>

(***************************************************************************)
(* ov13b10_probe() and ov13b10_remove().                                   *)
(***************************************************************************)

\* A sensor in ACPI state D0 is powered and identified at once; otherwise the
\* first start does.
SensorProbe(s) ==
  /\ driver[s] = "absent"
  /\ driver' = [driver EXCEPT ![s] = "bound"]
  /\ \E fullPower \in BOOLEAN :
       /\ powered' = [powered EXCEPT ![s] = fullPower]
       /\ identified' = [identified EXCEPT ![s] = fullPower]
  /\ usage' = [usage EXCEPT ![s] = 0]
  /\ ctrl' = [ctrl EXCEPT ![s] = DefaultCtrl]
  /\ reg' = [reg EXCEPT ![s] = Standby]
  /\ dirty' = [dirty EXCEPT ![s] = FALSE]
  /\ UNCHANGED streaming

\* The driver core lets runtime PM suspend the device first.
SensorRemove(s) ==
  /\ driver[s] = "bound"
  /\ driver' = [driver EXCEPT ![s] = "absent"]
  /\ powered' = [powered EXCEPT ![s] = @ /\ InUse(s)]
  /\ reg' = [reg EXCEPT ![s] = Standby]
  /\ UNCHANGED << usage, identified, streaming, ctrl, dirty >>

(***************************************************************************)
(* Safety.                                                                 *)
(***************************************************************************)

\* A sensor that streams does so in the mode and with the blanking, exposure,
\* gain and flip its users last asked for, across power cycles and sleeps, and
\* its exposure ends before the frame does.  Excepted until the next start: a
\* write that failed, a mode set or a flip cleared while the sensor was in use.
\* (ov13b10_set_ctrl, ov13b10_start_streaming)
RegistersAreSettings ==
  \A s \in Sensor :
    reg[s].on /\ ~dirty[s] =>
      /\ reg[s].mode = ctrl[s].mode
      /\ reg[s] = Written(reg[s], ctrl[s])
      /\ reg[s].exposure <= reg[s].vts - 8

=============================================================================
