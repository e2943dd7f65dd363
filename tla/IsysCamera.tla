----------------------------- MODULE IsysCamera -----------------------------
(***************************************************************************)
(* A camera as a whole: the input system that the bus binds (isys_probe(), *)
(* isys_register_devices(), isys_remove()), the sensors that bind to it    *)
(* whenever their driver comes, and their streams, which drive receivers   *)
(* (Csi2), pads and nodes (IsysFormats) and sensors (OvSensor).            *)
(*                                                                         *)
(* prepare_streaming() and set_streaming() of a stream are separate calls: *)
(* the first compares the pads, the second runs under stream_mutex and is  *)
(* modelled step by step, since users may set controls and formats and the *)
(* PM core may suspend sensors in between.                                 *)
(* The firmware's side of a start and a stop is in IsysStream.             *)
(* Secure mode: the input system maps no firmware image of its own.        *)
(***************************************************************************)
EXTENDS IsysFormats, Sequences

CONSTANTS
  Activities,   \* [board -> what happens on it besides starts and stops]
  MaxCalls      \* bound on calls that set controls, formats or the node

ASSUME CameraAssumption ==
  Activities \in [Boards -> SUBSET {"registration", "controls", "formats", "sleep"}]

VARIABLES
  isys,      \* the device isys: "waiting" for its driver, "probing", "bound", "removing"
  step,      \* index of the step of its probe or removal
  held,      \* what the probe has acquired and nobody given back
  linked,    \* sensors with a link to their receiver
  at,        \* [sensor -> how far its stream is]
  calls      \* calls so far

life == << isys, step, held, linked >>
vars == << sensorVars, csi2Vars, formats, life, at, calls >>

May(a) == a \in Activities[board]
Present == DOMAIN board

\* set_streaming() holds stream_mutex.
StreamMutexFree == \A s \in Present : at[s] \in {"off", "prepared", "started", "on"}

CameraInit ==
  /\ SensorInit /\ Csi2Init /\ FormatsInit
  /\ isys = "waiting" /\ step = 1 /\ held = {} /\ linked = {}
  /\ at = [s \in Sensor |-> "off"] /\ calls = 0

(***************************************************************************)
(* Probe and removal of the input system.                                  *)
(***************************************************************************)

\* isys_probe(), from "media" on isys_register_devices().
IsysSteps == << "isysDebugfs", "qos", "msgs", "media", "v4l2", "csi2", "beSoc", "be",
                "links", "notifier", "nodes" >>

NotFatal == {"isysDebugfs", "qos", "msgs"}
LeftBehind == {"isysDebugfs", "msgs"}

\* Whatever step fails, all is given back but message buffers and debugfs.
Unwound(s) == held \intersect LeftBehind

\* The memory of the device is new; its registers have lost their state.
IsysProbe ==
  /\ isys = "waiting"
  /\ isys' = "probing" /\ step' = 1
  /\ streamCount' = [p \in Port |-> 0] /\ rx' = [p \in Port |-> 0]
  /\ clock' = {} /\ stuck' = {}
  /\ UNCHANGED << phyRef, phyUp, configured, sip, held, linked, ver, board, bound,
                  sensorVars, formats, at, calls >>

\* isys_notifier_bound() of the sensors that are there: a link that cannot be
\* made is only reported.
BindAll ==
  LET there == {s \in Present : driver[s] = "bound"} IN
  /\ bound' = there
  /\ linked' \in (IF Fails("alloc") /\ May("registration") THEN SUBSET there ELSE {there})

IsysStep ==
  LET s == IsysSteps[step] IN
  /\ isys = "probing"
  /\ held' = held \union {s}
  /\ isys' = IF step = Len(IsysSteps) THEN "bound" ELSE isys
  /\ step' = IF step = Len(IsysSteps) THEN step ELSE step + 1
  /\ IF s = "notifier" THEN BindAll ELSE UNCHANGED << bound, linked >>
  /\ UNCHANGED << ver, board, receivers, sensorVars, formats, at, calls >>

IsysStepFails ==
  LET s == IsysSteps[step] IN
  /\ isys = "probing" /\ May("registration") /\ Fails("alloc")
  /\ IF s \in NotFatal
     THEN step' = step + 1 /\ UNCHANGED << isys, held, bound, linked >>
     ELSE /\ isys' = "waiting" /\ held' = Unwound(s)
          /\ bound' = {} /\ linked' = {} /\ UNCHANGED step
  /\ UNCHANGED << ver, board, receivers, sensorVars, formats, at, calls >>

\* Mutant: the receivers go before the notifier.
RemoveReceiversFirst == << "isysDebugfs", "msgs", "subdevs", "notifier", "v4l2", "media", "qos" >>

\* isys_remove(), in its order.
RemoveSteps == << "isysDebugfs", "msgs", "notifier", "subdevs", "v4l2", "media", "qos" >>

RemoveTakes(s) ==
  CASE s = "subdevs" -> {"csi2", "beSoc", "be", "links"}
    [] s = "v4l2" -> {"v4l2", "nodes"}
    [] OTHER -> {s}

\* Assumed: nobody streams.
IsysRemove ==
  /\ isys = "bound" /\ May("registration")
  /\ \A s \in Present : at[s] = "off"
  /\ isys' = "removing" /\ step' = 1
  /\ UNCHANGED << held, linked, csi2Vars, sensorVars, formats, at, calls >>

IsysRemoveStep ==
  LET s == RemoveSteps[step] IN
  /\ isys = "removing"
  /\ held' = held \ RemoveTakes(s)
  /\ bound' = IF s = "notifier" THEN {} ELSE bound
  /\ linked' = IF s = "notifier" THEN {} ELSE linked
  /\ isys' = IF step = Len(RemoveSteps) THEN "waiting" ELSE isys
  /\ step' = IF step = Len(RemoveSteps) THEN step ELSE step + 1
  /\ UNCHANGED << ver, board, receivers, sensorVars, formats, at, calls >>

(***************************************************************************)
(* The sensors.                                                            *)
(***************************************************************************)

\* A PHY that is up does not get the registers of a sensor that comes late.
\* Left out unless "lateBind".
NotTooLate(s) == ver = "6" => phyRef[PhyOf(PortOf(s))] = 0 \/ Fails("lateBind")

\* Probed, and bound at once if the notifier is there; bound or not, its driver
\* stays.
SensorComes(s) ==
  /\ SensorProbe(s)
  /\ IF "notifier" \in held
     THEN /\ NotTooLate(s)
          /\ bound' = bound \union {s}
          /\ \/ linked' = linked \union {s}
             \/ Fails("alloc") /\ May("registration") /\ UNCHANGED linked
     ELSE UNCHANGED << bound, linked >>
  /\ UNCHANGED << ver, board, receivers, formats, isys, step, held, at, calls >>

\* Assumed: nobody takes the driver of a sensor whose stream is on.
SensorGoes(s) ==
  /\ May("registration") /\ at[s] = "off"
  /\ SensorRemove(s)
  /\ bound' = bound \ {s} /\ linked' = linked \ {s}
  /\ UNCHANGED << ver, board, receivers, formats, isys, step, held, at, calls >>

Suspends(s) == SensorSuspends(s) /\ UNCHANGED << csi2Vars, formats, life, at, calls >>

\* User space is frozen: no call is under way.
Sleeps(s) ==
  /\ May("sleep") /\ \A t \in Present : at[t] \in {"off", "on"}
  /\ SensorSleeps(s)
  /\ UNCHANGED << csi2Vars, formats, life, at, calls >>

(***************************************************************************)
(* Calls of users.                                                         *)
(***************************************************************************)
Usable(s) == isys = "bound" /\ s \in linked

Called == calls < MaxCalls /\ calls' = calls + 1

SetControl(s) ==
  /\ Usable(s) /\ May("controls") /\ Called
  /\ Controls(s) \/ SensorSetFmt(s)
  /\ UNCHANGED << csi2Vars, formats, life, at >>

\* From its first look at the pads until STREAMON has returned: start_streaming()
\* holds the mutex of the node that the pipeline belongs to.
Starting == {"prepared", "receiving", "told", "started"}

\* Mutant: S_FMT relies on the mutex and does not look at the queue.
NodeUnlocked(s) == at[s] \in Starting => ~board[s].own

\* S_FMT comes through while vbq.streaming is not set, which is when STREAMON has
\* returned, and nobody holds av->mutex.
QueueIdle(s) == at[s] = "off" \/ (at[s] \in Starting /\ ~board[s].own)

SetFormat(s) ==
  /\ Usable(s) /\ May("formats") /\ Called
  /\ \/ FormatCall(s)
     \/ /\ QueueIdle(s)
        /\ \E f \in PadFormats : SetNode(s, f, at[s] \in {"told", "started"})
  /\ UNCHANGED << sensorVars, csi2Vars, life, at >>

(***************************************************************************)
(* Streams: ipu_isys_video_prepare_streaming(), _set_streaming().          *)
(***************************************************************************)
Moves(s, from, to) == at[s] = from /\ at' = [at EXCEPT ![s] = to]

\* STREAMON is refused when the pads do not agree.
Prepare(s) ==
  /\ Usable(s)
  /\ \/ Compare(s) /\ Moves(s, "off", "prepared")
     \/ ~Valid(s) /\ at[s] = "off" /\ UNCHANGED << touched, at >>
  /\ UNCHANGED << pads, node, told, sensorVars, csi2Vars, life, calls >>

\* The walk from the node to the sensor.  A receiver that fails is not stopped.
ReceiverStarts(s) ==
  /\ StreamMutexFree
  /\ \/ ReceiverOn(s, TRUE) /\ Moves(s, "prepared", "receiving")
     \/ ReceiverOn(s, FALSE) /\ Moves(s, "prepared", "off")
  /\ UNCHANGED << ver, board, bound, sensorVars, formats, life, calls >>

FirmwareStarts(s) ==
  /\ \/ Moves(s, "receiving", "told") /\ Tell(s)
     \/ Fails("fw") /\ Moves(s, "receiving", "unwinding") /\ UNCHANGED told
  /\ UNCHANGED << pads, node, touched, sensorVars, csi2Vars, life, calls >>

\* The start ends, or gives pipe_av->mutex for av->mutex before it does.
SensorOn(s) ==
  /\ \/ /\ Moves(s, "told", IF board[s].own THEN "on" ELSE "started")
        /\ SensorStarts(s) /\ UNCHANGED told
     \/ Moves(s, "told", "unwinding") /\ SensorStartFails(s) /\ Untell(s)
  /\ UNCHANGED << pads, node, touched, csi2Vars, life, calls >>

StartReturns(s) ==
  /\ Moves(s, "started", "on")
  /\ UNCHANGED << formats, sensorVars, csi2Vars, life, calls >>

FirmwareStops(s) ==
  /\ StreamMutexFree /\ Moves(s, "on", "stopping")
  /\ Untell(s)
  /\ UNCHANGED << pads, node, touched, sensorVars, csi2Vars, life, calls >>

SensorOff(s) ==
  /\ Moves(s, "stopping", "unwinding")
  /\ SensorStops(s)
  /\ UNCHANGED << csi2Vars, formats, life, calls >>

ReceiverStops(s) ==
  /\ Moves(s, "unwinding", "off")
  /\ ReceiverOff(s)
  /\ UNCHANGED << ver, board, bound, sensorVars, formats, life, calls >>

Next ==
  \/ IsysProbe \/ IsysStep \/ IsysStepFails \/ IsysRemove \/ IsysRemoveStep
  \/ \E s \in Present :
       \/ SensorComes(s) \/ SensorGoes(s) \/ Suspends(s) \/ Sleeps(s)
       \/ SetControl(s) \/ SetFormat(s)
       \/ Prepare(s) \/ ReceiverStarts(s) \/ FirmwareStarts(s) \/ SensorOn(s)
       \/ StartReturns(s)
       \/ FirmwareStops(s) \/ SensorOff(s) \/ ReceiverStops(s)

Spec == CameraInit /\ [][Next]_vars

(***************************************************************************)
(* Safety.                                                                 *)
(***************************************************************************)

\* A sensor is linked to a receiver only while the receivers are registered,
\* whatever the order in which sensors come and go and the input system probes,
\* fails to and goes; and an input system that is not bound holds no sensor and
\* nothing but what its failed probes are known to leave.
\* (isys_register_devices, isys_remove)
SensorsHaveReceivers ==
  /\ linked # {} => {"csi2", "v4l2"} \subseteq held
  /\ isys = "waiting" => held \subseteq LeftBehind /\ bound = {} /\ linked = {}
=============================================================================
