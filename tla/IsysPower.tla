------------------------------ MODULE IsysPower ------------------------------
(***************************************************************************)
(* Opening and releasing the video nodes of the input system: runtime PM,  *)
(* power of the cell, boot and shutdown of its firmware, the interrupt     *)
(* handler, and the power cycle of a stream reset (ipu-isys-video.c,       *)
(* ipu-fw-isys.c, ipu-isys.c, ipu-bus.c, ipu-buttress.c).                  *)
(*                                                                         *)
(* The first file to be opened boots the firmware, the last one to be      *)
(* released closes it; its memory (a "context") may go only when the cell  *)
(* is idle.  The PM core runs the callbacks one after the other, in threads*)
(* of its own.  External: the PM core, the cell, its firmware, PCI resets. *)
(***************************************************************************)
EXTENDS Integers, FiniteSets

CONSTANTS
  File, NoFile,   \* open files of the application, on any video nodes
  Ctx, NoCtx,     \* memory of firmware contexts; the NULL pointer
  Faults          \* what may go wrong, a subset of AllFaults

\* The cell does not power up or down, the time base is not synchronised, no
\* memory, a sub-device refuses power; the firmware does not start or stop in
\* time; a function-level reset; a stream loses buffers; an interrupt is raised
\* while the driver has no context; a stream reset fails half way, or meets a
\* function-level reset.
AllFaults == {"powerUp", "powerDown", "tsc", "alloc", "pipe", "boot", "close", "flr",
              "broken", "strayIrq", "resetFails", "resetInFlr"}

ASSUME PowerAssumption ==
  /\ IsFiniteSet(File) /\ NoFile \notin File
  /\ NoCtx \notin Ctx
  /\ Faults \subseteq AllFaults

VARIABLES
  pc,           \* [File -> control state of the call on that file]
  why,          \* [File -> the call that opens or closes the firmware]
  mutex,        \* isys->mutex
  opened,       \* isys->video_opened
  resetNeeded,  \* isys->reset_needed
  inReset,      \* isys->in_reset
  fwcom,        \* isys->fwcom
  held,         \* [File -> Ctx]: the local variable fwcom of ipu_fw_isys_close()
  mem,          \* contexts that are allocated
  power,        \* isys->power
  isr,          \* the interrupt handler: "idle", or in its "loop"
  usage,        \* runtime PM: usage count of the device,
  pm,           \*   status and step of a callback,
  idleQueued,   \*   a queued idle check,
  pmError,      \*   runtime_error is set
  sp,           \* the cell: "off", "idle", firmware in "boot", "ready", "closing"
  spCtx,        \* the context its firmware runs with
  flrDone,      \* isp->flr_done
  flr           \* function-level reset: "none", "prepared", "hit"

calls == << pc, why >>
counts == << mutex, opened >>
flags == << resetNeeded, inReset >>
contexts == << fwcom, held, mem >>
handler == << power, isr >>
runtime == << usage, pm, idleQueued, pmError >>
cell == << sp, spCtx >>
pci == << flrDone, flr >>
vars == << calls, counts, flags, contexts, handler, runtime, cell, pci >>

\* In these states a file opens or closes the firmware, or cycles its power.
OpensFirmware == {"clean", "cleared", "prepare", "start", "boot"}
ClosesFirmware == {"stop", "stopWait"}
CyclesPower == {"cycleDown", "cycleClear", "cycleOff", "cycleUp", "cycleInit"}
FirmwareSection == OpensFirmware \cup ClosesFirmware \cup CyclesPower

TypeOK ==
  /\ pc \in [File -> {"closed", "get", "getting", "use", "open", "broken", "closing",
                      "put", "putSync"} \cup FirmwareSection]
  /\ why \in [File -> {"open", "release", "reset", "reboot"}]
  /\ mutex \in File \cup {NoFile} /\ opened \in 0 .. Cardinality(File)
  /\ resetNeeded \in BOOLEAN /\ inReset \in BOOLEAN
  /\ fwcom \in Ctx \cup {NoCtx} /\ held \in [File -> Ctx \cup {NoCtx}]
  /\ mem \subseteq Ctx
  /\ power \in BOOLEAN /\ isr \in {"idle", "loop"}
  /\ usage \in 0 .. Cardinality(File)
  /\ pm \in {"suspended", "resuming", "active", "suspending", "stopping"}
  /\ idleQueued \in BOOLEAN /\ pmError \in BOOLEAN
  /\ sp \in {"off", "idle", "boot", "ready", "closing"} /\ spCtx \in Ctx \cup {NoCtx}
  /\ flrDone \in BOOLEAN /\ flr \in {"none", "prepared", "hit"}

Init ==
  /\ pc = [f \in File |-> "closed"] /\ why = [f \in File |-> "open"]
  /\ mutex = NoFile /\ opened = 0
  /\ resetNeeded = FALSE /\ inReset = FALSE
  /\ fwcom = NoCtx /\ held = [f \in File |-> NoCtx] /\ mem = {}
  /\ power = FALSE /\ isr = "idle"
  /\ usage = 0 /\ pm = "suspended" /\ idleQueued = FALSE /\ pmError = FALSE
  /\ sp = "off" /\ spCtx = NoCtx
  /\ flrDone = FALSE /\ flr = "none"

-----------------------------------------------------------------------------
(* Helpers *)

Goto(f, s) == pc' = [pc EXCEPT ![f] = s]
MutexFree == mutex = NoFile
PowerLockFree == isr = "idle"

\* Does an attempt that may fail in this way succeed?
Outcomes(fault) == IF fault \in Faults THEN BOOLEAN ELSE {TRUE}

\* ipu_buttress_power(): nothing is done, without an error, until the
\* function-level reset is over.  ok: the cell answers in time.
PowerUp(ok) ==
  IF ok /\ ~ flrDone /\ sp = "off"
  THEN sp' = "idle" /\ spCtx' = NoCtx ELSE UNCHANGED cell

PowerDown(ok) ==
  IF ok /\ ~ flrDone
  THEN sp' = "off" /\ spCtx' = NoCtx ELSE UNCHANGED cell

PowerReports(ok) == ok \/ flrDone

-----------------------------------------------------------------------------
(* video_open() *)

\* The device is refused while it needs a power cycle.
Open(f) ==
  /\ pc[f] = "closed"
  /\ MutexFree
  /\ ~ resetNeeded /\ ~ flrDone
  /\ Goto(f, "get")
  /\ UNCHANGED << why, counts, flags, contexts, handler, runtime, cell, pci >>

\* pm_runtime_get_sync() counts first, then waits for the device.
GetCounts(f) ==
  /\ pc[f] = "get"
  /\ usage' = usage + 1
  /\ idleQueued' = FALSE
  /\ Goto(f, "getting")
  /\ UNCHANGED << why, counts, flags, contexts, handler, pm, pmError, cell, pci >>

GetReturns(f) ==
  /\ pc[f] = "getting"
  /\ pm = "active" /\ ~ pmError
  /\ Goto(f, "use")
  /\ UNCHANGED << why, counts, flags, contexts, handler, runtime, cell, pci >>

\* An earlier error sticks; pm_runtime_put_noidle().
GetFails(f) ==
  /\ pc[f] = "getting"
  /\ pm \in {"active", "suspended"} /\ pmError
  /\ usage' = usage - 1
  /\ Goto(f, "closed")
  /\ UNCHANGED << why, counts, flags, contexts, handler, pm, idleQueued, pmError, cell, pci >>

\* Mutant: the error path leaves out pm_runtime_put().
PipelineFailsAndKeepsPower(f) ==
  /\ "pipe" \in Faults
  /\ pc[f] = "use"
  /\ Goto(f, "closed")
  /\ UNCHANGED << why, counts, flags, contexts, handler, runtime, cell, pci >>

\* v4l2_fh_open() or v4l2_pipeline_pm_get() fails.
PipelineFails(f) ==
  /\ "pipe" \in Faults
  /\ pc[f] = "use"
  /\ Goto(f, "put")
  /\ why' = [why EXCEPT ![f] = "open"]
  /\ UNCHANGED << counts, flags, contexts, handler, runtime, cell, pci >>

\* Mutant: the count is taken without the mutex.
CountsFileUnlocked(f) ==
  /\ pc[f] = "use"
  /\ opened' = opened + 1
  /\ IF opened > 0
     THEN Goto(f, "open") /\ UNCHANGED << why, mutex >>
     ELSE /\ mutex' = f
          /\ why' = [why EXCEPT ![f] = "open"]
          /\ Goto(f, "clean")
  /\ UNCHANGED << flags, contexts, handler, runtime, cell, pci >>

\* The first file goes on under the mutex.
CountsFile(f) ==
  /\ pc[f] = "use" /\ MutexFree
  /\ opened' = opened + 1
  /\ IF opened > 0
     THEN Goto(f, "open") /\ UNCHANGED << why, mutex >>
     ELSE /\ mutex' = f
          /\ why' = [why EXCEPT ![f] = "open"]
          /\ Goto(f, "clean")
  /\ UNCHANGED << flags, contexts, handler, runtime, cell, pci >>

\* ipu_fw_isys_cleanup(): a context left over is released by force, and the
\* pointer cleared after that.
Cleanup(f) ==
  /\ pc[f] = "clean"
  /\ mem' = mem \ {fwcom}
  /\ Goto(f, IF fwcom = NoCtx THEN "prepare" ELSE "cleared")
  /\ UNCHANGED << why, counts, flags, fwcom, held, handler, runtime, cell, pci >>

CleanupClears(f) ==
  /\ pc[f] = "cleared"
  /\ fwcom' = NoCtx
  /\ Goto(f, "prepare")
  /\ UNCHANGED << why, counts, flags, held, mem, handler, runtime, cell, pci >>

-----------------------------------------------------------------------------
(* ipu_fw_isys_init(), for video_open() and ipu_isys_reset() *)

\* Mutant: the error path of video_open() does not undo the count.
InitFailsAndKeepsCount(f) ==
  IF why[f] = "open"
  THEN mutex' = NoFile /\ Goto(f, "put") /\ UNCHANGED << opened, inReset >>
  ELSE inReset' = FALSE /\ Goto(f, "open") /\ UNCHANGED counts

\* The error paths of the caller: video_open() undoes its count, a reset takes
\* no notice.
InitFails(f) ==
  IF why[f] = "open"
  THEN /\ opened' = opened - 1
       /\ mutex' = NoFile
       /\ Goto(f, "put")
       /\ UNCHANGED inReset
  ELSE /\ inReset' = FALSE
       /\ Goto(f, "open")
       /\ UNCHANGED counts

FaultOf(f, fault) == IF why[f] = "open" THEN fault ELSE "resetFails"

\* ipu_fw_com_prepare()
Prepare(f) ==
  /\ pc[f] = "prepare"
  /\ \E c \in Ctx \ mem :
       /\ fwcom' = c
       /\ mem' = mem \cup {c}
  /\ Goto(f, "start")
  /\ UNCHANGED << why, counts, flags, held, handler, runtime, cell, pci >>

PrepareFails(f) ==
  /\ pc[f] = "prepare"
  /\ FaultOf(f, "alloc") \in Faults
  /\ InitFails(f)
  /\ UNCHANGED << why, resetNeeded, contexts, handler, runtime, cell, pci >>

\* ipu_fw_com_open(): the firmware starts in a cell that is idle.
Start(f) ==
  /\ pc[f] = "start"
  /\ sp = "idle"
  /\ sp' = "boot" /\ spCtx' = fwcom
  /\ Goto(f, "boot")
  /\ UNCHANGED << why, counts, flags, contexts, handler, runtime, pci >>

StartRefused(f) ==
  /\ pc[f] = "start"
  /\ sp # "idle"
  /\ InitFails(f)
  /\ UNCHANGED << why, resetNeeded, contexts, handler, runtime, cell, pci >>

\* ipu_fw_com_ready(): the wait ends, in time or not.
Booted(f) ==
  /\ pc[f] = "boot"
  /\ sp = "ready"
  /\ mutex' = IF why[f] = "open" THEN NoFile ELSE mutex
  /\ inReset' = (inReset /\ why[f] = "open")
  /\ Goto(f, "open")
  /\ UNCHANGED << why, opened, resetNeeded, contexts, handler, runtime, cell, pci >>

BootTimesOut(f) ==
  /\ pc[f] = "boot"
  /\ sp # "ready" /\ (sp = "boot" => FaultOf(f, "boot") \in Faults)
  /\ Goto(f, "stop")
  /\ UNCHANGED << why, counts, flags, contexts, handler, runtime, cell, pci >>

-----------------------------------------------------------------------------
(* ipu_fw_isys_close(), for a failed boot, the last release, and a reset *)

\* The close command is given only to a firmware that is ready.  The pointer is
\* taken away from the interrupt handler.
Stop(f) ==
  /\ pc[f] = "stop" /\ PowerLockFree
  /\ sp' = IF sp = "ready" THEN "closing" ELSE sp
  /\ held' = [held EXCEPT ![f] = fwcom]
  /\ fwcom' = NoCtx
  /\ Goto(f, "stopWait")
  /\ UNCHANGED << why, counts, flags, mem, handler, runtime, spCtx, pci >>

\* What the caller does next, c being what is in isys->fwcom then.
Closed(f, c) ==
  CASE why[f] \in {"open", "reboot"} ->
         InitFails(f) /\ UNCHANGED resetNeeded
    [] why[f] = "release" ->
         /\ resetNeeded' = (resetNeeded \/ c # NoCtx)
         /\ mutex' = NoFile
         /\ Goto(f, "put")
         /\ UNCHANGED << opened, inReset >>
    [] why[f] = "reset" ->
         /\ Goto(f, "cycleDown")
         /\ UNCHANGED << counts, flags >>

\* Mutant: the release is forced.
ReleasedByForce(f) ==
  /\ pc[f] = "stopWait"
  /\ mem' = mem \ {held[f]}
  /\ held' = [held EXCEPT ![f] = NoCtx]
  /\ Closed(f, NoCtx)
  /\ UNCHANGED << why, fwcom, handler, runtime, cell, pci >>

\* ipu_fw_com_release(): the memory goes when the cell is idle.
Released(f) ==
  /\ pc[f] = "stopWait"
  /\ sp = "idle"
  /\ mem' = mem \ {held[f]}
  /\ held' = [held EXCEPT ![f] = NoCtx]
  /\ Closed(f, NoCtx)
  /\ UNCHANGED << why, fwcom, handler, runtime, cell, pci >>

\* Mutant: the pointer is not put back.
ReleaseTimesOutAndForgets(f) ==
  /\ pc[f] = "stopWait"
  /\ sp # "idle" /\ (sp = "closing" => "close" \in Faults)
  /\ held' = [held EXCEPT ![f] = NoCtx]
  /\ Closed(f, NoCtx)
  /\ UNCHANGED << why, fwcom, mem, handler, runtime, cell, pci >>

ReleaseTimesOut(f) ==
  /\ pc[f] = "stopWait" /\ PowerLockFree
  /\ sp # "idle" /\ (sp = "closing" => "close" \in Faults)
  /\ fwcom' = held[f]
  /\ held' = [held EXCEPT ![f] = NoCtx]
  /\ Closed(f, held[f])
  /\ UNCHANGED << why, mem, handler, runtime, cell, pci >>

-----------------------------------------------------------------------------
(* video_release() *)

Release(f) ==
  /\ pc[f] = "open"
  /\ ~ inReset
  /\ Goto(f, "closing")
  /\ UNCHANGED << why, counts, flags, contexts, handler, runtime, cell, pci >>

\* The last file closes the firmware under the mutex.
UncountsFile(f) ==
  /\ pc[f] = "closing" /\ MutexFree
  /\ opened' = opened - 1
  /\ why' = [why EXCEPT ![f] = "release"]
  /\ IF opened = 1 THEN mutex' = f /\ Goto(f, "stop")
                   ELSE Goto(f, "put") /\ UNCHANGED mutex
  /\ UNCHANGED << flags, contexts, handler, runtime, cell, pci >>

\* Mutant: the idle check waits for the other files.
PutWaitsForAll(f) ==
  /\ pc[f] = "put"
  /\ usage' = usage - 1
  /\ idleQueued' = TRUE
  /\ Goto(f, IF resetNeeded /\ why[f] = "release" THEN "putSync" ELSE "closed")
  /\ UNCHANGED << why, counts, flags, contexts, handler, pm, pmError, cell, pci >>

\* pm_runtime_put(), or pm_runtime_put_sync() if a power cycle is needed.
Put(f) ==
  /\ pc[f] = "put"
  /\ usage' = usage - 1
  /\ idleQueued' = (usage = 1)
  /\ Goto(f, IF resetNeeded /\ why[f] = "release" THEN "putSync" ELSE "closed")
  /\ UNCHANGED << why, counts, flags, contexts, handler, pm, pmError, cell, pci >>

PutReturns(f) ==
  /\ pc[f] = "putSync"
  /\ ~ idleQueued /\ pm \notin {"suspending", "stopping"}
  /\ Goto(f, "closed")
  /\ UNCHANGED << why, counts, flags, contexts, handler, runtime, cell, pci >>

-----------------------------------------------------------------------------
(* Runtime PM of the input system: bus_pm_runtime_resume(),                *)
(* bus_pm_runtime_suspend() and the callbacks of the driver they call      *)

\* The cell is powered.  A failure sticks.
ResumePowers ==
  /\ pm = "suspended" /\ ~ pmError
  /\ \E f \in File : pc[f] = "getting"
  /\ \E ok \in Outcomes("powerUp") :
       /\ PowerUp(ok)
       /\ pm' = IF PowerReports(ok) THEN "resuming" ELSE pm
       /\ pmError' = ~ PowerReports(ok)
  /\ UNCHANGED << calls, counts, flags, contexts, handler, usage, idleQueued, pci >>

\* isys_runtime_pm_resume()
ResumeEnds ==
  /\ pm = "resuming" /\ PowerLockFree
  /\ power' = TRUE
  /\ pm' = "active"
  /\ UNCHANGED << calls, counts, flags, contexts, isr, usage, idleQueued, pmError, cell, pci >>

ResumeFails ==
  /\ "tsc" \in Faults
  /\ pm = "resuming"
  /\ \E ok \in Outcomes("powerDown") : PowerDown(ok)
  /\ pm' = "suspended"
  /\ pmError' = TRUE
  /\ UNCHANGED << calls, counts, flags, contexts, handler, usage, idleQueued, pci >>

\* Mutant: the flag is cleared without power_lock.
SuspendBeginsUnlocked ==
  /\ pm = "active" /\ ~ pmError
  /\ idleQueued /\ usage = 0
  /\ power' = FALSE
  /\ idleQueued' = FALSE
  /\ pm' = "suspending"
  /\ UNCHANGED << calls, counts, flags, contexts, isr, usage, pmError, cell, pci >>

\* isys_runtime_pm_suspend(): first the interrupt handler is locked out.
SuspendBegins ==
  /\ pm = "active" /\ ~ pmError
  /\ idleQueued /\ usage = 0
  /\ PowerLockFree
  /\ power' = FALSE
  /\ idleQueued' = FALSE
  /\ pm' = "suspending"
  /\ UNCHANGED << calls, counts, flags, contexts, isr, usage, pmError, cell, pci >>

SuspendClears ==
  /\ pm = "suspending" /\ MutexFree
  /\ resetNeeded' = FALSE
  /\ pm' = "stopping"
  /\ UNCHANGED << calls, counts, inReset, contexts, handler, usage, idleQueued, pmError,
                  cell, pci >>

SuspendPowersOff ==
  /\ pm = "stopping"
  /\ PowerDown(TRUE)
  /\ pm' = "suspended"
  /\ UNCHANGED << calls, counts, flags, contexts, handler, usage, idleQueued, pmError, pci >>

\* The cell stays on: the device is resumed and stays active, with an error
\* that sticks if that fails too.
SuspendFails ==
  /\ "powerDown" \in Faults
  /\ pm = "stopping" /\ ~ flrDone
  /\ \E ok \in Outcomes("tsc") :
       /\ power' = ok
       /\ pmError' = ~ ok
  /\ pm' = "active"
  /\ UNCHANGED << calls, counts, flags, contexts, isr, usage, idleQueued, cell, pci >>

-----------------------------------------------------------------------------
(* ipu_isys_reset(), called at the end of stop_streaming() *)

\* A stream is stopped with buffers missing.
StreamBreaks(f) ==
  /\ "broken" \in Faults
  /\ pc[f] = "open" /\ ~ inReset /\ MutexFree
  /\ resetNeeded' = TRUE
  /\ Goto(f, "broken")
  /\ UNCHANGED << why, counts, inReset, contexts, handler, runtime, cell, pci >>

\* Other nodes of the pipeline stream (the flag is cleared), no other pipeline
\* does (it stays), or somebody else resets already.
NoResetNow(f) ==
  /\ pc[f] = "broken"
  /\ resetNeeded' \in {FALSE, resetNeeded}
  /\ Goto(f, "open")
  /\ UNCHANGED << why, counts, inReset, contexts, handler, runtime, cell, pci >>

\* Other files stream.  Bound: a function-level reset does not overlap.
Reset(f) ==
  /\ pc[f] = "broken" /\ resetNeeded /\ ~ inReset
  /\ \E g \in File \ {f} : pc[g] = "open"
  /\ flr = "none" \/ "resetInFlr" \in Faults
  /\ inReset' = TRUE
  /\ why' = [why EXCEPT ![f] = "reset"]
  /\ Goto(f, "stop")
  /\ UNCHANGED << counts, resetNeeded, contexts, handler, runtime, cell, pci >>

\* The callbacks of the PM core are called directly.
CycleDown(f) ==
  /\ pc[f] = "cycleDown" /\ PowerLockFree
  /\ power' = FALSE
  /\ Goto(f, "cycleClear")
  /\ UNCHANGED << why, counts, flags, contexts, isr, runtime, cell, pci >>

CycleClears(f) ==
  /\ pc[f] = "cycleClear" /\ MutexFree
  /\ resetNeeded' = FALSE
  /\ Goto(f, "cycleOff")
  /\ UNCHANGED << why, counts, inReset, contexts, handler, runtime, cell, pci >>

\* The cell goes off, or is resumed if it does not; ipu_suspend() of the PCI
\* device.
CycleOff(f) ==
  /\ pc[f] = "cycleOff"
  /\ \E ok \in Outcomes("resetFails") :
       /\ PowerDown(ok)
       /\ power' = ~ PowerReports(ok)
  /\ flrDone' = FALSE
  /\ Goto(f, "cycleUp")
  /\ UNCHANGED << why, counts, flags, contexts, isr, runtime, flr >>

CycleUp(f) ==
  /\ pc[f] = "cycleUp"
  /\ \E ok \in Outcomes("resetFails") :
       /\ PowerUp(ok)
       /\ Goto(f, IF PowerReports(ok) THEN "cycleInit" ELSE "clean")
  /\ why' = [why EXCEPT ![f] = "reboot"]
  /\ UNCHANGED << counts, flags, contexts, handler, runtime, pci >>

CycleInit(f) ==
  /\ pc[f] = "cycleInit" /\ PowerLockFree
  /\ power' = TRUE
  /\ Goto(f, "clean")
  /\ UNCHANGED << why, counts, flags, contexts, isr, runtime, cell, pci >>

-----------------------------------------------------------------------------
(* isys_isr() works under power_lock, and only if the cell has power.      *)

IsrEnters ==
  /\ isr = "idle" /\ power
  /\ sp \in {"ready", "closing"}
  /\ fwcom # NoCtx \/ "strayIrq" \in Faults
  /\ isr' = "loop"
  /\ UNCHANGED << calls, counts, flags, contexts, power, runtime, cell, pci >>

\* isys_isr_one() has found no response, or the device is gone.
IsrReturns ==
  /\ isr = "loop"
  /\ fwcom # NoCtx \/ flrDone
  /\ isr' = "idle"
  /\ UNCHANGED << calls, counts, flags, contexts, power, runtime, cell, pci >>

\* Without a context, isys_isr_one() returns what it returns for a response,
\* and is called again.
IsrSpins ==
  /\ isr = "loop"
  /\ fwcom = NoCtx /\ ~ flrDone
  /\ UNCHANGED vars

-----------------------------------------------------------------------------
(* The firmware, and a function-level reset of the PCI device              *)

FwReady ==
  /\ sp = "boot"
  /\ sp' = "ready"
  /\ UNCHANGED << calls, counts, flags, contexts, handler, runtime, spCtx, pci >>

FwStops ==
  /\ sp = "closing"
  /\ sp' = "idle" /\ spCtx' = NoCtx
  /\ UNCHANGED << calls, counts, flags, contexts, handler, runtime, pci >>

\* ipu_pci_reset_prepare()
FlrPrepare ==
  /\ "flr" \in Faults
  /\ flr = "none"
  /\ ~ inReset \/ "resetInFlr" \in Faults
  /\ flr' = "prepared"
  /\ flrDone' = TRUE
  /\ UNCHANGED << calls, counts, flags, contexts, handler, runtime, cell >>

FlrHits ==
  /\ flr = "prepared"
  /\ flr' = "hit"
  /\ sp' = "off" /\ spCtx' = NoCtx
  /\ UNCHANGED << calls, counts, flags, contexts, handler, runtime, flrDone >>

\* ipu_pci_reset_done(): pm_runtime_set_suspended() has an effect only on a
\* device whose runtime PM has failed.
FlrDone ==
  /\ flr = "hit"
  /\ pm \in {"active", "suspended"}
  /\ flr' = "none"
  /\ pm' = IF pmError THEN "suspended" ELSE pm
  /\ pmError' = FALSE
  /\ UNCHANGED << calls, counts, flags, contexts, handler, usage, idleQueued, cell, flrDone >>

\* ipu_suspend(), once nothing is active any more.
PciSuspends ==
  /\ flrDone /\ flr = "none"
  /\ pm = "suspended"
  /\ flrDone' = FALSE
  /\ UNCHANGED << calls, counts, flags, contexts, handler, runtime, cell, flr >>

-----------------------------------------------------------------------------
Call(f) ==
  \/ GetCounts(f) \/ GetReturns(f) \/ GetFails(f) \/ PipelineFails(f) \/ CountsFile(f)
  \/ Cleanup(f) \/ CleanupClears(f) \/ Prepare(f) \/ PrepareFails(f)
  \/ Start(f) \/ StartRefused(f) \/ Booted(f) \/ BootTimesOut(f)
  \/ Stop(f) \/ Released(f) \/ ReleaseTimesOut(f)
  \/ UncountsFile(f) \/ Put(f) \/ PutReturns(f)
  \/ NoResetNow(f) \/ Reset(f)
  \/ CycleDown(f) \/ CycleClears(f) \/ CycleOff(f) \/ CycleUp(f) \/ CycleInit(f)

PmStep ==
  \/ ResumePowers \/ ResumeEnds \/ ResumeFails
  \/ SuspendBegins \/ SuspendClears \/ SuspendPowersOff \/ SuspendFails

Next ==
  \/ \E f \in File : Open(f) \/ Release(f) \/ StreamBreaks(f) \/ Call(f)
  \/ PmStep
  \/ IsrEnters \/ IsrReturns \/ IsrSpins
  \/ FwReady \/ FwStops
  \/ FlrPrepare \/ FlrHits \/ FlrDone \/ PciSuspends

Spec == Init /\ [][Next]_vars

\* Calls and callbacks go on: a mutex that is free again and again is had in the
\* end.  The handler, on a processor of its own, goes on.  Of the firmware nothing
\* is assumed, every wait for it being bounded, except that it boots after a
\* reset (bound: Faults without "resetFails").
Fairness ==
  /\ \A f \in File : SF_vars(Call(f))
  /\ SF_vars(PmStep)
  /\ WF_vars(IsrReturns)
  /\ WF_vars(inReset /\ FwReady)

FairSpec == Spec /\ Fairness

-----------------------------------------------------------------------------
(* Properties *)

\* The firmware is opened, closed and power-cycled by one thread at a time,
\* although open and release rely on isys->mutex and a reset does not take it.
FirmwareHasOneOwner ==
  \A f, g \in File : pc[f] \in FirmwareSection /\ pc[g] \in FirmwareSection => f = g

\* An open file finds the device active and powered, and its firmware running
\* with the context the driver talks to, except during and after a reset of the
\* device.
OpenFilesHaveFirmware ==
  \A f \in File :
    pc[f] \in {"open", "broken", "closing"} /\ ~ inReset
      => /\ opened > 0 /\ pm = "active" /\ power
         /\ fwcom \in mem
         /\ flrDone \/ (sp = "ready" /\ spCtx = fwcom)

\* The interrupt handler touches registers of a powered cell only.
IsrHasPower == isr = "loop" => sp # "off" \/ flrDone

\* Every context that is allocated is known to the driver, and one it knows is
\* allocated, unless it is being released by force.
ContextsAccounted ==
  /\ mem \subseteq {fwcom} \cup {held[f] : f \in File}
  /\ fwcom \in mem \cup {NoCtx} \/ \E f \in File : pc[f] = "cleared"

\* Memory is never freed under a running firmware except by force, when a file
\* is opened or a reset boots.
MemoryOutlivesFirmware ==
  [][ mem' \subseteq mem /\ spCtx \in mem \ mem' /\ spCtx' = spCtx
        => \E f \in File : pc[f] = "clean" ]_vars

\* Both counts are exact, whichever way a call failed: the device is used from
\* pm_runtime_get_sync() until it is put, and a file is counted in between.
Users == {f \in File : pc[f] \notin {"closed", "get", "putSync"}}
Counted == {f \in File :
  \/ pc[f] \in {"open", "broken", "closing"}
  \/ pc[f] \in FirmwareSection /\ why[f] # "release"}

CountsMatchFiles ==
  /\ usage = Cardinality(Users)
  /\ opened = Cardinality(Counted)

\* Every open, release and stop returns, provided every interrupt does.
CallsReturn ==
  []<>(isr = "idle")
    => \A f \in File :
         pc[f] \notin {"closed", "open"} ~> pc[f] \in {"closed", "open"}

\* Every interrupt ends: ipu_fw_isys_close() takes power_lock "to wait the
\* interrupt handler to be finished".  It does not hold with "strayIrq" in Faults,
\* see isys_isr_one(), and is CallsReturn's proviso for this reason.
InterruptsEnd == isr = "loop" ~> isr = "idle"
=============================================================================
