------------------------------- MODULE IpuCore -------------------------------
(***************************************************************************)
(* The life of the driver on its PCI device: probe, remove, system sleep   *)
(* and resume, function-level reset (FLR), runtime PM, and the             *)
(* authentication that debugfs offers (ipu.c, ipu-bus.c, ipu-buttress.c).  *)
(*                                                                         *)
(* "held" is what the driver has acquired and not given back.  A probe is  *)
(* a list of steps, each of which acquires one thing; a step that fails    *)
(* jumps to a label, from where things are given back.                     *)
(* Thread Pci runs under the lock of the PCI device; every other thread    *)
(* writes debugfs' "authenticate".  What the bus binds to the devices is   *)
(* in IsysCamera.                                                          *)
(* External: the driver core, the PM core, debugfs.                        *)
(***************************************************************************)
EXTENDS Buttress

CONSTANTS
  Pci,            \* the thread of the PCI driver
  MaxResets,      \* IPC resets a probe tries, BUTTRESS_CSE_IPC_RESET_RETRY + 1
  MaxPhases,      \* sleeps and resets of the device
  MaxUsage        \* what failed authentications add to usage; a bound of the checking

Debugfs == Thread \ {Pci}

ASSUME CoreAssumption ==
  /\ Pci \in Thread
  /\ MaxResets \in Nat \ {0} /\ MaxPhases \in Nat /\ MaxUsage \in Nat \ {0}

VARIABLES
  phase,       \* the PCI device: "unbound", "probing", "bound", "removing",
               \*   "asleep", "resetting"
  step,        \* index of the step of the probe or of the removal
  resets,      \* IPC resets left to the probe, 0 when it is past them
  held,        \* what the driver has acquired
  usage,       \* runtime PM usage count of the device psys
  ipcReinit,   \* isp->ipc_reinit
  flrDone,     \* isp->flr_done
  stale,       \* no IPC reset has been tried since the hardware lost its state
  phases       \* sleeps and resets so far

binding == << phase, step, resets, phases >>
power == << usage, ipcReinit, flrDone, stale >>
core == << binding, held, power >>
vars == << buttress, core >>

\* Everything of the buttress but the threads' control state and runtime PM.
ipcState == << locks, cmd, tries, secure, mailbox, waits, security, verdict, gaveUp >>

Fails(f) == f \in Faults

(***************************************************************************)
(* The steps of ipu_pci_probe() and what failing at one gives back.        *)
(***************************************************************************)
ProbeSteps == << "irq", "minFile", "maxFile", "effFile", "ipcReset", "fw", "cpd",
                 "isysMmu", "isysDev", "psysMmu", "psysDev", "psysGet", "psysHw",
                 "image", "pkgDir", "auth", "put", "debugfs" >>

\* Steps that take nothing that must be given back.
TakesNothing == {"ipcReset", "cpd", "psysGet", "psysHw", "auth", "put"}

Managed == {"irq"}   \* given back by the driver core (devm, pcim)
Files == {"minFile", "maxFile", "effFile"}

\* Mutant: a failing probe leaves the image mapped.
DelDevicesOnly(h) ==
  h \ ((IF "isysDev" \in h THEN {"isysDev", "isysMmu"} ELSE {})
       \union (IF "psysDev" \in h THEN {"psysDev", "psysMmu"} ELSE {})
       \union {"fw", "pkgDir"} \union Files)

\* The label out_ipu_bus_del_devices: the package directory and, only with it,
\* the mapping of the image; the MMUs of devices that made it into isp->isys
\* and isp->psys; the devices, the firmware file, the buttress.
DelDevices(h) ==
  h \ ((IF "pkgDir" \in h THEN {"pkgDir", "image"} ELSE {})
       \union (IF "isysDev" \in h THEN {"isysDev", "isysMmu"} ELSE {})
       \union (IF "psysDev" \in h THEN {"psysDev", "psysMmu"} ELSE {})
       \union {"fw"} \union Files)

Unwound(s, h) ==
  (CASE s = "irq" -> h
     [] s \in Files \union {"ipcReset"} -> h \ {"minFile", "maxFile"}   \* ipu_buttress_init()
     [] s = "fw" -> h \ Files         \* ipu_buttress_exit()
     [] OTHER -> DelDevices(h)) \ Managed

\* What a probe that fails at a step is known to leave behind: effFile after IPC
\* resets that failed (and so at every later attempt, which fails at that file),
\* an MMU whose device could not be added, the image when no package directory
\* could be built.
Leaves(s) ==
  CASE s = "ipcReset" -> {"effFile"}
    [] s = "isysDev" -> {"isysMmu"}
    [] s = "psysDev" -> {"psysMmu"}
    [] s = "pkgDir" -> {"image"}
    [] OTHER -> {}

\* A step may fail; a file of sysfs that is still there makes its step fail.
MayFail(s) == s \notin {"ipcReset", "psysGet", "auth", "put"} /\ Fails("alloc")
MustFail(s) == s \in Files /\ s \in held

CoreInit ==
  /\ ButtressInit
  /\ phase = "unbound"
  /\ step = 1 /\ resets = 0 /\ phases = 0
  /\ held = {}
  /\ usage = 0 /\ ipcReinit = FALSE /\ flrDone = FALSE /\ stale = TRUE

\* What an earlier probe left is not this one's, except that effFile is in its way.
Probe ==
  /\ phase = "unbound"
  /\ phase' = "probing" /\ step' = 1 /\ held' = held \intersect {"effFile"}
  /\ Goto(Pci, "probe")
  /\ resets' = MaxResets
  /\ ipcReinit' = FALSE /\ flrDone' = FALSE /\ rpm' = "active"
  /\ UNCHANGED << ipcState, phases, usage, stale >>

FailProbe(s) ==
  /\ phase' = "unbound"
  /\ held' = Unwound(s, held) /\ usage' = 0   \* the devices are gone
  /\ Leave(Pci)
  /\ resets' = 0
  /\ UNCHANGED << ipcState, rpm, step, phases, ipcReinit, flrDone, stale >>

\* A step that takes one thing.
Acquire(s) ==
  /\ held' = IF s \in TakesNothing THEN held ELSE held \union {s}
  /\ usage' = IF s = "put" THEN usage - 1 ELSE usage
  /\ IF step = Len(ProbeSteps)
     THEN phase' = "bound" /\ Leave(Pci) /\ UNCHANGED step
     ELSE step' = step + 1 /\ UNCHANGED << phase, control >>
  /\ UNCHANGED << ipcState, rpm, resets, phases, ipcReinit, flrDone, stale >>

\* The steps that are calls into the buttress or the PM core.
ProbeCall(s) ==
  /\ Call(Pci, CASE s = "ipcReset" -> "reset"
                 [] s = "psysGet" -> "getPsys"
                 [] s = "auth" -> "authenticate", "probed")
  /\ stale' = (stale /\ s # "ipcReset")
  /\ UNCHANGED << ipcState, rpm, binding, held, usage, ipcReinit, flrDone >>

ProbeStep ==
  LET s == ProbeSteps[step] IN
  /\ at[Pci] = "probe"
  /\ IF s \in {"ipcReset", "psysGet", "auth"}
     THEN ProbeCall(s)
     ELSE \/ ~MustFail(s) /\ Acquire(s)
          \/ (MayFail(s) \/ MustFail(s)) /\ FailProbe(s)

\* Such a call has returned.  The IPC reset is tried again.
Probed ==
  LET s == ProbeSteps[step] IN
  /\ at[Pci] = "probed"
  /\ IF rc[Pci] = "ok"
     THEN /\ step' = step + 1 /\ resets' = 0 /\ Goto(Pci, "probe")
          /\ UNCHANGED << phase, held, usage >>
     ELSE IF s = "ipcReset" /\ resets > 1
     THEN /\ resets' = resets - 1 /\ Goto(Pci, "probe")
          /\ UNCHANGED << phase, step, held, usage >>
     ELSE /\ phase' = "unbound" /\ resets' = 0 /\ Leave(Pci)
          /\ held' = Unwound(s, held) /\ usage' = 0
          /\ UNCHANGED step
  /\ UNCHANGED << ipcState, rpm, phases, ipcReinit, flrDone, stale >>

(***************************************************************************)
(* ipu_pci_remove().  Removing debugfs waits until nobody is in one of its *)
(* files; unregistering the devices unbinds the input system first.        *)
(***************************************************************************)
\* Mutant: the image goes before the files of debugfs.
RemoveImageFirst == << "pkgDir", "image", "debugfs", "devices", "files", "fw", "mmus" >>

RemoveSteps == << "debugfs", "pkgDir", "image", "devices", "files", "fw", "mmus" >>

Remove ==
  /\ phase = "bound" /\ at[Pci] = "idle"
  /\ phase' = "removing" /\ step' = 1
  /\ Goto(Pci, "remove")
  /\ UNCHANGED << ipcState, rpm, resets, phases, held, power >>

RemoveTakes(s) ==
  CASE s = "devices" -> {"isysDev", "psysDev"}
    [] s = "files" -> Files
    [] s = "mmus" -> {"isysMmu", "psysMmu"}
    [] OTHER -> {s}

RemoveStep ==
  LET s == RemoveSteps[step] IN
  /\ at[Pci] = "remove"
  /\ s = "debugfs" => \A t \in Debugfs : at[t] = "idle"
  /\ IF step < Len(RemoveSteps)
     THEN /\ held' = held \ RemoveTakes(s)
          /\ step' = step + 1 /\ UNCHANGED << phase, control >>
     ELSE /\ held' = (held \ RemoveTakes(s)) \ Managed
          /\ phase' = "unbound" /\ Leave(Pci) /\ UNCHANGED step
  /\ usage' = IF s = "devices" THEN 0 ELSE usage
  /\ UNCHANGED << ipcState, rpm, resets, phases, ipcReinit, flrDone, stale >>

(***************************************************************************)
(* Runtime PM of the PCI device, and pm_runtime_get_sync(psys).            *)
(***************************************************************************)
GetPsys(t) ==
  /\ at[t] = "getPsys"
  /\ usage' = usage + 1
  /\ Call(t, "wake", "powerPsys")
  /\ UNCHANGED << ipcState, rpm, binding, held, ipcReinit, flrDone, stale >>

\* ipu_runtime_resume(), when the device is suspended; a resume that another
\* thread has begun is waited for.
Wake(t) ==
  /\ at[t] = "wake" /\ rpm # "resuming"
  /\ IF rpm = "active"
     THEN Return(t, "ok") /\ UNCHANGED << rpm, ipcReinit, stale >>
     ELSE /\ rpm' = "resuming"
          /\ ipcReinit' = FALSE /\ stale' = (stale /\ ~ipcReinit)
          /\ IF ipcReinit THEN Call(t, "reset", "woken") ELSE Goto(t, "woken")
  /\ UNCHANGED << ipcState, binding, held, usage, flrDone >>

Woken(t) ==
  /\ at[t] = "woken"
  /\ rpm' = "active" /\ Return(t, "ok")
  /\ UNCHANGED << ipcState, binding, held, power >>

\* bus_pm_runtime_resume() of the devices under the PCI device.
PowerPsys(t) ==
  /\ at[t] = "powerPsys"
  /\ \/ Return(t, "ok")
     \/ Fails("power") /\ ~flrDone /\ Return(t, "error")
  /\ UNCHANGED << ipcState, rpm, binding, held, power >>

\* ipu_suspend(), as a runtime PM callback.
RuntimeSuspend ==
  /\ phase = "bound" /\ rpm = "active"
  /\ usage = 0 /\ \A t \in Thread : at[t] \notin {"wake", "woken"}
  /\ rpm' = "suspended" /\ flrDone' = FALSE
  /\ UNCHANGED << control, ipcState, binding, held, usage, ipcReinit, stale >>

(***************************************************************************)
(* ipu_fw_authenticate(), from debugfs: it resets the authentication before*)
(* it wakes the device (a suspended device reads as all ones and does not  *)
(* see that), and keeps the device powered when it fails.  It holds no     *)
(* auth_mutex when it resets: an authentication under way in another       *)
(* thread may be forgotten and still be reported as a success.  Until it   *)
(* has authenticated itself, nothing is known of the hardware.             *)
(***************************************************************************)
DebugfsOpen == "debugfs" \in held /\ phase \in {"bound", "resetting", "removing"}

FwAuthenticate(t) ==
  /\ at[t] = "idle" /\ DebugfsOpen /\ secure /\ usage < MaxUsage
  /\ ForgetAuth \/ (rpm # "active" /\ UNCHANGED security)
  /\ Call(t, "getPsys", "dbgGot")
  /\ UNCHANGED << locks, cmd, tries, secure, mailbox, waits, verdict, gaveUp, rpm,
                  binding, held, power >>

\* A call that has reset the authentication fails before it authenticates.
ReturnsEarly == verdict' = IF authMutex = Free THEN "none" ELSE "void"

\* The reset has been asked for and is not acknowledged in time: it may have
\* happened or not.
FwAuthenticateTimesOut(t) ==
  /\ at[t] = "idle" /\ DebugfsOpen /\ secure
  /\ ForgetAuth \/ UNCHANGED security
  /\ ReturnsEarly
  /\ UNCHANGED << control, locks, cmd, tries, secure, mailbox, waits, gaveUp, rpm, core >>

DbgGot(t) ==
  /\ at[t] = "dbgGot"
  /\ \/ /\ rc[t] = "ok" /\ Call(t, "authenticate", "dbgDone")
        /\ UNCHANGED verdict
     \/ rc[t] # "ok" /\ Leave(t) /\ ReturnsEarly
  /\ UNCHANGED << locks, cmd, tries, secure, mailbox, waits, security, gaveUp, rpm,
                  binding, held, power >>

DbgDone(t) ==
  /\ at[t] = "dbgDone"
  /\ usage' = IF rc[t] = "ok" THEN usage - 1 ELSE usage
  /\ Leave(t)
  /\ UNCHANGED << ipcState, rpm, binding, held, ipcReinit, flrDone, stale >>

(***************************************************************************)
(* System sleep: ipu_suspend() and ipu_resume().  User space is frozen, so *)
(* nobody is in debugfs.                                                   *)
(***************************************************************************)
Frozen == \A t \in Thread \ {Pci} : at[t] = "idle"

HardwareForgets ==
  /\ ForgetAuth
  /\ door' = NoCommand /\ jobs' = << >> /\ answer' = NoCommand /\ irq' = {}
  /\ stale' = TRUE /\ gaveUp' = "no" /\ verdict' = "none"

Sleep ==
  /\ phase = "bound" /\ at[Pci] = "idle" /\ Frozen /\ phases < MaxPhases
  /\ phase' = "asleep" /\ phases' = phases + 1
  /\ Call(Pci, "wake", "sleep")   \* the PM core wakes a suspended device first
  /\ UNCHANGED << ipcState, rpm, step, resets, held, power >>

ResumeReset ==
  /\ at[Pci] = "sleep"
  /\ HardwareForgets
  /\ secure' \in (IF Fails("modeChange") THEN BOOLEAN ELSE {secure})
  /\ flrDone' = FALSE
  /\ Goto(Pci, "resume")
  /\ UNCHANGED << locks, cmd, tries, waits, rpm, binding, held, usage, ipcReinit >>

Resume ==
  /\ at[Pci] = "resume"
  /\ stale' = FALSE
  /\ Call(Pci, "reset", "resumeGet")
  /\ UNCHANGED << ipcState, rpm, binding, held, usage, ipcReinit, flrDone >>

\* Mutant: the device is not held while it authenticates after a sleep.
ResumeWithoutGet ==
  /\ at[Pci] = "resumeGet"
  /\ phase' = "bound"
  /\ Call(Pci, "authenticate", "resumed")
  /\ UNCHANGED << ipcState, rpm, step, resets, phases, held, power >>

\* What the IPC reset returned is only reported.
ResumeGet ==
  /\ at[Pci] = "resumeGet"
  /\ phase' = "bound"
  /\ Call(Pci, "getPsys", "resumeGot")
  /\ UNCHANGED << ipcState, rpm, step, resets, phases, held, power >>

ResumeGot ==
  /\ at[Pci] = "resumeGot"
  /\ IF rc[Pci] = "ok" THEN Call(Pci, "authenticate", "resumed") ELSE Leave(Pci)
  /\ UNCHANGED << ipcState, rpm, binding, held, power >>

Resumed ==
  /\ at[Pci] = "resumed"
  /\ usage' = IF usage > 0 THEN usage - 1 ELSE 0
  /\ Leave(Pci)
  /\ UNCHANGED << ipcState, rpm, binding, held, ipcReinit, flrDone, stale >>

(***************************************************************************)
(* Function-level reset: the device is kept active around it; debugfs and  *)
(* the users of the input system go on.                                    *)
(***************************************************************************)
ResetPrepare ==
  /\ phase = "bound" /\ at[Pci] = "idle" /\ phases < MaxPhases
  /\ phase' = "resetting" /\ phases' = phases + 1
  /\ Call(Pci, "wake", "flr")   \* pm_runtime_forbid()
  /\ UNCHANGED << ipcState, rpm, step, resets, held, power >>

Reset ==
  /\ at[Pci] = "flr"
  /\ authMutex = Free \/ Fails("resetInAuth")
  /\ flrDone' = TRUE
  /\ HardwareForgets
  /\ Goto(Pci, "flrDone")
  /\ UNCHANGED << locks, cmd, tries, secure, waits, rpm, binding, held, usage, ipcReinit >>

\* Mutant: the IPC reset that is due is not remembered.
ResetDoneForgets ==
  /\ at[Pci] = "flrDone"
  /\ irq' = {}
  /\ IF secure THEN ForgetAuth ELSE UNCHANGED security
  /\ phase' = "bound" /\ Leave(Pci)
  /\ UNCHANGED << locks, cmd, tries, secure, door, jobs, answer, waits, verdict, gaveUp, rpm,
                  step, resets, phases, held, power >>

\* ipu_pci_reset_done(); nobody authenticates again.
ResetDone ==
  /\ at[Pci] = "flrDone"
  /\ authMutex = Free \/ Fails("resetInAuth")
  /\ irq' = {}   \* ipu_buttress_restore()
  /\ IF secure THEN ForgetAuth ELSE UNCHANGED security
  /\ verdict' = "none"
  /\ ipcReinit' = TRUE
  /\ phase' = "bound" /\ Leave(Pci)   \* pm_runtime_allow()
  /\ UNCHANGED << locks, cmd, tries, secure, door, jobs, answer, waits, gaveUp, rpm,
                  step, resets, phases, held, usage, flrDone, stale >>

CallStep(t) ==
  \/ Mailbox(t) /\ UNCHANGED core
  \/ GetPsys(t) \/ Wake(t) \/ Woken(t) \/ PowerPsys(t)

PciStep == ProbeStep \/ Probed \/ RemoveStep \/ ResumeReset \/ Resume \/ ResumeGet \/ ResumeGot
           \/ Resumed \/ Reset \/ ResetDone

Environment ==
  \/ Probe \/ Remove \/ Sleep \/ ResetPrepare \/ RuntimeSuspend
  \/ \E t \in Debugfs : FwAuthenticate(t) \/ FwAuthenticateTimesOut(t)
  \/ Hardware /\ UNCHANGED core

Next ==
  \/ \E t \in Thread : CallStep(t)
  \/ \E t \in Debugfs : DbgGot(t) \/ DbgDone(t)
  \/ PciStep
  \/ Environment

Spec == CoreInit /\ [][Next]_vars

(***************************************************************************)
(* Properties.                                                             *)
(***************************************************************************)
Authenticating(t) == cmd[t] # NoCommand

\* When nobody authenticates and the last authentication reported success, the
\* hardware says so: no answer to another command, no command sent twice and no
\* reset of the authentication by another thread, concluded or not, makes a failed
\* one look good.  Excepted: after an authentication that failed the CSE may still
\* be at its commands; and one under way when another thread resets it and then
\* fails (ReturnsEarly).
SuccessIsReal ==
  (verdict = "ok" /\ secure /\ gaveUp # "failed" /\ \A t \in Thread : at[t] = "idle")
    => AuthDone

\* While a thread waits for the CSE the device is active: its registers answer
\* and the interrupt handler does not throw the completions away.
AuthenticatesAwake ==
  \A t \in Thread : Authenticating(t) => rpm = "active"

\* The CSE works on the image only while the image and its package directory
\* are mapped, unless the driver has given up waiting for it.
CseReadsMappedImage ==
  (jobs # << >> /\ gaveUp = "no") => {"image", "pkgDir"} \subseteq held

\* A driver that is not bound holds nothing but what its failed probe is known
\* to leave, and the file that one of those before it left.
NothingHeldUnbound ==
  phase = "unbound" => held \subseteq Leaves(ProbeSteps[step]) \union {"effFile"}

\* When the hardware has lost the IPC session, an IPC reset is due and the
\* driver has not forgotten it.
ResetRemembered == (phase = "bound" /\ stale) => ipcReinit
==============================================================================
