--------------------------- MODULE IsysPowerProofs ---------------------------
(***************************************************************************)
(* For every number of files and contexts, and whatever fails: usage count *)
(* and video_opened are exact, one thread at a time opens, closes or power-*)
(* cycles the firmware, contexts are neither lost nor freed twice, and the *)
(* memory of a running firmware is freed by force only.  When resets of    *)
(* the streams come through, and keep apart from those of the device, open *)
(* files have a running firmware and the interrupt handler has power.      *)
(***************************************************************************)
EXTENDS IsysPower, FiniteSetTheorems, TLAPS

Outside == {"closed", "get", "getting", "use", "put", "putSync"}
Opened == {"open", "broken", "closing"}
Reasons == {"open", "release", "reset", "reboot"}

(* The control invariant *)

ControlType ==
  /\ pc \in [File -> Outside \cup Opened \cup FirmwareSection]
  /\ why \in [File -> Reasons]
  /\ mutex \in File \cup {NoFile} /\ inReset \in BOOLEAN

\* Who works on the firmware, for which call?
LocksMutex(f) == pc[f] \in FirmwareSection /\ why[f] \in {"open", "release"}
Resets(f) == pc[f] \in FirmwareSection /\ why[f] \in {"reset", "reboot"}

\* An open or a release holds the mutex, and no other file is counted: the first
\* to be opened, the last to be released.
OwnerHoldsMutex == \A f \in File : LocksMutex(f) => mutex = f /\ Counted \subseteq {f}

\* A reset is announced by in_reset, which admits one.
ResetIsAnnounced == \A f \in File : Resets(f) => inReset
ResetIsAlone == \A f, g \in File : Resets(f) /\ Resets(g) => f = g

\* Where a thread is says what for.
PhaseHasReason == \A f \in File :
  /\ pc[f] \in OpensFirmware => why[f] \in {"open", "reboot"}
  /\ pc[f] \in CyclesPower => why[f] = IF pc[f] = "cycleInit" THEN "reboot" ELSE "reset"

Control ==
  /\ ControlType /\ CountsMatchFiles
  /\ OwnerHoldsMutex /\ ResetIsAnnounced /\ ResetIsAlone /\ PhaseHasReason

-----------------------------------------------------------------------------
(* What a step does to the control state of a file: fourteen kinds *)

shared == << mutex, opened, usage, inReset >>

GoesOn(f) ==        \* before the first count, and after the last
  /\ pc[f] \in Outside /\ (\E s \in Outside : Goto(f, s))
  /\ (pc[f] \in {"closed", "get", "putSync"}) = (pc'[f] \in {"closed", "get", "putSync"})
  /\ (\E r \in Reasons : why' = [why EXCEPT ![f] = r])
  /\ UNCHANGED shared
Takes(f) ==         \* the device
  /\ pc[f] = "get" /\ Goto(f, "getting") /\ usage' = usage + 1
  /\ UNCHANGED << why, mutex, opened, inReset >>
Puts(f) ==
  /\ pc[f] \in {"getting", "put"} /\ (\E s \in {"closed", "putSync"} : Goto(f, s))
  /\ usage' = usage - 1
  /\ UNCHANGED << why, mutex, opened, inReset >>
Joins(f) ==         \* files that are open
  /\ pc[f] = "use" /\ MutexFree /\ opened > 0 /\ Goto(f, "open") /\ opened' = opened + 1
  /\ UNCHANGED << why, mutex, usage, inReset >>
IsFirst(f) ==
  /\ pc[f] = "use" /\ MutexFree /\ opened = 0 /\ Goto(f, "clean")
  /\ why' = [why EXCEPT ![f] = "open"] /\ opened' = opened + 1 /\ mutex' = f
  /\ UNCHANGED << usage, inReset >>
Works(f) ==         \* on the firmware
  /\ pc[f] \in FirmwareSection /\ (\E s \in FirmwareSection : Goto(f, s))
  /\ why' = IF pc[f] = "cycleUp" THEN [why EXCEPT ![f] = "reboot"] ELSE why
  /\ pc'[f] \in OpensFirmware => why'[f] \in {"open", "reboot"}
  /\ pc'[f] \in CyclesPower =>
       why'[f] = IF pc'[f] = "cycleInit" THEN "reboot" ELSE "reset"
  /\ UNCHANGED shared
IsOpened(f) ==
  /\ pc[f] \in FirmwareSection /\ why[f] = "open" /\ Goto(f, "open") /\ mutex' = NoFile
  /\ UNCHANGED << why, opened, usage, inReset >>
IsRefused(f) ==
  /\ pc[f] \in FirmwareSection /\ why[f] = "open" /\ Goto(f, "put") /\ mutex' = NoFile
  /\ opened' = opened - 1
  /\ UNCHANGED << why, usage, inReset >>
HasReset(f) ==
  /\ pc[f] \in FirmwareSection /\ why[f] = "reboot" /\ Goto(f, "open") /\ inReset' = FALSE
  /\ UNCHANGED << why, mutex, opened, usage >>
HasClosed(f) ==
  /\ pc[f] \in FirmwareSection /\ why[f] = "release" /\ Goto(f, "put") /\ mutex' = NoFile
  /\ UNCHANGED << why, opened, usage, inReset >>
Streams(f) ==       \* or begins to close
  /\ pc[f] \in Opened /\ (\E s \in Opened : Goto(f, s))
  /\ UNCHANGED << why, shared >>
Leaves(f) ==        \* other files open
  /\ pc[f] = "closing" /\ MutexFree /\ opened # 1 /\ Goto(f, "put")
  /\ why' = [why EXCEPT ![f] = "release"] /\ opened' = opened - 1
  /\ UNCHANGED << mutex, usage, inReset >>
IsLast(f) ==
  /\ pc[f] = "closing" /\ MutexFree /\ opened = 1 /\ Goto(f, "stop")
  /\ why' = [why EXCEPT ![f] = "release"] /\ opened' = opened - 1 /\ mutex' = f
  /\ UNCHANGED << usage, inReset >>
BeginsReset(f) ==
  /\ pc[f] = "broken" /\ ~ inReset /\ Goto(f, "stop")
  /\ why' = [why EXCEPT ![f] = "reset"] /\ inReset' = TRUE
  /\ UNCHANGED << mutex, opened, usage >>

Stays == UNCHANGED << calls, shared >>

Kinds(f) ==
  \/ GoesOn(f) \/ Takes(f) \/ Puts(f) \/ Joins(f) \/ IsFirst(f) \/ Works(f) \/ IsOpened(f)
  \/ IsRefused(f) \/ HasReset(f) \/ HasClosed(f) \/ Streams(f) \/ Leaves(f) \/ IsLast(f)
  \/ BeginsReset(f)

LEMMA CountsAreNatural ==
  /\ IsFiniteSet(Users) /\ Cardinality(Users) \in Nat
  /\ IsFiniteSet(Counted) /\ Cardinality(Counted) \in Nat
<1>1. Users \in SUBSET File /\ Counted \in SUBSET File
  BY DEF Users, Counted
<1> QED
  BY <1>1, PowerAssumption, FS_Subset, FS_CardinalityType

LEMMA InitFailsKinds ==
  ASSUME Control, NEW f \in File, pc[f] \in FirmwareSection, why[f] \in {"open", "reboot"},
         InitFails(f), UNCHANGED << why, usage >>
  PROVE  IsRefused(f) \/ HasReset(f)
  BY DEF InitFails, IsRefused, HasReset, counts

LEMMA ClosedKinds ==
  ASSUME Control, NEW f \in File, pc[f] = "stopWait", NEW c, Closed(f, c),
         UNCHANGED << why, usage >>
  PROVE  Works(f) \/ IsRefused(f) \/ HasReset(f) \/ HasClosed(f)
<1> USE DEF FirmwareSection, ClosesFirmware, OpensFirmware, CyclesPower
<1>1. CASE why[f] \in {"open", "reboot"}
  BY <1>1, InitFailsKinds DEF Closed
<1>2. CASE why[f] = "release"
  BY <1>2 DEF Closed, HasClosed
<1>3. CASE why[f] = "reset"
  <2>1. Goto(f, "cycleDown") /\ UNCHANGED << counts, flags >>
    BY <1>3 DEF Closed
  <2> QED
    BY <1>3, <2>1 DEF Works, Control, ControlType, Goto, counts, flags, shared
<1> QED
  BY <1>1, <1>2, <1>3 DEF Control, ControlType, Reasons

LEMMA CallKinds ==
  ASSUME Control, NEW f \in File, Call(f) PROVE Kinds(f)
<1> USE DEF Kinds, Outside, Opened, Reasons, FirmwareSection, OpensFirmware, ClosesFirmware,
            CyclesPower, counts, flags, runtime, shared, Control, ControlType, Goto
<1>1. CASE GetCounts(f)
  BY <1>1 DEF GetCounts, Takes
<1>2. CASE GetReturns(f)
  BY <1>2 DEF GetReturns, GoesOn
<1>3. CASE GetFails(f)
  BY <1>3 DEF GetFails, Puts
<1>4. CASE PipelineFails(f)
  BY <1>4 DEF PipelineFails, GoesOn
<1>5. CASE CountsFile(f)
  <2>1. opened \in Nat
    BY CountsAreNatural DEF CountsMatchFiles
  <2>2. CASE opened > 0
    BY <1>5, <2>2 DEF CountsFile, Joins
  <2>3. CASE opened = 0
    BY <1>5, <2>3 DEF CountsFile, IsFirst
  <2> QED
    BY <2>1, <2>2, <2>3
<1>6. CASE Cleanup(f) \/ CleanupClears(f)
  BY <1>6 DEF Cleanup, CleanupClears, Works, PhaseHasReason
<1>7. CASE Prepare(f) \/ Start(f)
  BY <1>7 DEF Prepare, Start, Works, PhaseHasReason
<1>8. CASE PrepareFails(f) \/ StartRefused(f)
  BY <1>8, InitFailsKinds DEF PrepareFails, StartRefused, PhaseHasReason
<1>9. CASE Booted(f)
  BY <1>9 DEF Booted, IsOpened, HasReset, PhaseHasReason
<1>10. CASE BootTimesOut(f) \/ Stop(f)
  BY <1>10 DEF BootTimesOut, Stop, Works
<1>11. CASE Released(f) \/ ReleaseTimesOut(f)
  BY <1>11, ClosedKinds DEF Released, ReleaseTimesOut
<1>12. CASE UncountsFile(f)
  BY <1>12 DEF UncountsFile, Leaves, IsLast
<1>13. CASE Put(f)
  BY <1>13 DEF Put, Puts
<1>14. CASE PutReturns(f)
  BY <1>14 DEF PutReturns, GoesOn
<1>15. CASE NoResetNow(f)
  BY <1>15 DEF NoResetNow, Streams
<1>16. CASE Reset(f)
  BY <1>16 DEF Reset, BeginsReset
<1>17. CASE CycleDown(f) \/ CycleClears(f) \/ CycleOff(f)
  BY <1>17 DEF CycleDown, CycleClears, CycleOff, Works, PhaseHasReason
<1>18. CASE CycleUp(f) \/ CycleInit(f)
  BY <1>18 DEF CycleUp, CycleInit, Works, PhaseHasReason
<1> QED
  BY <1>1, <1>2, <1>3, <1>4, <1>5, <1>6, <1>7, <1>8, <1>9, <1>10, <1>11, <1>12, <1>13,
     <1>14, <1>15, <1>16, <1>17, <1>18 DEF Call

LEMMA NextKinds ==
  ASSUME Control, [Next]_vars
  PROVE  Stays \/ \E f \in File : Kinds(f)
<1> USE DEF counts, flags, runtime, shared
<1>1. ASSUME NEW f \in File, Open(f) PROVE Kinds(f)
  BY <1>1 DEF Open, Goto, Kinds, GoesOn, Outside, Reasons, Control, ControlType
<1>2. ASSUME NEW f \in File, Release(f) \/ StreamBreaks(f) PROVE Kinds(f)
  BY <1>2 DEF Release, StreamBreaks, Kinds, Streams, Opened
<1>3. CASE PmStep
  BY <1>3 DEF PmStep, ResumePowers, ResumeEnds, ResumeFails, SuspendBegins, SuspendClears,
              SuspendPowersOff, SuspendFails, Stays
<1>4. CASE IsrEnters \/ IsrReturns \/ IsrSpins \/ FwReady \/ FwStops
  BY <1>4 DEF IsrEnters, IsrReturns, IsrSpins, FwReady, FwStops, Stays, vars
<1>5. CASE FlrPrepare \/ FlrHits \/ FlrDone \/ PciSuspends
  BY <1>5 DEF FlrPrepare, FlrHits, FlrDone, PciSuspends, Stays
<1>6. CASE UNCHANGED vars
  BY <1>6 DEF vars, Stays
<1> QED
  BY <1>1, <1>2, <1>3, <1>4, <1>5, <1>6, CallKinds DEF Next

-----------------------------------------------------------------------------
(* The control invariant is inductive *)

\* Of one file at a time the state changes.
LEMMA OneMoves ==
  ASSUME ControlType, NEW f \in File, NEW s, Goto(f, s)
  PROVE  pc'[f] = s /\ \A g \in File \ {f} : pc'[g] = pc[g]
  BY DEF ControlType, Goto

LEMMA KindTypes ==
  ASSUME Control, NEW f \in File, Kinds(f) PROVE ControlType'
<1> USE DEF Control, ControlType, Goto, shared, Outside, Opened, Reasons, FirmwareSection,
            OpensFirmware, ClosesFirmware, CyclesPower
<1>1. CASE GoesOn(f) \/ Takes(f) \/ Puts(f)
  BY <1>1 DEF GoesOn, Takes, Puts
<1>2. CASE Joins(f) \/ IsFirst(f) \/ Leaves(f) \/ IsLast(f)
  BY <1>2 DEF Joins, IsFirst, Leaves, IsLast
<1>3. CASE Works(f)
  BY <1>3 DEF Works
<1>4. CASE IsOpened(f) \/ IsRefused(f) \/ HasReset(f) \/ HasClosed(f)
  BY <1>4 DEF IsOpened, IsRefused, HasReset, HasClosed
<1>5. CASE Streams(f) \/ BeginsReset(f)
  BY <1>5 DEF Streams, BeginsReset
<1> QED
  BY <1>1, <1>2, <1>3, <1>4, <1>5 DEF Kinds

LEMMA KindCountsUsers ==
  ASSUME Control, NEW f \in File, Kinds(f) PROVE usage' = Cardinality(Users')
<1> USE DEF Users, Control, ControlType, Goto, shared, FirmwareSection, OpensFirmware,
            ClosesFirmware, CyclesPower, Opened, Outside
<1>1. usage = Cardinality(Users)
  BY DEF CountsMatchFiles
<1>2. CASE Takes(f)
  <2>1. f \notin Users /\ Users' = Users \cup {f} /\ usage' = usage + 1
    BY <1>2 DEF Takes
  <2> QED
    BY <1>1, <2>1, CountsAreNatural, FS_AddElement
<1>3. CASE Puts(f)
  <2>1. f \in Users /\ Users' = Users \ {f} /\ usage' = usage - 1
    BY <1>3 DEF Puts
  <2> HIDE DEF Users
  <2>2. Cardinality(Users \ {f}) = Cardinality(Users) - 1
    BY <2>1, CountsAreNatural, FS_RemoveElement
  <2> QED
    BY <1>1, <2>1, <2>2
<1>4. CASE GoesOn(f) \/ Joins(f) \/ IsFirst(f) \/ Leaves(f) \/ IsLast(f)
  <2>1. Users' = Users /\ usage' = usage
    BY <1>4 DEF GoesOn, Joins, IsFirst, Leaves, IsLast
  <2> QED
    BY <1>1, <2>1
<1>5. CASE Works(f) \/ Streams(f) \/ BeginsReset(f)
  <2>1. Users' = Users /\ usage' = usage
    BY <1>5 DEF Works, Streams, BeginsReset
  <2> QED
    BY <1>1, <2>1
<1>6. CASE IsOpened(f) \/ IsRefused(f) \/ HasReset(f) \/ HasClosed(f)
  <2>1. Users' = Users /\ usage' = usage
    BY <1>6 DEF IsOpened, IsRefused, HasReset, HasClosed
  <2> QED
    BY <1>1, <2>1
<1> QED
  BY <1>2, <1>3, <1>4, <1>5, <1>6 DEF Kinds

LEMMA KindCountsFiles ==
  ASSUME Control, NEW f \in File, Kinds(f) PROVE opened' = Cardinality(Counted')
<1> USE DEF Counted, Control, ControlType, Goto, shared, FirmwareSection, OpensFirmware,
            ClosesFirmware, CyclesPower, Opened, Outside, PhaseHasReason, Reasons
<1>1. opened = Cardinality(Counted)
  BY DEF CountsMatchFiles
<1>2. CASE Joins(f) \/ IsFirst(f)
  <2>1. f \notin Counted /\ Counted' = Counted \cup {f} /\ opened' = opened + 1
    BY <1>2 DEF Joins, IsFirst
  <2> QED
    BY <1>1, <2>1, CountsAreNatural, FS_AddElement
<1>3. CASE IsRefused(f) \/ Leaves(f) \/ IsLast(f)
  <2>1. f \in Counted /\ Counted' = Counted \ {f} /\ opened' = opened - 1
    BY <1>3 DEF IsRefused, Leaves, IsLast
  <2> HIDE DEF Counted
  <2>2. Cardinality(Counted \ {f}) = Cardinality(Counted) - 1
    BY <2>1, CountsAreNatural, FS_RemoveElement
  <2> QED
    BY <1>1, <2>1, <2>2
<1>4. CASE GoesOn(f) \/ Takes(f) \/ Puts(f) \/ HasClosed(f)
  <2>1. Counted' = Counted /\ opened' = opened
    BY <1>4 DEF GoesOn, Takes, Puts, HasClosed
  <2> QED
    BY <1>1, <2>1
<1>5. CASE Streams(f) \/ BeginsReset(f) \/ IsOpened(f) \/ HasReset(f)
  <2>1. Counted' = Counted /\ opened' = opened
    BY <1>5 DEF Streams, BeginsReset, IsOpened, HasReset
  <2> QED
    BY <1>1, <2>1
<1>6. CASE Works(f)
  <2>1. Counted' = Counted /\ opened' = opened
    BY <1>6 DEF Works
  <2> QED
    BY <1>1, <2>1
<1> QED
  BY <1>2, <1>3, <1>4, <1>5, <1>6 DEF Kinds

\* A file that enters the section with the mutex is alone: opened says so.
LEMMA KindOwns ==
  ASSUME Control, NEW f \in File, Kinds(f) PROVE OwnerHoldsMutex'
<1> USE DEF OwnerHoldsMutex, LocksMutex, Counted, Control, ControlType, Goto, shared,
            FirmwareSection, OpensFirmware, ClosesFirmware, CyclesPower, Opened, Outside,
            MutexFree, PhaseHasReason, Reasons
<1>1. NoFile \notin File
  BY PowerAssumption
<1>2. CASE IsFirst(f)
  <2>1. Counted = {}
    BY <1>2, CountsAreNatural, FS_EmptySet DEF IsFirst, CountsMatchFiles
  <2> QED
    BY <1>1, <1>2, <2>1 DEF IsFirst
<1>3. CASE IsLast(f)
  <2>1. f \in Counted /\ Cardinality(Counted) = 1
    BY <1>3 DEF IsLast, CountsMatchFiles
  <2>2. Counted = {f}
    BY <2>1, CountsAreNatural, FS_Singleton
  <2> QED
    BY <1>1, <1>3, <2>2 DEF IsLast
<1>4. CASE GoesOn(f) \/ Takes(f) \/ Puts(f)
  BY <1>4 DEF GoesOn, Takes, Puts
<1>5. CASE Joins(f) \/ Leaves(f)
  BY <1>1, <1>5 DEF Joins, Leaves
<1>6. CASE Works(f)
  BY <1>6 DEF Works
<1>7. CASE IsOpened(f) \/ IsRefused(f) \/ HasClosed(f)
  BY <1>7 DEF IsOpened, IsRefused, HasClosed
<1>8. CASE HasReset(f) \/ Streams(f) \/ BeginsReset(f)
  BY <1>8 DEF HasReset, Streams, BeginsReset
<1> QED
  BY <1>2, <1>3, <1>4, <1>5, <1>6, <1>7, <1>8 DEF Kinds

LEMMA KindResets ==
  ASSUME Control, NEW f \in File, Kinds(f)
  PROVE  ResetIsAnnounced' /\ ResetIsAlone' /\ PhaseHasReason'
<1> USE DEF ResetIsAnnounced, ResetIsAlone, PhaseHasReason, Resets, Control, ControlType,
            Goto, shared, FirmwareSection, OpensFirmware, ClosesFirmware, CyclesPower,
            Opened, Outside, Reasons
<1>1. CASE GoesOn(f) \/ Takes(f) \/ Puts(f)
  BY <1>1 DEF GoesOn, Takes, Puts
<1>2. CASE Joins(f) \/ IsFirst(f) \/ Leaves(f) \/ IsLast(f)
  BY <1>2 DEF Joins, IsFirst, Leaves, IsLast
<1>3. CASE Works(f)
  BY <1>3 DEF Works
<1>4. CASE IsOpened(f) \/ IsRefused(f) \/ HasReset(f) \/ HasClosed(f)
  BY <1>4 DEF IsOpened, IsRefused, HasReset, HasClosed
<1>5. CASE Streams(f) \/ BeginsReset(f)
  BY <1>5 DEF Streams, BeginsReset
<1> QED
  BY <1>1, <1>2, <1>3, <1>4, <1>5 DEF Kinds

LEMMA InitControl == Init => Control
<1> SUFFICES ASSUME Init PROVE Control
  OBVIOUS
<1>1. Users = {} /\ Counted = {}
  BY DEF Init, Users, Counted, FirmwareSection, OpensFirmware, ClosesFirmware, CyclesPower
<1>2. CountsMatchFiles
  BY <1>1, FS_EmptySet DEF Init, CountsMatchFiles
<1> QED
  BY <1>2 DEF Init, Control, ControlType, OwnerHoldsMutex, ResetIsAnnounced, ResetIsAlone,
     PhaseHasReason, LocksMutex, Resets, FirmwareSection, OpensFirmware, ClosesFirmware,
     CyclesPower, Outside, Reasons

LEMMA NextControl == Control /\ [Next]_vars => Control'
<1> SUFFICES ASSUME Control, [Next]_vars PROVE Control'
  OBVIOUS
<1>1. CASE Stays
  BY <1>1 DEF Stays, calls, shared, Control, ControlType, CountsMatchFiles, Users, Counted,
     OwnerHoldsMutex, ResetIsAnnounced, ResetIsAlone, PhaseHasReason, LocksMutex, Resets
<1>2. ASSUME NEW f \in File, Kinds(f) PROVE Control'
  BY <1>2, KindTypes, KindCountsUsers, KindCountsFiles, KindOwns, KindResets
     DEF Control, CountsMatchFiles
<1> QED
  BY <1>1, <1>2, NextKinds

THEOREM ControlHolds == Spec => []Control
  BY InitControl, NextControl, PTL DEF Spec

LEMMA OwnerIsAlone == Control => FirmwareHasOneOwner
<1> SUFFICES ASSUME Control, NEW f \in File, NEW g \in File,
                    pc[f] \in FirmwareSection, pc[g] \in FirmwareSection
             PROVE  f = g
  BY DEF FirmwareHasOneOwner
<1>1. (LocksMutex(f) \/ Resets(f)) /\ (LocksMutex(g) \/ Resets(g))
  BY DEF Control, ControlType, Reasons, LocksMutex, Resets
<1>2. CASE Resets(f) /\ Resets(g)
  BY <1>2 DEF Control, ResetIsAlone
<1>3. CASE LocksMutex(f) /\ LocksMutex(g)
  BY <1>3 DEF Control, OwnerHoldsMutex
<1>4. CASE LocksMutex(f) /\ Resets(g)
  BY <1>4 DEF Control, OwnerHoldsMutex, Resets, Counted
<1>5. CASE LocksMutex(g) /\ Resets(f)
  BY <1>5 DEF Control, OwnerHoldsMutex, Resets, Counted
<1> QED
  BY <1>1, <1>2, <1>3, <1>4, <1>5

\* The firmware is opened, closed and power-cycled by one thread at a time: open and
\* release exclude each other with isys->mutex, a reset excludes another with
\* isys->in_reset, and needs other files that are open, as the count tells a release.
THEOREM OneOwner == Spec => []FirmwareHasOneOwner
  BY OwnerIsAlone, ControlHolds, PTL

\* The usage count of the device and isys->video_opened are exact, whichever calls
\* fail or overlap: pm_runtime_put_noidle() and video_opened-- on the error paths of
\* video_open() undo what was counted, no more and no less.
THEOREM CountsExact == Spec => []CountsMatchFiles
<1>1. Control => CountsMatchFiles
  BY DEF Control
<1> QED
  BY <1>1, ControlHolds, PTL

-----------------------------------------------------------------------------
(* The contexts *)

ContextType ==
  /\ fwcom \in Ctx \cup {NoCtx} /\ held \in [File -> Ctx \cup {NoCtx}]
  /\ mem \subseteq Ctx

\* A context is in isys->fwcom, or in the hands of the thread that closes it.
HeldByCloser == \A f \in File :
  /\ pc[f] # "stopWait" => held[f] = NoCtx
  /\ held[f] \in mem \cup {NoCtx}
PointerIsFree == \A f \in File : pc[f] \in {"stopWait", "prepare"} => fwcom = NoCtx
ClearedIsFreed == \A f \in File : pc[f] = "cleared" => fwcom \notin mem

Memory ==
  ContextType /\ HeldByCloser /\ PointerIsFree /\ ClearedIsFreed /\ ContextsAccounted

\* A cell that is off or idle has no context.
IdleHasNoContext == sp \in {"off", "idle"} => spCtx = NoCtx

\* A call goes on and leaves the contexts alone.
Quiet(f) ==
  /\ UNCHANGED contexts
  /\ pc[f] \notin {"stopWait", "cleared"}
  /\ \E s : s \notin {"stopWait", "cleared", "prepare"} /\ Goto(f, s)

LEMMA QuietMemory ==
  ASSUME ControlType, Memory, NEW f \in File, Quiet(f) PROVE Memory'
  BY OneMoves DEF Quiet, Memory, ContextType, HeldByCloser, PointerIsFree, ClearedIsFreed,
     ContextsAccounted, contexts

LEMMA InitFailsIsQuiet ==
  ASSUME NEW f \in File, InitFails(f), UNCHANGED contexts, pc[f] \notin {"stopWait", "cleared"}
  PROVE  Quiet(f)
  BY DEF InitFails, Quiet

LEMMA ClosedGoes ==
  ASSUME Control, NEW f \in File, NEW c, Closed(f, c)
  PROVE  \E s : s \notin {"stopWait", "cleared", "prepare"} /\ Goto(f, s)
  BY DEF Closed, InitFails, Control, ControlType, Reasons

LEMMA MemoryAtWork ==
  ASSUME Control, Memory, NEW f \in File, pc[f] \in FirmwareSection
  PROVE  /\ \A g \in File \ {f} : pc[g] \notin FirmwareSection /\ held[g] = NoCtx
         /\ mem \subseteq {fwcom, held[f]}
         /\ pc[f] # "cleared" => fwcom \in mem \cup {NoCtx}
<1>1. \A g \in File \ {f} : pc[g] \notin FirmwareSection
  BY OwnerIsAlone DEF FirmwareHasOneOwner
<1>2. \A g \in File \ {f} : held[g] = NoCtx /\ pc[g] # "cleared"
  BY <1>1 DEF Memory, HeldByCloser, FirmwareSection, OpensFirmware, ClosesFirmware
<1>3. NoCtx \notin mem
  BY PowerAssumption DEF Memory, ContextType
<1> QED
  BY <1>1, <1>2, <1>3 DEF Memory, ContextsAccounted

LEMMA CallKeepsMemory ==
  ASSUME Control, Memory, NEW f \in File, Call(f) PROVE Memory'
<1> USE DEF FirmwareSection, OpensFirmware, ClosesFirmware
<1>0. ControlType
  BY DEF Control
<1>1. CASE Cleanup(f)
  <2>1. mem' = {} /\ fwcom' = fwcom /\ held' = held /\ fwcom \in Ctx \cup {NoCtx}
    BY <1>1, MemoryAtWork, PowerAssumption
       DEF Cleanup, Memory, ContextType, HeldByCloser
  <2>2. \A g \in File : held[g] = NoCtx
    BY <1>1, MemoryAtWork DEF Cleanup, Memory, HeldByCloser
  <2>3. /\ pc'[f] = IF fwcom = NoCtx THEN "prepare" ELSE "cleared"
        /\ \A g \in File \ {f} : pc'[g] \notin FirmwareSection
    BY <1>0, <1>1, MemoryAtWork, OneMoves DEF Cleanup
  <2> QED
    BY <2>1, <2>2, <2>3 DEF Memory, ContextType, HeldByCloser, PointerIsFree,
       ClearedIsFreed, ContextsAccounted
<1>2. CASE CleanupClears(f)
  <2>1. mem = {} /\ mem' = mem /\ fwcom' = NoCtx /\ held' = held
    BY <1>2, MemoryAtWork, PowerAssumption
       DEF CleanupClears, contexts, Memory, ContextType, HeldByCloser, ClearedIsFreed
  <2>2. \A g \in File : held[g] = NoCtx
    BY <1>2, MemoryAtWork DEF CleanupClears, Memory, HeldByCloser
  <2> QED
    BY <2>1, <2>2 DEF Memory, ContextType, HeldByCloser, PointerIsFree, ClearedIsFreed,
       ContextsAccounted
<1>3. CASE Prepare(f)
  <2>1. mem \subseteq {NoCtx} /\ held' = held
    BY <1>3, MemoryAtWork DEF Prepare, Memory, HeldByCloser, PointerIsFree
  <2>2. fwcom' \in Ctx /\ mem' = {fwcom'}
    BY <1>3, <2>1, PowerAssumption DEF Prepare, Memory, ContextType
  <2>3. \A g \in File : held[g] = NoCtx
    BY <1>3, MemoryAtWork DEF Prepare, Memory, HeldByCloser
  <2>4. \A g \in File : pc'[g] \notin {"stopWait", "prepare", "cleared"}
    BY <1>0, <1>3, MemoryAtWork, OneMoves DEF Prepare
  <2> QED
    BY <2>1, <2>2, <2>3, <2>4 DEF Memory, ContextType, HeldByCloser, PointerIsFree,
       ClearedIsFreed, ContextsAccounted
<1>4. CASE Stop(f)
  <2>1. /\ held' = [held EXCEPT ![f] = fwcom] /\ fwcom' = NoCtx /\ mem' = mem
        /\ held[f] = NoCtx /\ fwcom \in mem \cup {NoCtx}
    BY <1>4, MemoryAtWork DEF Stop, Memory, HeldByCloser
  <2>2. \A g \in File \ {f} : held'[g] = NoCtx
    BY <1>4, <2>1, MemoryAtWork DEF Stop, Memory, ContextType
  <2>3. held'[f] = fwcom /\ mem \subseteq {held'[f], NoCtx}
    BY <1>4, <2>1, MemoryAtWork DEF Stop, Memory, ContextType
  <2>4. pc'[f] = "stopWait" /\ \A g \in File \ {f} : pc'[g] \notin FirmwareSection
    BY <1>0, <1>4, MemoryAtWork, OneMoves DEF Stop
  <2>5. ContextType'
    BY <2>1 DEF Memory, ContextType
  <2> QED
    BY <2>1, <2>2, <2>3, <2>4, <2>5 DEF Memory, HeldByCloser, PointerIsFree,
       ClearedIsFreed, ContextsAccounted
<1>5. CASE Released(f) \/ ReleaseTimesOut(f)
  <2>1. /\ held' = [held EXCEPT ![f] = NoCtx] /\ fwcom = NoCtx
        /\ \/ fwcom' = NoCtx /\ mem' = mem \ {held[f]}
           \/ fwcom' = held[f] /\ mem' = mem
    BY <1>5 DEF Released, ReleaseTimesOut, Memory, PointerIsFree
  <2>2. \A g \in File : held'[g] = NoCtx
    BY <1>5, <2>1, MemoryAtWork DEF Released, ReleaseTimesOut, Memory, ContextType
  <2>3. mem' \subseteq {fwcom'} /\ fwcom' \in mem' \cup {NoCtx}
    <3>1. mem \subseteq {NoCtx, held[f]} /\ held[f] \in mem \cup {NoCtx} /\ NoCtx \notin mem
      BY <1>5, <2>1, MemoryAtWork, PowerAssumption
         DEF Released, ReleaseTimesOut, Memory, HeldByCloser, ContextType
    <3> QED
      BY <2>1, <3>1
  <2>4. \A g \in File : pc'[g] \notin {"stopWait", "prepare", "cleared"}
    <3>1. PICK s : s \notin {"stopWait", "cleared", "prepare"} /\ Goto(f, s)
      BY <1>5, ClosedGoes DEF Released, ReleaseTimesOut
    <3> QED
      BY <1>0, <1>5, <3>1, MemoryAtWork, OneMoves DEF Released, ReleaseTimesOut
  <2>5. ContextType'
    BY <2>1 DEF Memory, ContextType
  <2> QED
    BY <2>2, <2>3, <2>4, <2>5 DEF Memory, HeldByCloser, PointerIsFree, ClearedIsFreed,
       ContextsAccounted
<1>6. CASE PrepareFails(f) \/ StartRefused(f)
  BY <1>0, <1>6, QuietMemory, InitFailsIsQuiet DEF PrepareFails, StartRefused
<1>7. CASE GetCounts(f) \/ GetReturns(f) \/ GetFails(f) \/ PipelineFails(f) \/ CountsFile(f)
  <2>1. Quiet(f)
    BY <1>7 DEF GetCounts, GetReturns, GetFails, PipelineFails, CountsFile, Quiet
  <2> QED
    BY <1>0, <2>1, QuietMemory
<1>8. CASE Start(f) \/ Booted(f) \/ BootTimesOut(f)
  <2>1. Quiet(f)
    BY <1>8 DEF Start, Booted, BootTimesOut, Quiet
  <2> QED
    BY <1>0, <2>1, QuietMemory
<1>9. CASE UncountsFile(f) \/ Put(f) \/ PutReturns(f) \/ NoResetNow(f) \/ Reset(f)
  <2>1. Quiet(f)
    BY <1>9 DEF UncountsFile, Put, PutReturns, NoResetNow, Reset, Quiet
  <2> QED
    BY <1>0, <2>1, QuietMemory
<1>10. CASE \/ CycleDown(f) \/ CycleClears(f) \/ CycleOff(f)
            \/ CycleUp(f) \/ CycleInit(f)
  <2>1. Quiet(f)
    BY <1>10 DEF CycleDown, CycleClears, CycleOff, CycleUp, CycleInit, Quiet
  <2> QED
    BY <1>0, <2>1, QuietMemory
<1> QED
  BY <1>1, <1>2, <1>3, <1>4, <1>5, <1>6, <1>7, <1>8, <1>9, <1>10 DEF Call

LEMMA NextMemory == Control /\ Memory /\ [Next]_vars => Memory'
<1> SUFFICES ASSUME Control, Memory, [Next]_vars PROVE Memory'
  OBVIOUS
<1>0. ControlType
  BY DEF Control
<1>1. ASSUME NEW f \in File, Open(f) \/ Release(f) \/ StreamBreaks(f) PROVE Memory'
  <2>1. Quiet(f)
    BY <1>1 DEF Open, Release, StreamBreaks, Quiet
  <2> QED
    BY <1>0, <2>1, QuietMemory
<1>2. ASSUME UNCHANGED << pc, contexts >> PROVE Memory'
  BY <1>2 DEF contexts, Memory, ContextType, HeldByCloser, PointerIsFree, ClearedIsFreed,
     ContextsAccounted
<1>3. CASE PmStep
  BY <1>2, <1>3 DEF PmStep, ResumePowers, ResumeEnds, ResumeFails, SuspendBegins,
     SuspendClears, SuspendPowersOff, SuspendFails, calls
<1>4. CASE IsrEnters \/ IsrReturns \/ IsrSpins \/ FwReady \/ FwStops
  BY <1>2, <1>4 DEF IsrEnters, IsrReturns, IsrSpins, FwReady, FwStops, calls, vars
<1>5. CASE FlrPrepare \/ FlrHits \/ FlrDone \/ PciSuspends
  BY <1>2, <1>5 DEF FlrPrepare, FlrHits, FlrDone, PciSuspends, calls
<1>6. CASE UNCHANGED vars
  BY <1>2, <1>6 DEF calls, vars
<1> QED
  BY <1>1, <1>3, <1>4, <1>5, <1>6, CallKeepsMemory DEF Next

LEMMA InitMemory == Init => Memory
  BY DEF Init, Memory, ContextType, HeldByCloser, PointerIsFree, ClearedIsFreed,
     ContextsAccounted

THEOREM MemoryHolds == Spec => []Memory
  BY ControlHolds, InitMemory, NextMemory, PTL DEF Spec

\* No context is lost and none that was freed is kept, whichever call fails: it is in
\* isys->fwcom, or in the hands of the thread that closes the firmware, except while
\* ipu_fw_isys_cleanup() releases it by force.
THEOREM NoContextLost == Spec => []ContextsAccounted
<1>1. Memory => ContextsAccounted
  BY DEF Memory
<1> QED
  BY <1>1, MemoryHolds, PTL

LEMMA NextIdle == IdleHasNoContext /\ [Next]_vars => IdleHasNoContext'
<1> SUFFICES ASSUME IdleHasNoContext, [Next]_vars PROVE IdleHasNoContext'
  OBVIOUS
<1> USE DEF IdleHasNoContext, cell
<1>1. ASSUME NEW f \in File, Open(f) \/ Release(f) \/ StreamBreaks(f)
      PROVE  IdleHasNoContext'
  BY <1>1 DEF Open, Release, StreamBreaks
<1>2. ASSUME NEW f \in File, Call(f) PROVE IdleHasNoContext'
  <2>1. CASE \/ GetCounts(f) \/ GetReturns(f) \/ GetFails(f) \/ PipelineFails(f)
             \/ CountsFile(f) \/ Cleanup(f) \/ CleanupClears(f) \/ Prepare(f)
             \/ PrepareFails(f)
    BY <2>1 DEF GetCounts, GetReturns, GetFails, PipelineFails, CountsFile, Cleanup,
       CleanupClears, Prepare, PrepareFails
  <2>2. CASE \/ Start(f) \/ StartRefused(f) \/ Booted(f) \/ BootTimesOut(f) \/ Stop(f)
             \/ Released(f) \/ ReleaseTimesOut(f)
    BY <2>2 DEF Start, StartRefused, Booted, BootTimesOut, Stop, Released, ReleaseTimesOut
  <2>3. CASE UncountsFile(f) \/ Put(f) \/ PutReturns(f) \/ NoResetNow(f) \/ Reset(f)
    BY <2>3 DEF UncountsFile, Put, PutReturns, NoResetNow, Reset
  <2>4. CASE \/ CycleDown(f) \/ CycleClears(f) \/ CycleOff(f) \/ CycleUp(f)
             \/ CycleInit(f)
    BY <2>4 DEF CycleDown, CycleClears, CycleOff, CycleUp, CycleInit, PowerDown, PowerUp
  <2> QED
    BY <1>2, <2>1, <2>2, <2>3, <2>4 DEF Call
<1>3. CASE PmStep
  BY <1>3 DEF PmStep, ResumePowers, ResumeEnds, ResumeFails, SuspendBegins, SuspendClears,
     SuspendPowersOff, SuspendFails, PowerDown, PowerUp
<1>4. CASE IsrEnters \/ IsrReturns \/ IsrSpins \/ FwReady \/ FwStops
  BY <1>4 DEF IsrEnters, IsrReturns, IsrSpins, FwReady, FwStops, vars
<1>5. CASE FlrPrepare \/ FlrHits \/ FlrDone \/ PciSuspends
  BY <1>5 DEF FlrPrepare, FlrHits, FlrDone, PciSuspends
<1>6. CASE UNCHANGED vars
  BY <1>6 DEF vars
<1> QED
  BY <1>1, <1>2, <1>3, <1>4, <1>5, <1>6 DEF Next

LEMMA InitIdle == Init => IdleHasNoContext
  BY DEF Init, IdleHasNoContext

\* Which steps free memory?
LEMMA FreesMemory ==
  ASSUME Control, Memory, IdleHasNoContext, [Next]_vars, ~ (mem \subseteq mem')
  PROVE  \E f \in File : pc[f] = "clean" \/ (pc[f] = "stopWait" /\ spCtx = NoCtx)
<1> USE DEF contexts
<1>1. ASSUME NEW f \in File, Open(f) \/ Release(f) \/ StreamBreaks(f)
      PROVE  FALSE
  BY <1>1 DEF Open, Release, StreamBreaks
<1>2. ASSUME NEW f \in File, Call(f)
      PROVE  pc[f] = "clean" \/ (pc[f] = "stopWait" /\ spCtx = NoCtx)
  <2>1. CASE Cleanup(f) \/ Released(f)
    BY <2>1 DEF Cleanup, Released, IdleHasNoContext
  <2>2. CASE \/ GetCounts(f) \/ GetReturns(f) \/ GetFails(f) \/ PipelineFails(f)
             \/ CountsFile(f) \/ CleanupClears(f) \/ Prepare(f) \/ PrepareFails(f)
    BY <2>2 DEF GetCounts, GetReturns, GetFails, PipelineFails, CountsFile,
       CleanupClears, Prepare, PrepareFails
  <2>3. CASE \/ Start(f) \/ StartRefused(f) \/ Booted(f) \/ BootTimesOut(f) \/ Stop(f)
             \/ ReleaseTimesOut(f)
    BY <2>3 DEF Start, StartRefused, Booted, BootTimesOut, Stop, ReleaseTimesOut
  <2>4. CASE UncountsFile(f) \/ Put(f) \/ PutReturns(f) \/ NoResetNow(f) \/ Reset(f)
    BY <2>4 DEF UncountsFile, Put, PutReturns, NoResetNow, Reset
  <2>5. CASE \/ CycleDown(f) \/ CycleClears(f) \/ CycleOff(f) \/ CycleUp(f)
             \/ CycleInit(f)
    BY <2>5 DEF CycleDown, CycleClears, CycleOff, CycleUp, CycleInit
  <2> QED
    BY <1>2, <2>1, <2>2, <2>3, <2>4, <2>5 DEF Call
<1>3. CASE PmStep
  BY <1>3 DEF PmStep, ResumePowers, ResumeEnds, ResumeFails, SuspendBegins, SuspendClears,
     SuspendPowersOff, SuspendFails
<1>4. CASE IsrEnters \/ IsrReturns \/ IsrSpins \/ FwReady \/ FwStops
  BY <1>4 DEF IsrEnters, IsrReturns, IsrSpins, FwReady, FwStops, vars
<1>5. CASE FlrPrepare \/ FlrHits \/ FlrDone \/ PciSuspends
  BY <1>5 DEF FlrPrepare, FlrHits, FlrDone, PciSuspends
<1>6. CASE UNCHANGED vars
  BY <1>6 DEF vars
<1> QED
  BY <1>1, <1>2, <1>3, <1>4, <1>5, <1>6 DEF Next

\* The memory of a context is freed while the firmware runs with it only by
\* ipu_fw_isys_cleanup(), which forces the release: ipu_fw_com_release() refuses
\* otherwise, until the cell is idle.
THEOREM MemorySafe == Spec => MemoryOutlivesFirmware
<1>1. ASSUME Control, Memory, IdleHasNoContext, [Next]_vars
      PROVE  [ mem' \subseteq mem /\ spCtx \in mem \ mem' /\ spCtx' = spCtx
                 => \E f \in File : pc[f] = "clean" ]_vars
  <2> SUFFICES ASSUME spCtx \in mem \ mem' PROVE \E f \in File : pc[f] = "clean"
    OBVIOUS
  <2>1. spCtx # NoCtx
    BY <1>1, PowerAssumption DEF Memory, ContextType
  <2> QED
    BY <1>1, <2>1, FreesMemory
<1> QED
  BY <1>1, ControlHolds, MemoryHolds, InitIdle, NextIdle, PTL
     DEF Spec, MemoryOutlivesFirmware

-----------------------------------------------------------------------------
(* Types *)

RestType ==
  /\ resetNeeded \in BOOLEAN
  /\ power \in BOOLEAN /\ isr \in {"idle", "loop"}
  /\ pm \in {"suspended", "resuming", "active", "suspending", "stopping"}
  /\ idleQueued \in BOOLEAN /\ pmError \in BOOLEAN
  /\ sp \in {"off", "idle", "boot", "ready", "closing"} /\ spCtx \in Ctx \cup {NoCtx}
  /\ flrDone \in BOOLEAN /\ flr \in {"none", "prepared", "hit"}

CellType == sp \in {"off", "idle", "boot", "ready", "closing"} /\ spCtx \in Ctx \cup {NoCtx}

LEMMA CellTypes == ASSUME CellType, NEW ok, PowerUp(ok) \/ PowerDown(ok) PROVE CellType'
BY DEF CellType, PowerUp, PowerDown, cell

LEMMA NextTypes == RestType /\ Control /\ Memory /\ [Next]_vars => RestType'
<1> SUFFICES ASSUME RestType, Control, Memory, [Next]_vars PROVE RestType'
  OBVIOUS
<1> USE DEF RestType, flags, handler, runtime, cell, pci
<1>1. ASSUME NEW f \in File, Open(f) \/ Release(f) \/ StreamBreaks(f) PROVE RestType'
  <2>1. CASE Open(f)
    BY <2>1 DEF Open
  <2>2. CASE Release(f)
    BY <2>2 DEF Release
  <2>3. CASE StreamBreaks(f)
    BY <2>3 DEF StreamBreaks
  <2> QED
    BY <1>1, <2>1, <2>2, <2>3
<1>2. ASSUME NEW f \in File, Call(f) PROVE RestType'
  <2>1. CASE GetCounts(f) \/ GetReturns(f) \/ GetFails(f)
    BY <2>1 DEF GetCounts, GetReturns, GetFails
  <2>8. CASE PipelineFails(f) \/ CountsFile(f) \/ Cleanup(f)
    BY <2>8 DEF PipelineFails, CountsFile, Cleanup
  <2>9. CASE CleanupClears(f) \/ Prepare(f) \/ PrepareFails(f)
    BY <2>9 DEF CleanupClears, Prepare, PrepareFails
  <2>2. CASE Start(f) \/ StartRefused(f) \/ Booted(f) \/ BootTimesOut(f) \/ Stop(f)
    BY <2>2 DEF Start, StartRefused, Booted, BootTimesOut, Stop, Memory, ContextType
  <2>3. ASSUME NEW c, Closed(f, c) PROVE resetNeeded' \in BOOLEAN
    BY <2>3 DEF Closed, Control, ControlType, Reasons
  <2>4. CASE Released(f) \/ ReleaseTimesOut(f)
    BY <2>3, <2>4 DEF Released, ReleaseTimesOut
  <2>5. CASE UncountsFile(f)
    BY <2>5 DEF UncountsFile
  <2>10. CASE Put(f) \/ PutReturns(f)
    BY <2>10 DEF Put, PutReturns
  <2>7. CASE NoResetNow(f)
    <3>1. resetNeeded' \in BOOLEAN
      BY <2>7 DEF NoResetNow
    <3>2. UNCHANGED << power, isr, pm, idleQueued, pmError, sp, spCtx, flrDone, flr >>
      BY <2>7 DEF NoResetNow
    <3> QED
      BY <3>1, <3>2
  <2>12. CASE Reset(f)
    BY <2>12 DEF Reset
  <2>6. CASE CycleDown(f) \/ CycleClears(f) \/ CycleOff(f)
    <3>1. CASE CycleDown(f) \/ CycleClears(f)
      BY <3>1 DEF CycleDown, CycleClears
    <3>2. CASE CycleOff(f)
      <4>1. CellType'
        BY <3>2, CellTypes DEF CycleOff, CellType
      <4> QED
        BY <3>2, <4>1 DEF CycleOff, CellType
    <3> QED
      BY <2>6, <3>1, <3>2
  <2>11. CASE CycleUp(f) \/ CycleInit(f)
    <3>1. CASE CycleUp(f)
      <4>1. CellType'
        BY <3>1, CellTypes DEF CycleUp, CellType
      <4> QED
        BY <3>1, <4>1 DEF CycleUp, CellType
    <3>2. CASE CycleInit(f)
      BY <3>2 DEF CycleInit
    <3> QED
      BY <2>11, <3>1, <3>2
  <2> QED
    BY <1>2, <2>1, <2>2, <2>4, <2>5, <2>6, <2>7, <2>8, <2>9,
       <2>10, <2>11, <2>12 DEF Call
<1>3. CASE PmStep
  <2>1. CASE ResumePowers
    <3>1. CellType'
      BY <2>1, CellTypes DEF ResumePowers, CellType
    <3> QED
      BY <2>1, <3>1 DEF ResumePowers, CellType
  <2>4. CASE ResumeEnds
    BY <2>4 DEF ResumeEnds
  <2>5. CASE ResumeFails
    <3>1. CellType'
      BY <2>5, CellTypes DEF ResumeFails, CellType
    <3> QED
      BY <2>5, <3>1 DEF ResumeFails, CellType
  <2>2. CASE SuspendBegins \/ SuspendClears
    BY <2>2 DEF SuspendBegins, SuspendClears
  <2>3. CASE SuspendPowersOff
    <3>1. CellType'
      BY <2>3, CellTypes DEF SuspendPowersOff, CellType
    <3> QED
      BY <2>3, <3>1 DEF SuspendPowersOff, CellType
  <2>6. CASE SuspendFails
    BY <2>6 DEF SuspendFails, Outcomes
  <2> QED
    BY <1>3, <2>1, <2>2, <2>3, <2>4, <2>5, <2>6 DEF PmStep
<1>4. CASE IsrEnters \/ IsrReturns \/ IsrSpins \/ FwReady \/ FwStops
  BY <1>4 DEF IsrEnters, IsrReturns, IsrSpins, FwReady, FwStops, vars
<1>5. CASE FlrPrepare \/ FlrHits \/ FlrDone \/ PciSuspends
  BY <1>5 DEF FlrPrepare, FlrHits, FlrDone, PciSuspends
<1>6. CASE UNCHANGED vars
  BY <1>6 DEF vars
<1> QED
  BY <1>1, <1>2, <1>3, <1>4, <1>5, <1>6 DEF Next

LEMMA CountsAreBounded ==
  /\ Cardinality(Users) \in 0 .. Cardinality(File)
  /\ Cardinality(Counted) \in 0 .. Cardinality(File)
<1>1. Users \in SUBSET File /\ Counted \in SUBSET File
  BY DEF Users, Counted
<1>2. Cardinality(Users) <= Cardinality(File) /\ Cardinality(Counted) <= Cardinality(File)
  BY <1>1, PowerAssumption, FS_Subset
<1>3. Cardinality(File) \in Nat
  BY PowerAssumption, FS_CardinalityType
<1> QED
  BY <1>2, <1>3, CountsAreNatural

\* The state keeps its types; in particular neither count goes below zero or above the
\* number of files.
THEOREM TypeCorrect == Spec => []TypeOK
<1>1. Init => RestType
  BY DEF Init, RestType
<1>2. Control /\ Memory /\ RestType => TypeOK
  BY CountsAreBounded DEF Control, ControlType, CountsMatchFiles, Memory, ContextType,
     RestType, TypeOK, Outside, Opened, Reasons, FirmwareSection
<1> QED
  BY <1>1, <1>2, NextTypes, ControlHolds, MemoryHolds, PTL DEF Spec

-----------------------------------------------------------------------------
(* Power.  Any function-level reset may hit, provided a stream reset does   *)
(* not fail half way or meet one.                                          *)

ResetsAreClean == "resetFails" \notin Faults /\ "resetInFlr" \notin Faults

\* After the reset nothing powers the cell up until flr_done is cleared.
FlrPhases ==
  /\ flr # "none" => flrDone
  /\ flrDone /\ flr # "prepared" => sp = "off"
  /\ inReset => flr = "none"

\* A call that has the device keeps it active.
UsersActive == \A f \in File :
  pc[f] \notin {"closed", "get", "getting", "putSync"} => pm = "active" /\ ~ pmError

Down == {"cycleClear", "cycleOff", "cycleUp", "cycleInit"}

PowerStates ==
  /\ isr = "loop" => power
  /\ power => pm = "active" /\ ~ pmError
  /\ pm = "resuming" => ~ pmError
  /\ \A f \in File : pc[f] \in Down => ~ power
  /\ pm = "active" /\ ~ pmError => power \/ \E f \in File : pc[f] \in Down
  /\ pm # "suspended" => sp # "off" \/ flrDone \/ \E f \in File : pc[f] = "cycleUp"

\* A stream reset that has cycled the power boots.
Reboots == \A f \in File :
  /\ pc[f] = "cycleUp" => sp = "off" /\ ~ flrDone
  /\ pc[f] \in FirmwareSection /\ why[f] = "reboot" =>
       /\ ~ flrDone
       /\ pc[f] \in OpensFirmware \cup {"cycleInit"}
       /\ pc[f] # "boot" => sp = "idle"

Boots == \A f \in File :
  /\ pc[f] \in {"start", "boot"} => fwcom \in mem
  /\ pc[f] = "boot" => flrDone \/ (sp \in {"boot", "ready"} /\ spCtx = fwcom)

Runs ==
  ~ inReset /\ (\E f \in File : pc[f] \in Opened) =>
     fwcom \in mem /\ (flrDone \/ (sp = "ready" /\ spCtx = fwcom))

PowerInv == FlrPhases /\ UsersActive /\ PowerStates /\ Reboots /\ Boots /\ Runs

\* What the end of ipu_fw_isys_close() does to the rest.
LEMMA ClosedEffect ==
  ASSUME Control, NEW f \in File, NEW c, Closed(f, c)
  PROVE  /\ inReset' => inReset
         /\ \E s \in {"put", "open", "cycleDown"} : Goto(f, s) /\
              /\ s = "put" => why[f] \in {"open", "release"} /\ UNCHANGED inReset
              /\ s = "open" => why[f] = "reboot"
              /\ s = "cycleDown" => why[f] = "reset" /\ UNCHANGED inReset
<1> USE DEF Closed, InitFails, counts, flags, Control, ControlType, Reasons
<1>1. CASE why[f] \in {"open", "reboot"}
  BY <1>1
<1>2. CASE why[f] = "release"
  BY <1>2
<1>3. CASE why[f] = "reset"
  BY <1>3
<1> QED
  BY <1>1, <1>2, <1>3

LEMMA NextFlr ==
  ASSUME Control, RestType, FlrPhases, ResetsAreClean, [Next]_vars PROVE FlrPhases'
<1> USE DEF FlrPhases, RestType, counts, flags, runtime, cell, pci
<1>1. ASSUME NEW f \in File, Open(f) \/ Release(f) \/ StreamBreaks(f) PROVE FlrPhases'
  BY <1>1 DEF Open, Release, StreamBreaks
<1>2. ASSUME NEW f \in File, Call(f) PROVE FlrPhases'
  <2>1. CASE \/ GetCounts(f) \/ GetReturns(f) \/ GetFails(f) \/ PipelineFails(f)
             \/ CountsFile(f) \/ Cleanup(f) \/ CleanupClears(f) \/ Prepare(f)
    BY <2>1 DEF GetCounts, GetReturns, GetFails, PipelineFails, CountsFile, Cleanup,
       CleanupClears, Prepare
  <2>2. CASE PrepareFails(f) \/ StartRefused(f) \/ Start(f) \/ Booted(f)
    BY <2>2 DEF PrepareFails, StartRefused, InitFails, Start, Booted, Control, ControlType
  <2>3. CASE BootTimesOut(f) \/ Stop(f)
    BY <2>3 DEF BootTimesOut, Stop
  <2>4. CASE Released(f) \/ ReleaseTimesOut(f)
    <3>1. (inReset' => inReset) /\ UNCHANGED << cell, pci >>
      BY <2>4, ClosedEffect DEF Released, ReleaseTimesOut
    <3> QED
      BY <3>1
  <2>5. CASE UncountsFile(f) \/ Put(f) \/ PutReturns(f) \/ NoResetNow(f)
    <3>1. UNCHANGED << inReset, cell, pci >>
      BY <2>5 DEF UncountsFile, Put, PutReturns, NoResetNow
    <3> QED
      BY <3>1
  <2>6. CASE Reset(f)
    <3>1. flr = "none" /\ UNCHANGED << cell, pci >>
      BY <2>6 DEF Reset, ResetsAreClean
    <3> QED
      BY <3>1
  <2>7. CASE CycleDown(f) \/ CycleClears(f) \/ CycleInit(f)
    BY <2>7 DEF CycleDown, CycleClears, CycleInit
  <2>8. CASE CycleOff(f)
    <3>1. inReset
      BY <2>8 DEF CycleOff, Control, ResetIsAnnounced, Resets, PhaseHasReason,
         FirmwareSection, CyclesPower
    <3> QED
      BY <2>8, <3>1 DEF CycleOff
  <2>9. CASE CycleUp(f)
    BY <2>9 DEF CycleUp, PowerUp
  <2> QED
    BY <1>2, <2>1, <2>2, <2>3, <2>4, <2>5, <2>6, <2>7, <2>8, <2>9 DEF Call
<1>3. CASE PmStep
  <2>1. UNCHANGED << inReset, pci >> /\ (flrDone => UNCHANGED sp)
    <3>1. CASE ResumePowers \/ ResumeEnds \/ ResumeFails
      BY <3>1 DEF ResumePowers, ResumeEnds, ResumeFails, PowerUp, PowerDown
    <3>2. CASE SuspendBegins \/ SuspendClears \/ SuspendPowersOff \/ SuspendFails
      BY <3>2 DEF SuspendBegins, SuspendClears, SuspendPowersOff, SuspendFails, PowerDown
    <3> QED
      BY <1>3, <3>1, <3>2 DEF PmStep
  <2> QED
    BY <2>1
<1>5. CASE IsrEnters \/ IsrReturns \/ IsrSpins \/ FwReady \/ FwStops \/ UNCHANGED vars
  BY <1>5 DEF IsrEnters, IsrReturns, IsrSpins, FwReady, FwStops, vars
<1>6. CASE FlrPrepare \/ FlrHits \/ FlrDone \/ PciSuspends
  BY <1>6 DEF FlrPrepare, FlrHits, FlrDone, PciSuspends, ResetsAreClean
<1> QED
  BY <1>1, <1>2, <1>3, <1>5, <1>6 DEF Next

\* The device is put only after the last use, and an error of runtime PM keeps
\* everybody out.
LEMMA NextActive ==
  ASSUME Control, UsersActive, [Next]_vars PROVE UsersActive'
<1> USE DEF UsersActive, Goto, runtime, calls
<1>0. ControlType
  BY DEF Control
<1>a. ASSUME NEW f \in File, NEW s, Goto(f, s), UNCHANGED << pm, pmError >>,
             \/ pc[f] \notin {"closed", "get", "getting", "putSync"}
             \/ s \in {"closed", "get", "getting", "putSync"}
             \/ pm = "active" /\ ~ pmError
      PROVE  UsersActive'
  BY <1>0, <1>a, OneMoves
<1>1. ASSUME NEW f \in File, Open(f) \/ Release(f) \/ StreamBreaks(f) PROVE UsersActive'
  BY <1>1, <1>a DEF Open, Release, StreamBreaks
<1>2. ASSUME NEW f \in File, Call(f) PROVE UsersActive'
  <2>1. CASE GetCounts(f) \/ GetReturns(f) \/ GetFails(f) \/ PipelineFails(f)
    BY <1>a, <2>1 DEF GetCounts, GetReturns, GetFails, PipelineFails
  <2>2. CASE CountsFile(f) \/ Cleanup(f) \/ CleanupClears(f) \/ Prepare(f)
    BY <1>a, <2>2 DEF CountsFile, Cleanup, CleanupClears, Prepare
  <2>3. CASE PrepareFails(f) \/ StartRefused(f) \/ Start(f) \/ Booted(f)
    BY <1>a, <2>3 DEF PrepareFails, StartRefused, InitFails, Start, Booted
  <2>4. CASE BootTimesOut(f) \/ Stop(f)
    BY <1>a, <2>4 DEF BootTimesOut, Stop
  <2>5. CASE Released(f) \/ ReleaseTimesOut(f)
    <3>1. \E s : Goto(f, s)
      BY <2>5, ClosedEffect DEF Released, ReleaseTimesOut
    <3> QED
      BY <1>a, <2>5, <3>1 DEF Released, ReleaseTimesOut
  <2>6. CASE UncountsFile(f) \/ Put(f) \/ PutReturns(f)
    BY <1>a, <2>6 DEF UncountsFile, Put, PutReturns
  <2>7. CASE NoResetNow(f) \/ Reset(f) \/ CycleDown(f) \/ CycleClears(f)
    BY <1>a, <2>7 DEF NoResetNow, Reset, CycleDown, CycleClears
  <2>8. CASE CycleOff(f) \/ CycleUp(f) \/ CycleInit(f)
    BY <1>a, <2>8 DEF CycleOff, CycleUp, CycleInit
  <2> QED
    BY <1>2, <2>1, <2>2, <2>3, <2>4, <2>5, <2>6, <2>7, <2>8 DEF Call
<1>3. CASE ResumePowers \/ ResumeEnds \/ ResumeFails
  BY <1>3 DEF ResumePowers, ResumeEnds, ResumeFails
<1>4. CASE SuspendBegins
  <2>1. Users = {}
    BY <1>4, CountsAreNatural, FS_EmptySet DEF SuspendBegins, Control, CountsMatchFiles
  <2> QED
    BY <1>4, <2>1 DEF SuspendBegins, Users
<1>5. CASE SuspendClears \/ SuspendPowersOff \/ SuspendFails
  BY <1>5 DEF SuspendClears, SuspendPowersOff, SuspendFails
<1>6. CASE IsrEnters \/ IsrReturns \/ IsrSpins \/ FwReady \/ FwStops \/ UNCHANGED vars
  BY <1>6 DEF IsrEnters, IsrReturns, IsrSpins, FwReady, FwStops, vars
<1>7. CASE FlrPrepare \/ FlrHits \/ FlrDone \/ PciSuspends
  BY <1>7 DEF FlrPrepare, FlrHits, FlrDone, PciSuspends
<1> QED
  BY <1>1, <1>2, <1>3, <1>4, <1>5, <1>6, <1>7 DEF Next, PmStep

\* What a call does to the cell and the contexts while it does not own the firmware.
LEMMA OutsideKeeps ==
  ASSUME NEW f \in File, Call(f), pc[f] \notin FirmwareSection
  PROVE  UNCHANGED << cell, fwcom, mem, flrDone, power, isr, pm, pmError >>
<1> USE DEF FirmwareSection, OpensFirmware, ClosesFirmware, CyclesPower, cell, contexts,
            handler, runtime, pci
<1>1. CASE \/ GetCounts(f) \/ GetReturns(f) \/ GetFails(f) \/ PipelineFails(f)
           \/ CountsFile(f)
  BY <1>1 DEF GetCounts, GetReturns, GetFails, PipelineFails, CountsFile
<1>2. CASE UncountsFile(f) \/ Put(f) \/ PutReturns(f) \/ NoResetNow(f) \/ Reset(f)
  BY <1>2 DEF UncountsFile, Put, PutReturns, NoResetNow, Reset
<1>3. CASE \/ Cleanup(f) \/ CleanupClears(f) \/ Prepare(f) \/ PrepareFails(f)
           \/ Start(f) \/ StartRefused(f) \/ Booted(f) \/ BootTimesOut(f)
  BY <1>3 DEF Cleanup, CleanupClears, Prepare, PrepareFails, Start, StartRefused, Booted,
     BootTimesOut
<1>4. CASE \/ Stop(f) \/ Released(f) \/ ReleaseTimesOut(f) \/ CycleDown(f)
           \/ CycleClears(f) \/ CycleOff(f) \/ CycleUp(f) \/ CycleInit(f)
  BY <1>4 DEF Stop, Released, ReleaseTimesOut, CycleDown, CycleClears, CycleOff, CycleUp,
     CycleInit
<1> QED
  BY <1>1, <1>2, <1>3, <1>4 DEF Call

LEMMA Alone ==
  ASSUME Control, NEW f \in File, pc[f] \in FirmwareSection
  PROVE  \A g \in File \ {f} : pc[g] \notin FirmwareSection
  BY OwnerIsAlone DEF FirmwareHasOneOwner

\* The power flag follows the cell, and the interrupt handler follows the flag.
LEMMA NextPower ==
  ASSUME Control, RestType, FlrPhases, UsersActive, PowerStates, Reboots, ResetsAreClean,
         [Next]_vars
  PROVE  PowerStates'
<1> USE DEF PowerStates, runtime, handler, cell, calls
<1>0. ControlType
  BY DEF Control
<1>a. ASSUME NEW f \in File, NEW s, Goto(f, s), pc[f] \notin Down, s \notin Down,
             UNCHANGED << power, isr, pm, pmError, flrDone >>, sp # "off" => sp' # "off"
      PROVE  PowerStates'
  BY <1>0, <1>a, OneMoves DEF Down
<1>b. ASSUME NEW f \in File, pc[f] \in Down
      PROVE  \A g \in File \ {f} : pc[g] \notin Down
  BY <1>b, Alone DEF Down, FirmwareSection, CyclesPower
<1>c. ASSUME pm # "active" PROVE \A f \in File : pc[f] \notin Down
  BY <1>c DEF UsersActive, Down
<1>1. ASSUME NEW f \in File, Open(f) \/ Release(f) \/ StreamBreaks(f) PROVE PowerStates'
  BY <1>1, <1>a DEF Open, Release, StreamBreaks, Down, pci
<1>2. ASSUME NEW f \in File, Call(f) PROVE PowerStates'
  <2>1. CASE GetCounts(f) \/ GetReturns(f) \/ GetFails(f) \/ PipelineFails(f)
    BY <1>a, <2>1 DEF GetCounts, GetReturns, GetFails, PipelineFails, Down, pci
  <2>2. CASE CountsFile(f) \/ Cleanup(f) \/ CleanupClears(f) \/ Prepare(f)
    BY <1>a, <2>2 DEF CountsFile, Cleanup, CleanupClears, Prepare, Down, pci
  <2>3. CASE PrepareFails(f) \/ StartRefused(f) \/ Start(f) \/ Booted(f)
    BY <1>a, <2>3 DEF PrepareFails, StartRefused, InitFails, Start, Booted, Down, pci
  <2>4. CASE BootTimesOut(f) \/ Stop(f)
    BY <1>a, <2>4 DEF BootTimesOut, Stop, Down, pci
  <2>5. CASE Released(f) \/ ReleaseTimesOut(f)
    <3>1. \E s : Goto(f, s) /\ s \notin Down
      BY <2>5, ClosedEffect DEF Released, ReleaseTimesOut, Down
    <3> QED
      BY <1>a, <2>5, <3>1 DEF Released, ReleaseTimesOut, Down, pci
  <2>6. CASE UncountsFile(f) \/ Put(f) \/ PutReturns(f) \/ NoResetNow(f) \/ Reset(f)
    BY <1>a, <2>6 DEF UncountsFile, Put, PutReturns, NoResetNow, Reset, Down, pci
  <2>7. CASE CycleDown(f)
    BY <1>0, <2>7, OneMoves DEF CycleDown, PowerLockFree, Down, pci
  <2>8. CASE CycleClears(f)
    BY <1>0, <2>8, OneMoves DEF CycleClears, Down, pci
  <2>9. CASE CycleOff(f)
    <3>1. ~ power' /\ Goto(f, "cycleUp") /\ UNCHANGED << isr, pm, pmError >>
      BY <2>9 DEF CycleOff, Outcomes, PowerReports, ResetsAreClean
    <3>2. isr # "loop"
      BY <2>9 DEF CycleOff, Down
    <3>3. pc'[f] = "cycleUp"
      BY <1>0, <3>1, OneMoves
    <3> QED
      BY <3>1, <3>2, <3>3 DEF Down
  <2>10. CASE CycleUp(f)
    <3>1. sp = "off" /\ ~ flrDone
      BY <2>10 DEF CycleUp, Reboots
    <3>2. Goto(f, "cycleInit") /\ sp' = "idle" /\ UNCHANGED << power, isr, pm, pmError >>
      BY <2>10, <3>1 DEF CycleUp, Outcomes, PowerReports, PowerUp, ResetsAreClean
    <3> QED
      BY <1>0, <2>10, <3>2, OneMoves DEF CycleUp, Down
  <2>11. CASE CycleInit(f)
    <3>1. \A g \in File \ {f} : pc[g] \notin Down
      BY <1>b, <2>11 DEF CycleInit, Down
    <3>2. pm = "active" /\ ~ pmError
      BY <2>11 DEF CycleInit, UsersActive
    <3>3. pc'[f] = "clean" /\ \A g \in File \ {f} : pc'[g] = pc[g]
      BY <1>0, <2>11, OneMoves DEF CycleInit
    <3>4. sp # "off" \/ flrDone
      BY <2>11, <3>1, <3>2 DEF CycleInit, Down
    <3> QED
      BY <2>11, <3>1, <3>2, <3>3, <3>4 DEF CycleInit, Down, pci
  <2> QED
    BY <1>2, <2>1, <2>2, <2>3, <2>4, <2>5, <2>6, <2>7, <2>8, <2>9, <2>10, <2>11 DEF Call
<1>3. CASE ResumePowers
  <2>1. PICK ok \in BOOLEAN : /\ PowerUp(ok) /\ pmError' = ~ PowerReports(ok)
                              /\ pm' = IF PowerReports(ok) THEN "resuming" ELSE pm
    BY <1>3 DEF ResumePowers, Outcomes
  <2>2. pm = "suspended" /\ UNCHANGED << pc, power, isr, flrDone >>
    BY <1>3 DEF ResumePowers, pci
  <2>3. CASE PowerReports(ok)
    BY <2>1, <2>2, <2>3 DEF PowerUp, PowerReports
  <2>4. CASE ~ PowerReports(ok)
    BY <2>1, <2>2, <2>4
  <2> QED
    BY <2>3, <2>4
<1>4. CASE ResumeEnds
  BY <1>c, <1>4 DEF ResumeEnds, Down, pci
<1>5. CASE ResumeFails
  BY <1>5 DEF ResumeFails, pci
<1>6. CASE SuspendBegins
  BY <1>6 DEF SuspendBegins, PowerLockFree, pci
<1>7. CASE SuspendClears
  BY <1>7 DEF SuspendClears, pci
<1>12. CASE SuspendPowersOff
  <2>1. pm = "stopping" /\ pm' = "suspended" /\ UNCHANGED << pc, power, isr, pmError >>
    BY <1>12 DEF SuspendPowersOff
  <2> QED
    BY <2>1
<1>8. CASE SuspendFails
  <2>1. PICK ok \in BOOLEAN : power' = ok /\ pmError' = ~ ok
    BY <1>8 DEF SuspendFails, Outcomes
  <2>2. /\ pm = "stopping" /\ pm' = "active" /\ UNCHANGED << pc, isr, cell, flrDone >>
        /\ isr # "loop" /\ \A f \in File : pc[f] \notin Down
    BY <1>c, <1>8 DEF SuspendFails, pci
  <2> QED
    BY <2>1, <2>2 DEF Down
<1>9. CASE IsrEnters \/ IsrReturns \/ IsrSpins \/ FwReady \/ FwStops \/ UNCHANGED vars
  BY <1>9 DEF IsrEnters, IsrReturns, IsrSpins, FwReady, FwStops, vars, pci
<1>10. CASE FlrPrepare \/ FlrHits \/ PciSuspends
  BY <1>10 DEF FlrPrepare, FlrHits, PciSuspends, FlrPhases
<1>11. CASE FlrDone
  <2>1. /\ UNCHANGED << pc, power, isr, sp, flrDone >> /\ ~ pmError'
        /\ pm \in {"active", "suspended"} /\ pm' = IF pmError THEN "suspended" ELSE pm
    BY <1>11 DEF FlrDone
  <2> QED
    BY <2>1
<1> QED
  BY <1>1, <1>2, <1>3, <1>4, <1>5, <1>6, <1>7, <1>8, <1>9, <1>10, <1>11, <1>12 DEF Next, PmStep

LEMMA OthersKeepWhy ==
  ASSUME Control, NEW f \in File, Call(f)
  PROVE  /\ \A g \in File \ {f} : why'[g] = why[g]
         /\ pc[f] \in FirmwareSection /\ pc[f] # "cycleUp" => why'[f] = why[f]
<1> USE DEF Control, ControlType, calls, FirmwareSection, OpensFirmware, ClosesFirmware,
            CyclesPower
<1>1. CASE \/ GetCounts(f) \/ GetReturns(f) \/ GetFails(f) \/ PipelineFails(f)
           \/ CountsFile(f)
  BY <1>1 DEF GetCounts, GetReturns, GetFails, PipelineFails, CountsFile
<1>2. CASE UncountsFile(f) \/ Put(f) \/ PutReturns(f) \/ NoResetNow(f) \/ Reset(f)
  BY <1>2 DEF UncountsFile, Put, PutReturns, NoResetNow, Reset
<1>3. CASE \/ Cleanup(f) \/ CleanupClears(f) \/ Prepare(f) \/ PrepareFails(f)
           \/ Start(f) \/ StartRefused(f) \/ Booted(f) \/ BootTimesOut(f)
  BY <1>3 DEF Cleanup, CleanupClears, Prepare, PrepareFails, Start, StartRefused, Booted,
     BootTimesOut
<1>4. CASE \/ Stop(f) \/ Released(f) \/ ReleaseTimesOut(f) \/ CycleDown(f)
           \/ CycleClears(f) \/ CycleOff(f) \/ CycleUp(f) \/ CycleInit(f)
  BY <1>4 DEF Stop, Released, ReleaseTimesOut, CycleDown, CycleClears, CycleOff, CycleUp,
     CycleInit
<1> QED
  BY <1>1, <1>2, <1>3, <1>4 DEF Call

\* Who resets is in the firmware section, with in_reset set.
LEMMA RebootsAreResets ==
  ASSUME Control, NEW f \in File, pc[f] \in FirmwareSection, why[f] \in {"reset", "reboot"}
  PROVE  inReset
  BY DEF Control, ResetIsAnnounced, Resets

LEMMA NextReboots ==
  ASSUME Control, RestType, FlrPhases, UsersActive, PowerStates, Reboots, Boots,
         ResetsAreClean, [Next]_vars
  PROVE  Reboots'
<1> USE DEF Reboots
<1>0. ControlType
  BY DEF Control
<1>a. ASSUME NEW f \in File, Call(f), NEW s, Goto(f, s),
             s = "cycleUp" => sp' = "off" /\ ~ flrDone',
             s \in FirmwareSection /\ why'[f] = "reboot" =>
               /\ ~ flrDone'
               /\ s \in OpensFirmware \cup {"cycleInit"}
               /\ s # "boot" => sp' = "idle"
      PROVE  Reboots'
  <2>1. pc'[f] = s /\ \A g \in File \ {f} : pc'[g] = pc[g] /\ why'[g] = why[g]
    BY <1>0, <1>a, OneMoves, OthersKeepWhy
  <2>2. CASE pc[f] \in FirmwareSection
    <3>1. \A g \in File \ {f} : pc[g] \notin FirmwareSection
      BY <2>2, Alone
    <3> QED
      BY <1>a, <2>1, <3>1 DEF FirmwareSection, CyclesPower
  <2>3. CASE pc[f] \notin FirmwareSection
    <3>1. UNCHANGED << sp, flrDone >>
      BY <1>a, <2>3, OutsideKeeps DEF cell
    <3> QED
      BY <1>a, <2>1, <3>1
  <2> QED
    BY <2>2, <2>3
<1>b. ASSUME UNCHANGED calls, UNCHANGED << sp, flrDone >> \/ ~ inReset PROVE Reboots'
  <2>1. CASE UNCHANGED << sp, flrDone >>
    BY <1>b, <2>1 DEF calls
  <2>2. CASE ~ inReset
    <3>1. \A f \in File : pc[f] \in FirmwareSection => why[f] \notin {"reset", "reboot"}
      BY <2>2, RebootsAreResets
    <3>2. \A f \in File : pc[f] # "cycleUp"
      BY <3>1 DEF Control, PhaseHasReason, FirmwareSection, CyclesPower
    <3> QED
      BY <1>b, <3>1, <3>2 DEF calls
  <2> QED
    BY <1>b, <2>1, <2>2
<1>1. ASSUME NEW f \in File, Open(f) \/ Release(f) \/ StreamBreaks(f) PROVE Reboots'
  <2>1. PICK s \in {"get", "closing", "broken"} : Goto(f, s)
    BY <1>1 DEF Open, Release, StreamBreaks
  <2>2. UNCHANGED << why, sp, flrDone >>
    BY <1>1 DEF Open, Release, StreamBreaks, cell, pci
  <2> QED
    BY <1>0, <2>1, <2>2, OneMoves DEF FirmwareSection, OpensFirmware, ClosesFirmware,
       CyclesPower
<1>2. ASSUME NEW f \in File, Call(f) PROVE Reboots'
  <2> USE DEF FirmwareSection, OpensFirmware, ClosesFirmware, CyclesPower, cell, pci
  <2>0. why[f] \in Reasons /\ (pc[f] \in FirmwareSection /\ pc[f] # "cycleUp" => why'[f] = why[f])
    BY <1>0, <1>2, OthersKeepWhy DEF ControlType
  <2>1. CASE GetCounts(f) \/ GetReturns(f) \/ GetFails(f) \/ PipelineFails(f)
    BY <1>2, <1>a, <2>1 DEF GetCounts, GetReturns, GetFails, PipelineFails
  <2>2. CASE CountsFile(f)
    <3>1. \/ Goto(f, "open")
          \/ Goto(f, "clean") /\ why'[f] = "open"
      BY <1>0, <2>2 DEF CountsFile, ControlType
    <3> QED
      BY <1>2, <1>a, <3>1
  <2>3. CASE Cleanup(f) \/ CleanupClears(f) \/ Prepare(f)
    <3>1. UNCHANGED << sp, flrDone >> /\ pc[f] \in {"clean", "cleared", "prepare"}
      BY <2>3 DEF Cleanup, CleanupClears, Prepare
    <3>2. PICK s \in {"cleared", "prepare", "start"} : Goto(f, s)
      BY <2>3 DEF Cleanup, CleanupClears, Prepare
    <3> QED
      BY <1>2, <1>a, <2>0, <3>1, <3>2
  <2>4. CASE PrepareFails(f) \/ StartRefused(f) \/ Booted(f)
    BY <1>2, <1>a, <2>4 DEF PrepareFails, StartRefused, InitFails, Booted
  <2>5. CASE Start(f)
    BY <1>2, <1>a, <2>0, <2>5 DEF Start
  <2>6. CASE BootTimesOut(f)
    <3>1. why[f] # "reboot"
      BY <2>6 DEF BootTimesOut, FaultOf, Boots, ResetsAreClean
    <3> QED
      BY <1>2, <1>a, <2>0, <2>6, <3>1 DEF BootTimesOut
  <2>7. CASE Stop(f)
    <3>1. why[f] # "reboot"
      BY <2>7 DEF Stop
    <3> QED
      BY <1>2, <1>a, <2>0, <2>7, <3>1 DEF Stop
  <2>8. CASE Released(f) \/ ReleaseTimesOut(f)
    <3>1. pc[f] = "stopWait" /\ why[f] # "reboot"
      BY <2>8 DEF Released, ReleaseTimesOut
    <3>2. \E s \in {"put", "open", "cycleDown"} : Goto(f, s)
      BY <2>8, ClosedEffect DEF Released, ReleaseTimesOut
    <3> QED
      BY <1>2, <1>a, <2>0, <3>1, <3>2
  <2>9. CASE UncountsFile(f)
    <3>1. \/ Goto(f, "put")
          \/ Goto(f, "stop") /\ why'[f] = "release"
      BY <1>0, <2>9 DEF UncountsFile, ControlType
    <3> QED
      BY <1>2, <1>a, <3>1
  <2>10. CASE Put(f) \/ PutReturns(f) \/ NoResetNow(f)
    BY <1>2, <1>a, <2>10 DEF Put, PutReturns, NoResetNow
  <2>11. CASE Reset(f)
    <3>1. Goto(f, "stop") /\ why'[f] = "reset"
      BY <1>0, <2>11 DEF Reset, ControlType
    <3> QED
      BY <1>2, <1>a, <3>1
  <2>12. CASE CycleDown(f) \/ CycleClears(f)
    <3>1. why[f] # "reboot"
      BY <2>12 DEF CycleDown, CycleClears
    <3>2. \E s \in {"cycleClear", "cycleOff"} : Goto(f, s)
      BY <2>12 DEF CycleDown, CycleClears
    <3>3. pc[f] \in {"cycleDown", "cycleClear"}
      BY <2>12 DEF CycleDown, CycleClears
    <3> QED
      BY <1>2, <1>a, <2>0, <3>1, <3>2, <3>3
  <2>13. CASE CycleOff(f)
    <3>1. why[f] = "reset" /\ flr = "none"
      BY <2>13, RebootsAreResets DEF CycleOff, Control, PhaseHasReason, FlrPhases
    <3>2. PowerDown(TRUE)
      BY <2>13 DEF CycleOff, Outcomes, ResetsAreClean
    <3>3. sp' = "off"
      BY <3>1, <3>2 DEF PowerDown, FlrPhases
    <3> QED
      BY <1>2, <1>a, <2>0, <2>13, <3>1, <3>3 DEF CycleOff
  <2>14. CASE CycleUp(f)
    <3>1. sp = "off" /\ ~ flrDone
      BY <2>14 DEF CycleUp
    <3>2. Goto(f, "cycleInit") /\ sp' = "idle" /\ UNCHANGED flrDone
      BY <2>14, <3>1 DEF CycleUp, Outcomes, PowerReports, PowerUp, ResetsAreClean
    <3> QED
      BY <1>2, <1>a, <3>1, <3>2
  <2>15. CASE CycleInit(f)
    <3>1. why[f] = "reboot" /\ UNCHANGED << sp, flrDone >> /\ Goto(f, "clean")
      BY <2>15 DEF CycleInit, Control, PhaseHasReason
    <3>2. ~ flrDone /\ sp = "idle"
      BY <2>15, <3>1 DEF CycleInit
    <3> QED
      BY <1>2, <1>a, <3>1, <3>2
  <2> QED
    BY <1>2, <2>1, <2>2, <2>3, <2>4, <2>5, <2>6, <2>7, <2>8, <2>9, <2>10, <2>11, <2>12,
       <2>13, <2>14, <2>15 DEF Call
<1>3. CASE PmStep
  <2>1. UNCHANGED calls
    BY <1>3 DEF PmStep, ResumePowers, ResumeEnds, ResumeFails, SuspendBegins,
       SuspendClears, SuspendPowersOff, SuspendFails
  <2>2. CASE pm = "active"
    <3>1. UNCHANGED << sp, flrDone >>
      BY <1>3, <2>2 DEF PmStep, ResumePowers, ResumeEnds, ResumeFails, SuspendBegins,
         SuspendClears, SuspendPowersOff, SuspendFails, cell, pci
    <3> QED
      BY <1>b, <2>1, <3>1
  <2>3. CASE pm # "active"
    <3>1. \A f \in File : pc[f] \notin FirmwareSection
      BY <2>3 DEF UsersActive, FirmwareSection, OpensFirmware, ClosesFirmware, CyclesPower
    <3> QED
      BY <2>1, <3>1 DEF calls, FirmwareSection, CyclesPower
  <2> QED
    BY <2>2, <2>3
<1>4. CASE IsrEnters \/ IsrReturns \/ IsrSpins \/ UNCHANGED vars
  BY <1>4, <1>b DEF IsrEnters, IsrReturns, IsrSpins, vars, cell, pci
<1>5. CASE FwReady \/ FwStops
  <2>1. UNCHANGED calls /\ UNCHANGED flrDone /\ sp \notin {"off", "idle"}
    BY <1>5 DEF FwReady, FwStops, pci
  <2>2. CASE FwReady
    BY <2>1 DEF calls
  <2>3. CASE FwStops
    BY <2>1 DEF calls
  <2> QED
    BY <1>5, <2>2, <2>3
<1>6. CASE FlrPrepare \/ FlrHits
  BY <1>6, <1>b DEF FlrPrepare, FlrHits, ResetsAreClean, FlrPhases
<1>7. CASE FlrDone
  BY <1>7, <1>b DEF FlrDone, cell
<1>8. CASE PciSuspends
  <2>1. UNCHANGED << calls, sp >> /\ ~ flrDone'
    BY <1>8 DEF PciSuspends, cell
  <2> QED
    BY <2>1 DEF calls
<1> QED
  BY <1>1, <1>2, <1>3, <1>4, <1>5, <1>6, <1>7, <1>8 DEF Next

\* The firmware boots with the context that the driver has prepared for it.
LEMMA NextBoots ==
  ASSUME Control, RestType, FlrPhases, UsersActive, Boots, [Next]_vars
  PROVE  Boots'
<1> USE DEF Boots
<1>0. ControlType
  BY DEF Control
<1>a. ASSUME NEW f \in File, Call(f), NEW s, Goto(f, s),
             s \in {"start", "boot"} => fwcom' \in mem',
             s = "boot" => flrDone' \/ (sp' \in {"boot", "ready"} /\ spCtx' = fwcom')
      PROVE  Boots'
  <2>1. pc'[f] = s /\ \A g \in File \ {f} : pc'[g] = pc[g]
    BY <1>0, <1>a, OneMoves
  <2>2. CASE pc[f] \in FirmwareSection
    <3>1. \A g \in File \ {f} : pc[g] \notin FirmwareSection
      BY <2>2, Alone
    <3> QED
      BY <1>a, <2>1, <3>1 DEF FirmwareSection, OpensFirmware
  <2>3. CASE pc[f] \notin FirmwareSection
    <3>1. UNCHANGED << sp, spCtx, fwcom, mem, flrDone >>
      BY <1>a, <2>3, OutsideKeeps DEF cell
    <3> QED
      BY <1>a, <2>1, <3>1
  <2> QED
    BY <2>2, <2>3
<1>b. ASSUME UNCHANGED << pc, fwcom, mem, spCtx >>, UNCHANGED << sp, flrDone >> \/ flrDone'
      PROVE  Boots'
  BY <1>b
<1>1. ASSUME NEW f \in File, Open(f) \/ Release(f) \/ StreamBreaks(f) PROVE Boots'
  <2>1. PICK s \in {"get", "closing", "broken"} : Goto(f, s)
    BY <1>1 DEF Open, Release, StreamBreaks
  <2>2. UNCHANGED << sp, spCtx, flrDone, fwcom, mem >>
    BY <1>1 DEF Open, Release, StreamBreaks, cell, pci, contexts
  <2> QED
    BY <1>0, <2>1, <2>2, OneMoves
<1>2. ASSUME NEW f \in File, Call(f) PROVE Boots'
  <2> USE DEF cell, pci, contexts
  <2>1. CASE GetCounts(f) \/ GetReturns(f) \/ GetFails(f) \/ PipelineFails(f) \/ CountsFile(f)
    BY <1>2, <1>a, <2>1 DEF GetCounts, GetReturns, GetFails, PipelineFails, CountsFile
  <2>2. CASE Cleanup(f) \/ CleanupClears(f)
    <3>1. \E s \in {"cleared", "prepare"} : Goto(f, s)
      BY <2>2 DEF Cleanup, CleanupClears
    <3> QED
      BY <1>2, <1>a, <3>1
  <2>3. CASE Prepare(f)
    BY <1>2, <1>a, <2>3 DEF Prepare
  <2>4. CASE PrepareFails(f) \/ StartRefused(f) \/ Booted(f) \/ BootTimesOut(f) \/ Stop(f)
    BY <1>2, <1>a, <2>4 DEF PrepareFails, StartRefused, InitFails, Booted, BootTimesOut, Stop
  <2>5. CASE Start(f)
    BY <1>2, <1>a, <2>5 DEF Start
  <2>6. CASE Released(f) \/ ReleaseTimesOut(f)
    <3>1. \E s \in {"put", "open", "cycleDown"} : Goto(f, s)
      BY <2>6, ClosedEffect DEF Released, ReleaseTimesOut
    <3> QED
      BY <1>2, <1>a, <3>1
  <2>7. CASE UncountsFile(f) \/ Put(f) \/ PutReturns(f) \/ NoResetNow(f) \/ Reset(f)
    BY <1>2, <1>a, <2>7 DEF UncountsFile, Put, PutReturns, NoResetNow, Reset
  <2>8. CASE CycleDown(f) \/ CycleClears(f) \/ CycleOff(f) \/ CycleUp(f) \/ CycleInit(f)
    BY <1>2, <1>a, <2>8 DEF CycleDown, CycleClears, CycleOff, CycleUp, CycleInit
  <2> QED
    BY <1>2, <2>1, <2>2, <2>3, <2>4, <2>5, <2>6, <2>7, <2>8 DEF Call
<1>3. CASE PmStep
  <2>1. UNCHANGED << pc, fwcom, mem, flrDone >>
    BY <1>3 DEF PmStep, ResumePowers, ResumeEnds, ResumeFails, SuspendBegins,
       SuspendClears, SuspendPowersOff, SuspendFails, calls, contexts, pci
  <2>2. CASE pm = "active"
    <3>1. UNCHANGED << sp, spCtx >>
      BY <1>3, <2>2 DEF PmStep, ResumePowers, ResumeEnds, ResumeFails, SuspendBegins,
         SuspendClears, SuspendPowersOff, SuspendFails, cell
    <3> QED
      BY <1>b, <2>1, <3>1
  <2>3. CASE pm # "active"
    BY <2>1, <2>3 DEF UsersActive
  <2> QED
    BY <2>2, <2>3
<1>4. CASE IsrEnters \/ IsrReturns \/ IsrSpins \/ FlrDone \/ UNCHANGED vars
  BY <1>4, <1>b DEF IsrEnters, IsrReturns, IsrSpins, FlrDone, vars, cell, pci, calls, contexts
<1>5. CASE FwReady
  BY <1>5 DEF FwReady, calls, contexts, pci
<1>6. CASE FwStops
  BY <1>6 DEF FwStops, calls, contexts, pci
<1>7. CASE FlrPrepare \/ FlrHits
  BY <1>7 DEF FlrPrepare, FlrHits, FlrPhases, calls, contexts, cell
<1>8. CASE PciSuspends
  <2>1. \A f \in File : pc[f] \notin {"start", "boot"}
    BY <1>8 DEF PciSuspends, UsersActive
  <2> QED
    BY <1>8, <2>1 DEF PciSuspends, calls
<1> QED
  BY <1>1, <1>2, <1>3, <1>4, <1>5, <1>6, <1>7, <1>8 DEF Next

\* Nobody opens or closes the firmware while another file is open, except a reset,
\* which only ends when it has booted.
LEMMA NextRuns ==
  ASSUME Control, FlrPhases, UsersActive, Reboots, Boots, Runs, ResetsAreClean, [Next]_vars
  PROVE  Runs'
<1> USE DEF Runs
<1>0. ControlType
  BY DEF Control
<1>a. ASSUME UNCHANGED << fwcom, mem, sp, spCtx, flrDone >>, inReset' = inReset,
             \A f \in File : pc'[f] \in Opened /\ ~ inReset => \E g \in File : pc[g] \in Opened
      PROVE  Runs'
  BY <1>a
<1>b. ASSUME NEW f \in File, Call(f), pc[f] \in FirmwareSection, NEW s, Goto(f, s),
             s \notin Opened, inReset' = inReset
      PROVE  Runs'
  <2>1. inReset \/ \A g \in File \ {f} : pc[g] \notin Opened
    <3>1. CASE LocksMutex(f)
      BY <3>1 DEF Control, OwnerHoldsMutex, Counted, Opened
    <3>2. CASE Resets(f)
      BY <3>2 DEF Control, ResetIsAnnounced
    <3> QED
      BY <1>0, <1>b, <3>1, <3>2 DEF LocksMutex, Resets, ControlType, Reasons
  <2>2. pc'[f] \notin Opened /\ \A g \in File \ {f} : pc'[g] = pc[g]
    BY <1>0, <1>b, OneMoves
  <2> QED
    BY <1>b, <2>1, <2>2
<1>c. ASSUME \A f \in File : pc[f] \notin Opened, UNCHANGED pc PROVE Runs'
  BY <1>c
<1>1. ASSUME NEW f \in File, Open(f) \/ Release(f) \/ StreamBreaks(f) PROVE Runs'
  <2>1. CASE Open(f)
    BY <1>0, <1>a, <2>1, OneMoves DEF Open, contexts, cell, pci, flags, Opened
  <2>2. CASE Release(f) \/ StreamBreaks(f)
    <3>1. pc[f] = "open" /\ UNCHANGED << fwcom, mem, sp, spCtx, flrDone, inReset >>
      BY <2>2 DEF Release, StreamBreaks, contexts, cell, pci, flags
    <3> QED
      BY <1>a, <3>1 DEF Opened
  <2> QED
    BY <1>1, <2>1, <2>2
<1>2. ASSUME NEW f \in File, Call(f), pc[f] \notin FirmwareSection PROVE Runs'
  <2> USE DEF FirmwareSection, OpensFirmware, ClosesFirmware, CyclesPower, Opened
  <2>0. UNCHANGED << fwcom, mem, sp, spCtx, flrDone >>
    BY <1>2, OutsideKeeps DEF cell
  <2>1. CASE GetCounts(f) \/ GetReturns(f) \/ GetFails(f) \/ PipelineFails(f)
    BY <1>0, <1>a, <2>0, <2>1, OneMoves DEF GetCounts, GetReturns, GetFails, PipelineFails, flags
  <2>2. CASE CountsFile(f)
    <3>1. mutex = NoFile /\ UNCHANGED inReset
      BY <2>2 DEF CountsFile, MutexFree, flags
    <3>2. CASE opened > 0
      <4>1. Counted # {}
        BY <3>2, FS_EmptySet DEF Control, CountsMatchFiles
      <4>2. PICK g \in File : g \in Counted
        BY <4>1 DEF Counted
      <4>3. ~ LocksMutex(g)
        BY <3>1, PowerAssumption DEF Control, OwnerHoldsMutex
      <4>4. inReset \/ ~ Resets(g)
        BY DEF Control, ResetIsAnnounced
      <4>5. inReset \/ pc[g] \in Opened
        BY <1>0, <4>2, <4>3, <4>4 DEF LocksMutex, Resets, Counted, ControlType, Reasons
      <4> QED
        BY <1>a, <2>0, <3>1, <4>5
    <3>3. CASE ~ (opened > 0)
      BY <1>0, <1>a, <2>0, <2>2, <3>1, <3>3, OneMoves DEF CountsFile
    <3> QED
      BY <3>2, <3>3
  <2>3. CASE UncountsFile(f) \/ NoResetNow(f)
    <3>1. pc[f] \in Opened /\ UNCHANGED inReset
      BY <2>3 DEF UncountsFile, NoResetNow, flags
    <3> QED
      BY <1>a, <2>0, <3>1
  <2>4. CASE Put(f) \/ PutReturns(f)
    <3>1. \E s \in {"putSync", "closed"} : Goto(f, s)
      BY <2>4 DEF Put, PutReturns
    <3> QED
      BY <1>0, <1>a, <2>0, <2>4, <3>1, OneMoves DEF Put, PutReturns, flags
  <2>5. CASE Reset(f)
    BY <2>5 DEF Reset
  <2>6. CASE \/ Cleanup(f) \/ CleanupClears(f) \/ Prepare(f) \/ PrepareFails(f)
             \/ Start(f) \/ StartRefused(f) \/ Booted(f) \/ BootTimesOut(f)
    BY <1>2, <2>6 DEF Cleanup, CleanupClears, Prepare, PrepareFails, Start, StartRefused,
       Booted, BootTimesOut
  <2>7. CASE \/ Stop(f) \/ Released(f) \/ ReleaseTimesOut(f) \/ CycleDown(f)
             \/ CycleClears(f) \/ CycleOff(f) \/ CycleUp(f) \/ CycleInit(f)
    BY <1>2, <2>7 DEF Stop, Released, ReleaseTimesOut, CycleDown, CycleClears, CycleOff,
       CycleUp, CycleInit
  <2> QED
    BY <1>2, <2>1, <2>2, <2>3, <2>4, <2>5, <2>6, <2>7 DEF Call
<1>3. ASSUME NEW f \in File, Call(f), pc[f] \in FirmwareSection PROVE Runs'
  <2> USE DEF FirmwareSection, OpensFirmware, ClosesFirmware, CyclesPower, Opened, flags
  <2>0. why[f] \in Reasons
    BY <1>0 DEF ControlType
  <2>1. CASE Cleanup(f) \/ CleanupClears(f) \/ Prepare(f)
    <3>1. \E s \in {"cleared", "prepare", "start"} : Goto(f, s)
      BY <2>1 DEF Cleanup, CleanupClears, Prepare
    <3> QED
      BY <1>3, <1>b, <2>1, <3>1 DEF Cleanup, CleanupClears, Prepare
  <2>2. CASE PrepareFails(f) \/ StartRefused(f)
    <3>1. why[f] # "reboot"
      BY <2>2 DEF PrepareFails, StartRefused, FaultOf, ResetsAreClean, Reboots
    <3>2. why[f] \in {"open", "reboot"}
      BY <2>2 DEF PrepareFails, StartRefused, Control, PhaseHasReason
    <3> QED
      BY <1>3, <1>b, <2>2, <3>1, <3>2 DEF PrepareFails, StartRefused, InitFails
  <2>3. CASE Start(f) \/ BootTimesOut(f) \/ Stop(f)
    BY <1>3, <1>b, <2>3 DEF Start, BootTimesOut, Stop
  <2>4. CASE Booted(f)
    BY <2>4 DEF Booted, Boots, contexts, cell, pci
  <2>5. CASE Released(f) \/ ReleaseTimesOut(f)
    <3>1. why[f] # "reboot"
      BY <2>5 DEF Released, ReleaseTimesOut, Reboots
    <3>2. PICK c : Closed(f, c)
      BY <2>5 DEF Released, ReleaseTimesOut
    <3>3. PICK s \in {"put", "open", "cycleDown"} : Goto(f, s) /\
               /\ s = "put" => why[f] \in {"open", "release"} /\ UNCHANGED inReset
               /\ s = "open" => why[f] = "reboot"
               /\ s = "cycleDown" => why[f] = "reset" /\ UNCHANGED inReset
      BY <3>2, ClosedEffect
    <3> QED
      BY <1>3, <1>b, <3>1, <3>3
  <2>6. CASE CycleDown(f) \/ CycleClears(f) \/ CycleOff(f)
    BY <1>3, <1>b, <2>6 DEF CycleDown, CycleClears, CycleOff
  <2>7. CASE CycleUp(f) \/ CycleInit(f)
    <3>1. \E s \in {"cycleInit", "clean"} : Goto(f, s)
      BY <2>7 DEF CycleUp, CycleInit
    <3> QED
      BY <1>3, <1>b, <2>7, <3>1 DEF CycleUp, CycleInit
  <2>8. CASE \/ GetCounts(f) \/ GetReturns(f) \/ GetFails(f) \/ PipelineFails(f)
             \/ CountsFile(f) \/ UncountsFile(f) \/ Put(f) \/ PutReturns(f)
             \/ NoResetNow(f) \/ Reset(f)
    BY <1>3, <2>8 DEF GetCounts, GetReturns, GetFails, PipelineFails, CountsFile,
       UncountsFile, Put, PutReturns, NoResetNow, Reset
  <2> QED
    BY <1>3, <2>1, <2>2, <2>3, <2>4, <2>5, <2>6, <2>7, <2>8 DEF Call
<1>4. CASE PmStep
  <2>1. UNCHANGED << pc, inReset, fwcom, mem, flrDone >>
    BY <1>4 DEF PmStep, ResumePowers, ResumeEnds, ResumeFails, SuspendBegins,
       SuspendClears, SuspendPowersOff, SuspendFails, calls, flags, contexts, pci
  <2>2. CASE pm = "active"
    <3>1. UNCHANGED << sp, spCtx >>
      BY <1>4, <2>2 DEF PmStep, ResumePowers, ResumeEnds, ResumeFails, SuspendBegins,
         SuspendClears, SuspendPowersOff, SuspendFails, cell
    <3> QED
      BY <1>a, <2>1, <3>1
  <2>3. CASE pm # "active"
    BY <1>c, <2>1, <2>3 DEF UsersActive, Opened
  <2> QED
    BY <2>2, <2>3
<1>5. CASE IsrEnters \/ IsrReturns \/ IsrSpins \/ FlrDone \/ UNCHANGED vars
  BY <1>5, <1>a DEF IsrEnters, IsrReturns, IsrSpins, FlrDone, vars, calls, flags, contexts,
     cell, pci
<1>6. CASE FwReady \/ FwStops
  BY <1>6 DEF FwReady, FwStops, calls, flags, contexts, pci
<1>7. CASE FlrPrepare \/ FlrHits
  BY <1>7 DEF FlrPrepare, FlrHits, FlrPhases, calls, flags, contexts, cell
<1>8. CASE PciSuspends
  <2>1. \A f \in File : pc[f] \notin Opened
    BY <1>8 DEF PciSuspends, UsersActive, Opened
  <2> QED
    BY <1>8, <1>c, <2>1 DEF PciSuspends, calls
<1> QED
  BY <1>1, <1>2, <1>3, <1>4, <1>5, <1>6, <1>7, <1>8 DEF Next

LEMMA InitPower == Init => PowerInv
  BY DEF Init, PowerInv, FlrPhases, UsersActive, PowerStates, Reboots, Boots, Runs, Down,
     Opened, FirmwareSection, OpensFirmware, ClosesFirmware, CyclesPower

LEMMA PowerHolds == ASSUME ResetsAreClean PROVE Spec => [](Control /\ PowerInv)
<1>1. Init => RestType
  BY DEF Init, RestType
<1>2. Control /\ RestType /\ PowerInv /\ [Next]_vars => PowerInv'
  BY NextFlr, NextActive, NextPower, NextReboots, NextBoots, NextRuns DEF PowerInv
<1> QED
  BY <1>1, <1>2, NextTypes, ControlHolds, MemoryHolds, InitPower, PTL DEF Spec

\* The interrupt handler runs only while isys->power is set, and then the cell has power,
\* or a function-level reset has it: the suspend callback clears the flag under power_lock
\* before the cell goes off, and a stream reset does the same before it cycles the power.
THEOREM HandlerHasPower == ASSUME ResetsAreClean PROVE Spec => []IsrHasPower
<1>1. PowerInv => IsrHasPower
  BY DEF PowerInv, PowerStates, IsrHasPower, Down
<1> QED
  BY <1>1, PowerHolds, PTL

\* An open file that no reset has stopped finds the device active and powered and its
\* firmware running with the context of isys->fwcom, whichever calls of other files fail
\* or overlap: the first open boots before any other returns, the last release waits for
\* the mutex, and in_reset falls only when the firmware runs again.
THEOREM FirmwareRuns == ASSUME ResetsAreClean PROVE Spec => []OpenFilesHaveFirmware
<1>1. ASSUME Control, PowerInv PROVE OpenFilesHaveFirmware
  <2> SUFFICES ASSUME NEW f \in File, pc[f] \in {"open", "broken", "closing"}, ~ inReset
               PROVE  /\ opened > 0 /\ pm = "active" /\ power
                      /\ fwcom \in mem
                      /\ flrDone \/ (sp = "ready" /\ spCtx = fwcom)
    BY DEF OpenFilesHaveFirmware
  <2>1. opened > 0
    <3>1. f \in Counted
      BY DEF Counted
    <3>2. Cardinality(Counted) # 0
      BY <3>1, CountsAreNatural, FS_EmptySet
    <3> QED
      BY <1>1, <3>2, CountsAreNatural DEF Control, CountsMatchFiles
  <2>2. pm = "active" /\ ~ pmError
    BY <1>1 DEF PowerInv, UsersActive
  <2>3. \A g \in File : pc[g] \notin Down
    BY <1>1, RebootsAreResets DEF Control, PhaseHasReason, FirmwareSection, CyclesPower, Down
  <2>4. power
    BY <1>1, <2>2, <2>3 DEF PowerInv, PowerStates
  <2>5. fwcom \in mem /\ (flrDone \/ (sp = "ready" /\ spCtx = fwcom))
    BY <1>1 DEF PowerInv, Runs, Opened
  <2> QED
    BY <2>1, <2>2, <2>4, <2>5
<1> QED
  BY <1>1, PowerHolds, PTL
=============================================================================
