------------------------------- MODULE Buttress ------------------------------
(***************************************************************************)
(* The buttress: the IPC mailbox to the security engine (CSE), the reset   *)
(* of that mailbox, the authentication of the firmware image and the       *)
(* interrupt handler that completes the waits (ipu-buttress.c).            *)
(*                                                                         *)
(* A thread calls an operation by pushing the place to come back to and    *)
(* going to the operation's first step; the operation leaves its return    *)
(* value in rc.  A command is rung on the outgoing doorbell; the CSE takes *)
(* it (EXEC_DONE), works it off, answers on its own doorbell (IS_WAITING)  *)
(* and moves the FW_SETUP field of SECURITY_CTL, which the driver polls.   *)
(* A wait may time out whenever what it waits for has not come yet.        *)
(*                                                                         *)
(* External: the CSE, the hardware that latches interrupts.                *)
(***************************************************************************)
EXTENDS Integers, Sequences, FiniteSets

CONSTANTS
  Thread,    \* the threads that may be inside the driver at the same time
  MaxPolls,  \* polls of one IPC reset; the code's BUTTRESS_IPC_RESET_TIMEOUT
  MaxJobs,   \* commands the CSE has taken and not finished
  Faults     \* what may go wrong, a subset of AllFaults

\* The CSE does not open the mailbox, refuses a command or an image, or never
\* concludes an IPC reset; a step of a probe or of the registration fails; the
\* device does not power up; the security mode changes over a system sleep; the device is
\* reset while a thread authenticates.
AllFaults == {"validity", "nack", "badImage", "noReset", "alloc", "power", "modeChange",
              "resetInAuth"}

Free == "free"     \* nobody holds the mutex

ASSUME ButtressAssumption ==
  /\ IsFiniteSet(Thread) /\ Free \notin Thread
  /\ MaxPolls \in Nat \ {0} /\ MaxJobs \in Nat \ {0}
  /\ Faults \subseteq AllFaults

SendRetries == 1   \* BUTTRESS_IPC_CMD_SEND_RETRY
Command == {"boot", "run"}   \* BOOT_LOAD and AUTHENTICATE_RUN
NoCommand == "none"

\* The FW_SETUP field of SECURITY_CTL.
SetupState == {"none", "setupDone", "failed", "authDone"}

VARIABLES
  at,         \* [Thread -> the next step of the thread]
  callers,    \* [Thread -> the places its pending calls return to]
  rc,         \* [Thread -> "ok" or "error": what the last call returned]
  authMutex,  \* auth_mutex and
  ipcMutex,   \*   ipc_mutex: the thread that holds it
  cmd,        \* [Thread -> the command it is sending]
  tries,      \* retries (send) or polls (reset) left to the holder of ipcMutex
  secure,     \* isp->secure_mode
  door,       \* the outgoing doorbell: the command it is busy with
  jobs,       \* the commands the CSE works on, oldest first
  answer,     \* the incoming doorbell: the answer it is busy with
  irq,        \* latched interrupts of the CSE
  sendDone,   \* completion send_complete
  recvDone,   \* completion recv_complete
  recvData,   \* recv_data
  setup,      \* the FW_SETUP field of SECURITY_CTL
  magic,      \* BOOTLOADER_STATUS holds BOOTLOADER_MAGIC_KEY
  verdict,    \* the last authentication to conclude reported "ok", or "none" did; "void"
              \*   while one is under way whose result is worth nothing, see EndAuth
  gaveUp,     \* since the last hardware reset a command has been "resent" or, worse, an
              \*   authentication has "failed": the CSE may be at work unobserved; or "no"
  rpm         \* the PCI device is runtime "suspended", "resuming" or "active"

control == << at, callers, rc >>
locks == << authMutex, ipcMutex >>
mailbox == << door, jobs, answer, irq >>
waits == << sendDone, recvDone, recvData >>
security == << setup, magic >>
buttress == << control, locks, cmd, tries, secure, mailbox, waits, security,
               verdict, gaveUp, rpm >>

Goto(t, s) == at' = [at EXCEPT ![t] = s] /\ UNCHANGED << callers, rc >>

Call(t, entry, back) ==
  /\ at' = [at EXCEPT ![t] = entry]
  /\ callers' = [callers EXCEPT ![t] = << back >> \o @]
  /\ UNCHANGED rc

Return(t, value) ==
  /\ at' = [at EXCEPT ![t] = Head(callers[t])]
  /\ callers' = [callers EXCEPT ![t] = Tail(@)]
  /\ rc' = [rc EXCEPT ![t] = value]

\* Go on inside a call, with a value decided.
Decide(t, s, value) ==
  /\ at' = [at EXCEPT ![t] = s]
  /\ rc' = [rc EXCEPT ![t] = value]
  /\ UNCHANGED callers

\* The thread leaves the driver.
Leave(t) == Decide(t, "idle", "ok")

ButtressInit ==
  /\ at = [t \in Thread |-> "idle"]
  /\ callers = [t \in Thread |-> << >>]
  /\ rc = [t \in Thread |-> "ok"]
  /\ authMutex = Free /\ ipcMutex = Free
  /\ cmd = [t \in Thread |-> NoCommand]
  /\ tries = 0
  /\ secure \in BOOLEAN
  /\ door = NoCommand /\ jobs = << >> /\ answer = NoCommand /\ irq = {}
  /\ sendDone = FALSE /\ recvDone = FALSE /\ recvData = NoCommand
  /\ setup = "none" /\ magic = FALSE
  /\ verdict = "none" /\ gaveUp = "no" /\ rpm = "active"

(***************************************************************************)
(* ipu_buttress_ipc_reset(): the driver says ENTRY and answers what the    *)
(* peer raises in csr_in until the peer says EXIT and raises no QUERY      *)
(* afterwards.                                                             *)
(***************************************************************************)
BeginReset(t) ==
  /\ at[t] = "reset"
  /\ IF ~secure
     THEN Return(t, "ok") /\ UNCHANGED << ipcMutex, tries >>
     ELSE /\ ipcMutex = Free
          /\ ipcMutex' = t /\ tries' = MaxPolls
          /\ Goto(t, "resetPoll")
  /\ UNCHANGED << authMutex, cmd, secure, mailbox, waits, security, verdict, gaveUp, rpm >>

\* What the peer has raised in csr_in when it is read.
PeerBits == SUBSET {"entry", "exit", "query"}

\* EXIT alone, or with QUERY, concludes the reset unless QUERY is seen again.
Concludes(bits, again) == "exit" \in bits /\ "entry" \notin bits /\ ~again

PollReset(t) ==
  /\ at[t] = "resetPoll"
  /\ \E bits \in PeerBits, again \in BOOLEAN :
       LET quiet == Concludes(bits, again)
           acked == "exit" \in bits /\ "entry" \notin bits IN   \* db0_in is cleared
       /\ quiet \/ tries > 1 \/ "noReset" \in Faults
       /\ answer' = IF acked THEN NoCommand ELSE answer
       /\ IF quiet \/ tries = 1
          THEN /\ Return(t, IF quiet THEN "ok" ELSE "error")
               /\ ipcMutex' = Free /\ tries' = 0
          ELSE Goto(t, "resetPoll") /\ tries' = tries - 1 /\ UNCHANGED ipcMutex
  /\ UNCHANGED << authMutex, cmd, secure, door, jobs, irq, waits, security, verdict,
                  gaveUp, rpm >>

(***************************************************************************)
(* ipu_buttress_ipc_send_bulk(), for one command that wants a response.    *)
(***************************************************************************)
OpenMailbox(t) ==
  /\ at[t] = "send" /\ ipcMutex = Free
  /\ ipcMutex' = t
  /\ \/ /\ Goto(t, "ring") /\ tries' = SendRetries
     \/ /\ "validity" \in Faults
        /\ Decide(t, "closeMailbox", "error") /\ UNCHANGED tries
  /\ UNCHANGED << authMutex, cmd, secure, mailbox, waits, security, verdict, gaveUp, rpm >>

Ring(t) ==
  /\ at[t] = "ring"
  /\ sendDone' = FALSE /\ recvDone' = FALSE   \* reinit_completion()
  /\ door' = cmd[t]
  /\ Goto(t, "sent")
  /\ UNCHANGED << locks, cmd, tries, secure, jobs, answer, irq, recvData, security,
                  verdict, gaveUp, rpm >>

AwaitTaken(t) ==
  /\ at[t] = "sent" /\ sendDone
  /\ sendDone' = FALSE /\ tries' = SendRetries
  /\ Goto(t, "received")
  /\ UNCHANGED << locks, cmd, secure, mailbox, recvDone, recvData, security, verdict, gaveUp, rpm >>

\* The wait for EXEC_DONE ends: the doorbell is retracted and rung once more,
\* the second time the call fails and leaves the doorbell busy.
NotTaken(t) ==
  /\ at[t] = "sent" /\ ~sendDone
  /\ gaveUp' = IF gaveUp = "no" THEN "resent" ELSE gaveUp
  /\ IF tries > 0
     THEN Goto(t, "ring") /\ door' = NoCommand /\ tries' = tries - 1
     ELSE Decide(t, "closeMailbox", "error") /\ UNCHANGED << door, tries >>
  /\ UNCHANGED << locks, cmd, secure, jobs, answer, irq, waits, security, verdict, rpm >>

AwaitAnswer(t) ==
  /\ at[t] = "received"
  /\ \/ /\ recvDone
        /\ Decide(t, "closeMailbox", IF recvData = cmd[t] THEN "ok" ELSE "error")
        /\ recvDone' = FALSE /\ recvData' = NoCommand
     \/ /\ ~recvDone
        /\ Decide(t, "closeMailbox", "error")
        /\ UNCHANGED << recvDone, recvData >>
  /\ UNCHANGED << locks, cmd, tries, secure, mailbox, sendDone, security, verdict, gaveUp, rpm >>

CloseMailbox(t) ==
  /\ at[t] = "closeMailbox"
  /\ ipcMutex' = Free /\ tries' = 0
  /\ Return(t, rc[t])
  /\ UNCHANGED << authMutex, cmd, secure, mailbox, waits, security, verdict, gaveUp, rpm >>

(***************************************************************************)
(* ipu_buttress_authenticate().                                            *)
(***************************************************************************)
AuthDone == setup = "authDone"   \* ipu_buttress_auth_done(), secure mode

\* Mutant: any answer in FW_SETUP ends either poll.
ConcludedByAny(c) == {"setupDone", "authDone", "failed"}

\* The FW_SETUP states that end the poll after a command.
Concluded(c) == IF c = "boot" THEN {"setupDone", "failed"} ELSE {"authDone", "failed"}

Authenticate(t) ==
  /\ at[t] = "authenticate"
  /\ IF ~secure
     THEN Return(t, "ok") /\ UNCHANGED << authMutex, cmd >>
     ELSE /\ authMutex = Free
          /\ authMutex' = t
          /\ IF AuthDone
             THEN Decide(t, "endAuth", "ok") /\ UNCHANGED cmd
             ELSE Call(t, "send", "booted") /\ cmd' = [cmd EXCEPT ![t] = "boot"]
  /\ UNCHANGED << ipcMutex, tries, secure, mailbox, waits, security, verdict, gaveUp, rpm >>

\* A command has been answered, or not.
Sent(t) ==
  /\ at[t] \in {"booted", "ran"}
  /\ Goto(t, IF rc[t] = "ok" THEN "poll" ELSE "endAuth")
  /\ UNCHANGED << locks, cmd, tries, secure, mailbox, waits, security, verdict, gaveUp, rpm >>

PollSetup(t) ==
  /\ at[t] = "poll"
  /\ IF setup \in Concluded(cmd[t])
     THEN Goto(t, "reread")
     ELSE Decide(t, "endAuth", "error")   \* -ETIMEDOUT
  /\ UNCHANGED << locks, cmd, tries, secure, mailbox, waits, security, verdict, gaveUp, rpm >>

\* The register is read once more to tell success from failure.
Reread(t) ==
  /\ at[t] = "reread"
  /\ CASE setup = "failed" -> Decide(t, "endAuth", "error")
       [] setup # "failed" /\ cmd[t] = "boot" -> Goto(t, "magic")
       [] OTHER -> Decide(t, "endAuth", "ok")
  /\ UNCHANGED << locks, cmd, tries, secure, mailbox, waits, security, verdict, gaveUp, rpm >>

PollMagic(t) ==
  /\ at[t] = "magic"
  /\ IF magic
     THEN /\ Call(t, "send", "ran")
          /\ cmd' = [cmd EXCEPT ![t] = "run"]
     ELSE Decide(t, "endAuth", "error") /\ UNCHANGED cmd
  /\ UNCHANGED << locks, tries, secure, mailbox, waits, security, verdict, gaveUp, rpm >>

Reported(r) ==
  /\ verdict' = IF r = "ok" /\ verdict # "void" THEN "ok" ELSE "none"
  /\ gaveUp' = IF r = "ok" THEN gaveUp ELSE "failed"

\* The result of an authentication counts for nothing if somebody has reset it and
\* gone away.
EndAuth(t) ==
  /\ at[t] = "endAuth"
  /\ authMutex' = Free
  /\ cmd' = [cmd EXCEPT ![t] = NoCommand]
  /\ Reported(rc[t])
  /\ Return(t, rc[t])
  /\ UNCHANGED << ipcMutex, tries, secure, mailbox, waits, security, rpm >>

\* ipu_buttress_reset_authentication(), which takes no lock: the hardware
\* forgets the authentication.
ForgetAuth == setup' = "none" /\ magic' = FALSE

(***************************************************************************)
(* The CSE, and the interrupt handler.                                     *)
(***************************************************************************)
Take ==
  /\ door # NoCommand /\ Len(jobs) < MaxJobs
  /\ jobs' = Append(jobs, [cmd |-> door, answered |-> FALSE])
  /\ door' = NoCommand
  /\ irq' = irq \union {"execDone"}
  /\ UNCHANGED << control, locks, cmd, tries, secure, answer, waits, security, verdict, gaveUp, rpm >>

Answer ==
  /\ jobs # << >> /\ ~Head(jobs).answered /\ answer = NoCommand
  /\ \/ answer' = Head(jobs).cmd /\ jobs' = << [Head(jobs) EXCEPT !.answered = TRUE] >> \o Tail(jobs)
     \/ "nack" \in Faults /\ answer' = "nack" /\ jobs' = Tail(jobs)
  /\ irq' = irq \union {"waiting"}
  /\ UNCHANGED << control, locks, cmd, tries, secure, door, waits, security, verdict, gaveUp, rpm >>

\* A command that the CSE meets a second time does not take back that the
\* image has been authenticated.
Finish ==
  /\ jobs # << >> /\ Head(jobs).answered
  /\ jobs' = Tail(jobs)
  /\ \/ AuthDone /\ UNCHANGED security
     \/ /\ ~AuthDone /\ magic' = TRUE
        /\ setup' = IF Head(jobs).cmd = "boot" THEN "setupDone" ELSE "authDone"
     \/ "badImage" \in Faults /\ ~AuthDone /\ setup' = "failed" /\ UNCHANGED magic
  /\ UNCHANGED << control, locks, cmd, tries, secure, door, answer, irq, waits, verdict, gaveUp, rpm >>

\* ipu_buttress_isr(): while the device is runtime suspended the interrupts are
\* acknowledged and forgotten.
Isr ==
  /\ irq # {}
  /\ irq' = {}
  /\ IF rpm = "active"
     THEN /\ sendDone' = (sendDone \/ "execDone" \in irq)
          /\ recvDone' = (recvDone \/ "waiting" \in irq)
          /\ recvData' = IF "waiting" \in irq THEN answer ELSE recvData
          /\ answer' = IF "waiting" \in irq THEN NoCommand ELSE answer
     ELSE UNCHANGED << waits, answer >>
  /\ UNCHANGED << control, locks, cmd, tries, secure, door, jobs, security, verdict, gaveUp, rpm >>

Mailbox(t) ==
  \/ BeginReset(t) \/ PollReset(t)
  \/ OpenMailbox(t) \/ Ring(t) \/ AwaitTaken(t) \/ NotTaken(t) \/ AwaitAnswer(t) \/ CloseMailbox(t)
  \/ Authenticate(t) \/ Sent(t) \/ PollSetup(t) \/ Reread(t) \/ PollMagic(t) \/ EndAuth(t)

Hardware == Take \/ Answer \/ Finish \/ Isr
==============================================================================
