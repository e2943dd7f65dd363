----------------------------- MODULE IsysStream -----------------------------
(***************************************************************************)
(* The stream command protocol of the input system.  A pipeline opens,     *)
(* starts, feeds, flushes and closes a firmware stream on a stream handle  *)
(* (start_stream_firmware and its neighbours in ipu-isys-video.c); the     *)
(* interrupt handler (isys_isr_one in ipu-isys.c) turns responses into     *)
(* completions and gives frame messages back to the pool.  Every wait has  *)
(* a time-out, so an answer may arrive when nobody waits for it any more.  *)
(*                                                                         *)
(* Start and stop run under stream_mutex.  Captures of one pipeline do not *)
(* overlap its own start and stop (the mutex of the pipeline's video node),*)
(* so one control state per pipeline is enough.                            *)
(***************************************************************************)
EXTENDS Integers, Sequences, FiniteSets, FiniteSetsExt, SequencesExt

CONSTANTS
  Pipe, NoPipe,    \* pipelines; the NULL pointer
  Handle,          \* stream handles, 0 .. IPU_ISYS_MAX_STREAMS - 1
  Msg, NoMsg,      \* the isys_fw_msgs buffers that memory has room for
  Pins,            \* output pins per stream, each reported separately
  Buffers,         \* frames a pipeline can have in the firmware at once
  RespSize,        \* room in the firmware-to-host queue
  PoolReserve,     \* bound: messages kept for a start; 0 lets memory run out
  MaxFailedStarts, \* bound: failed starts between two firmware boots
  TimeOuts,        \* the waits that can expire: subset of Completion
  SendMayFail,     \* can ipu_send_get_token return NULL?
  FwMayRefuse,     \* can the firmware answer OPEN or START with an error?
  FrameMayErr,     \* can a frame be reported with an error?
  SensorMayFail,   \* can the sensor's s_stream(1) fail?
  ResetMayRun      \* can ipu_isys_reset() of other streams run meanwhile?

Completion == {"open", "start", "stop", "close"}
NoHandle == -1

ASSUME StreamAssumption ==
  /\ Handle # {} /\ Handle \subseteq Nat
  /\ NoPipe \notin Pipe /\ NoMsg \notin Msg
  /\ Pins \in Nat \ {0} /\ Buffers \in Nat \ {0} /\ RespSize \in Nat \ {0}
  /\ PoolReserve \in Nat /\ MaxFailedStarts \in Nat
  /\ TimeOuts \subseteq Completion

VARIABLES
  pc,           \* [Pipe -> control state of start, stop and capture]
  pipes,        \* [Handle -> Pipe]: isys->pipes
  handle,       \* [Pipe -> Handle]: ip->stream_handle
  opened,       \* isys->stream_opened
  done,         \* [Pipe -> SUBSET Completion]: those with a count above zero
  error,        \* [Pipe -> BOOLEAN]: ip->error # 0
  msg,          \* [Pipe -> Msg]: the message a start is working with
  free, inFw,   \* isys->framebuflist and isys->framebuflist_fw
  inReset,      \* isys->in_reset
  failed,       \* [Pipe -> Nat]: failed starts, for the bound only
  isr,          \* what isys_isr_one is dispatching: pipeline read from pipes
  toFw,         \* [Handle -> Seq(command)]: the message send queues
  fromFw,       \* Seq(response): the one message receive queue
  fwStream,     \* [Handle -> state of the firmware's stream]
  caps,         \* [Handle -> Seq(Msg)]: captures the firmware works on
  pin,          \* [Handle -> next output pin of the oldest capture]
  unclosed      \* handles given up without a CLOSE while their stream was open

session == << pc, pipes, handle, opened, done, error, msg, failed >>
pool == << free, inFw >>
firmware == << fwStream, caps, pin, unclosed >>
vars == << session, pool, inReset, isr, toFw, fromFw, firmware >>

Idle == "idle"
Control == {Idle, "opening", "opened", "starting", "unwind", "unwinding", "sensor",
            "sensorFailed", "streaming", "flushing", "flushed", "closing"}
Command == {"OPEN", "START", "START_AND_CAPTURE", "CAPTURE", "FLUSH", "CLOSE"}

IsrIdle == [busy |-> FALSE, pipe |-> NoPipe]

TypeOK ==
  /\ pc \in [Pipe -> Control]
  /\ pipes \in [Handle -> Pipe \cup {NoPipe}]
  /\ handle \in [Pipe -> Handle \cup {NoHandle}]
  /\ opened \in Int
  /\ done \in [Pipe -> SUBSET Completion]
  /\ error \in [Pipe -> BOOLEAN]
  /\ msg \in [Pipe -> Msg \cup {NoMsg}]
  /\ free \subseteq Msg /\ inFw = Msg \ free
  /\ inReset \in BOOLEAN
  /\ failed \in [Pipe -> 0 .. MaxFailedStarts]
  /\ isr \in [busy : BOOLEAN, pipe : Pipe \cup {NoPipe}]
  /\ \A h \in Handle : \A i \in DOMAIN toFw[h] :
       toFw[h][i] \in [type : Command, msg : Msg \cup {NoMsg}]
  /\ fwStream \in [Handle -> {"closed", "open", "started"}]
  /\ pin \in [Handle -> 0 .. Pins - 1]
  /\ unclosed \subseteq Handle

Init ==
  /\ pc = [p \in Pipe |-> Idle]
  /\ pipes = [h \in Handle |-> NoPipe]
  /\ handle = [p \in Pipe |-> NoHandle]
  /\ opened = 0
  /\ done = [p \in Pipe |-> {}]
  /\ error = [p \in Pipe |-> FALSE]
  /\ msg = [p \in Pipe |-> NoMsg]
  /\ free = Msg /\ inFw = {}
  /\ inReset = FALSE
  /\ failed = [p \in Pipe |-> 0]
  /\ isr = IsrIdle
  /\ toFw = [h \in Handle |-> << >>]
  /\ fromFw = << >>
  /\ fwStream = [h \in Handle |-> "closed"]
  /\ caps = [h \in Handle |-> << >>]
  /\ pin = [h \in Handle |-> 0]
  /\ unclosed = {}

-----------------------------------------------------------------------------
(* Helpers *)

\* stream_mutex is held from the first step of a start or stop to its last.
StreamMutexFree == \A p \in Pipe : pc[p] \in {Idle, "streaming"}

\* Mutant: taken handles are not skipped.
AnyHandle == Handle

FreeHandles == {h \in Handle : pipes[h] = NoPipe}

\* Mutant: the message is not moved off the other list.
GetMsgCopies(m) == inFw' = inFw \cup {m} /\ UNCHANGED free

\* ipu_get_fw_msg_buf() and ipu_put_fw_mgs_buf().
GetMsg(m) == free' = free \ {m} /\ inFw' = inFw \cup {m}
PutMsg(m) == IF m = NoMsg THEN UNCHANGED pool
             ELSE free' = free \cup {m} /\ inFw' = inFw \ {m}

\* ipu_fw_isys_complex_cmd(): whether the command goes out.
SendOutcome == IF SendMayFail THEN BOOLEAN ELSE {TRUE}
Send(h, type, m) == toFw' = [toFw EXCEPT ![h] = Append(@, [type |-> type, msg |-> m])]

\* reinit_completion(), and the two ways in which a wait ends.  Every wait is
\* preceded by a reinit, so a count above one is never told from one.
Reinit(p, c) == done' = [done EXCEPT ![p] = @ \ {c}]
Completed(p, c) == c \in done[p] /\ done' = [done EXCEPT ![p] = @ \ {c}]
Expired(p, c) == c \in TimeOuts \ done[p] /\ UNCHANGED done

PutStreamOpened == opened' = opened - 1
PutStreamHandle(p) == /\ pipes' = [pipes EXCEPT ![handle[p]] = NoPipe]
                      /\ handle' = [handle EXCEPT ![p] = NoHandle]

Goto(p, s) == pc' = [pc EXCEPT ![p] = s]
StartFailed(p) == failed' = [failed EXCEPT ![p] = @ + 1]

\* Messages the firmware may still read on handle h.
MsgsOf(h) == {toFw[h][i].msg : i \in DOMAIN toFw[h]} \cup Range(caps[h])

\* Frames of handle h between the host's CAPTURE and the last PIN_DATA_READY.
InFlight(h) ==
  Len(caps[h]) + Len(SelectSeq(toFw[h],
                       LAMBDA c : c.type \in {"START_AND_CAPTURE", "CAPTURE"}))

-----------------------------------------------------------------------------
(* start_stream_firmware() and the sensor start of set_streaming(1) *)

MayStart(p) == /\ pc[p] = Idle /\ StreamMutexFree
               /\ failed[p] < MaxFailedStarts
               /\ Cardinality(free) > PoolReserve

\* get_stream_handle() finds no free handle: the message taken for the stream
\* configuration is not put back.
StartNoHandle(p) ==
  /\ MayStart(p)
  /\ FreeHandles = {}
  /\ \E m \in free : GetMsg(m)
  /\ StartFailed(p)
  /\ UNCHANGED << pc, pipes, handle, opened, done, error, msg, inReset, isr,
                  toFw, fromFw, firmware >>

\* The first free handle is taken and OPEN goes out.
StartOpen(p) ==
  /\ MayStart(p)
  /\ FreeHandles # {}
  /\ LET h == Min(FreeHandles) IN
       \E m \in free :
         /\ GetMsg(m)
         /\ msg' = [msg EXCEPT ![p] = m]
         /\ pipes' = [pipes EXCEPT ![h] = p]
         /\ handle' = [handle EXCEPT ![p] = h]
         /\ Send(h, "OPEN", m)
  /\ Reinit(p, "open")
  /\ opened' = opened + 1
  /\ Goto(p, "opening")
  /\ UNCHANGED << error, failed, inReset, isr, fromFw, firmware >>

\* OPEN cannot be sent: message and handle are given back.
StartOpenRefused(p) ==
  /\ MayStart(p)
  /\ FreeHandles # {}
  /\ FALSE \in SendOutcome
  /\ handle' = [handle EXCEPT ![p] = NoHandle]
  /\ Reinit(p, "open")
  /\ StartFailed(p)
  /\ UNCHANGED << pc, pipes, opened, error, msg, pool, inReset, isr, toFw,
                  fromFw, firmware >>

\* The configuration message goes back to the pool whatever the wait returned;
\* a start that fails here gives count and handle back without a CLOSE.
OpenEnds(p) ==
  /\ pc[p] = "opening"
  /\ PutMsg(msg[p])
  /\ msg' = [msg EXCEPT ![p] = NoMsg]
  /\ \/ /\ Completed(p, "open") /\ ~ error[p]
        /\ Goto(p, "opened")
        /\ UNCHANGED << pipes, handle, opened, failed >>
     \/ /\ \/ Completed(p, "open") /\ error[p]
           \/ Expired(p, "open")
        /\ PutStreamOpened
        /\ PutStreamHandle(p)
        /\ StartFailed(p)
        /\ Goto(p, Idle)
  /\ UNCHANGED << error, inReset, isr, toFw, fromFw, firmware >>

\* Mutant: the handle stays taken.
StartNoMsgKeepsHandle(p) ==
  /\ pc[p] = "opened"
  /\ free = {}
  /\ PutStreamOpened
  /\ StartFailed(p)
  /\ Goto(p, Idle)
  /\ UNCHANGED << pipes, handle, done, error, msg, pool, inReset, isr, toFw,
                  fromFw, firmware >>

\* No message for the first capture (-ENOMEM): the open stream is abandoned.
StartNoMsg(p) ==
  /\ pc[p] = "opened"
  /\ free = {}
  /\ PutStreamOpened
  /\ PutStreamHandle(p)
  /\ StartFailed(p)
  /\ Goto(p, Idle)
  /\ unclosed' = unclosed \cup {handle[p]}
  /\ UNCHANGED << done, error, msg, pool, inReset, isr, toFw, fromFw, fwStream, caps, pin >>

\* START_AND_CAPTURE, or a START alone while ipu_isys_reset() runs.
StartStream(p) ==
  /\ pc[p] = "opened"
  /\ \E m \in free :
       /\ GetMsg(m)
       /\ msg' = [msg EXCEPT ![p] = m]
       /\ \E sent \in SendOutcome :
            \/ /\ sent
               /\ IF inReset THEN Send(handle[p], "START", NoMsg)
                             ELSE Send(handle[p], "START_AND_CAPTURE", m)
               /\ Goto(p, "starting")
            \/ /\ ~ sent
               /\ Goto(p, "unwind")
               /\ UNCHANGED toFw
  /\ Reinit(p, "start")
  /\ UNCHANGED << pipes, handle, opened, error, failed, inReset, isr, fromFw, firmware >>

\* Mutant: the capture is sent again although START_AND_CAPTURE carried it.
StartAcknowledgedCaptures(p) ==
  /\ pc[p] = "starting"
  /\ Completed(p, "start")
  /\ ~ error[p]
  /\ Send(handle[p], "CAPTURE", msg[p])
  /\ Goto(p, "sensor")
  /\ msg' = [msg EXCEPT ![p] = NoMsg]
  /\ UNCHANGED << pipes, handle, opened, error, failed, pool, inReset, isr,
                  fromFw, firmware >>

\* The start is acknowledged.  in_reset is read again: the capture that START
\* did not carry follows in a command of its own.
StartAcknowledged(p) ==
  /\ pc[p] = "starting"
  /\ Completed(p, "start")
  /\ ~ error[p]
  /\ \E sent \in SendOutcome :
       \/ /\ ~ inReset
          /\ Goto(p, "sensor")
          /\ UNCHANGED toFw
       \/ /\ inReset /\ sent
          /\ Send(handle[p], "CAPTURE", msg[p])
          /\ Goto(p, "sensor")
       \/ /\ inReset /\ ~ sent
          /\ Goto(p, "unwind")
          /\ UNCHANGED toFw
  /\ msg' = [msg EXCEPT ![p] = NoMsg]
  /\ UNCHANGED << pipes, handle, opened, error, failed, pool, inReset, isr,
                  fromFw, firmware >>

\* Mutant: the stream is given up without a CLOSE.
StartNotAcknowledgedNoClose(p) ==
  /\ pc[p] = "starting"
  /\ \/ Completed(p, "start") /\ error[p]
     \/ Expired(p, "start")
  /\ msg' = [msg EXCEPT ![p] = NoMsg]
  /\ PutStreamOpened
  /\ PutStreamHandle(p)
  /\ StartFailed(p)
  /\ Goto(p, Idle)
  /\ UNCHANGED << error, pool, inReset, isr, toFw, fromFw, firmware >>

StartNotAcknowledged(p) ==
  /\ pc[p] = "starting"
  /\ \/ Completed(p, "start") /\ error[p]
     \/ Expired(p, "start")
  /\ msg' = [msg EXCEPT ![p] = NoMsg]
  /\ Goto(p, "unwind")
  /\ UNCHANGED << pipes, handle, opened, error, failed, pool, inReset, isr, toFw,
                  fromFw, firmware >>

\* out_stream_close
UnwindClose(p) ==
  /\ pc[p] = "unwind"
  /\ Reinit(p, "close")
  /\ \E sent \in SendOutcome :
       \/ /\ sent
          /\ Send(handle[p], "CLOSE", NoMsg)
          /\ Goto(p, "unwinding")
          /\ UNCHANGED << pipes, handle, opened, failed >>
       \/ /\ ~ sent
          /\ PutStreamOpened
          /\ PutStreamHandle(p)
          /\ StartFailed(p)
          /\ Goto(p, Idle)
          /\ UNCHANGED toFw
  /\ msg' = [msg EXCEPT ![p] = NoMsg]
  /\ UNCHANGED << error, pool, inReset, isr, fromFw, firmware >>

\* Mutant: the wait has no time-out.
UnwindEndsUntimed(p) ==
  /\ pc[p] = "unwinding"
  /\ Completed(p, "close")
  /\ PutStreamOpened
  /\ PutStreamHandle(p)
  /\ StartFailed(p)
  /\ Goto(p, Idle)
  /\ UNCHANGED << error, msg, pool, inReset, isr, toFw, fromFw, firmware >>

\* The wait for CLOSE_ACK ends, answered or not: count and handle are put.
UnwindEnds(p) ==
  /\ pc[p] = "unwinding"
  /\ Completed(p, "close") \/ Expired(p, "close")
  /\ PutStreamOpened
  /\ PutStreamHandle(p)
  /\ StartFailed(p)
  /\ Goto(p, Idle)
  /\ UNCHANGED << error, msg, pool, inReset, isr, toFw, fromFw, firmware >>

SensorStarts(p) ==
  /\ pc[p] = "sensor"
  /\ Goto(p, "streaming")
  /\ UNCHANGED << pipes, handle, opened, done, error, msg, failed, pool, inReset,
                  isr, toFw, fromFw, firmware >>

\* The sensor does not start: stop_streaming_firmware() flushes the stream.
SensorFails(p) ==
  /\ SensorMayFail
  /\ pc[p] = "sensor"
  /\ Reinit(p, "stop")
  /\ \E sent \in SendOutcome :
       \/ /\ sent
          /\ Send(handle[p], "FLUSH", NoMsg)
          /\ Goto(p, "sensorFailed")
          /\ UNCHANGED failed
       \/ /\ ~ sent
          /\ StartFailed(p)
          /\ Goto(p, Idle)
          /\ UNCHANGED toFw
  /\ UNCHANGED << pipes, handle, opened, error, msg, pool, inReset, isr, fromFw,
                  firmware >>

\* ... but nothing closes it: handle and stream_opened are kept.
SensorFailedEnds(p) ==
  /\ pc[p] = "sensorFailed"
  /\ Completed(p, "stop") \/ Expired(p, "stop")
  /\ StartFailed(p)
  /\ Goto(p, Idle)
  /\ UNCHANGED << pipes, handle, opened, error, msg, pool, inReset, isr, toFw,
                  fromFw, firmware >>

-----------------------------------------------------------------------------
(* Captures, and set_streaming(0) *)

\* buf_queue() and the loop of ipu_isys_stream_start(): a command that cannot be
\* sent leaves its message on the firmware list.
Capture(p) ==
  /\ pc[p] = "streaming"
  /\ InFlight(handle[p]) < Buffers
  /\ Cardinality(free) > PoolReserve
  /\ \E m \in free, sent \in SendOutcome :
       /\ GetMsg(m)
       /\ IF sent THEN Send(handle[p], "CAPTURE", m) ELSE UNCHANGED toFw
  /\ UNCHANGED << session, inReset, isr, fromFw, firmware >>

\* stop_streaming() waits for a reset to end before it takes stream_mutex.
Stop(p) ==
  /\ pc[p] = "streaming"
  /\ StreamMutexFree /\ ~ inReset
  /\ Reinit(p, "stop")
  /\ \E sent \in SendOutcome :
       \/ sent /\ Send(handle[p], "FLUSH", NoMsg) /\ Goto(p, "flushing")
       \/ ~ sent /\ Goto(p, "flushed") /\ UNCHANGED toFw
  /\ UNCHANGED << pipes, handle, opened, error, msg, failed, pool, inReset, isr,
                  fromFw, firmware >>

FlushEnds(p) ==
  /\ pc[p] = "flushing"
  /\ Completed(p, "stop") \/ Expired(p, "stop")
  /\ Goto(p, "flushed")
  /\ UNCHANGED << pipes, handle, opened, error, msg, failed, pool, inReset, isr,
                  toFw, fromFw, firmware >>

\* close_streaming_firmware() returns early when CLOSE cannot be sent, without
\* giving back count and handle.
Close(p) ==
  /\ pc[p] = "flushed"
  /\ Reinit(p, "close")
  /\ \E sent \in SendOutcome :
       \/ sent /\ Send(handle[p], "CLOSE", NoMsg) /\ Goto(p, "closing")
       \/ ~ sent /\ Goto(p, Idle) /\ UNCHANGED toFw
  /\ UNCHANGED << pipes, handle, opened, error, msg, failed, pool, inReset, isr,
                  fromFw, firmware >>

\* Mutant: stream_opened is put only when the close was answered.
CloseEndsCountsAnswers(p) ==
  /\ pc[p] = "closing"
  /\ \/ Completed(p, "close") /\ PutStreamOpened
     \/ Expired(p, "close") /\ UNCHANGED opened
  /\ PutStreamHandle(p)
  /\ Goto(p, Idle)
  /\ UNCHANGED << error, msg, failed, pool, inReset, isr, toFw, fromFw, firmware >>

CloseEnds(p) ==
  /\ pc[p] = "closing"
  /\ Completed(p, "close") \/ Expired(p, "close")
  /\ PutStreamOpened
  /\ PutStreamHandle(p)
  /\ Goto(p, Idle)
  /\ UNCHANGED << error, msg, failed, pool, inReset, isr, toFw, fromFw, firmware >>

-----------------------------------------------------------------------------
(* isys_isr_one().  It reads pipes[] without isys->lock, so a pipeline may  *)
(* give up its handle between the two steps.                                *)

IsrFetch ==
  /\ ~ isr.busy
  /\ fromFw # << >>
  /\ isr' = [busy |-> TRUE, pipe |-> pipes[Head(fromFw).handle]]
  /\ UNCHANGED << session, pool, inReset, toFw, fromFw, firmware >>

\* The completion a response type completes.
CompletionOf(type) ==
  CASE type = "OPEN_DONE" -> {"open"}
    [] type = "START_ACK" -> {"start"}
    [] type = "FLUSH_ACK" -> {"stop"}
    [] type = "CLOSE_ACK" -> {"close"}
    [] OTHER -> {}

\* A response for a handle without a pipeline is dropped, its message with it.
IsrDispatch ==
  /\ isr.busy
  /\ LET r == Head(fromFw)
         p == isr.pipe
     IN IF p = NoPipe
        THEN UNCHANGED << error, done, pool >>
        ELSE /\ error' = [error EXCEPT ![p] = r.error]
             /\ done' = [done EXCEPT ![p] = @ \cup CompletionOf(r.type)]
             /\ IF r.type = "PIN_DATA_READY" THEN PutMsg(r.msg) ELSE UNCHANGED pool
  /\ fromFw' = Tail(fromFw)
  /\ isr' = IsrIdle
  /\ UNCHANGED << pc, pipes, handle, opened, msg, failed, inReset, toFw, firmware >>

-----------------------------------------------------------------------------
(* ipu_isys_reset() on behalf of a pipeline that just stopped, when it finds *)
(* no other stream to restart: it does nothing but raise and clear in_reset. *)

ResetBegins ==
  /\ ResetMayRun /\ ~ inReset
  /\ \A p \in Pipe : pc[p] \notin {"streaming", "flushing", "flushed", "closing"}
  /\ inReset' = TRUE
  /\ UNCHANGED << session, pool, isr, toFw, fromFw, firmware >>

ResetEnds ==
  /\ inReset
  /\ inReset' = FALSE
  /\ UNCHANGED << session, pool, isr, toFw, fromFw, firmware >>

\* The last video node is closed and the first one opened again: the firmware
\* is shut down and booted with empty queues, every message returns to the
\* pool.  pipes[] and stream_opened are not touched.
Reboot ==
  /\ \A p \in Pipe : pc[p] = Idle
  /\ ~ isr.busy
  /\ free' = free \cup inFw /\ inFw' = {}
  /\ toFw' = [h \in Handle |-> << >>]
  /\ fromFw' = << >>
  /\ fwStream' = [h \in Handle |-> "closed"]
  /\ caps' = [h \in Handle |-> << >>]
  /\ pin' = [h \in Handle |-> 0]
  /\ unclosed' = {}
  /\ failed' = [p \in Pipe |-> 0]
  /\ UNCHANGED << pc, pipes, handle, opened, done, error, msg, inReset, isr >>

-----------------------------------------------------------------------------
(* The firmware, as far as the driver depends on it: it takes the commands  *)
(* of a handle in order and answers each one on the one receive queue.      *)

Respond(h, type, err, m) ==
  /\ Len(fromFw) < RespSize
  /\ fromFw' = Append(fromFw, [handle |-> h, type |-> type, error |-> err, msg |-> m])

Refusal == IF FwMayRefuse THEN BOOLEAN ELSE {FALSE}

\* A command is legal in one state of the stream only; CLOSE in two.
Legal(type, state) ==
  CASE type = "OPEN" -> state = "closed"
    [] type \in {"START", "START_AND_CAPTURE"} -> state = "open"
    [] type \in {"CAPTURE", "FLUSH"} -> state = "started"
    [] type = "CLOSE" -> state \in {"open", "started"}

FwTake(h) == toFw[h] # << >> /\ toFw' = [toFw EXCEPT ![h] = Tail(@)]

FwOpen(h) ==
  /\ FwTake(h) /\ Head(toFw[h]).type = "OPEN"
  /\ \E refused \in Refusal :
       LET bad == refused \/ ~ Legal("OPEN", fwStream[h]) IN
         /\ Respond(h, "OPEN_DONE", bad, NoMsg)
         /\ fwStream' = IF bad THEN fwStream ELSE [fwStream EXCEPT ![h] = "open"]
  /\ UNCHANGED << session, pool, inReset, isr, caps, pin, unclosed >>

FwStart(h) ==
  /\ FwTake(h)
  /\ LET c == Head(toFw[h]) IN
       /\ c.type \in {"START", "START_AND_CAPTURE"}
       /\ \E refused \in Refusal :
            LET bad == refused \/ ~ Legal(c.type, fwStream[h]) IN
              /\ Respond(h, "START_ACK", bad, NoMsg)
              /\ IF bad
                 THEN UNCHANGED << fwStream, caps >>
                 ELSE /\ fwStream' = [fwStream EXCEPT ![h] = "started"]
                      /\ caps' = IF c.type = "START" THEN caps
                                 ELSE [caps EXCEPT ![h] = Append(@, c.msg)]
  /\ UNCHANGED << session, pool, inReset, isr, pin, unclosed >>

\* CAPTURE_ACK is left out: nothing waits for it.
FwCapture(h) ==
  /\ FwTake(h) /\ Head(toFw[h]).type = "CAPTURE"
  /\ caps' = IF Legal("CAPTURE", fwStream[h])
             THEN [caps EXCEPT ![h] = Append(@, Head(toFw[h]).msg)] ELSE caps
  /\ UNCHANGED << session, pool, inReset, isr, fromFw, fwStream, pin, unclosed >>

\* A frame ends on one output pin after the other.
FwFrame(h) ==
  /\ fwStream[h] = "started" /\ caps[h] # << >>
  /\ \E err \in IF FrameMayErr THEN BOOLEAN ELSE {FALSE} :
       Respond(h, "PIN_DATA_READY", err, Head(caps[h]))
  /\ pin' = [pin EXCEPT ![h] = (@ + 1) % Pins]
  /\ caps' = IF pin[h] = Pins - 1 THEN [caps EXCEPT ![h] = Tail(@)] ELSE caps
  /\ UNCHANGED << session, pool, inReset, isr, toFw, fwStream, unclosed >>

\* FLUSH is answered when the captures before it are done.
FwFlush(h) ==
  /\ FwTake(h) /\ Head(toFw[h]).type = "FLUSH"
  /\ caps[h] = << >>
  /\ LET bad == ~ Legal("FLUSH", fwStream[h]) IN
       /\ Respond(h, "FLUSH_ACK", bad, NoMsg)
       /\ fwStream' = IF bad THEN fwStream ELSE [fwStream EXCEPT ![h] = "open"]
  /\ UNCHANGED << session, pool, inReset, isr, caps, pin, unclosed >>

FwClose(h) ==
  /\ FwTake(h) /\ Head(toFw[h]).type = "CLOSE"
  /\ Respond(h, "CLOSE_ACK", ~ Legal("CLOSE", fwStream[h]), NoMsg)
  /\ fwStream' = [fwStream EXCEPT ![h] = "closed"]
  /\ caps' = [caps EXCEPT ![h] = << >>]
  /\ pin' = [pin EXCEPT ![h] = 0]
  /\ UNCHANGED << session, pool, inReset, isr, unclosed >>

-----------------------------------------------------------------------------
(* What a pipeline does on its own once a start or stop has begun *)
Proceed(p) ==
  \/ OpenEnds(p) \/ StartNoMsg(p) \/ StartStream(p)
  \/ StartAcknowledged(p) \/ StartNotAcknowledged(p)
  \/ UnwindClose(p) \/ UnwindEnds(p)
  \/ SensorStarts(p) \/ SensorFails(p) \/ SensorFailedEnds(p)
  \/ FlushEnds(p) \/ Close(p) \/ CloseEnds(p)

Firmware(h) ==
  FwOpen(h) \/ FwStart(h) \/ FwCapture(h) \/ FwFrame(h) \/ FwFlush(h) \/ FwClose(h)

Next ==
  \/ \E p \in Pipe :
       \/ StartNoHandle(p) \/ StartOpen(p) \/ StartOpenRefused(p)
       \/ Proceed(p) \/ Capture(p) \/ Stop(p)
  \/ IsrFetch \/ IsrDispatch
  \/ ResetBegins \/ ResetEnds \/ Reboot
  \/ \E h \in Handle : Firmware(h)

Spec == Init /\ [][Next]_vars

\* A thread of the kernel that is not waiting runs on, and a wait that can
\* expire does; nothing is assumed of the firmware.
HostFairness == \A p \in Pipe : WF_vars(Proceed(p))

FairSpec == Spec /\ HostFairness

-----------------------------------------------------------------------------
(* Properties *)

\* While a start, a capture or a stop is under way its responses find it: the
\* handle in ip->stream_handle is the one pipes[] has for this pipeline.
ResponsesAreRouted ==
  \A p \in Pipe : pc[p] # Idle => handle[p] \in Handle /\ pipes[handle[p]] = p

\* stream_opened, for which isys_suspend refuses to suspend, counts the streams
\* that are being started, run or stopped and nothing else.
OpenedCountsSessions == opened = Cardinality({p \in Pipe : pc[p] # Idle})

\* No handle stays taken by a pipeline that has no stream.
NoHandleLeak == \A h \in Handle : pipes[h] # NoPipe => pc[pipes[h]] # Idle

\* The firmware never receives a command that its stream is not ready for, even
\* when waits expire and handles are reused while old answers are on the way;
\* but for handles that a start without a message gave up, see StartNoMsg.
FirmwareCommandsLegal ==
  \A h \in Handle \ unclosed : toFw[h] # << >> => Legal(Head(toFw[h]).type, fwStream[h])

\* A message in the pool is one the firmware has finished with.
FreeMessagesUnused == \A h \in Handle : MsgsOf(h) \cap free = {}

\* One message carries one frame set: it is never submitted twice.
CaptureSubmittedOnce ==
  \A h \in Handle :
    /\ \A i, j \in DOMAIN toFw[h] :
         i # j /\ toFw[h][i].msg # NoMsg => toFw[h][i].msg # toFw[h][j].msg
    /\ IsInjective(caps[h])
    /\ \A i \in DOMAIN toFw[h] : toFw[h][i].msg \notin Range(caps[h])

\* Every start and every stop ends, whatever the firmware does or does not do.
StartsAndStopsEnd ==
  \A p \in Pipe : pc[p] \notin {Idle, "streaming"} ~> pc[p] \in {Idle, "streaming"}
=============================================================================
