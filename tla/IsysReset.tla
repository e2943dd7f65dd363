------------------------------ MODULE IsysReset ------------------------------
(***************************************************************************)
(* ipu_isys_reset(): when a node stops and its firmware has kept buffers,  *)
(* the streams of all other nodes are stopped, the input system goes       *)
(* through a power cycle and the streams are started again, while the      *)
(* application queues buffers, starts and stops nodes (ipu-isys-queue.c).  *)
(*                                                                         *)
(* Each node is the whole of its pipeline, as nodes of csi2_be_soc are:    *)
(* ip is in the node, and pipe[q] tells whether pads[0].pipe points to it. *)
(* Several nodes of one pipeline are in IsysQueue, the failures of starts  *)
(* without a reset too; the power cycle itself is in IsysPower.            *)
(* A reset runs in the thread that stopped a node and holds its mutex.     *)
(* External: videobuf2, the firmware.                                      *)
(***************************************************************************)
EXTENDS Naturals, Sequences, FiniteSets, SequencesExt

CONSTANTS
  Nodes,        \* how many video nodes there are
  DeepNode,     \* the nodes that have two buffers; the others have one
  Faults        \* what may happen, a subset of AllFaults

\* A flush times out; a stream cannot be started again; starts and resets overlap.
AllFaults == {"hang", "restartFails", "startInReset"}

ASSUME ResetAssumption ==
  /\ Nodes \in Nat \ {0} /\ DeepNode \subseteq 1 .. Nodes
  /\ Faults \subseteq AllFaults

Node == 1 .. Nodes     \* in the order in which a reset visits them
BufsOf(q) == {q} \X (IF q \in DeepNode THEN 1 .. 2 ELSE {1})
Buf == UNION {BufsOf(q) : q \in Node}
NoBuf == << 0, 0 >>

Thread == Node \X {"buf", "stream"}
B(q) == << q, "buf" >>        \* the thread that queues buffers of q
S(q) == << q, "stream" >>     \* the thread that starts and stops q
NoThread == << 0, "none" >>

VARIABLES
  vb,          \* [Buf -> {"user", "vb2", "driver"}]: who has the buffer
  incoming,    \* [Node -> Seq(Buf)]: aq->incoming, oldest first
  active,      \* [Node -> Seq(Buf)]: aq->active, oldest first
  taken,       \* [Thread -> Buf]: the buffer list of a start
  fw,          \* [Node -> Seq(Buf)]: what the firmware captures into
  open,        \* nodes whose stream is open in the firmware
  fwUp,        \* the firmware runs
  ssc,         \* nodes whose vb2 queue has start_streaming_called
  pipe,        \* nodes whose pads[0].pipe is set
  nr,          \* [Node -> Nat]: ip->nr_streaming; nr_queues is 1
  streaming,   \* nodes with ip->streaming
  started,     \* nodes with av->start_streaming
  reset,       \* nodes with av->reset
  inReset,     \* isys->in_reset
  inStop,      \* isys->in_stop_streaming
  resetNeeded, \* isys->reset_needed
  lock,        \* [Node -> Thread]: holder of av->mutex across steps
  pc,          \* [Thread -> control state]
  on,          \* [Thread -> the node it works on]; a reset visits all, and one beyond
  sawPipe,     \* nodes whose buf_queue() found media_pipe
  lost         \* nodes that a reset could not start again

lists == << vb, incoming, active, taken >>
firmware == << fw, open, fwUp >>
streams == << ssc, pipe, nr, streaming, started, reset >>
flags == << inReset, inStop, resetNeeded >>
control == << lock, pc, on >>
locals == << sawPipe, lost >>
vars == << lists, firmware, streams, flags, control, locals >>

StartPhase == {"start", "await", "fill"}
ResetPhase == {"quiesce", "scan", "flushOther", "powerDown", "powerUp", "restart", "resetEnds"}
StopPhase == {"offWait", "offLock", "flush", "offReturn", "offEnd", "reset"}

TypeOK ==
  /\ vb \in [Buf -> {"user", "vb2", "driver"}]
  /\ \A q \in Node : {incoming[q], active[q], fw[q]} \subseteq Seq(BufsOf(q))
  /\ taken \in [Thread -> Buf \union {NoBuf}]
  /\ \A s \in {open, ssc, pipe, streaming, started, reset, sawPipe, lost} : s \subseteq Node
  /\ nr \in [Node -> 0 .. 1]
  /\ {fwUp, inReset, inStop, resetNeeded} \subseteq BOOLEAN
  /\ lock \in [Node -> Thread \union {NoThread}]
  /\ pc \in [Thread -> {"idle", "wait", "relock", "submit", "oops", "onQueue", "onWait", "onLock"}
                       \union StartPhase \union StopPhase \union ResetPhase]
  /\ on \in [Thread -> 1 .. Nodes + 1]

Init ==
  /\ vb = [b \in Buf |-> "user"]
  /\ incoming = [q \in Node |-> << >>] /\ active = incoming /\ fw = incoming
  /\ taken = [t \in Thread |-> NoBuf]
  /\ open = {} /\ fwUp = TRUE
  /\ ssc = {} /\ pipe = {} /\ streaming = {} /\ started = {} /\ reset = {}
  /\ nr = [q \in Node |-> 0]
  /\ inReset = FALSE /\ inStop = FALSE /\ resetNeeded = FALSE
  /\ lock = [q \in Node |-> NoThread]
  /\ pc = [t \in Thread |-> "idle"] /\ on = [t \in Thread |-> t[1]]
  /\ sawPipe = {} /\ lost = {}

Free(q) == lock[q] = NoThread
Goto(t, s) == pc' = [pc EXCEPT ![t] = s] /\ UNCHANGED on
Visit(t, s, q) == pc' = [pc EXCEPT ![t] = s] /\ on' = [on EXCEPT ![t] = q]
Locks(q, t) == lock' = [lock EXCEPT ![q] = t]
Unlocks(q) == Locks(q, NoThread)

\* stream_mutex is held while the firmware is asked to start or stop a stream,
\* and within single steps elsewhere.
StreamMutexFree == \A t \in Thread : pc[t] \notin {"await", "flush", "flushOther"}

With(s, q, member) == IF member THEN s \union {q} ELSE s \ {q}

\* vb2_buffer_done() and other changes of hands.
Hand(bs, to) == vb' = [b \in Buf |-> IF b \in bs THEN to ELSE vb[b]]

Queued(q) == {b \in BufsOf(q) : vb[b] = "vb2"}

\* return_buffers(): what is on the lists of q goes back to videobuf2.
ReturnBuffers(q) ==
  /\ Hand(Range(incoming[q]) \union Range(active[q]), "vb2")
  /\ incoming' = [incoming EXCEPT ![q] = << >>]
  /\ active' = [active EXCEPT ![q] = << >>]

\* buffer_list_get() of a start: the oldest of the buffers at hand.
TakeFor(t, q, bs) ==
  /\ taken' = [taken EXCEPT ![t] = Head(bs)]
  /\ incoming' = [incoming EXCEPT ![q] = Tail(bs)]

\* Bound: starts, but those of the reset, and resets keep out of each other's way.
Overlap == "startInReset" \in Faults
MayStart == ~inReset \/ Overlap
MayReset == Overlap \/ \A t \in Thread : pc[t] \notin StartPhase

-----------------------------------------------------------------------------
(* buf_queue() *)

\* VIDIOC_QBUF: before the queue has started, videobuf2 keeps the buffer.  The
\* buffers of a node are alike: any one of those the user has is as good.
QBuf(q) ==
  LET has == {b \in BufsOf(q) : vb[b] = "user"}
      b == CHOOSE b \in has : TRUE IN
  /\ pc[B(q)] = "idle" /\ Free(q) /\ has # {}
  /\ \/ /\ q \notin ssc
        /\ Hand({b}, "vb2")
        /\ UNCHANGED << incoming, sawPipe, pc, on >>
     \/ /\ q \in ssc
        /\ Hand({b}, "driver")
        /\ incoming' = [incoming EXCEPT ![q] = Append(@, b)]
        /\ sawPipe' = With(sawPipe, q, q \in pipe)
        /\ Goto(B(q), IF inReset THEN "wait" ELSE "relock")
  /\ UNCHANGED << active, taken, firmware, streams, flags, lock, lost >>

\* in_reset is polled with the mutex dropped.  (To find no reset under way later than
\* QBuf does comes to the same, since the mutex may be taken at any time after.)
QBufWaits(q) ==
  /\ pc[B(q)] = "wait" /\ ~inReset
  /\ Goto(B(q), "relock")
  /\ UNCHANGED << lists, firmware, streams, flags, lock, locals >>

\* A reset may have begun when the mutex is taken again.  The pipeline tested is the
\* one read before it was dropped (see IsysQueue).
QBufRelocks(q) ==
  /\ pc[B(q)] = "relock" /\ Free(q)
  /\ Goto(B(q), IF q \notin sawPipe \intersect ssc THEN "idle"
                ELSE IF q \in pipe THEN "submit" ELSE "oops")
  /\ UNCHANGED << lists, firmware, streams, flags, lock, locals >>

\* The mutex was dropped again, to be taken as that of the pipeline.
QBufSubmits(q) ==
  /\ pc[B(q)] = "submit" /\ Free(q)
  /\ \/ /\ nr[q] # 1 \/ incoming[q] = << >>
        /\ Goto(B(q), "idle")
        /\ UNCHANGED << lists, fw, lock >>
     \/ /\ nr[q] = 1 /\ incoming[q] # << >> /\ q \notin streaming
        /\ MayStart
        /\ TakeFor(B(q), q, incoming[q])
        /\ Locks(q, B(q))
        /\ Goto(B(q), "start")
        /\ UNCHANGED << vb, active, fw >>
     \/ /\ nr[q] = 1 /\ incoming[q] # << >> /\ q \in streaming
        /\ incoming' = [incoming EXCEPT ![q] = Tail(@)]
        /\ active' = [active EXCEPT ![q] = Append(@, Head(incoming[q]))]
        /\ IF fwUp
           THEN fw' = [fw EXCEPT ![q] = Append(@, Head(incoming[q]))] /\ Goto(B(q), "idle")
           ELSE UNCHANGED fw /\ Goto(B(q), "oops")
        /\ UNCHANGED << vb, taken, lock >>
  /\ UNCHANGED << open, fwUp, streams, flags, locals >>

-----------------------------------------------------------------------------
(* start_streaming() and __start_streaming() *)

\* videobuf2 calls buf_queue() for the buffers it has kept, which drops the
\* mutex to wait for a reset, and then start_streaming(), which waits for a stop.
Enqueue(q) ==
  LET bs == Queued(q) IN
  /\ Hand(bs, "driver")
  /\ incoming' = [incoming EXCEPT ![q] = @ \o SetToSeq(bs)]
  /\ IF bs = {} THEN ssc' = ssc \union {q} /\ Goto(S(q), "onWait")
     ELSE ssc' = ssc /\ Goto(S(q), "onQueue")
  /\ UNCHANGED << active, taken, firmware, pipe, nr, streaming, started, reset, flags, lock,
                  locals >>

\* Bound: a node that was lost is not started again, since its lists may still have
\* buffers, which would be linked twice.
StreamOn(q) == q \notin ssc \union lost /\ pc[S(q)] = "idle" /\ Free(q) /\ Enqueue(q)
StreamOnQueued(q) == pc[S(q)] = "onQueue" /\ ~inReset /\ Free(q) /\ Enqueue(q)

StartWaits(q) ==
  /\ pc[S(q)] = "onWait" /\ ~inStop
  /\ Goto(S(q), "onLock")
  /\ UNCHANGED << lists, firmware, streams, flags, lock, locals >>

\* The pipeline is prepared; without a buffer the start of the stream is left
\* to buf_queue().
Begin(t, q, bs, s) ==
  /\ StreamMutexFree
  /\ pipe' = pipe \union {q} /\ nr' = [nr EXCEPT ![q] = @ + 1]
  /\ IF bs = << >>
     THEN /\ started' = started \union {q}
          /\ incoming' = [incoming EXCEPT ![q] = bs]
          /\ s
          /\ UNCHANGED << taken, lock >>
     ELSE /\ TakeFor(t, q, bs) /\ Locks(q, t)
          /\ Goto(t, "start")
          /\ UNCHANGED started

StartBegins(q) ==
  /\ pc[S(q)] = "onLock" /\ Free(q) /\ MayStart
  /\ Begin(S(q), q, incoming[q], Goto(S(q), "idle"))
  /\ UNCHANGED << vb, active, firmware, ssc, streaming, reset, flags, locals >>

\* OPEN, and START_AND_CAPTURE with the first buffer; a START alone in a reset.
\* Without a firmware context the command goes through a null pointer.
StreamOpens(t) ==
  LET q == on[t] IN
  /\ pc[t] = "start" /\ StreamMutexFree
  /\ IF fwUp
     THEN /\ open' = open \union {q}
          /\ active' = [active EXCEPT ![q] = Append(@, taken[t])]
          /\ fw' = [fw EXCEPT ![q] = IF inReset THEN @ ELSE Append(@, taken[t])]
          /\ Goto(t, "await")
     ELSE Goto(t, "oops") /\ UNCHANGED << open, active, fw >>
  /\ UNCHANGED << vb, incoming, taken, fwUp, streams, flags, lock, locals >>

\* Mutant: no CAPTURE follows a START.
StreamStartedOnly(t) ==
  LET q == on[t] IN
  /\ pc[t] = "await" /\ q \in open
  /\ taken' = [taken EXCEPT ![t] = NoBuf]
  /\ streaming' = streaming \union {q}
  /\ Goto(t, "fill")
  /\ UNCHANGED << vb, incoming, active, firmware, ssc, pipe, nr, started, reset, flags, lock,
                  locals >>

\* Acknowledged; in_reset is read a second time to decide on a CAPTURE.
StreamStarted(t) ==
  LET q == on[t] IN
  /\ pc[t] = "await" /\ q \in open
  /\ fw' = [fw EXCEPT ![q] = IF inReset THEN Append(@, taken[t]) ELSE @]
  /\ taken' = [taken EXCEPT ![t] = NoBuf]
  /\ streaming' = streaming \union {q}
  /\ Goto(t, "fill")
  /\ UNCHANGED << vb, incoming, active, open, fwUp, ssc, pipe, nr, started, reset, flags, lock,
                  locals >>

InOtherNode(t) == on[t] # t[1]   \* only a reset works on another node

\* The power cycle took the stream away, or the restart fails.  For
\* start_streaming() everything is undone; buf_queue() only gives back the frame.
\* Whether the stream stays open, as it does when the sensor fails, makes no difference
\* to a lost node, which is not started again.
StreamNotStarted(t) ==
  LET q == on[t] IN
  /\ pc[t] = "await"
  /\ q \notin open \/ ("restartFails" \in Faults /\ InOtherNode(t))
  /\ taken' = [taken EXCEPT ![t] = NoBuf]
  /\ fw' = [fw EXCEPT ![q] = << >>] /\ open' = open \ {q}
  /\ IF t = B(q)
     THEN /\ Hand(Range(active[q]), "vb2") /\ active' = [active EXCEPT ![q] = << >>]
          /\ UNCHANGED << incoming, pipe, nr, started >>
     ELSE /\ ReturnBuffers(q)
          /\ pipe' = pipe \ {q} /\ nr' = [nr EXCEPT ![q] = @ - 1] /\ started' = started \ {q}
  /\ lost' = IF InOtherNode(t) THEN lost \union {q} ELSE lost
  /\ ssc' = IF t = S(q) THEN ssc \ {q} ELSE ssc
  /\ IF InOtherNode(t) THEN Visit(t, "restart", q + 1) ELSE Goto(t, "idle")
  /\ Unlocks(q)
  /\ UNCHANGED << fwUp, streaming, reset, flags, sawPipe >>

\* The buffers that are there already follow, one after the other.
FillCaptures(t) ==
  LET q == on[t]  b == Head(incoming[q]) IN
  /\ pc[t] = "fill" /\ incoming[q] # << >>
  /\ incoming' = [incoming EXCEPT ![q] = Tail(@)]
  /\ active' = [active EXCEPT ![q] = Append(@, b)]
  /\ IF fwUp THEN fw' = [fw EXCEPT ![q] = Append(@, b)] /\ Goto(t, "fill")
     ELSE UNCHANGED fw /\ Goto(t, "oops")
  /\ UNCHANGED << vb, taken, open, fwUp, streams, flags, lock, locals >>

\* Mutant: buffers behind the first one are left.
FillEndsAtOnce(t) ==
  LET q == on[t] IN
  /\ pc[t] = "fill"
  /\ started' = IF t = B(q) THEN started ELSE started \union {q}
  /\ IF InOtherNode(t) THEN Visit(t, "restart", q + 1) ELSE Goto(t, "idle")
  /\ Unlocks(q)
  /\ UNCHANGED << lists, firmware, ssc, pipe, nr, streaming, reset, flags, locals >>

FillEnds(t) ==
  LET q == on[t] IN
  /\ pc[t] = "fill" /\ incoming[q] = << >>
  /\ started' = IF t = B(q) THEN started ELSE started \union {q}
  /\ IF InOtherNode(t) THEN Visit(t, "restart", q + 1) ELSE Goto(t, "idle")
  /\ Unlocks(q)
  /\ UNCHANGED << lists, firmware, ssc, pipe, nr, streaming, reset, flags, locals >>

-----------------------------------------------------------------------------
(* stop_streaming() *)

\* videobuf2 takes everything back once stop_streaming() has returned, and the
\* ioctl unlocks the mutex.
StopEnds(q) ==
  /\ Hand(BufsOf(q), "user")
  /\ ssc' = ssc \ {q}
  /\ Unlocks(q)
  /\ Goto(S(q), "idle")

StreamOff(q) ==
  /\ q \in ssc /\ pc[S(q)] = "idle" /\ Free(q)
  /\ Goto(S(q), "offWait")
  /\ UNCHANGED << lists, firmware, streams, flags, lock, locals >>

StopWaits(q) ==
  /\ pc[S(q)] = "offWait" /\ ~inReset /\ ~inStop /\ q \in started
  /\ inStop' = TRUE
  /\ Goto(S(q), "offLock")
  /\ UNCHANGED << lists, firmware, streams, inReset, resetNeeded, lock, locals >>

\* A reset could not start the stream again: the stop returns without the mutex,
\* which is unlocked all the same, and leaves the buffers on their lists.
StopReturnsUnlocked(q) ==
  /\ pc[S(q)] = "offWait" /\ ~inReset /\ ~inStop /\ q \notin started
  /\ StopEnds(q)
  /\ UNCHANGED << incoming, active, taken, firmware, pipe, nr, streaming, started, reset, flags,
                  locals >>

\* The node's stream is flushed and closed, if the firmware runs it,
Running(q) == nr[q] = 1 /\ q \in streaming

\* and the pipeline given up.
LeavePipeline(q) ==
  /\ pipe' = pipe \ {q}
  /\ nr' = [nr EXCEPT ![q] = @ - 1]
  /\ streaming' = streaming \ {q}

StopLocks(q) ==
  /\ pc[S(q)] = "offLock" /\ Free(q) /\ StreamMutexFree
  /\ Locks(q, S(q))
  /\ IF Running(q) THEN Goto(S(q), "flush") /\ UNCHANGED << pipe, nr, streaming >>
     ELSE Goto(S(q), "offReturn") /\ LeavePipeline(q)
  /\ UNCHANGED << lists, firmware, ssc, started, reset, flags, locals >>

\* The flush is answered once the frames are done; the close that follows takes
\* away what is not.  If neither is answered the firmware may still write to the
\* buffers of the stream (see IsysQueue), until the power cycle that the active ones
\* ask for.  They are not followed further: nothing knows them any more.
Flush(q) ==
  /\ fw[q] = << >> \/ "hang" \in Faults
  /\ fw' = [fw EXCEPT ![q] = << >>] /\ open' = open \ {q} /\ UNCHANGED fwUp
  /\ LeavePipeline(q)

StopFlushes(q) ==
  /\ pc[S(q)] = "flush" /\ Flush(q)
  /\ Goto(S(q), "offReturn")
  /\ UNCHANGED << lists, ssc, started, reset, flags, lock, locals >>

\* Buffers on the active list call for a reset.
StopReturnsBuffers(q) ==
  /\ pc[S(q)] = "offReturn"
  /\ ReturnBuffers(q)
  /\ resetNeeded' = (resetNeeded \/ active[q] # << >>)
  /\ started' = started \ {q}
  /\ inStop' = FALSE
  /\ Goto(S(q), "offEnd")
  /\ UNCHANGED << taken, firmware, ssc, pipe, nr, streaming, reset, inReset, lock, locals >>

StopReturns(q) ==
  /\ pc[S(q)] = "offEnd"
  /\ IF resetNeeded THEN Goto(S(q), "reset") /\ UNCHANGED << vb, ssc, lock >> ELSE StopEnds(q)
  /\ UNCHANGED << incoming, active, taken, firmware, pipe, nr, streaming, started, reset, flags,
                  locals >>

-----------------------------------------------------------------------------
(* ipu_isys_reset() *)

\* One reset at a time.
ResetBegins(q) ==
  /\ pc[S(q)] = "reset"
  /\ \/ inReset /\ StopEnds(q) /\ UNCHANGED inReset
     \/ /\ ~inReset /\ MayReset
        /\ inReset' = TRUE
        /\ Goto(S(q), "quiesce")
        /\ UNCHANGED << vb, ssc, lock >>
  /\ UNCHANGED << incoming, active, taken, firmware, pipe, nr, streaming, started, reset,
                  inStop, resetNeeded, locals >>

ResetWaits(q) ==
  /\ pc[S(q)] = "quiesce" /\ ~inStop
  /\ Visit(S(q), "scan", 1)
  /\ UNCHANGED << lists, firmware, streams, flags, lock, locals >>

\* A node without a pipeline is passed over without its mutex, one that does not
\* stream with it.
ResetSkips(q) ==
  LET r == on[S(q)] IN
  /\ pc[S(q)] = "scan" /\ r \in Node
  /\ r = q \/ r \notin pipe \/ (Free(r) /\ r \notin started)
  /\ Visit(S(q), "scan", r + 1)
  /\ UNCHANGED << lists, firmware, streams, flags, lock, locals >>

\* reset_stop_streaming()
ResetStops(q) ==
  LET r == on[S(q)] IN
  /\ pc[S(q)] = "scan" /\ r \in (Node \ {q}) \intersect pipe \intersect started
  /\ Free(r) /\ StreamMutexFree
  /\ reset' = reset \union {r}
  /\ \/ /\ Running(r)
        /\ Locks(r, S(q)) /\ Goto(S(q), "flushOther")
        /\ UNCHANGED << pipe, nr, streaming, started >>
     \/ /\ ~Running(r)
        /\ LeavePipeline(r) /\ started' = started \ {r}
        /\ Visit(S(q), "scan", r + 1)
        /\ UNCHANGED lock
  /\ UNCHANGED << lists, firmware, ssc, flags, locals >>

ResetFlushes(q) ==
  LET r == on[S(q)] IN
  /\ pc[S(q)] = "flushOther" /\ Flush(r)
  /\ started' = started \ {r}
  /\ Unlocks(r)
  /\ Visit(S(q), "scan", r + 1)
  /\ UNCHANGED << lists, ssc, reset, flags, locals >>

\* Without another stream the power cycle is left to the last release.
ResetScanned(q) ==
  /\ pc[S(q)] = "scan" /\ on[S(q)] \notin Node
  /\ Goto(S(q), IF reset = {} THEN "resetEnds" ELSE "powerDown")
  /\ UNCHANGED << lists, firmware, streams, flags, lock, locals >>

\* ipu_fw_isys_close() and the suspend callbacks, which clear reset_needed.
PowerDown(q) ==
  /\ pc[S(q)] = "powerDown"
  /\ fwUp' = FALSE /\ open' = {} /\ fw' = [r \in Node |-> << >>]
  /\ resetNeeded' = FALSE
  /\ Goto(S(q), "powerUp")
  /\ UNCHANGED << lists, streams, inReset, inStop, lock, locals >>

PowerUp(q) ==
  /\ pc[S(q)] = "powerUp"
  /\ fwUp' = TRUE
  /\ Visit(S(q), "restart", 1)
  /\ UNCHANGED << lists, fw, open, streams, flags, lock, locals >>

RestartSkips(q) ==
  LET r == on[S(q)] IN
  /\ pc[S(q)] = "restart" /\ r \in Node \ reset
  /\ Visit(S(q), "restart", r + 1)
  /\ UNCHANGED << lists, firmware, streams, flags, lock, locals >>

\* Mutant: buffers that the firmware had are listed again but not unlisted.
RestartsTwice(q) ==
  LET r == on[S(q)] IN
  /\ pc[S(q)] = "restart" /\ r \in reset /\ Free(r)
  /\ reset' = reset \ {r}
  /\ Begin(S(q), r, active[r] \o incoming[r], Visit(S(q), "restart", r + 1))
  /\ UNCHANGED << vb, active, firmware, ssc, streaming, flags, locals >>

\* reset_start_streaming(): buffers the firmware had are the first to be used.
Restarts(q) ==
  LET r == on[S(q)] IN
  /\ pc[S(q)] = "restart" /\ r \in reset /\ Free(r)
  /\ reset' = reset \ {r}
  /\ active' = [active EXCEPT ![r] = << >>]
  /\ Begin(S(q), r, active[r] \o incoming[r], Visit(S(q), "restart", r + 1))
  /\ UNCHANGED << vb, firmware, ssc, streaming, flags, locals >>

\* Mutant: the reset is tried again until all streams run.
RestartedOrAgain(q) ==
  /\ pc[S(q)] = "restart" /\ on[S(q)] \notin Node
  /\ Goto(S(q), IF lost = {} THEN "resetEnds" ELSE "powerDown")
  /\ UNCHANGED << lists, firmware, streams, flags, lock, locals >>

Restarted(q) ==
  /\ pc[S(q)] = "restart" /\ on[S(q)] \notin Node
  /\ Goto(S(q), "resetEnds")
  /\ UNCHANGED << lists, firmware, streams, flags, lock, locals >>

ResetEnds(q) ==
  /\ pc[S(q)] = "resetEnds"
  /\ inReset' = FALSE
  /\ Hand(BufsOf(q), "user") /\ ssc' = ssc \ {q}
  /\ Unlocks(q) /\ Visit(S(q), "idle", q)
  /\ UNCHANGED << incoming, active, taken, firmware, pipe, nr, streaming, started, reset,
                  inStop, resetNeeded, locals >>

-----------------------------------------------------------------------------
\* The firmware finishes its oldest frame; ipu_isys_queue_buf_ready() looks the
\* buffer up on the active list.
BufReady(q) ==
  /\ fw[q] # << >>
  /\ LET b == Head(fw[q]) IN
       /\ fw' = [fw EXCEPT ![q] = Tail(@)]
       /\ \/ \E i \in DOMAIN active[q] :
               /\ active[q][i] = b
               /\ active' = [active EXCEPT ![q] = RemoveAt(@, i)]
               /\ Hand({b}, "user")
          \/ b \notin Range(active[q]) /\ UNCHANGED << active, vb >>
  /\ UNCHANGED << incoming, taken, open, fwUp, streams, flags, control, locals >>

-----------------------------------------------------------------------------
StreamStart(t) ==
  StreamOpens(t) \/ StreamStarted(t) \/ StreamNotStarted(t) \/ FillCaptures(t) \/ FillEnds(t)

\* What the two threads of a node do once an ioctl has begun.
QueueStep(q) == QBufWaits(q) \/ QBufRelocks(q) \/ QBufSubmits(q) \/ StreamStart(B(q))

StreamStep(q) ==
  \/ StreamOnQueued(q) \/ StartWaits(q) \/ StartBegins(q) \/ StreamStart(S(q))
  \/ StopWaits(q) \/ StopReturnsUnlocked(q) \/ StopLocks(q) \/ StopFlushes(q)
  \/ StopReturnsBuffers(q) \/ StopReturns(q)
  \/ ResetBegins(q) \/ ResetWaits(q) \/ ResetSkips(q) \/ ResetStops(q) \/ ResetFlushes(q)
  \/ ResetScanned(q) \/ PowerDown(q) \/ PowerUp(q)
  \/ RestartSkips(q) \/ Restarts(q) \/ Restarted(q) \/ ResetEnds(q)

Next ==
  \E q \in Node :
    QBuf(q) \/ StreamOn(q) \/ StreamOff(q) \/ QueueStep(q) \/ StreamStep(q) \/ BufReady(q)

Spec == Init /\ [][Next]_vars

\* A thread whose mutex or flag is free again and again gets on, as a kernel
\* mutex goes to its longest waiter and the flags are polled.  Nothing is assumed
\* of the firmware: every wait for it is bounded.
Fairness == \A q \in Node : SF_vars(QueueStep(q)) /\ SF_vars(StreamStep(q))

FairSpec == Spec /\ Fairness

-----------------------------------------------------------------------------
(* Properties *)

\* Every buffer the driver has is on one list or in the hands of one start, and no
\* other buffer is: a reset moves what the firmware had back without listing it
\* twice or losing it, whatever is queued meanwhile.
\* (reset_start_streaming, return_buffers, buf_queue)
Occurs(b, seq) == Cardinality({i \in DOMAIN seq : seq[i] = b})

\* A start keeps its buffer in hand until the acknowledgement, active all the same.
Places(b) ==
  Occurs(b, incoming[b[1]]) + Occurs(b, active[b[1]])
  + Cardinality({t \in Thread : taken[t] = b /\ pc[t] = "start"})

BufferInOnePlace ==
  \A b \in Buf : b[1] \in ssc \/ b[1] \notin lost =>
    Places(b) = IF vb[b] = "driver" THEN 1 ELSE 0

\* A node that the application started and has not stopped streams again when
\* no reset is under way, however many there were, and its firmware stream is open
\* and has each of the active buffers once.
\* (ipu_isys_reset, reset_stop_streaming, start_stream_firmware)
Settled(q) == q \in ssc \ lost /\ pc[S(q)] = "idle" /\ Free(q) /\ ~inReset

StreamsComeBack ==
  \A q \in Node : Settled(q) =>
    /\ q \in started /\ nr[q] = 1
    /\ q \in streaming => q \in open /\ fwUp /\ fw[q] = active[q] /\ IsInjective(fw[q])

\* No buffer is left lying on a node that streams: QBUF is on its way with it, or a
\* start takes it.
\* (buf_queue, ipu_isys_stream_start)
NoBufferStalls ==
  \A q \in Node : nr[q] = 1 /\ incoming[q] # << >> /\ Free(q) =>
    pc[B(q)] = "submit" \/ (pc[B(q)] \in {"wait", "relock"} /\ q \in sawPipe)

\* Every call ends, with resets that wait for stops and stops, starts and QBUFs
\* that wait for resets.
\* (ipu_isys_reset, stop_streaming, start_streaming, buf_queue)
CallsEnd ==
  \A t \in Thread : []<>(pc[t] \in {"idle", "oops"})
=============================================================================
