------------------------------ MODULE IsysQueue ------------------------------
(***************************************************************************)
(* The video nodes that share one source, and their buffers                *)
(* (ipu-isys-queue.c).  Nodes whose links are enabled together form one    *)
(* pipeline, kept in the node that was started first.  The firmware stream *)
(* runs while all of them stream; each frame takes a buffer of every node. *)
(*                                                                         *)
(* A buffer that videobuf2 gives to the driver is on its queue's incoming  *)
(* list, in a buffer list some thread works with, or on the active list.   *)
(* Lists are kept oldest first: list_add() appends, list_add_tail() puts   *)
(* in front, list_last_entry() is the head.                                *)
(*                                                                         *)
(* The driver drops the mutex of a node to take the one of the pipeline's  *)
(* node, so every ioctl is a sequence of steps.  No reset runs here.       *)
(***************************************************************************)
EXTENDS Integers, Sequences, FiniteSets, SequencesExt

CONSTANTS
  Node, NoNode,      \* video nodes; the NULL pipeline
  BufsPerNode,       \* buffers each node has allocated,
  DeepNode,          \* and the nodes that have one more
  Restarts,          \* when the application starts a node: "whenAllStopped",
                     \* "oneAtATime" or "any"
  ConcurrentIoctls,  \* can QBUF run in one thread, STREAMON/OFF in another?
  MaxCount,          \* bound: starts counted by one pipeline, streams or nodes
  FailingStarts,     \* the threads whose starts can fail (links, sub-devices,
                     \* firmware or sensor): subset of {"buf", "stream"}
  MsgMayRunOut,      \* can ipu_get_fw_msg_buf() fail?
  SendMayFail,       \* can a CAPTURE command be refused?
  FwMayHang          \* can FLUSH and CLOSE time out with frames unfinished?

ASSUME QueueAssumption ==
  /\ NoNode \notin Node /\ IsFiniteSet(Node)
  /\ DeepNode \subseteq Node
  /\ FailingStarts \subseteq {"buf", "stream"}
  /\ BufsPerNode \in Nat \ {0} /\ MaxCount \in Nat \ {0}

Buf == (Node \X (1 .. BufsPerNode)) \cup (DeepNode \X {BufsPerNode + 1})
NodeOf(b) == b[1]
BufsOf(q) == {b \in Buf : NodeOf(b) = q}

Thread == Node \X {"buf", "stream"}
B(q) == << q, "buf" >>        \* the thread that queues buffers of q
S(q) == << q, "stream" >>     \* the thread that starts and stops q
NoThread == << NoNode, "none" >>

VARIABLES
  vb,          \* [Buf -> {"user", "vb2", "driver"}]: who has the buffer
  ssc,         \* [Node -> BOOLEAN]: start_streaming_called of the vb2 queue
  incoming,    \* [Node -> Seq(Buf)]: aq->incoming
  active,      \* [Node -> SUBSET Buf]: aq->active
  bl,          \* [Thread -> SUBSET Buf]: the buffer list of a thread
  pipe,        \* [Node -> Node]: pads[0].pipe, by the node the pipeline is in
  ip,          \* [Node -> the ipu_isys_pipeline in the node]
  avStreaming, \* [Node -> BOOLEAN]: av->streaming
  inStop,      \* isys->in_stop_streaming
  resetNeeded, \* isys->reset_needed
  lock,        \* [Node -> Thread]: holder of av->mutex across steps
  pc,          \* [Thread -> control state]
  ipOf,        \* [Thread -> Node]: the local variable ip
  first,       \* [Node -> BOOLEAN]: the local variable first of a start
  sawPipe,     \* [Node -> BOOLEAN]: media_pipe of buf_queue() was not NULL
  fw,          \* [Node -> Seq(SUBSET Buf)]: frames the firmware works on
  stray,       \* SUBSET Buf: buffers of frames that it kept when their stream
               \* was given up
  older        \* SUBSET (Buf \X Buf): of two buffers the driver has of a node,
               \* which one was queued first

buffers == << vb, incoming, active, bl, fw, stray, older >>
pipeline == << pipe, ip, avStreaming >>
locals == << ipOf, first, sawPipe >>
flags == << ssc, inStop, resetNeeded >>
vars == << buffers, pipeline, locals, flags, lock, pc >>

OnPhase == {"onWait", "onLock", "onJoin", "onUndo"}
OffPhase == {"offWait", "offLock", "offStop", "flush", "offReturn"}
StartPhase == {"start", "await", "fill"}

TypeOK ==
  /\ vb \in [Buf -> {"user", "vb2", "driver"}]
  /\ ssc \in [Node -> BOOLEAN] /\ avStreaming \in [Node -> BOOLEAN]
  /\ \A q \in Node : incoming[q] \in Seq(BufsOf(q))
  /\ \A q \in Node : active[q] \subseteq BufsOf(q)
  /\ bl \in [Thread -> SUBSET Buf]
  /\ pipe \in [Node -> Node \cup {NoNode}]
  /\ ip \in [Node -> [nrQueues : 0 .. Cardinality(Node), queues : SUBSET Node,
                      nrStreaming : 0 .. MaxCount, streaming : BOOLEAN,
                      startCount : 0 .. MaxCount]]
  /\ inStop \in BOOLEAN /\ resetNeeded \in BOOLEAN
  /\ lock \in [Node -> Thread \cup {NoThread}]
  /\ pc \in [Thread -> {"idle", "relock", "submit", "oops"}
                       \cup OnPhase \cup OffPhase \cup StartPhase]
  /\ ipOf \in [Thread -> Node \cup {NoNode}]
  /\ first \in [Node -> BOOLEAN] /\ sawPipe \in [Node -> BOOLEAN]
  /\ \A q \in Node : fw[q] \in Seq(SUBSET Buf)
  /\ stray \subseteq Buf
  /\ older \subseteq UNION {BufsOf(q) \X BufsOf(q) : q \in Node}

Init ==
  /\ vb = [b \in Buf |-> "user"]
  /\ ssc = [q \in Node |-> FALSE] /\ avStreaming = [q \in Node |-> FALSE]
  /\ incoming = [q \in Node |-> << >>] /\ older = {}
  /\ active = [q \in Node |-> {}]
  /\ bl = [t \in Thread |-> {}]
  /\ pipe = [q \in Node |-> NoNode]
  /\ ip = [q \in Node |-> [nrQueues |-> 0, nrStreaming |-> 0, queues |-> {},
                           streaming |-> FALSE, startCount |-> 0]]
  /\ inStop = FALSE /\ resetNeeded = FALSE
  /\ lock = [q \in Node |-> NoThread]
  /\ pc = [t \in Thread |-> "idle"]
  /\ ipOf = [t \in Thread |-> NoNode]
  /\ first = [q \in Node |-> FALSE] /\ sawPipe = [q \in Node |-> FALSE]
  /\ fw = [q \in Node |-> << >>] /\ stray = {}

-----------------------------------------------------------------------------
(* Locks and lists *)

\* Can thread t have av->mutex of node q?  It may hold it already.
CanLock(q, t) == lock[q] \in {NoThread, t}
Unlocks(q) == lock' = [lock EXCEPT ![q] = NoThread]
Holds(q, t) == lock' = [lock EXCEPT ![q] = t]

\* After work on a pipeline its mutex is dropped for the node's own, which is
\* the same one if the pipeline is in that node.
BackToNode(q, o) == IF o = q THEN Holds(q, S(q)) ELSE Unlocks(o)

\* stream_mutex is held while the firmware is started or stopped, and within
\* single steps elsewhere.
StreamMutexFree == \A t \in Thread : pc[t] \notin {"start", "await", "flush"}

Goto(t, s) == pc' = [pc EXCEPT ![t] = s]

\* Who was first is of no interest once a buffer has gone back.
Forget(bs) == older' = {p \in older : p[1] \notin bs /\ p[2] \notin bs}

\* Mutant: list_add_tail() instead of list_add().
AddedOldest(seq, bs) == SetToSeq(bs) \o seq

\* list_add() of buffers, and list_add_tail().
Added(seq, bs) == seq \o SetToSeq(bs)
PutBack(seq, bs) == SetToSeq(bs) \o seq

\* What is in a list, and what comes before what in it.
In(seq) == {seq[i] : i \in 1 .. Len(seq)}
InOrder(seq) ==
  {p \in In(seq) \X In(seq) : \E i, j \in 1 .. Len(seq) : i < j /\ p = << seq[i], seq[j] >>}

\* videobuf2 gives buffers to the driver: buf_queue() puts them on incoming.
Enqueue(q, bs) ==
  /\ vb' = [b \in Buf |-> IF b \in bs THEN "driver" ELSE vb[b]]
  /\ incoming' = [incoming EXCEPT ![q] = Added(@, bs)]
  /\ older' = older \cup ({b \in BufsOf(q) : vb[b] = "driver"} \X bs) \cup InOrder(SetToSeq(bs))

\* vb2_buffer_done() for the buffers bs.
BuffersDone(bs, to) ==
  /\ vb' = [b \in Buf |-> IF b \in bs THEN to ELSE vb[b]]
  /\ Forget(bs)

\* buffer_list_get(): the oldest buffer of every queue, or none of them.
ListReady(queues) == \A q \in queues : incoming[q] # << >>
BufferList(queues) == {Head(incoming[q]) : q \in queues}

TakeList(queues) ==
  incoming' = [q \in Node |-> IF q \in queues THEN Tail(incoming[q]) ELSE incoming[q]]

\* ipu_isys_buffer_list_queue(.., FL_ACTIVE, ..): it comes before the command,
\* and in one step with it because the firmware cannot answer in between.
Activate(bs) == active' = [q \in Node |-> active[q] \cup (bs \cap BufsOf(q))]
Send(o, bs) == fw' = [fw EXCEPT ![o] = Append(@, bs)]

\* The lists a buffer is on.
Places(b) ==
  Cardinality({i \in DOMAIN incoming[NodeOf(b)] : incoming[NodeOf(b)][i] = b})
  + (IF b \in active[NodeOf(b)] THEN 1 ELSE 0)
  + Cardinality({t \in Thread : b \in bl[t]})

\* Bound: allocation fails at most once before the buffers that were lost with
\* it are back.
MsgRunsOut == MsgMayRunOut /\ \A b \in Buf : vb[b] = "driver" => Places(b) = 1

\* return_buffers(): what is on the lists of q goes back to videobuf2; anything
\* left on the active list calls for a reset.
ReturnBuffers(q) ==
  /\ incoming' = [incoming EXCEPT ![q] = << >>]
  /\ active' = [active EXCEPT ![q] = {}]

\* ip->nr_streaming-- and list_del(&aq->node).
Without(i, q) == [i EXCEPT !.nrStreaming = @ - 1, !.queues = @ \ {q}]

\* media_pipeline_stop_for_vc(): the last stop clears the pointer of every
\* linked entity, whatever pipeline it points to.
PipeAfterStop(q, o) ==
  IF ip[o].startCount = 1 THEN [r \in Node |-> NoNode] ELSE [pipe EXCEPT ![q] = NoNode]

\* The end of stop_streaming() under the locks of the pipeline.
LeavePipeline(q, o) ==
  LET last == ip[o].nrStreaming = 1
      count == ip[o].startCount
      left == [Without(ip[o], q) EXCEPT
                 !.streaming = FALSE,
                 !.startCount = IF last THEN count - 1 ELSE count]
  IN
  /\ pipe' = IF last THEN PipeAfterStop(q, o) ELSE [pipe EXCEPT ![q] = NoNode]
  /\ ip' = [ip EXCEPT ![o] = left]

-----------------------------------------------------------------------------
(* buf_queue() *)

\* VIDIOC_QBUF.  Before the queue has started, videobuf2 keeps the buffer.
QBuf(q) ==
  /\ pc[B(q)] = "idle"
  /\ ConcurrentIoctls \/ pc[S(q)] = "idle"
  /\ lock[q] = NoThread
  /\ \E b \in BufsOf(q) :
       /\ vb[b] = "user"
       /\ \/ /\ ~ ssc[q]
             /\ vb' = [vb EXCEPT ![b] = "vb2"]
             /\ UNCHANGED << incoming, older, sawPipe, pc >>
          \/ /\ ssc[q]
             /\ Enqueue(q, {b})
             /\ sawPipe' = [sawPipe EXCEPT ![q] = pipe[q] # NoNode]
             /\ Goto(B(q), "relock")
  /\ UNCHANGED << active, bl, fw, stray, pipeline, ipOf, first, flags, lock >>

\* av->mutex was dropped to wait for a reset and is taken again.  ip is read
\* anew, but it is the pointer read before that is tested: a pipeline that has
\* gone meanwhile is used all the same.
QBufRelocks(q) ==
  /\ pc[B(q)] = "relock"
  /\ lock[q] = NoThread
  /\ ipOf' = [ipOf EXCEPT ![B(q)] = pipe[q]]
  /\ Goto(B(q), IF ~ sawPipe[q] \/ ~ ssc[q] THEN "idle"
                ELSE IF pipe[q] = NoNode THEN "oops" ELSE "submit")
  /\ UNCHANGED << buffers, pipeline, first, sawPipe, flags, lock >>

\* The rest runs under the mutex of the pipeline's node.
SubmitReady(q) ==
  LET i == ip[ipOf[B(q)]] IN i.nrStreaming = i.nrQueues /\ ListReady(i.queues)

QBufWaits(q) ==
  /\ pc[B(q)] = "submit" /\ CanLock(ipOf[B(q)], B(q))
  /\ ~ SubmitReady(q)
  /\ Goto(B(q), "idle")
  /\ UNCHANGED << buffers, pipeline, locals, flags, lock >>

\* Without a message the buffers just taken stay on no list at all.
QBufNoMsg(q) ==
  /\ MsgRunsOut
  /\ pc[B(q)] = "submit" /\ CanLock(ipOf[B(q)], B(q))
  /\ SubmitReady(q)
  /\ TakeList(ip[ipOf[B(q)]].queues)
  /\ Goto(B(q), "idle")
  /\ UNCHANGED << vb, active, bl, fw, stray, older, pipeline, locals, flags, lock >>

\* The firmware stream was waiting for this buffer.
QBufStarts(q) ==
  LET t == B(q)  o == ipOf[t] IN
  /\ pc[t] = "submit" /\ CanLock(o, t) /\ StreamMutexFree
  /\ SubmitReady(q) /\ ~ ip[o].streaming
  /\ bl' = [bl EXCEPT ![t] = BufferList(ip[o].queues)]
  /\ TakeList(ip[o].queues)
  /\ Holds(o, t)
  /\ Goto(t, "start")
  /\ UNCHANGED << vb, active, fw, stray, older, pipeline, locals, flags >>

QBufCaptures(q) ==
  LET t == B(q)  o == ipOf[t]  frame == BufferList(ip[o].queues) IN
  /\ pc[t] = "submit" /\ CanLock(o, t)
  /\ SubmitReady(q) /\ ip[o].streaming
  /\ TakeList(ip[o].queues)
  /\ Activate(frame)
  /\ Send(o, frame) \/ (SendMayFail /\ UNCHANGED fw)
  /\ Goto(t, "idle")
  /\ UNCHANGED << vb, bl, stray, older, pipeline, locals, flags, lock >>

-----------------------------------------------------------------------------
(* start_streaming() *)

\* Has one node of a pipeline stopped while others still stream?
Draining ==
  \/ \E q \in Node : pc[S(q)] \in OffPhase
  \/ \E o \in Node : ip[o].nrStreaming > 0 /\ \E r \in Node : pipe[r] = NoNode

Starting == \E t \in Thread : pc[t] \in OnPhase \cup StartPhase
OthersIdle == \A t \in Thread : pc[t] = "idle"

\* Bound: no node is started while the firmware has frames of a stream that was
\* given up, without any command (see FillNoMsg) or without an answer.
Abandoned ==
  stray # {} \/ \E o \in Node : fw[o] # << >> /\ ip[o].nrStreaming < ip[o].nrQueues

\* VIDIOC_STREAMON: videobuf2 queues the buffers it has kept, then calls
\* start_streaming(), which waits for a stop under way.
StreamOn(q) ==
  /\ ~ ssc[q] /\ pc[S(q)] = "idle"
  /\ ConcurrentIoctls \/ pc[B(q)] = "idle"
  /\ ~ Abandoned
  /\ Restarts = "whenAllStopped" => ~ Draining
  /\ Restarts = "oneAtATime" => OthersIdle
  /\ lock[q] = NoThread
  /\ Enqueue(q, {b \in BufsOf(q) : vb[b] = "vb2"})
  /\ ssc' = [ssc EXCEPT ![q] = TRUE]
  /\ Goto(S(q), "onWait")
  /\ UNCHANGED << active, bl, fw, stray, pipeline, locals, inStop, resetNeeded, lock >>

StartWaits(q) ==
  /\ pc[S(q)] = "onWait"
  /\ ~ inStop
  /\ Goto(S(q), "onLock")
  /\ UNCHANGED << buffers, pipeline, locals, flags, lock >>

\* start_streaming() fails: buffers on the lists go back to videobuf2, which
\* takes what else the driver still has of them.
StartFails(q) ==
  /\ ReturnBuffers(q)
  /\ resetNeeded' = (resetNeeded \/ active[q] # {})
  /\ BuffersDone({b \in BufsOf(q) : vb[b] = "driver"}, "vb2")
  /\ ssc' = [ssc EXCEPT ![q] = FALSE]
  /\ Goto(S(q), "idle")

\* ipu_isys_video_prepare_streaming(av, 1): the node that finds no pipeline
\* becomes the owner of one, which takes in every linked node without one.
StartPrepares(q) ==
  /\ pc[S(q)] = "onLock" /\ lock[q] = NoThread /\ StreamMutexFree
  /\ pipe[q] = NoNode
  /\ ip[q].startCount = 0
  /\ LET linked == {r \in Node : pipe[r] = NoNode} IN
       /\ pipe' = [r \in Node |-> IF r \in linked THEN q ELSE pipe[r]]
       /\ ip' = [ip EXCEPT ![q].nrQueues = Cardinality(linked), ![q].startCount = 1]
  /\ ipOf' = [ipOf EXCEPT ![S(q)] = q]
  /\ first' = [first EXCEPT ![q] = TRUE]
  /\ Holds(q, S(q))
  /\ Goto(S(q), "onJoin")
  /\ UNCHANGED << buffers, avStreaming, sawPipe, flags >>

\* The links do not validate; or this node's media pipeline still runs for
\* others: then it is not walked, and no external entity is found.
StartPrepareFails(q) ==
  /\ pc[S(q)] = "onLock" /\ lock[q] = NoThread /\ StreamMutexFree
  /\ pipe[q] = NoNode
  /\ LET n == ip[q].startCount IN
       /\ n < MaxCount /\ (n > 0 \/ "stream" \in FailingStarts)
       /\ ip' = [ip EXCEPT ![q].nrQueues = 0, ![q].startCount = IF n = 0 THEN 0 ELSE n + 1]
  /\ StartFails(q)
  /\ UNCHANGED << bl, fw, stray, pipe, avStreaming, locals, inStop, lock >>

\* The pipeline is there already.  The node's own mutex is dropped, unless the
\* pipeline is in this node.
StartFindsPipeline(q) ==
  /\ pc[S(q)] = "onLock" /\ lock[q] = NoThread /\ StreamMutexFree
  /\ pipe[q] # NoNode
  /\ ipOf' = [ipOf EXCEPT ![S(q)] = pipe[q]]
  /\ first' = [first EXCEPT ![q] = FALSE]
  /\ IF pipe[q] = q THEN Holds(q, S(q)) ELSE UNCHANGED lock
  /\ Goto(S(q), "onJoin")
  /\ UNCHANGED << buffers, pipeline, sawPipe, flags >>

\* Under the pipeline's mutex: the last queue to come starts the firmware, if
\* every queue has a buffer.
StartJoins(q) ==
  LET t == S(q)
      o == ipOf[t]
      queues == ip[o].queues \cup {q}
      complete == ip[o].nrStreaming + 1 = ip[o].nrQueues /\ ListReady(queues)
  IN
  /\ pc[t] = "onJoin" /\ CanLock(o, t)
  /\ ip[o].nrStreaming < MaxCount
  /\ ip' = [ip EXCEPT ![o].nrStreaming = @ + 1, ![o].queues = queues]
  /\ \/ /\ ~ complete
        /\ Unlocks(o)
        /\ Goto(t, "idle")
        /\ UNCHANGED << incoming, bl >>
     \/ /\ complete /\ StreamMutexFree
        /\ bl' = [bl EXCEPT ![t] = BufferList(queues)]
        /\ TakeList(queues)
        /\ Holds(o, t)
        /\ Goto(t, "start")
  /\ UNCHANGED << vb, active, fw, stray, older, pipe, avStreaming, locals, flags >>

-----------------------------------------------------------------------------
(* ipu_isys_stream_start(), on behalf of start_streaming() or buf_queue() *)

\* Where a failed start continues.
StartUnwinds(t) ==
  LET o == ipOf[t] IN
  \/ /\ t = B(t[1])
     /\ Unlocks(o)
     /\ Goto(t, "idle")
     /\ UNCHANGED ip
  \/ /\ t = S(t[1])
     /\ BackToNode(t[1], o)
     /\ ip' = [ip EXCEPT ![o] = Without(@, t[1])]
     /\ Goto(t, "onUndo")

\* flush_firmware_streamon_fail(): av->streaming tells what becomes of the
\* active buffers, and it is set for the pipeline's own node only.
Flushed(o) == UNION {active[q] : q \in ip[o].queues}
ToIncoming(o) == {b \in Flushed(o) : avStreaming[NodeOf(b)]}

\* The stream is not started (OPEN, a sub-device, ...): the buffer list goes
\* back to incoming.  For buf_queue() its buffers are also reported as failed,
\* and so are with the user and on the list.
StreamStartFails(t) ==
  LET o == ipOf[t]
      failed == IF t = B(t[1]) THEN bl[t] ELSE {}
  IN
  /\ t[2] \in FailingStarts /\ pc[t] = "start"
  /\ bl' = [bl EXCEPT ![t] = {}]
  /\ incoming' = [q \in Node |-> Added(PutBack(incoming[q], bl[t] \cap BufsOf(q)),
                                       ToIncoming(o) \cap BufsOf(q))]
  /\ active' = [q \in Node |-> active[q] \ Flushed(o)]
  /\ vb' = [b \in Buf |-> IF b \in failed THEN "user"
                          ELSE IF b \in Flushed(o) \ ToIncoming(o) THEN "vb2" ELSE vb[b]]
  /\ Forget(failed \cup (Flushed(o) \ ToIncoming(o)))
  /\ StartUnwinds(t)
  /\ UNCHANGED << fw, stray, pipe, avStreaming, locals, flags >>

\* START_AND_CAPTURE with the first frame.
StreamStarts(t) ==
  /\ pc[t] = "start"
  /\ Activate(bl[t])
  /\ Send(ipOf[t], bl[t])
  /\ bl' = [bl EXCEPT ![t] = {}]
  /\ Goto(t, "await")
  /\ UNCHANGED << vb, incoming, stray, older, pipeline, locals, flags, lock >>

\* A firmware that hangs keeps the frames of o, whose stream is given up all the
\* same: the driver waits for an answer to FLUSH or CLOSE, and ignores its absence.
Keeps(o) ==
  /\ FwMayHang /\ fw[o] # << >>
  /\ stray' = stray \cup UNION In(fw[o])
  /\ fw' = [fw EXCEPT ![o] = << >>]

\* STREAM_FLUSH is answered when the firmware has finished its frames,
\* STREAM_CLOSE takes away those it has not.
Flush(o) == \/ fw[o] = << >> /\ UNCHANGED << fw, stray >>
            \/ Keeps(o)
Close(o) == \/ fw' = [fw EXCEPT ![o] = << >>] /\ UNCHANGED stray
            \/ Keeps(o)

\* Buffers on the active lists are returned as if the firmware had none.
StreamNotStarted(t) ==
  LET o == ipOf[t] IN
  /\ t[2] \in FailingStarts /\ pc[t] = "await"
  /\ active' = [q \in Node |-> active[q] \ Flushed(o)]
  /\ incoming' = [q \in Node |-> Added(incoming[q], ToIncoming(o) \cap BufsOf(q))]
  /\ BuffersDone(Flushed(o) \ ToIncoming(o), "vb2")
  /\ StartUnwinds(t)
  /\ UNCHANGED << bl, pipe, avStreaming, locals, flags >>

\* Mutant: the stream is not closed.
NotAcknowledgedStaysOpen(t) == StreamNotStarted(t) /\ UNCHANGED << fw, stray >>

\* START is refused or not acknowledged: the stream is closed.
StreamNotAcknowledged(t) == StreamNotStarted(t) /\ Close(ipOf[t])

\* The sensor does not start: the stream is flushed and stays open.
SensorFails(t) == StreamNotStarted(t) /\ Flush(ipOf[t])

StreamStarted(t) ==
  LET o == ipOf[t] IN
  /\ pc[t] = "await"
  /\ avStreaming' = [avStreaming EXCEPT ![o] = TRUE]
  /\ ip' = [ip EXCEPT ![o].streaming = TRUE]
  /\ Goto(t, "fill")
  /\ UNCHANGED << buffers, pipe, locals, flags, lock >>

\* Frames that are complete already follow, one after the other.
FillCaptures(t) ==
  LET o == ipOf[t]  frame == BufferList(ip[o].queues) IN
  /\ pc[t] = "fill" /\ ListReady(ip[o].queues)
  /\ TakeList(ip[o].queues)
  /\ Activate(frame)
  /\ \/ /\ Send(o, frame)
        /\ UNCHANGED << pc, lock >>
     \/ /\ SendMayFail
        /\ Goto(t, "idle") /\ Unlocks(o)
        /\ UNCHANGED fw
  /\ UNCHANGED << vb, bl, stray, older, pipeline, locals, flags >>

\* -ENOMEM makes the whole start fail, although the firmware stream runs.
FillNoMsg(t) ==
  LET o == ipOf[t] IN
  /\ MsgRunsOut
  /\ pc[t] = "fill" /\ ListReady(ip[o].queues)
  /\ TakeList(ip[o].queues)
  /\ StartUnwinds(t)
  /\ UNCHANGED << vb, active, bl, fw, stray, older, pipe, avStreaming, locals, flags >>

\* Mutant: the first frame is taken for all there is.
FillEndsAtOnce(t) ==
  /\ pc[t] = "fill"
  /\ Goto(t, "idle") /\ Unlocks(ipOf[t])
  /\ UNCHANGED << buffers, pipeline, locals, flags >>

FillEnds(t) ==
  /\ pc[t] = "fill" /\ ~ ListReady(ip[ipOf[t]].queues)
  /\ Goto(t, "idle") /\ Unlocks(ipOf[t])
  /\ UNCHANGED << buffers, pipeline, locals, flags >>

\* The error path of __start_streaming() once the pipeline's mutex is released.
StartUndone(q) ==
  LET o == ipOf[S(q)] IN
  /\ pc[S(q)] = "onUndo" /\ CanLock(q, S(q)) /\ StreamMutexFree
  /\ IF first[q]
     THEN /\ pipe' = PipeAfterStop(q, o)
          /\ ip' = [ip EXCEPT ![o].startCount = @ - 1]
     ELSE UNCHANGED << pipe, ip >>
  /\ StartFails(q)
  /\ Unlocks(q)
  /\ UNCHANGED << bl, fw, stray, avStreaming, locals, inStop >>

-----------------------------------------------------------------------------
(* stop_streaming() *)

\* VIDIOC_STREAMOFF.  av->start_streaming is set here: only a reset leaves a
\* started queue without it.
StreamOff(q) ==
  /\ ssc[q] /\ pc[S(q)] = "idle"
  /\ ConcurrentIoctls \/ pc[B(q)] = "idle"
  /\ Restarts = "whenAllStopped" => ~ Starting
  /\ Restarts = "oneAtATime" => OthersIdle
  /\ lock[q] = NoThread
  /\ Goto(S(q), "offWait")
  /\ UNCHANGED << buffers, pipeline, locals, flags, lock >>

\* One stop at a time, of all nodes of the device.
StopWaits(q) ==
  /\ pc[S(q)] = "offWait"
  /\ ~ inStop
  /\ inStop' = TRUE
  /\ ipOf' = [ipOf EXCEPT ![S(q)] = pipe[q]]
  /\ Goto(S(q), "offLock")
  /\ UNCHANGED << buffers, pipeline, first, sawPipe, ssc, resetNeeded, lock >>

\* videobuf2 takes everything back once stop_streaming() has returned.
Cancel(q) ==
  /\ BuffersDone(BufsOf(q), "user")
  /\ ssc' = [ssc EXCEPT ![q] = FALSE]

\* Mutant: the buffers on the lists are not returned.
StopFindsNoneReturnsNone(q) ==
  /\ pc[S(q)] = "offLock" /\ lock[q] = NoThread
  /\ ipOf[S(q)] = NoNode
  /\ inStop' = FALSE
  /\ Cancel(q)
  /\ Goto(S(q), "idle")
  /\ UNCHANGED << incoming, active, resetNeeded, bl, fw, stray, pipeline, locals, lock >>

\* The pipeline has been taken down by the stop of another node.
StopFindsNone(q) ==
  /\ pc[S(q)] = "offLock" /\ lock[q] = NoThread
  /\ ipOf[S(q)] = NoNode
  /\ ReturnBuffers(q)
  /\ resetNeeded' = (resetNeeded \/ active[q] # {})
  /\ inStop' = FALSE
  /\ Cancel(q)
  /\ Goto(S(q), "idle")
  /\ UNCHANGED << bl, fw, stray, pipeline, locals, lock >>

StopLocks(q) ==
  /\ pc[S(q)] = "offLock" /\ lock[q] = NoThread
  /\ ipOf[S(q)] # NoNode
  /\ IF ipOf[S(q)] = q THEN Holds(q, S(q)) ELSE UNCHANGED lock
  /\ Goto(S(q), "offStop")
  /\ UNCHANGED << buffers, pipeline, locals, flags >>

\* The first node of a running pipeline to stop stops the firmware stream.
StopFlushes(q) ==
  LET t == S(q)  o == ipOf[t] IN
  /\ pc[t] = "offStop" /\ CanLock(o, t) /\ StreamMutexFree
  /\ ip[o].nrStreaming = ip[o].nrQueues /\ ip[o].streaming
  /\ Holds(o, t)
  /\ Goto(t, "flush")
  /\ UNCHANGED << buffers, pipeline, locals, flags >>

\* FLUSH is waited for, and CLOSE follows in any case.
StopFlushed(q) ==
  LET t == S(q)  o == ipOf[t] IN
  /\ pc[t] = "flush"
  /\ fw[o] = << >> \/ FwMayHang
  /\ Close(o)
  /\ avStreaming' = [avStreaming EXCEPT ![q] = FALSE]
  /\ LeavePipeline(q, o)
  /\ BackToNode(q, o)
  /\ Goto(t, "offReturn")
  /\ UNCHANGED << vb, incoming, active, bl, older, locals, flags >>

\* A pipeline that is not running is left without stopping the firmware.
StopLeaves(q) ==
  LET t == S(q)  o == ipOf[t] IN
  /\ pc[t] = "offStop" /\ CanLock(o, t) /\ StreamMutexFree
  /\ ip[o].nrStreaming # ip[o].nrQueues \/ ~ ip[o].streaming
  /\ LeavePipeline(q, o)
  /\ BackToNode(q, o)
  /\ Goto(t, "offReturn")
  /\ UNCHANGED << buffers, avStreaming, locals, flags >>

\* Mutant: in_stop_streaming is not cleared.
StopReturnsStuck(q) ==
  /\ pc[S(q)] = "offReturn" /\ CanLock(q, S(q))
  /\ ReturnBuffers(q)
  /\ resetNeeded' = (resetNeeded \/ active[q] # {})
  /\ Cancel(q)
  /\ Unlocks(q)
  /\ Goto(S(q), "idle")
  /\ UNCHANGED << bl, fw, stray, pipeline, locals, inStop >>

\* reset_needed survives only if the pipeline is empty: then a reset follows,
\* which finds no other stream to restart here.
StopReturns(q) ==
  /\ pc[S(q)] = "offReturn" /\ CanLock(q, S(q))
  /\ ReturnBuffers(q)
  /\ resetNeeded' = /\ resetNeeded \/ active[q] # {}
                    /\ ip[ipOf[S(q)]].nrStreaming = 0
  /\ inStop' = FALSE
  /\ Cancel(q)
  /\ Unlocks(q)
  /\ Goto(S(q), "idle")
  /\ UNCHANGED << bl, fw, stray, pipeline, locals >>

-----------------------------------------------------------------------------
(* The firmware finishes one pin of its oldest frame after the other, and   *)
(* ipu_isys_queue_buf_ready() looks the buffer up on the active list.       *)

BufReady(o) ==
  /\ fw[o] # << >>
  /\ \E b \in Head(fw[o]) :
       /\ LET rest == Head(fw[o]) \ {b} IN
            fw' = [fw EXCEPT ![o] = IF rest = {} THEN Tail(@) ELSE << rest >> \o Tail(@)]
       /\ IF b \in active[NodeOf(b)]
          THEN /\ active' = [active EXCEPT ![NodeOf(b)] = @ \ {b}]
               /\ BuffersDone({b}, "user")
          ELSE UNCHANGED << active, vb, older >>
  /\ UNCHANGED << incoming, bl, stray, pipeline, locals, flags, lock, pc >>

\* A late pin of a stream that was given up finds no pipeline for its handle, or
\* empty active lists.  (Only a start in buf_queue() after a failed one could have
\* sent the buffer again.)
LateReady(q) ==
  /\ \E b \in stray \cap BufsOf(q) : stray' = stray \ {b}
  /\ UNCHANGED << vb, incoming, active, bl, fw, older, pipeline, locals, flags, lock, pc >>

-----------------------------------------------------------------------------
StreamStart(t) ==
  \/ StreamStartFails(t) \/ StreamStarts(t) \/ StreamNotAcknowledged(t) \/ SensorFails(t)
  \/ StreamStarted(t) \/ FillCaptures(t) \/ FillNoMsg(t) \/ FillEnds(t)

\* What the two threads of a node do once an ioctl has begun.
QueueStep(q) ==
  \/ QBufRelocks(q) \/ QBufWaits(q) \/ QBufNoMsg(q) \/ QBufStarts(q) \/ QBufCaptures(q)
  \/ StreamStart(B(q))

StreamStep(q) ==
  \/ StartWaits(q) \/ StartPrepares(q) \/ StartPrepareFails(q) \/ StartFindsPipeline(q)
  \/ StartJoins(q) \/ StartUndone(q) \/ StreamStart(S(q))
  \/ StopWaits(q) \/ StopFindsNone(q) \/ StopLocks(q) \/ StopFlushes(q)
  \/ StopFlushed(q) \/ StopLeaves(q) \/ StopReturns(q)

Next ==
  \E q \in Node :
    \/ QBuf(q) \/ StreamOn(q) \/ StreamOff(q) \/ QueueStep(q) \/ StreamStep(q)
    \/ BufReady(q) \/ LateReady(q)

Spec == Init /\ [][Next]_vars

\* A thread waiting for a mutex gets it if it is free again and again (the
\* kernel hands a mutex over to its longest waiter).  Nothing is assumed of the
\* firmware, whose answers every wait does without in the end.
Fairness ==
  \A q \in Node :
    SF_vars(QueueStep(q)) /\ SF_vars(StreamStep(q))

FairSpec == Spec /\ Fairness

-----------------------------------------------------------------------------
(* Properties *)

\* Every buffer the driver has is in one place, and no other buffer is in any:
\* nothing is listed twice, kept after it was given back, or lost, except those
\* taken from their queues when no message can be allocated.
BufferInOnePlace ==
  \A b \in Buf : IF vb[b] # "driver" THEN Places(b) = 0
                 ELSE Places(b) = 1 \/ (MsgMayRunOut /\ Places(b) = 0)

\* The firmware writes only to buffers that wait for it on an active list, as
\* long as it answers a FLUSH or CLOSE: what it keeps for want of an answer is
\* stray, and is given back under its hands.
FirmwareBuffersActive ==
  \A o \in Node : \A i \in DOMAIN fw[o] : \A b \in fw[o][i] : b \in active[NodeOf(b)]

\* Is buffer b on its way ahead of c?  Those of the firmware come first, in the
\* order of their frames, then those a thread has taken, then the rest.
InFw(b, o) == \E i \in 1 .. Len(fw[o]) : b \in fw[o][i]
Taken(b) == \E t \in Thread : b \in bl[t]
Listed(b) == b \in In(incoming[NodeOf(b)])

Ahead(o, b, c) ==
  \/ \E i, j \in 1 .. Len(fw[o]) :
       b \in fw[o][i] /\ c \in fw[o][j] /\ (i < j \/ (i = j /\ b # c))
  \/ InFw(b, o) /\ (Taken(c) \/ Listed(c))
  \/ Taken(b) /\ (Listed(c) \/ (Taken(c) /\ b # c))
  \/ << b, c >> \in InOrder(incoming[NodeOf(b)])

\* Frames take the buffers of a node one by one, in the order in which the
\* application queued them.
FifoOrder ==
  \A o \in Node : \A b, c \in Buf :
    NodeOf(b) = NodeOf(c) /\ Ahead(o, b, c) => << b, c >> \in older

\* No complete frame is left lying: when every queue streams and has a buffer,
\* some thread is on its way to take them.
NoStalledFrame ==
  \A o \in Node :
    ip[o].nrStreaming = ip[o].nrQueues /\ ip[o].nrQueues > 0 /\ ListReady(ip[o].queues)
      => \E t \in Thread : pc[t] \in {"relock", "submit", "offStop"} \cup StartPhase

\* A node without a pipeline is not submitted to.
NoPipelineIsSeen == \A q \in Node : pc[B(q)] # "oops"

\* A stop ends: the application gets its buffers back.
StopsEnd == \A q \in Node : pc[S(q)] \in OffPhase ~> pc[S(q)] = "idle"
=============================================================================
