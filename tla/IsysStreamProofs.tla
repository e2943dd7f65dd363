-------------------------- MODULE IsysStreamProofs --------------------------
(***************************************************************************)
(* For every number of pipelines, handles, messages and pins, and whatever *)
(* fails or times out: as long as a pipeline starts, runs or stops, the    *)
(* handle it uses is its own in pipes[].  When neither a command nor the   *)
(* sensor start can fail, no handle outlives its session, and stream_opened*)
(* counts the sessions.  When OPEN is answered as well, the firmware finds *)
(* only commands that its stream is ready for; with one pin per stream and *)
(* without resets each message of the pool has one use.                    *)
(***************************************************************************)
EXTENDS IsysStream, FiniteSetTheorems, WellFoundedInduction, TLAPS

-----------------------------------------------------------------------------

\* get_stream_handle() takes a handle that is free.
LEMMA FirstFreeHandle ==
  ASSUME FreeHandles # {} PROVE Min(FreeHandles) \in FreeHandles
<1>1. FreeHandles \subseteq Nat
  BY StreamAssumption DEF FreeHandles
<1>2. PICK h \in FreeHandles : \A k \in FreeHandles : <<k, h>> \notin OpToRel(<, Nat)
  BY <1>1, NatLessThanWellFounded, WFMin
<1>3. \A k \in FreeHandles : h <= k
  <2> SUFFICES ASSUME NEW k \in FreeHandles, k < h PROVE FALSE
    BY <1>1
  <2>1. <<k, h>> \in Nat \X Nat /\ <<k, h>>[1] < <<k, h>>[2]
    BY <1>1
  <2>2. <<k, h>> \in OpToRel(<, Nat)
    BY <2>1 DEF OpToRel
  <2> QED
    BY <1>2, <2>2
<1> QED
  BY <1>2, <1>3 DEF Min

-----------------------------------------------------------------------------
(* What the steps do to the handles: five kinds, and steps that do nothing *)

Opens(p) ==
  /\ pc[p] = Idle /\ pc' = [pc EXCEPT ![p] = "opening"]
  /\ opened' = opened + 1
  /\ \E h \in FreeHandles : /\ pipes' = [pipes EXCEPT ![h] = p]
                            /\ handle' = [handle EXCEPT ![p] = h]

Refused(p) ==
  /\ pc[p] = Idle /\ UNCHANGED << pc, pipes, opened >>
  /\ handle' = [handle EXCEPT ![p] = NoHandle]

Advances(p) ==
  /\ pc[p] # Idle
  /\ \/ \E s \in Control \ {Idle, "sensorFailed"} : pc' = [pc EXCEPT ![p] = s]
     \/ SensorMayFail /\ pc' = [pc EXCEPT ![p] = "sensorFailed"]
  /\ UNCHANGED << pipes, handle, opened >>

Puts(p) ==
  /\ pc[p] # Idle /\ pc' = [pc EXCEPT ![p] = Idle]
  /\ PutStreamHandle(p) /\ PutStreamOpened

\* The paths that end a session and put nothing back: the sensor did not start,
\* or CLOSE could not be sent.
Abandons(p) ==
  /\ SensorMayFail \/ SendMayFail \/ pc[p] = "sensorFailed"
  /\ pc[p] # Idle /\ pc' = [pc EXCEPT ![p] = Idle]
  /\ UNCHANGED << pipes, handle, opened >>

Keeps == UNCHANGED << pc, pipes, handle, opened >>

LEMMA ProceedKinds ==
  ASSUME NEW p \in Pipe, Proceed(p)
  PROVE  Advances(p) \/ Puts(p) \/ Abandons(p)
<1> USE DEF Goto, Idle, Control
<1>1. CASE OpenEnds(p)
  BY <1>1 DEF OpenEnds, Advances, Puts
<1>2. CASE StartNoMsg(p)
  BY <1>2 DEF StartNoMsg, Puts
<1>3. CASE StartStream(p)
  BY <1>3 DEF StartStream, Advances
<1>4. CASE StartAcknowledged(p)
  BY <1>4 DEF StartAcknowledged, Advances
<1>5. CASE StartNotAcknowledged(p)
  BY <1>5 DEF StartNotAcknowledged, Advances
<1>6. CASE UnwindClose(p)
  BY <1>6 DEF UnwindClose, Advances, Puts
<1>7. CASE UnwindEnds(p)
  BY <1>7 DEF UnwindEnds, Puts
<1>8. CASE SensorStarts(p)
  BY <1>8 DEF SensorStarts, Advances
<1>9. CASE SensorFails(p)
  BY <1>9 DEF SensorFails, Advances, Abandons
<1>10. CASE SensorFailedEnds(p)
  BY <1>10 DEF SensorFailedEnds, Abandons
<1>11. CASE FlushEnds(p)
  BY <1>11 DEF FlushEnds, Advances
<1>12. CASE Close(p)
  BY <1>12 DEF Close, Advances, Abandons, SendOutcome
<1>13. CASE CloseEnds(p)
  BY <1>13 DEF CloseEnds, Puts
<1> QED
  BY <1>1, <1>2, <1>3, <1>4, <1>5, <1>6, <1>7, <1>8, <1>9, <1>10, <1>11, <1>12,
     <1>13 DEF Proceed

LEMMA NextKinds ==
  ASSUME [Next]_vars
  PROVE  \/ Keeps
         \/ \E p \in Pipe : Opens(p) \/ Refused(p) \/ Advances(p) \/ Puts(p) \/ Abandons(p)
<1>1. ASSUME NEW p \in Pipe, StartNoHandle(p) PROVE Keeps
  BY <1>1 DEF StartNoHandle, Keeps
<1>2. ASSUME NEW p \in Pipe, StartOpen(p) PROVE Opens(p)
  BY <1>2, FirstFreeHandle DEF StartOpen, MayStart, Goto, Opens
<1>3. ASSUME NEW p \in Pipe, StartOpenRefused(p) PROVE Refused(p)
  BY <1>3 DEF StartOpenRefused, MayStart, Refused
<1>4. ASSUME NEW p \in Pipe, Capture(p) PROVE Keeps
  BY <1>4 DEF Capture, Keeps, session
<1>5. ASSUME NEW p \in Pipe, Stop(p) PROVE Advances(p)
  BY <1>5 DEF Stop, Goto, Advances, Control, Idle
<1>6. CASE IsrFetch \/ IsrDispatch
  BY <1>6 DEF IsrFetch, IsrDispatch, Keeps, session
<1>7. CASE ResetBegins \/ ResetEnds \/ Reboot
  BY <1>7 DEF ResetBegins, ResetEnds, Reboot, Keeps, session
<1>8. ASSUME NEW h \in Handle, Firmware(h) PROVE Keeps
  BY <1>8 DEF Firmware, FwOpen, FwStart, FwCapture, FwFrame, FwFlush, FwClose,
              Keeps, session
<1>9. CASE UNCHANGED vars
  BY <1>9 DEF vars, session, Keeps
<1> QED
  BY <1>1, <1>2, <1>3, <1>4, <1>5, <1>6, <1>7, <1>8, <1>9, ProceedKinds DEF Next

-----------------------------------------------------------------------------
(* Responses are routed *)

HandleTypes ==
  /\ pc \in [Pipe -> Control]
  /\ pipes \in [Handle -> Pipe \cup {NoPipe}]
  /\ handle \in [Pipe -> Handle \cup {NoHandle}]

RoutingInv == HandleTypes /\ ResponsesAreRouted

LEMMA RoutingInit == Init => RoutingInv
  BY DEF Init, RoutingInv, HandleTypes, ResponsesAreRouted, Control, Idle

LEMMA RoutingNext == RoutingInv /\ [Next]_vars => RoutingInv'
<1> SUFFICES ASSUME RoutingInv, [Next]_vars PROVE RoutingInv'
  OBVIOUS
<1> USE StreamAssumption DEF RoutingInv, HandleTypes, ResponsesAreRouted
<1>1. CASE Keeps
  BY <1>1 DEF Keeps
<1>2. ASSUME NEW p \in Pipe, Opens(p) PROVE RoutingInv'
  \* The handle is free, so it is not the one of another session.
  BY <1>2 DEF Opens, FreeHandles, Control, Idle
<1>3. ASSUME NEW p \in Pipe, Refused(p) PROVE RoutingInv'
  BY <1>3 DEF Refused
<1>4. ASSUME NEW p \in Pipe, Advances(p) PROVE RoutingInv'
  BY <1>4 DEF Advances, Control, Idle
<1>5. ASSUME NEW p \in Pipe, Puts(p) PROVE RoutingInv'
  \* Two sessions have two handles, because pipes[] has one entry for each.
  BY <1>5 DEF Puts, PutStreamHandle, Control, Idle
<1>6. ASSUME NEW p \in Pipe, Abandons(p) PROVE RoutingInv'
  BY <1>6 DEF Abandons, Control, Idle
<1> QED
  BY <1>1, <1>2, <1>3, <1>4, <1>5, <1>6, NextKinds

\* Whatever fails or times out, the responses of a start, a capture or a stop
\* under way are dispatched to the pipeline that runs it.
THEOREM Routing == Spec => []ResponsesAreRouted
<1>1. RoutingInv => ResponsesAreRouted
  BY DEF RoutingInv
<1> QED
  BY <1>1, RoutingInit, RoutingNext, PTL DEF Spec

-----------------------------------------------------------------------------
(* Handles do not leak *)

\* The paths on which the code is known to leave a handle behind are not taken.
NothingAbandoned == SensorMayFail = FALSE /\ SendMayFail = FALSE

\* A taken handle is in the hands of the pipeline that runs on it.
LeakInv ==
  /\ RoutingInv
  /\ \A h \in Handle : pipes[h] # NoPipe => pc[pipes[h]] # Idle /\ handle[pipes[h]] = h
  /\ \A p \in Pipe : pc[p] # "sensorFailed"

LEMMA LeakInit == Init => LeakInv
  BY RoutingInit DEF Init, LeakInv, Idle

LEMMA LeakNext == ASSUME NothingAbandoned PROVE LeakInv /\ [Next]_vars => LeakInv'
<1> SUFFICES ASSUME LeakInv, [Next]_vars PROVE LeakInv'
  OBVIOUS
<1>0. RoutingInv'
  BY RoutingNext DEF LeakInv
<1> USE <1>0, StreamAssumption DEF LeakInv, RoutingInv, HandleTypes
<1>1. CASE Keeps
  BY <1>1 DEF Keeps
<1>2. ASSUME NEW p \in Pipe, Opens(p) PROVE LeakInv'
  BY <1>2 DEF Opens, FreeHandles, Idle
<1>3. ASSUME NEW p \in Pipe, Refused(p) PROVE LeakInv'
  BY <1>3 DEF Refused
<1>4. ASSUME NEW p \in Pipe, Advances(p) PROVE LeakInv'
  BY <1>4 DEF Advances, Control, Idle, NothingAbandoned
<1>5. ASSUME NEW p \in Pipe, Puts(p) PROVE LeakInv'
  BY <1>5 DEF Puts, PutStreamHandle, ResponsesAreRouted, Idle
<1>6. ASSUME NEW p \in Pipe PROVE ~ Abandons(p)
  BY DEF Abandons, NothingAbandoned
<1> QED
  BY <1>1, <1>2, <1>3, <1>4, <1>5, <1>6, NextKinds

\* If neither the sensor start nor a send can fail, no handle stays taken by a
\* pipeline without a stream, in spite of time-outs, refusals and late answers.
THEOREM NoLeak == ASSUME NothingAbandoned PROVE Spec => []NoHandleLeak
<1>1. LeakInv => NoHandleLeak
  BY DEF LeakInv, NoHandleLeak
<1> QED
  BY <1>1, LeakInit, LeakNext, PTL DEF Spec

-----------------------------------------------------------------------------
(* stream_opened counts the sessions *)

Sessions == {p \in Pipe : pc[p] # Idle}

CountInv == LeakInv /\ IsFiniteSet(Sessions) /\ opened = Cardinality(Sessions)

LEMMA CountInit == Init => CountInv
<1> SUFFICES ASSUME Init PROVE CountInv
  OBVIOUS
<1>1. Sessions = {} /\ opened = 0
  BY DEF Init, Sessions, Idle
<1> QED
  BY <1>1, LeakInit, FS_EmptySet DEF CountInv

LEMMA CountNext == ASSUME NothingAbandoned PROVE CountInv /\ [Next]_vars => CountInv'
<1> SUFFICES ASSUME CountInv, [Next]_vars PROVE CountInv'
  OBVIOUS
<1>0. LeakInv'
  BY LeakNext DEF CountInv
<1> USE <1>0 DEF CountInv
<1>a. pc \in [Pipe -> Control]
  BY DEF LeakInv, RoutingInv, HandleTypes
<1>1. CASE Keeps
  BY <1>1 DEF Keeps, Sessions
<1>2. ASSUME NEW p \in Pipe, Opens(p) PROVE CountInv'
  <2>1. p \notin Sessions /\ Sessions' = Sessions \cup {p} /\ opened' = opened + 1
    BY <1>2, <1>a DEF Opens, Sessions, Idle
  <2> QED
    BY <2>1, FS_AddElement
<1>3. ASSUME NEW p \in Pipe, Refused(p) PROVE CountInv'
  BY <1>3 DEF Refused, Sessions
<1>4. ASSUME NEW p \in Pipe, Advances(p) PROVE CountInv'
  <2>1. Sessions' = Sessions /\ opened' = opened
    BY <1>4, <1>a DEF Advances, Sessions, Control, Idle
  <2> QED
    BY <2>1
<1>5. ASSUME NEW p \in Pipe, Puts(p) PROVE CountInv'
  <2>1. p \in Sessions /\ Sessions' = Sessions \ {p} /\ opened' = opened - 1
    BY <1>5, <1>a DEF Puts, PutStreamOpened, Sessions
  <2> QED
    BY <2>1, FS_RemoveElement
<1>6. ASSUME NEW p \in Pipe PROVE ~ Abandons(p)
  BY DEF Abandons, NothingAbandoned, LeakInv
<1> QED
  BY <1>1, <1>2, <1>3, <1>4, <1>5, <1>6, NextKinds

\* If nothing is abandoned, stream_opened is the number of pipelines that are
\* starting, running or stopping: a suspend is refused exactly while one is.
THEOREM OpenedCounts == ASSUME NothingAbandoned PROVE Spec => []OpenedCountsSessions
<1>1. CountInv => OpenedCountsSessions
  BY DEF CountInv, Sessions, OpenedCountsSessions
<1> QED
  BY <1>1, CountInit, CountNext, PTL DEF Spec

-----------------------------------------------------------------------------
(* Types.  TypeOK is strengthened by what each kind of command and response *)
(* carries, and by the message a start holds while it waits.                *)

Commands == [type : {"OPEN", "START_AND_CAPTURE", "CAPTURE"}, msg : Msg]
            \cup [type : {"START", "FLUSH", "CLOSE"}, msg : {NoMsg}]

Responses ==
  [handle : Handle, type : {"PIN_DATA_READY"}, error : BOOLEAN, msg : Msg]
  \cup [handle : Handle, type : {"OPEN_DONE", "START_ACK", "FLUSH_ACK", "CLOSE_ACK"},
        error : BOOLEAN, msg : {NoMsg}]

QueueTypes ==
  /\ toFw \in [Handle -> Seq(Commands)]
  /\ fromFw \in Seq(Responses)
  /\ caps \in [Handle -> Seq(Msg)]
  /\ fwStream \in [Handle -> {"closed", "open", "started"}]
  /\ pin \in [Handle -> 0 .. Pins - 1]
  /\ isr.busy => fromFw # << >>

\* The states of a start that may still fail.
Begun == {"opening", "opened", "starting", "unwind", "unwinding", "sensor", "sensorFailed"}

HostTypes ==
  /\ opened \in Int
  /\ done \in [Pipe -> SUBSET Completion]
  /\ error \in [Pipe -> BOOLEAN]
  /\ msg \in [Pipe -> Msg \cup {NoMsg}]
  /\ free \subseteq Msg /\ inFw = Msg \ free
  /\ inReset \in BOOLEAN
  /\ failed \in [Pipe -> 0 .. MaxFailedStarts]
  /\ isr \in [busy : BOOLEAN, pipe : Pipe \cup {NoPipe}]
  /\ unclosed \subseteq Handle
  /\ \A p \in Pipe : pc[p] \in {"opening", "starting"} => msg[p] \in Msg
  /\ \A p \in Pipe : pc[p] \in Begun => failed[p] < MaxFailedStarts

TypeInv == RoutingInv /\ HostTypes /\ QueueTypes

LEMMA TypeInit == Init => TypeInv
<1> SUFFICES ASSUME Init PROVE TypeInv
  OBVIOUS
<1> USE StreamAssumption DEF Init
<1>1. HostTypes
  <2>1. inFw = Msg \ free /\ free \subseteq Msg
    OBVIOUS
  <2>2. isr \in [busy : BOOLEAN, pipe : Pipe \cup {NoPipe}]
    BY DEF IsrIdle
  <2>3. failed \in [Pipe -> 0 .. MaxFailedStarts]
    OBVIOUS
  <2>4. opened \in Int
    OBVIOUS
  <2>8. inReset \in BOOLEAN
    OBVIOUS
  <2>7. unclosed \subseteq Handle
    OBVIOUS
  <2>5. /\ done \in [Pipe -> SUBSET Completion]
        /\ error \in [Pipe -> BOOLEAN]
        /\ msg \in [Pipe -> Msg \cup {NoMsg}]
    OBVIOUS
  <2>6. \A p \in Pipe : pc[p] \notin Begun
    BY DEF Idle, Begun
  <2> QED
    BY <2>1, <2>2, <2>3, <2>4, <2>5, <2>6, <2>7, <2>8 DEF HostTypes, Begun
<1>2. QueueTypes
  BY DEF QueueTypes, IsrIdle
<1> QED
  BY <1>1, <1>2, RoutingInit DEF TypeInv

LEMMA HostTypesProceed ==
  ASSUME TypeInv, NEW p \in Pipe, Proceed(p) PROVE HostTypes'
<1> USE StreamAssumption DEF TypeInv, RoutingInv, HandleTypes, HostTypes, Goto, Idle,
        Control, Begun, Completion, pool, firmware, Reinit, Completed, Expired,
        PutStreamOpened, StartFailed
<1>1. CASE OpenEnds(p)
  BY <1>1 DEF OpenEnds, PutMsg
<1>2. CASE StartNoMsg(p)
  <2>1. handle[p] \in Handle
    BY <1>2 DEF StartNoMsg, ResponsesAreRouted
  <2>2. unclosed' \subseteq Handle
    <3>1. unclosed' = unclosed \cup {handle[p]}
      BY <1>2 DEF StartNoMsg
    <3>2. unclosed \subseteq Handle
      OBVIOUS
    <3> QED
      BY ONLY <2>1, <3>1, <3>2
  <2>4. failed' \in [Pipe -> 0 .. MaxFailedStarts]
    BY <1>2 DEF StartNoMsg
  <2>3. \A q \in Pipe : pc'[q] \in Begun => failed'[q] < MaxFailedStarts
    BY <1>2 DEF StartNoMsg
  <2> QED
    BY <1>2, <2>2, <2>3, <2>4 DEF StartNoMsg
<1>3. CASE StartStream(p)
  BY <1>3 DEF StartStream, GetMsg
<1>4. CASE StartAcknowledged(p)
  BY <1>4 DEF StartAcknowledged
<1>5. CASE StartNotAcknowledged(p)
  BY <1>5 DEF StartNotAcknowledged
<1>6. CASE UnwindClose(p)
  BY <1>6 DEF UnwindClose
<1>7. CASE UnwindEnds(p)
  BY <1>7 DEF UnwindEnds
<1>8. CASE SensorStarts(p)
  BY <1>8 DEF SensorStarts
<1>9. CASE SensorFails(p)
  BY <1>9 DEF SensorFails
<1>10. CASE SensorFailedEnds(p)
  BY <1>10 DEF SensorFailedEnds
<1>11. CASE FlushEnds(p)
  BY <1>11 DEF FlushEnds
<1>12. CASE Close(p)
  BY <1>12 DEF Close
<1>13. CASE CloseEnds(p)
  BY <1>13 DEF CloseEnds
<1> QED
  BY <1>1, <1>2, <1>3, <1>4, <1>5, <1>6, <1>7, <1>8, <1>9, <1>10, <1>11, <1>12,
     <1>13 DEF Proceed

\* What the interrupt handler reads from the receive queue.
LEMMA OldestResponse ==
  ASSUME QueueTypes, fromFw # << >>
  PROVE  /\ Head(fromFw) = fromFw[1] /\ 1 \in DOMAIN fromFw
         /\ Head(fromFw) \in Responses
         /\ Head(fromFw).handle \in Handle
         /\ Head(fromFw).error \in BOOLEAN
         /\ Head(fromFw).msg \in Msg \cup {NoMsg}
         /\ Head(fromFw).type = "PIN_DATA_READY" => Head(fromFw).msg \in Msg
<1>1. Head(fromFw) \in Responses /\ Head(fromFw) = fromFw[1] /\ 1 \in DOMAIN fromFw
  BY DEF QueueTypes
<1> QED
  BY <1>1 DEF Responses

LEMMA HostTypesNext == TypeInv /\ [Next]_vars => HostTypes'
<1> SUFFICES ASSUME TypeInv, [Next]_vars PROVE HostTypes'
  OBVIOUS
<1> USE StreamAssumption DEF TypeInv, RoutingInv, HandleTypes, HostTypes, Goto, Idle,
        Control, Begun, Completion, pool, firmware, session, Reinit, StartFailed
<1>1. ASSUME NEW p \in Pipe, StartNoHandle(p) PROVE HostTypes'
  BY <1>1 DEF StartNoHandle, MayStart, GetMsg
<1>2. ASSUME NEW p \in Pipe, StartOpen(p) PROVE HostTypes'
  BY <1>2 DEF StartOpen, MayStart, GetMsg
<1>3. ASSUME NEW p \in Pipe, StartOpenRefused(p) PROVE HostTypes'
  BY <1>3 DEF StartOpenRefused, MayStart
<1>4. ASSUME NEW p \in Pipe, Capture(p) PROVE HostTypes'
  BY <1>4 DEF Capture, GetMsg
<1>5. ASSUME NEW p \in Pipe, Stop(p) PROVE HostTypes'
  BY <1>5 DEF Stop
<1>6. CASE IsrFetch
  <2>1. isr' \in [busy : BOOLEAN, pipe : Pipe \cup {NoPipe}]
    BY <1>6, OldestResponse DEF IsrFetch
  <2> QED
    BY <1>6, <2>1 DEF IsrFetch
<1>7. CASE IsrDispatch
  <2> DEFINE r == Head(fromFw)
  <2>1. /\ r.error \in BOOLEAN /\ r.msg \in Msg \cup {NoMsg}
        /\ CompletionOf(r.type) \subseteq Completion
    BY <1>7, OldestResponse DEF IsrDispatch, QueueTypes, CompletionOf
  <2>2. isr' \in [busy : BOOLEAN, pipe : Pipe \cup {NoPipe}]
    BY <1>7 DEF IsrDispatch, IsrIdle
  <2>3. CASE isr.pipe = NoPipe
    BY <1>7, <2>2, <2>3 DEF IsrDispatch
  <2>4. CASE isr.pipe # NoPipe
    <3>1. isr.pipe \in Pipe
      BY <2>4
    <3>2. error' \in [Pipe -> BOOLEAN]
      BY <1>7, <2>1, <2>4, <3>1 DEF IsrDispatch
    <3>3. done' \in [Pipe -> SUBSET Completion]
      <4>1. done' = [done EXCEPT ![isr.pipe] = @ \cup CompletionOf(r.type)]
        BY <1>7, <2>4 DEF IsrDispatch
      <4> QED
        BY <2>1, <3>1, <4>1
    <3>4. free' \subseteq Msg /\ inFw' = Msg \ free'
      BY <1>7, <2>1, <2>4 DEF IsrDispatch, PutMsg
    <3> QED
      BY <1>7, <2>2, <3>2, <3>3, <3>4 DEF IsrDispatch
  <2> QED
    BY <2>3, <2>4
<1>8. CASE ResetBegins \/ ResetEnds
  BY <1>8 DEF ResetBegins, ResetEnds
<1>9. CASE Reboot
  BY <1>9 DEF Reboot
<1>10. ASSUME NEW h \in Handle, Firmware(h) PROVE HostTypes'
  BY <1>10 DEF Firmware, FwOpen, FwStart, FwCapture, FwFrame, FwFlush, FwClose
<1>11. CASE UNCHANGED vars
  BY <1>11 DEF vars
<1> QED
  BY <1>1, <1>2, <1>3, <1>4, <1>5, <1>6, <1>7, <1>8, <1>9, <1>10, <1>11,
     HostTypesProceed DEF Next

-----------------------------------------------------------------------------
(* Queues: what one more and one less entry leave in place *)

LEMMA OneMore ==
  ASSUME NEW S, NEW f \in [Handle -> Seq(S)], NEW h \in Handle, NEW x \in S,
         NEW g, g = [f EXCEPT ![h] = Append(@, x)]
  PROVE  /\ g \in [Handle -> Seq(S)]
         /\ Len(g[h]) = Len(f[h]) + 1 /\ g[h][Len(g[h])] = x
         /\ \A k \in Handle \ {h} : g[k] = f[k]
         /\ \A i \in DOMAIN f[h] : g[h][i] = f[h][i]
         /\ \A k \in Handle : \A i \in DOMAIN g[k] :
              \/ i \in DOMAIN f[k] /\ g[k][i] = f[k][i]
              \/ k = h /\ i = Len(f[h]) + 1 /\ g[k][i] = x
<1>1. g[h] = Append(f[h], x) /\ f[h] \in Seq(S)
  OBVIOUS
<1>2. /\ Len(g[h]) = Len(f[h]) + 1 /\ g[h][Len(g[h])] = x
      /\ \A i \in DOMAIN f[h] : g[h][i] = f[h][i]
      /\ \A i \in DOMAIN g[h] : i \in DOMAIN f[h] \/ i = Len(f[h]) + 1
  BY <1>1
<1>3. \A k \in Handle \ {h} : g[k] = f[k]
  OBVIOUS
<1>4. g \in [Handle -> Seq(S)]
  BY <1>1
<1> QED
  BY <1>2, <1>3, <1>4

LEMMA OneLess ==
  ASSUME NEW S, NEW f \in [Handle -> Seq(S)], NEW h \in Handle, f[h] # << >>,
         NEW g, g = [f EXCEPT ![h] = Tail(@)]
  PROVE  /\ g \in [Handle -> Seq(S)]
         /\ Len(g[h]) = Len(f[h]) - 1
         /\ Head(f[h]) \in S /\ Head(f[h]) = f[h][1]
         /\ \A k \in Handle \ {h} : g[k] = f[k]
         /\ \A i \in DOMAIN g[h] : i + 1 \in DOMAIN f[h] /\ g[h][i] = f[h][i + 1]
<1>1. g[h] = Tail(f[h]) /\ f[h] \in Seq(S)
  OBVIOUS
<1>2. /\ Len(g[h]) = Len(f[h]) - 1
      /\ Head(f[h]) \in S /\ Head(f[h]) = f[h][1]
      /\ \A i \in DOMAIN g[h] : i + 1 \in DOMAIN f[h] /\ g[h][i] = f[h][i + 1]
  BY <1>1
<1>3. \A k \in Handle \ {h} : g[k] = f[k]
  OBVIOUS
<1>4. g \in [Handle -> Seq(S)]
  BY <1>1
<1> QED
  BY <1>2, <1>3, <1>4

\* A step of the host adds at most one command to one queue, and the commands
\* of a handle in use go to the queue of that handle.
Sends(h, c) == c \in Commands /\ toFw' = [toFw EXCEPT ![h] = Append(@, c)]

HostKeepsFirmware == UNCHANGED << fromFw, caps, fwStream, pin, isr >>

LEMMA ProceedSends ==
  ASSUME TypeInv, NEW p \in Pipe, Proceed(p)
  PROVE  /\ HostKeepsFirmware /\ handle[p] \in Handle
         /\ UNCHANGED toFw \/ \E c \in Commands : c.type # "OPEN" /\ Sends(handle[p], c)
<1> USE DEF HostKeepsFirmware, firmware, TypeInv, RoutingInv, ResponsesAreRouted, Idle
<1>a. ASSUME NEW type, NEW m, Send(handle[p], type, m),
             \/ type \in {"START_AND_CAPTURE", "CAPTURE"} /\ m \in Msg
             \/ type \in {"START", "FLUSH", "CLOSE"} /\ m = NoMsg
      PROVE  \E c \in Commands : c.type # "OPEN" /\ Sends(handle[p], c)
  <2>1. [type |-> type, msg |-> m] \in Commands
    BY <1>a DEF Commands
  <2> QED
    BY <1>a, <2>1 DEF Send, Sends
<1>1. CASE OpenEnds(p)
  BY <1>1 DEF OpenEnds
<1>2. CASE StartNoMsg(p)
  BY <1>2 DEF StartNoMsg
<1>3. CASE StartStream(p)
  BY <1>3, <1>a DEF StartStream, HostTypes
<1>4. CASE StartAcknowledged(p)
  BY <1>4, <1>a DEF StartAcknowledged, HostTypes
<1>5. CASE StartNotAcknowledged(p)
  BY <1>5 DEF StartNotAcknowledged
<1>6. CASE UnwindClose(p)
  BY <1>6, <1>a DEF UnwindClose
<1>7. CASE UnwindEnds(p)
  BY <1>7 DEF UnwindEnds
<1>8. CASE SensorStarts(p)
  BY <1>8 DEF SensorStarts
<1>9. CASE SensorFails(p)
  BY <1>9, <1>a DEF SensorFails
<1>10. CASE SensorFailedEnds(p)
  BY <1>10 DEF SensorFailedEnds
<1>11. CASE FlushEnds(p)
  BY <1>11 DEF FlushEnds
<1>12. CASE Close(p)
  BY <1>12, <1>a DEF Close
<1>13. CASE CloseEnds(p)
  BY <1>13 DEF CloseEnds
<1> QED
  BY <1>1, <1>2, <1>3, <1>4, <1>5, <1>6, <1>7, <1>8, <1>9, <1>10, <1>11, <1>12,
     <1>13 DEF Proceed

\* The firmware adds at most one response and takes at most one command.
Adds(r) == fromFw' = Append(fromFw, r)

LEMMA Answered ==
  ASSUME NEW h \in Handle, NEW type, NEW err \in BOOLEAN, NEW m,
         Respond(h, type, err, m),
         \/ type = "PIN_DATA_READY" /\ m \in Msg
         \/ type \in {"OPEN_DONE", "START_ACK", "FLUSH_ACK", "CLOSE_ACK"} /\ m = NoMsg
  PROVE  \E r \in Responses :
            r.handle = h /\ r.type = type /\ r.error = err /\ r.msg = m /\ Adds(r)
<1> DEFINE r == [handle |-> h, type |-> type, error |-> err, msg |-> m]
<1>1. r \in Responses
  BY DEF Responses
<1>2. Adds(r)
  BY DEF Respond, Adds
<1>3. r.handle = h /\ r.type = type /\ r.error = err /\ r.msg = m
  OBVIOUS
<1> QED
  BY <1>1, <1>2, <1>3

LEMMA AddsOne ==
  ASSUME fromFw \in Seq(Responses), NEW r \in Responses, Adds(r)
  PROVE  /\ fromFw' \in Seq(Responses) /\ fromFw' # << >>
         /\ Len(fromFw') = Len(fromFw) + 1 /\ fromFw'[Len(fromFw) + 1] = r
         /\ \A i \in DOMAIN fromFw : i \in DOMAIN fromFw' /\ fromFw'[i] = fromFw[i]
         /\ \A i \in DOMAIN fromFw' :
              \/ i \in DOMAIN fromFw /\ fromFw'[i] = fromFw[i]
              \/ i = Len(fromFw) + 1 /\ fromFw'[i] = r
  BY DEF Adds

LEMMA Taken ==
  ASSUME QueueTypes, NEW h \in Handle, FwTake(h)
  PROVE  /\ toFw' \in [Handle -> Seq(Commands)]
         /\ Head(toFw[h]) = toFw[h][1] /\ 1 \in DOMAIN toFw[h]
         /\ Head(toFw[h]) \in Commands
         /\ Len(toFw'[h]) = Len(toFw[h]) - 1
         /\ \A k \in Handle \ {h} : toFw'[k] = toFw[k]
         /\ \A i \in DOMAIN toFw'[h] :
              i + 1 \in DOMAIN toFw[h] /\ toFw'[h][i] = toFw[h][i + 1]
<1>1. toFw \in [Handle -> Seq(Commands)] /\ toFw[h] # << >>
      /\ toFw' = [toFw EXCEPT ![h] = Tail(@)]
  BY DEF QueueTypes, FwTake
<1>2. Head(toFw[h]) = toFw[h][1] /\ 1 \in DOMAIN toFw[h]
  BY <1>1
<1> QED
  BY <1>1, <1>2, OneLess

LEMMA QueueTypesFirmware ==
  ASSUME QueueTypes, NEW h \in Handle, Firmware(h) PROVE QueueTypes'
<1> USE StreamAssumption DEF Refusal
<1>a. ASSUME NEW type, NEW err \in BOOLEAN, NEW m, Respond(h, type, err, m),
         \/ type = "PIN_DATA_READY" /\ m \in Msg
         \/ type \in {"OPEN_DONE", "START_ACK", "FLUSH_ACK", "CLOSE_ACK"} /\ m = NoMsg
      PROVE  fromFw' \in Seq(Responses) /\ fromFw' # << >>
  <2>1. PICK r \in Responses : Adds(r)
    BY <1>a, Answered
  <2> QED
    BY <2>1, AddsOne DEF QueueTypes
<1>0. /\ toFw \in [Handle -> Seq(Commands)] /\ fromFw \in Seq(Responses)
      /\ caps \in [Handle -> Seq(Msg)]
      /\ fwStream \in [Handle -> {"closed", "open", "started"}]
      /\ pin \in [Handle -> 0 .. Pins - 1]
  BY DEF QueueTypes
<1>1. CASE FwOpen(h)
  <2>1. fromFw' \in Seq(Responses) /\ fromFw' # << >>
    BY <1>1, <1>a, Zenon DEF FwOpen, Legal
  <2> QED
    BY <1>0, <1>1, <2>1, Taken DEF FwOpen, QueueTypes
<1>2. CASE FwStart(h)
  <2>1. fromFw' \in Seq(Responses) /\ fromFw' # << >>
    BY <1>2, <1>a, Zenon DEF FwStart, Legal
  <2>2. caps' \in [Handle -> Seq(Msg)]
    <3>1. Head(toFw[h]).type = "START_AND_CAPTURE" => Head(toFw[h]).msg \in Msg
      BY <1>2, Taken DEF FwStart, Commands
    <3>2. \/ UNCHANGED caps
          \/ /\ Head(toFw[h]).type = "START_AND_CAPTURE"
             /\ caps' = [caps EXCEPT ![h] = Append(@, Head(toFw[h]).msg)]
      BY <1>2 DEF FwStart
    <3> DEFINE m == Head(toFw[h]).msg
    <3>3. ASSUME m \in Msg, caps' = [caps EXCEPT ![h] = Append(@, m)]
          PROVE  caps' \in [Handle -> Seq(Msg)]
      <4> HIDE DEF m
      <4> QED
        BY <1>0, <3>3, OneMore
    <3> QED
      BY <1>0, <3>1, <3>2, <3>3
  <2> QED
    BY <1>0, <1>2, <2>1, <2>2, Taken DEF FwStart, QueueTypes
<1>3. CASE FwCapture(h)
  <2>1. Head(toFw[h]).msg \in Msg
    BY <1>3, Taken DEF FwCapture, Commands
  <2>2. caps' \in [Handle -> Seq(Msg)]
    BY <1>0, <1>3, <2>1, OneMore DEF FwCapture
  <2> QED
    BY <1>0, <1>3, <2>2, Taken DEF FwCapture, QueueTypes
<1>4. CASE FwFrame(h)
  <2>1. Head(caps[h]) \in Msg
    BY <1>0, <1>4 DEF FwFrame
  <2>2. fromFw' \in Seq(Responses) /\ fromFw' # << >>
    BY <1>4, <2>1, <1>a DEF FwFrame
  <2>3. caps' \in [Handle -> Seq(Msg)]
    BY <1>0, <1>4, OneLess DEF FwFrame
  <2>4. pin' \in [Handle -> 0 .. Pins - 1]
    <3>1. pin[h] \in Nat /\ Pins \in Nat \ {0}
      BY <1>0, StreamAssumption DEF QueueTypes
    <3>2. (pin[h] + 1) % Pins \in 0 .. Pins - 1
      BY <3>1
    <3>3. pin' = [pin EXCEPT ![h] = (pin[h] + 1) % Pins]
      BY <1>4 DEF FwFrame
    <3> QED
      BY <1>0, <3>2, <3>3 DEF QueueTypes
  <2>5. UNCHANGED << toFw, fwStream >>
    BY <1>4 DEF FwFrame
  <2> QED
    BY <1>0, <2>2, <2>3, <2>4, <2>5 DEF QueueTypes
<1>5. CASE FwFlush(h)
  <2>1. fromFw' \in Seq(Responses) /\ fromFw' # << >>
    BY <1>5, <1>a, Zenon DEF FwFlush, Legal
  <2> QED
    BY <1>0, <1>5, <2>1, Taken DEF FwFlush, QueueTypes
<1>6. CASE FwClose(h)
  <2>1. fromFw' \in Seq(Responses) /\ fromFw' # << >>
    BY <1>6, <1>a, Zenon DEF FwClose, Legal
  <2>2. toFw' \in [Handle -> Seq(Commands)]
    BY <1>0, <1>6, Taken DEF FwClose
  <2>3. caps' \in [Handle -> Seq(Msg)] /\ fwStream' \in [Handle -> {"closed", "open", "started"}]
    BY <1>0, <1>6 DEF FwClose, QueueTypes
  <2>4. pin' \in [Handle -> 0 .. Pins - 1]
    BY <1>0, <1>6, StreamAssumption DEF FwClose, QueueTypes
  <2> QED
    BY <2>1, <2>2, <2>3, <2>4 DEF QueueTypes
<1> QED
  BY <1>1, <1>2, <1>3, <1>4, <1>5, <1>6 DEF Firmware

LEMMA QueueTypesNext == TypeInv /\ [Next]_vars => QueueTypes'
<1> SUFFICES ASSUME TypeInv, [Next]_vars PROVE QueueTypes'
  OBVIOUS
<1>0. QueueTypes /\ toFw \in [Handle -> Seq(Commands)] /\ fromFw \in Seq(Responses)
  BY DEF TypeInv, QueueTypes
<1>a. ASSUME NEW h \in Handle, NEW c, Sends(h, c), HostKeepsFirmware PROVE QueueTypes'
  <2>1. toFw' \in [Handle -> Seq(Commands)]
    BY <1>0, <1>a, OneMore DEF Sends
  <2> QED
    BY <1>0, <1>a, <2>1 DEF QueueTypes, HostKeepsFirmware
<1>b. ASSUME UNCHANGED toFw, HostKeepsFirmware PROVE QueueTypes'
  BY <1>0, <1>b DEF QueueTypes, HostKeepsFirmware
<1> USE DEF HostKeepsFirmware, session, firmware
<1>1. ASSUME NEW p \in Pipe, StartNoHandle(p) \/ StartOpenRefused(p) PROVE QueueTypes'
  BY <1>1, <1>b DEF StartNoHandle, StartOpenRefused
<1>2. ASSUME NEW p \in Pipe, StartOpen(p) PROVE QueueTypes'
  <2>1. PICK m \in free : Send(Min(FreeHandles), "OPEN", m)
    BY <1>2 DEF StartOpen
  <2>2. Min(FreeHandles) \in Handle
    BY <1>2, FirstFreeHandle DEF StartOpen, FreeHandles
  <2>3. [type |-> "OPEN", msg |-> m] \in Commands
    BY DEF TypeInv, HostTypes, Commands
  <2> QED
    BY <1>2, <1>a, <2>1, <2>2, <2>3 DEF StartOpen, Send, Sends
<1>3. ASSUME NEW p \in Pipe, Proceed(p) PROVE QueueTypes'
  BY <1>3, <1>a, <1>b, ProceedSends
<1>4. ASSUME NEW p \in Pipe, Capture(p) PROVE QueueTypes'
  <2>1. PICK m \in free : Send(handle[p], "CAPTURE", m) \/ UNCHANGED toFw
    BY <1>4 DEF Capture
  <2>2. handle[p] \in Handle
    BY <1>4 DEF Capture, TypeInv, RoutingInv, ResponsesAreRouted, Idle
  <2>3. [type |-> "CAPTURE", msg |-> m] \in Commands
    BY DEF TypeInv, HostTypes, Commands
  <2> QED
    BY <1>4, <1>a, <1>b, <2>1, <2>2, <2>3 DEF Capture, Send, Sends
<1>5. ASSUME NEW p \in Pipe, Stop(p) PROVE QueueTypes'
  <2>1. Send(handle[p], "FLUSH", NoMsg) \/ UNCHANGED toFw
    BY <1>5 DEF Stop
  <2>2. handle[p] \in Handle
    BY <1>5 DEF Stop, TypeInv, RoutingInv, ResponsesAreRouted, Idle
  <2>3. [type |-> "FLUSH", msg |-> NoMsg] \in Commands
    BY DEF Commands
  <2> QED
    BY <1>5, <1>a, <1>b, <2>1, <2>2, <2>3 DEF Stop, Send, Sends
<1>6. CASE IsrFetch
  BY <1>6, <1>0 DEF IsrFetch, QueueTypes
<1>7. CASE IsrDispatch
  <2>1. fromFw' \in Seq(Responses) /\ ~ isr'.busy
    BY <1>7, <1>0 DEF IsrDispatch, IsrIdle, QueueTypes
  <2> QED
    BY <1>7, <1>0, <2>1 DEF IsrDispatch, QueueTypes
<1>8. CASE ResetBegins \/ ResetEnds
  BY <1>8, <1>b DEF ResetBegins, ResetEnds
<1>9. CASE Reboot
  BY <1>9, <1>0, StreamAssumption DEF Reboot, QueueTypes
<1>10. ASSUME NEW h \in Handle, Firmware(h) PROVE QueueTypes'
  BY <1>10, <1>0, QueueTypesFirmware
<1>11. CASE UNCHANGED vars
  BY <1>11, <1>b DEF vars
<1> QED
  BY <1>1, <1>2, <1>3, <1>4, <1>5, <1>6, <1>7, <1>8, <1>9, <1>10, <1>11 DEF Next

LEMMA TypeNext == TypeInv /\ [Next]_vars => TypeInv'
  BY RoutingNext, HostTypesNext, QueueTypesNext DEF TypeInv

\* Types hold in every state; a failed start is never counted above its bound
\* and each message is on one of the two lists.
THEOREM TypeCorrect == Spec => []TypeOK
<1>1. TypeInv => TypeOK
  <2> SUFFICES ASSUME TypeInv PROVE TypeOK
    OBVIOUS
  <2>1. ASSUME NEW h \in Handle, NEW i \in DOMAIN toFw[h]
        PROVE  toFw[h][i] \in [type : Command, msg : Msg \cup {NoMsg}]
    <3>1. toFw[h][i] \in Commands
      BY DEF TypeInv, QueueTypes
    <3> QED
      BY <3>1 DEF Commands, Command
  <2> QED
    BY <2>1 DEF TypeInv, RoutingInv, HandleTypes, HostTypes, QueueTypes, TypeOK
<1> QED
  BY <1>1, TypeInit, TypeNext, PTL DEF Spec

-----------------------------------------------------------------------------
(* stream_mutex: one pipeline at a time starts or stops *)

Busy(p) == pc[p] \notin {Idle, "streaming"}

OneBusy == \A p, q \in Pipe : Busy(p) /\ Busy(q) => p = q

LEMMA ProceedIsBusy ==
  ASSUME NEW p \in Pipe, Proceed(p)
  PROVE  Busy(p) /\ \E s \in Control \ {"opening"} : pc' = [pc EXCEPT ![p] = s]
<1> USE DEF Busy, Goto, Idle, Control
<1>1. CASE OpenEnds(p) \/ StartNoMsg(p) \/ StartStream(p) \/ StartAcknowledged(p)
  BY <1>1 DEF OpenEnds, StartNoMsg, StartStream, StartAcknowledged
<1>2. CASE StartNotAcknowledged(p) \/ UnwindClose(p) \/ UnwindEnds(p)
  BY <1>2 DEF StartNotAcknowledged, UnwindClose, UnwindEnds
<1>3. CASE SensorStarts(p) \/ SensorFails(p) \/ SensorFailedEnds(p)
  BY <1>3 DEF SensorStarts, SensorFails, SensorFailedEnds
<1>4. CASE FlushEnds(p) \/ Close(p) \/ CloseEnds(p)
  BY <1>4 DEF FlushEnds, Close, CloseEnds
<1> QED
  BY <1>1, <1>2, <1>3, <1>4 DEF Proceed

LEMMA OneBusyNext ==
  ASSUME pc \in [Pipe -> Control], OneBusy, [Next]_vars PROVE OneBusy'
<1> USE DEF OneBusy, Busy
<1>1. ASSUME NEW p \in Pipe, Proceed(p) PROVE OneBusy'
  BY <1>1, ProceedIsBusy
<1>2. ASSUME NEW p \in Pipe, StartOpen(p) \/ Stop(p) PROVE OneBusy'
  BY <1>2 DEF StartOpen, Stop, MayStart, StreamMutexFree, Goto
<1>3. ASSUME NEW p \in Pipe, StartNoHandle(p) \/ StartOpenRefused(p) \/ Capture(p)
      PROVE  OneBusy'
  BY <1>3 DEF StartNoHandle, StartOpenRefused, Capture, session
<1>4. CASE IsrFetch \/ IsrDispatch \/ ResetBegins \/ ResetEnds \/ Reboot
  BY <1>4 DEF IsrFetch, IsrDispatch, ResetBegins, ResetEnds, Reboot, session
<1>5. ASSUME NEW h \in Handle, Firmware(h) PROVE OneBusy'
  BY <1>5 DEF Firmware, FwOpen, FwStart, FwCapture, FwFrame, FwFlush, FwClose, session
<1>6. CASE UNCHANGED vars
  BY <1>6 DEF vars, session
<1> QED
  BY <1>1, <1>2, <1>3, <1>4, <1>5, <1>6 DEF Next

-----------------------------------------------------------------------------
(* The wait for OPEN_DONE.  While an OPEN or its answer is on the way, the  *)
(* pipeline that sent it waits for it and has not been told.                *)

OpenIsAnswered == "open" \notin TimeOuts

AwaitsOpen(h) ==
  /\ pipes[h] \in Pipe /\ handle[pipes[h]] = h
  /\ pc[pipes[h]] = "opening" /\ "open" \notin done[pipes[h]]

OpenInv ==
  /\ \A h \in Handle : \A i \in DOMAIN toFw[h] : toFw[h][i].type = "OPEN" =>
       /\ AwaitsOpen(h) /\ msg[pipes[h]] = toFw[h][i].msg
       /\ \A j \in DOMAIN toFw[h] : toFw[h][j].type = "OPEN" => j = i
       /\ \A j \in DOMAIN fromFw : fromFw[j].type # "OPEN_DONE"
  /\ \A i \in DOMAIN fromFw : fromFw[i].type = "OPEN_DONE" =>
       /\ AwaitsOpen(fromFw[i].handle)
       /\ isr.busy /\ i = 1 => isr.pipe = pipes[fromFw[i].handle]
       /\ \A j \in DOMAIN fromFw : fromFw[j].type = "OPEN_DONE" => j = i

NoOpenOut ==
  /\ \A h \in Handle : \A i \in DOMAIN toFw[h] : toFw[h][i].type # "OPEN"
  /\ \A i \in DOMAIN fromFw : fromFw[i].type # "OPEN_DONE"

BaseInv == TypeInv /\ OneBusy /\ OpenInv

\* The opener can do nothing before it is told, and nobody else may start.
LEMMA OpenerBlocks ==
  ASSUME OpenIsAnswered, BaseInv, NEW p \in Pipe, Proceed(p) \/ StreamMutexFree
  PROVE  NoOpenOut
<1>1. ASSUME NEW h \in Handle, AwaitsOpen(h) PROVE FALSE
  <2>1. Busy(pipes[h])
    BY <1>1 DEF AwaitsOpen, Busy, Idle
  <2>2. Proceed(p) /\ p = pipes[h]
    BY <1>1, <2>1, ProceedIsBusy DEF AwaitsOpen, BaseInv, OneBusy, StreamMutexFree, Busy
  <2> QED
    BY <1>1, <2>2 DEF AwaitsOpen, OpenIsAnswered, Proceed, OpenEnds, Completed, Expired,
       StartNoMsg, StartStream, StartAcknowledged, StartNotAcknowledged, UnwindClose,
       UnwindEnds, SensorStarts, SensorFails, SensorFailedEnds, FlushEnds, Close, CloseEnds
<1>2. \A i \in DOMAIN fromFw : fromFw[i].handle \in Handle
  BY DEF BaseInv, TypeInv, QueueTypes, Responses
<1> QED
  BY <1>1, <1>2 DEF NoOpenOut, BaseInv, OpenInv

LEMMA NoOpenSent ==
  ASSUME TypeInv, NoOpenOut, UNCHANGED fromFw, NEW h \in Handle,
         UNCHANGED toFw \/ \E c \in Commands : c.type # "OPEN" /\ Sends(h, c)
  PROVE  NoOpenOut'
<1>1. CASE UNCHANGED toFw
  BY <1>1 DEF NoOpenOut
<1>2. ASSUME NEW c \in Commands, c.type # "OPEN", Sends(h, c) PROVE NoOpenOut'
  <2>1. \A k \in Handle : \A i \in DOMAIN toFw'[k] :
          \/ i \in DOMAIN toFw[k] /\ toFw'[k][i] = toFw[k][i]
          \/ toFw'[k][i] = c
    BY <1>2, OneMore DEF Sends, TypeInv, QueueTypes
  <2> QED
    BY <1>2, <2>1 DEF NoOpenOut
<1> QED
  BY <1>1, <1>2

LEMMA NoOpenInv == NoOpenOut => OpenInv
  BY DEF NoOpenOut, OpenInv

LEMMA OpenInvStartOpen ==
  ASSUME OpenIsAnswered, BaseInv, NEW p \in Pipe, StartOpen(p) PROVE OpenInv'
<1>0. NoOpenOut
  BY OpenerBlocks DEF StartOpen, MayStart
<1>1. PICK h \in Handle, m \in free : /\ Send(h, "OPEN", m)
                                      /\ msg' = [msg EXCEPT ![p] = m]
                                      /\ pipes' = [pipes EXCEPT ![h] = p]
                                      /\ handle' = [handle EXCEPT ![p] = h]
  BY FirstFreeHandle DEF StartOpen, FreeHandles
<1>2. AwaitsOpen(h)' /\ msg'[pipes'[h]] = m /\ UNCHANGED fromFw
  BY <1>1 DEF StartOpen, Reinit, Goto, AwaitsOpen, BaseInv, TypeInv, RoutingInv,
              HandleTypes, HostTypes
<1> DEFINE c == [type |-> "OPEN", msg |-> m]
<1>3. c \in Commands
  BY DEF Commands, BaseInv, TypeInv, HostTypes
<1>4. \A k \in Handle : \A i \in DOMAIN toFw'[k] :
        \/ i \in DOMAIN toFw[k] /\ toFw'[k][i] = toFw[k][i]
        \/ k = h /\ i = Len(toFw[h]) + 1 /\ toFw'[k][i] = c
  <2>1. toFw' = [toFw EXCEPT ![h] = Append(@, c)] /\ toFw \in [Handle -> Seq(Commands)]
    BY <1>1 DEF Send, BaseInv, TypeInv, QueueTypes
  <2> HIDE DEF c
  <2> QED
    BY <1>3, <2>1, OneMore
<1>5. \A k \in Handle : \A i \in DOMAIN toFw'[k] : toFw'[k][i].type = "OPEN" =>
        k = h /\ i = Len(toFw[h]) + 1 /\ toFw'[k][i].msg = m
  BY <1>0, <1>4 DEF NoOpenOut
<1> QED
  BY <1>0, <1>2, <1>5 DEF OpenInv, NoOpenOut

LEMMA OpenInvFirmware ==
  ASSUME BaseInv, NEW h \in Handle, Firmware(h) PROVE OpenInv'
<1>0. QueueTypes /\ OpenInv
  BY DEF BaseInv, TypeInv
<1>1. /\ UNCHANGED isr
      /\ \A k \in Handle : AwaitsOpen(k)' <=> AwaitsOpen(k)
      /\ \A k \in Handle : pipes'[k] = pipes[k] /\ msg'[pipes[k]] = msg[pipes[k]]
  BY DEF Firmware, FwOpen, FwStart, FwCapture, FwFrame, FwFlush, FwClose, session, AwaitsOpen
<1>2. CASE FwOpen(h)
  <2>1. 1 \in DOMAIN toFw[h] /\ toFw[h][1].type = "OPEN"
    BY <1>0, <1>2, Taken DEF FwOpen
  <2>2. \A k \in Handle : \A i \in DOMAIN toFw[k] :
          toFw[k][i].type = "OPEN" => k = h /\ i = 1
    <3> SUFFICES ASSUME NEW k \in Handle, NEW i \in DOMAIN toFw[k], toFw[k][i].type = "OPEN"
                 PROVE  k = h /\ i = 1
      OBVIOUS
    <3>1. AwaitsOpen(k) /\ AwaitsOpen(h)
      BY <1>0, <2>1 DEF OpenInv
    <3>2. pipes[k] = pipes[h]
      BY <3>1 DEF BaseInv, OneBusy, AwaitsOpen, Busy, Idle
    <3>3. k = h
      BY <3>1, <3>2 DEF AwaitsOpen
    <3> QED
      BY <1>0, <2>1, <3>3 DEF OpenInv
  <2>3. \A k \in Handle : \A i \in DOMAIN toFw'[k] : toFw'[k][i].type # "OPEN"
    <3>1. \A k \in Handle \ {h} : toFw'[k] = toFw[k]
      BY <1>0, <1>2, Taken DEF FwOpen
    <3>2. \A i \in DOMAIN toFw'[h] :
              i \in Nat \ {0} /\ i + 1 \in DOMAIN toFw[h] /\ toFw'[h][i] = toFw[h][i + 1]
      BY <1>0, <1>2, Taken DEF FwOpen
    <3> QED
      BY <2>2, <3>1, <3>2
  <2>4. PICK bad \in BOOLEAN : Respond(h, "OPEN_DONE", bad, NoMsg)
    BY <1>2 DEF FwOpen, Refusal, Legal
  <2>5. PICK r \in Responses : r.handle = h /\ r.type = "OPEN_DONE" /\ Adds(r)
    BY <2>4, Answered
  <2>6. AwaitsOpen(h) /\ \A j \in DOMAIN fromFw : fromFw[j].type # "OPEN_DONE"
    BY <1>0, <2>1 DEF OpenInv
  <2>7. \A i \in DOMAIN fromFw' : fromFw'[i].type = "OPEN_DONE" =>
            i = Len(fromFw) + 1 /\ fromFw'[i].handle = h
    BY <1>0, <2>5, <2>6, AddsOne DEF QueueTypes
  <2>8. isr.busy => 1 # Len(fromFw) + 1
    BY <1>0 DEF QueueTypes
  <2> QED
    BY <1>1, <2>3, <2>6, <2>7, <2>8 DEF OpenInv
<1>3. CASE ~ FwOpen(h)
  <2>1. UNCHANGED fromFw \/ \E r \in Responses : r.type # "OPEN_DONE" /\ Adds(r)
    <3>a. ASSUME NEW type \in {"START_ACK", "FLUSH_ACK", "CLOSE_ACK"}, NEW err \in BOOLEAN,
                 Respond(h, type, err, NoMsg)
          PROVE  \E r \in Responses : r.type # "OPEN_DONE" /\ Adds(r)
      <4>1. PICK r \in Responses : r.type = type /\ Adds(r)
        BY <3>a, Answered
      <4> QED
        BY <4>1
    <3>1. CASE FwStart(h)
      BY <3>1, <3>a, Zenon DEF FwStart, Refusal, Legal
    <3>2. CASE FwCapture(h)
      BY <3>2 DEF FwCapture
    <3>3. CASE FwFrame(h)
      <4>1. Head(caps[h]) \in Msg
        BY <1>0, <3>3 DEF FwFrame, QueueTypes
      <4>2. \E err \in BOOLEAN : Respond(h, "PIN_DATA_READY", err, Head(caps[h]))
        BY <3>3 DEF FwFrame
      <4> QED
        BY <4>1, <4>2, Answered
    <3>4. CASE FwFlush(h)
      BY <3>4, <3>a, Zenon DEF FwFlush, Legal
    <3>5. CASE FwClose(h)
      BY <3>5, <3>a, Zenon DEF FwClose, Legal
    <3> QED
      BY <1>3, <3>1, <3>2, <3>3, <3>4, <3>5 DEF Firmware
  <2>2. \A i \in DOMAIN fromFw' : fromFw'[i].type = "OPEN_DONE" =>
           i \in DOMAIN fromFw /\ fromFw'[i] = fromFw[i]
    BY <1>0, <2>1, AddsOne DEF QueueTypes
  <2>3. \/ UNCHANGED toFw
        \/ /\ \A k \in Handle \ {h} : toFw'[k] = toFw[k]
           /\ \A i \in DOMAIN toFw'[h] :
                i + 1 \in DOMAIN toFw[h] /\ toFw'[h][i] = toFw[h][i + 1]
    <3>1. UNCHANGED toFw \/ FwTake(h)
      BY <1>3 DEF Firmware, FwStart, FwCapture, FwFrame, FwFlush, FwClose
    <3> QED
      BY <1>0, <3>1, Taken
  <2>4. \A k \in Handle : \A i \in DOMAIN toFw'[k] : toFw'[k][i].type = "OPEN" =>
              /\ AwaitsOpen(k) /\ msg[pipes[k]] = toFw'[k][i].msg
              /\ \A j \in DOMAIN fromFw : fromFw[j].type # "OPEN_DONE"
    BY <1>0, <2>3 DEF OpenInv
  <2>5. \A k \in Handle : \A i, j \in DOMAIN toFw'[k] :
           toFw'[k][i].type = "OPEN" /\ toFw'[k][j].type = "OPEN" => i = j
    <3>1. QueueTypes'
      BY <1>0, QueueTypesFirmware
    <3>2. \A k \in Handle : \A i \in DOMAIN toFw'[k] : i \in Nat
      BY <3>1 DEF QueueTypes
    <3>3. \A k \in Handle : \A i, j \in DOMAIN toFw[k] :
             toFw[k][i].type = "OPEN" /\ toFw[k][j].type = "OPEN" => i = j
      BY <1>0 DEF OpenInv
    <3> QED
      BY <2>3, <3>2, <3>3
  <2>6. \A i \in DOMAIN fromFw : fromFw[i].handle \in Handle
    BY <1>0 DEF QueueTypes, Responses
  <2> QED
    BY <1>0, <1>1, <2>2, <2>4, <2>5, <2>6 DEF OpenInv
<1> QED
  BY <1>2, <1>3

LEMMA OpenInvDispatch ==
  ASSUME BaseInv, IsrDispatch PROVE OpenInv'
<1> DEFINE r == Head(fromFw)
<1>0. QueueTypes /\ OpenInv /\ HostTypes /\ HandleTypes
  BY DEF BaseInv, TypeInv, RoutingInv
<1>1. /\ r = fromFw[1] /\ 1 \in DOMAIN fromFw /\ r.handle \in Handle
      /\ isr.busy /\ isr'.busy = FALSE
      /\ UNCHANGED << pc, pipes, handle, msg, toFw >>
  BY <1>0, OldestResponse DEF IsrDispatch, QueueTypes, IsrIdle
<1>2. \A i \in DOMAIN fromFw' :
        /\ i \in Nat \ {0} /\ i + 1 \in DOMAIN fromFw
        /\ fromFw'[i] = fromFw[i + 1]
  BY <1>0, <1>1 DEF IsrDispatch, QueueTypes
<1>3. CASE r.type = "OPEN_DONE"
  <2>1. NoOpenOut'
    BY <1>0, <1>1, <1>2, <1>3 DEF OpenInv, NoOpenOut
  <2> QED
    BY <2>1 DEF NoOpenOut, OpenInv
<1>4. CASE r.type # "OPEN_DONE"
  <2>1. "open" \notin CompletionOf(r.type)
    BY <1>4, <1>0, <1>1 DEF CompletionOf, QueueTypes, Responses
  <2>2. \A p \in Pipe : "open" \in done'[p] => "open" \in done[p]
    BY <1>0, <2>1 DEF IsrDispatch, HostTypes
  <2>3. \A h \in Handle : AwaitsOpen(h) => AwaitsOpen(h)'
    BY <1>1, <2>2 DEF AwaitsOpen
  <2>4. \A i \in DOMAIN fromFw : fromFw[i].handle \in Handle
    BY <1>0 DEF QueueTypes, Responses
  <2>5. \A h \in Handle : \A i \in DOMAIN toFw'[h] : toFw'[h][i].type = "OPEN" =>
          /\ AwaitsOpen(h)' /\ msg'[pipes'[h]] = toFw'[h][i].msg
          /\ \A j \in DOMAIN toFw'[h] : toFw'[h][j].type = "OPEN" => j = i
          /\ \A j \in DOMAIN fromFw' : fromFw'[j].type # "OPEN_DONE"
    BY <1>0, <1>1, <1>2, <2>3 DEF OpenInv
  <2>6. \A i \in DOMAIN fromFw' : fromFw'[i].type = "OPEN_DONE" =>
          /\ \A k \in Handle : k = fromFw'[i].handle => AwaitsOpen(k)'
          /\ fromFw'[i].handle \in Handle
          /\ \A j \in DOMAIN fromFw' : fromFw'[j].type = "OPEN_DONE" => j = i
    <3> SUFFICES ASSUME NEW i \in DOMAIN fromFw', fromFw'[i].type = "OPEN_DONE"
                 PROVE  /\ \A k \in Handle : k = fromFw'[i].handle => AwaitsOpen(k)'
                        /\ fromFw'[i].handle \in Handle
                        /\ \A j \in DOMAIN fromFw' : fromFw'[j].type = "OPEN_DONE" => j = i
      OBVIOUS
    <3>1. i + 1 \in DOMAIN fromFw /\ fromFw[i + 1].type = "OPEN_DONE"
          /\ fromFw[i + 1] = fromFw'[i]
      BY <1>2
    <3>2. /\ AwaitsOpen(fromFw[i + 1].handle)
          /\ \A j \in DOMAIN fromFw : fromFw[j].type = "OPEN_DONE" => j = i + 1
      BY <1>0, <3>1 DEF OpenInv
    <3>3. \A j \in DOMAIN fromFw' : fromFw'[j].type = "OPEN_DONE" => j = i
      BY <1>2, <3>2
    <3>4. ASSUME NEW k \in Handle, k = fromFw'[i].handle PROVE AwaitsOpen(k)'
      BY <2>3, <3>1, <3>2, <3>4
    <3> QED
      BY <2>4, <3>1, <3>3, <3>4
  <2> QED
    BY <1>1, <2>5, <2>6 DEF OpenInv
<1> QED
  BY <1>3, <1>4

LEMMA OpenInvNext ==
  ASSUME OpenIsAnswered PROVE BaseInv /\ [Next]_vars => OpenInv'
<1> SUFFICES ASSUME BaseInv, [Next]_vars PROVE OpenInv'
  OBVIOUS
<1>0. TypeInv /\ QueueTypes /\ OpenInv
  BY DEF BaseInv, TypeInv
<1>a. ASSUME NEW p \in Pipe, NEW h \in Handle, NoOpenOut, UNCHANGED fromFw,
             UNCHANGED toFw \/ \E c \in Commands : c.type # "OPEN" /\ Sends(h, c)
      PROVE  OpenInv'
  BY <1>0, <1>a, NoOpenSent DEF NoOpenOut, OpenInv
<1>1. ASSUME NEW p \in Pipe, Proceed(p) PROVE OpenInv'
  BY <1>0, <1>1, <1>a, OpenerBlocks, ProceedSends DEF HostKeepsFirmware
<1>2. ASSUME NEW p \in Pipe, StartOpen(p) PROVE OpenInv'
  BY <1>2, OpenInvStartOpen
<1>3. ASSUME NEW p \in Pipe, StartNoHandle(p) \/ StartOpenRefused(p) PROVE OpenInv'
  <2>1. NoOpenOut
    BY <1>3, OpenerBlocks DEF StartNoHandle, StartOpenRefused, MayStart
  <2> QED
    BY <1>3, <2>1 DEF StartNoHandle, StartOpenRefused, NoOpenOut, OpenInv
<1>4. ASSUME NEW p \in Pipe, Stop(p) PROVE OpenInv'
  <2>1. NoOpenOut /\ handle[p] \in Handle /\ UNCHANGED fromFw
    BY <1>0, <1>4, OpenerBlocks DEF Stop, TypeInv, RoutingInv, ResponsesAreRouted, Idle
  <2>2. [type |-> "FLUSH", msg |-> NoMsg] \in Commands
    BY DEF Commands
  <2>3. UNCHANGED toFw \/ \E c \in Commands : c.type # "OPEN" /\ Sends(handle[p], c)
    BY <1>4, <2>2 DEF Stop, Send, Sends
  <2> QED
    BY <1>a, <2>1, <2>3
<1>5. ASSUME NEW p \in Pipe, Capture(p) PROVE OpenInv'
  <2>1. /\ UNCHANGED << fromFw, isr, pc, pipes, handle, done, msg >>
        /\ \A h \in Handle : AwaitsOpen(h)' <=> AwaitsOpen(h)
    BY <1>5 DEF Capture, session, AwaitsOpen
  <2>2. PICK m \in free : Send(handle[p], "CAPTURE", m) \/ UNCHANGED toFw
    BY <1>5 DEF Capture
  <2>3. handle[p] \in Handle
    BY <1>0, <1>5 DEF Capture, TypeInv, RoutingInv, ResponsesAreRouted, Idle
  <2> DEFINE c == [type |-> "CAPTURE", msg |-> m]
  <2>4. c \in Commands /\ c.type # "OPEN"
    BY <1>0 DEF TypeInv, HostTypes, Commands
  <2>5. UNCHANGED toFw \/ toFw' = [toFw EXCEPT ![handle[p]] = Append(@, c)]
    BY <2>2 DEF Send
  <2>6. \A h \in Handle : \A i \in DOMAIN toFw'[h] : toFw'[h][i].type = "OPEN" =>
           i \in DOMAIN toFw[h] /\ toFw'[h][i] = toFw[h][i]
    <3> HIDE DEF c
    <3>1. CASE UNCHANGED toFw
      BY <3>1
    <3>2. CASE toFw' = [toFw EXCEPT ![handle[p]] = Append(@, c)]
      BY <1>0, <2>3, <2>4, <3>2, OneMore DEF QueueTypes
    <3> QED
      BY <2>5, <3>1, <3>2
  <2>7. \A i \in DOMAIN fromFw : fromFw[i].handle \in Handle
    BY <1>0 DEF QueueTypes, Responses
  <2> QED
    BY <1>0, <2>1, <2>6, <2>7 DEF OpenInv
<1>6. CASE IsrFetch
  <2>1. /\ isr'.pipe = pipes[fromFw[1].handle]
        /\ UNCHANGED << toFw, fromFw, pc, pipes, handle, done, msg >>
    BY <1>0, <1>6, OldestResponse DEF IsrFetch, session, QueueTypes
  <2> QED
    BY <1>0, <2>1 DEF OpenInv, AwaitsOpen
<1>7. CASE IsrDispatch
  BY <1>7, OpenInvDispatch
<1>8. CASE ResetBegins \/ ResetEnds \/ UNCHANGED vars
  BY <1>0, <1>8 DEF ResetBegins, ResetEnds, vars, session, OpenInv, AwaitsOpen
<1>9. CASE Reboot
  BY <1>9 DEF Reboot, OpenInv
<1>10. ASSUME NEW h \in Handle, Firmware(h) PROVE OpenInv'
  BY <1>10, OpenInvFirmware
<1> QED
  BY <1>1, <1>2, <1>3, <1>4, <1>5, <1>6, <1>7, <1>8, <1>9, <1>10 DEF Next

LEMMA BaseInit == Init => BaseInv
<1> SUFFICES ASSUME Init PROVE BaseInv
  OBVIOUS
<1>1. OneBusy /\ OpenInv
  BY DEF Init, OneBusy, Busy, OpenInv
<1> QED
  BY <1>1, TypeInit DEF BaseInv

LEMMA BaseNext == ASSUME OpenIsAnswered PROVE BaseInv /\ [Next]_vars => BaseInv'
<1>1. BaseInv => pc \in [Pipe -> Control]
  BY DEF BaseInv, TypeInv, RoutingInv, HandleTypes
<1> QED
  BY <1>1, TypeNext, OneBusyNext, OpenInvNext DEF BaseInv

-----------------------------------------------------------------------------
(* Frame messages.  Without a second report of a frame, a second submission *)
(* of a capture and a time-out of OPEN, every message in use is in one      *)
(* place: a command, a capture, a response, or the hands of an opener.      *)

OneUse == Pins = 1 /\ ResetMayRun = FALSE /\ OpenIsAnswered

Unshared ==
  /\ \A g, h \in Handle : \A i \in DOMAIN toFw[g], j \in DOMAIN toFw[h] :
       toFw[g][i].msg = toFw[h][j].msg /\ toFw[g][i].msg # NoMsg => g = h /\ i = j
  /\ \A g, h \in Handle : \A i \in DOMAIN caps[g], j \in DOMAIN caps[h] :
       caps[g][i] = caps[h][j] => g = h /\ i = j
  /\ \A i, j \in DOMAIN fromFw :
       fromFw[i].msg = fromFw[j].msg /\ fromFw[i].msg # NoMsg => i = j
  /\ \A g, h \in Handle : \A i \in DOMAIN toFw[g], j \in DOMAIN caps[h] :
       toFw[g][i].msg # caps[h][j]
  /\ \A h \in Handle : \A i \in DOMAIN toFw[h], j \in DOMAIN fromFw :
       toFw[h][i].msg # NoMsg => toFw[h][i].msg # fromFw[j].msg
  /\ \A h \in Handle : \A i \in DOMAIN caps[h], j \in DOMAIN fromFw :
       caps[h][i] # fromFw[j].msg

NotFree ==
  /\ \A h \in Handle : \A i \in DOMAIN toFw[h] : toFw[h][i].msg \notin free
  /\ \A h \in Handle : \A i \in DOMAIN caps[h] : caps[h][i] \notin free
  /\ \A i \in DOMAIN fromFw : fromFw[i].msg \notin free

\* The message of an opener is nowhere but in the OPEN itself.
HeldBy(p) ==
  /\ msg[p] \notin free
  /\ \A h \in Handle : \A i \in DOMAIN toFw[h] :
       toFw[h][i].msg = msg[p] => toFw[h][i].type = "OPEN"
  /\ \A h \in Handle : \A i \in DOMAIN caps[h] : caps[h][i] # msg[p]
  /\ \A i \in DOMAIN fromFw : fromFw[i].msg # msg[p]

Held == \A p \in Pipe : pc[p] = "opening" => HeldBy(p)

MsgInv == BaseInv /\ ~ inReset /\ Unshared /\ NotFree /\ Held

\* A command that carries a message takes it from the pool.
LEMMA MsgSent ==
  ASSUME MsgInv, NEW h \in Handle, NEW c \in Commands, Sends(h, c), HostKeepsFirmware,
         \/ c.msg \in free /\ free' = free \ {c.msg}
         \/ c.msg = NoMsg /\ free' = free
  PROVE  Unshared' /\ NotFree'
<1>0. QueueTypes /\ HostTypes /\ Unshared /\ NotFree
  BY DEF MsgInv, BaseInv, TypeInv
<1>1. \A k \in Handle : \A i \in DOMAIN toFw'[k] :
        \/ i \in DOMAIN toFw[k] /\ toFw'[k][i] = toFw[k][i]
        \/ k = h /\ i = Len(toFw[h]) + 1 /\ toFw'[k][i] = c
  BY <1>0, OneMore DEF Sends, QueueTypes
<1>2. UNCHANGED << caps, fromFw >>
  BY DEF HostKeepsFirmware
<1>3. NoMsg \notin free /\ NoMsg \notin Msg
  BY <1>0, StreamAssumption DEF HostTypes
<1>4. NotFree'
  BY <1>0, <1>1, <1>2, <1>3 DEF NotFree
<1>5. \A g, k \in Handle : \A i \in DOMAIN toFw'[g], j \in DOMAIN toFw'[k] :
        toFw'[g][i].msg = toFw'[k][j].msg /\ toFw'[g][i].msg # NoMsg => g = k /\ i = j
  BY <1>0, <1>1, <1>3 DEF NotFree, Unshared
<1>6. \A g, k \in Handle : \A i \in DOMAIN toFw'[g], j \in DOMAIN caps[k] :
        toFw'[g][i].msg # caps[k][j]
  <2>1. \A k \in Handle : \A j \in DOMAIN caps[k] : caps[k][j] \in Msg \ free
    BY <1>0 DEF QueueTypes, NotFree
  <2> QED
    BY <1>0, <1>1, <1>3, <2>1 DEF Unshared
<1>7. \A k \in Handle : \A i \in DOMAIN toFw'[k], j \in DOMAIN fromFw :
       toFw'[k][i].msg # NoMsg => toFw'[k][i].msg # fromFw[j].msg
  BY <1>0, <1>1, <1>3 DEF NotFree, Unshared
<1> QED
  BY <1>0, <1>2, <1>4, <1>5, <1>6, <1>7 DEF Unshared

\* The firmware forgets a command.
LEMMA MsgTaken ==
  ASSUME MsgInv, NEW h \in Handle, FwTake(h), UNCHANGED free,
         UNCHANGED caps \/ caps' = [caps EXCEPT ![h] = << >>],
         UNCHANGED fromFw \/ \E r \in Responses : r.msg = NoMsg /\ Adds(r)
  PROVE  Unshared' /\ NotFree'
<1>0. QueueTypes /\ HostTypes /\ Unshared /\ NotFree
  BY DEF MsgInv, BaseInv, TypeInv
<1>1. /\ \A k \in Handle \ {h} : toFw'[k] = toFw[k]
      /\ \A i \in DOMAIN toFw'[h] :
           i \in Nat /\ i + 1 \in DOMAIN toFw[h] /\ toFw'[h][i] = toFw[h][i + 1]
  <2>1. \A i \in DOMAIN toFw'[h] : i \in Nat
    BY <1>0, Taken
  <2> QED
    BY <1>0, <2>1, Taken
<1>2. \A k \in Handle : \A i \in DOMAIN caps'[k] : i \in DOMAIN caps[k] /\ caps'[k][i] = caps[k][i]
  <2>1. CASE UNCHANGED caps
    BY <2>1
  <2>2. CASE caps' = [caps EXCEPT ![h] = << >>]
    <3>1. \A k \in Handle : caps'[k] = IF k = h THEN << >> ELSE caps[k]
      BY <1>0, <2>2 DEF QueueTypes
    <3> QED
      BY <3>1
  <2> QED
    BY <2>1, <2>2
<1>3. \A i \in DOMAIN fromFw' :
        (i \in DOMAIN fromFw /\ fromFw'[i] = fromFw[i]) \/ fromFw'[i].msg = NoMsg
  BY <1>0, AddsOne DEF QueueTypes
<1>4. NoMsg \notin free /\ \A k \in Handle : \A i \in DOMAIN caps[k] : caps[k][i] # NoMsg
  BY <1>0, StreamAssumption DEF HostTypes, QueueTypes
<1>5. NotFree'
  BY <1>0, <1>1, <1>2, <1>3, <1>4 DEF NotFree
<1>6. \A g, k \in Handle : \A i \in DOMAIN toFw'[g], j \in DOMAIN toFw'[k] :
        toFw'[g][i].msg = toFw'[k][j].msg /\ toFw'[g][i].msg # NoMsg => g = k /\ i = j
  BY <1>0, <1>1 DEF Unshared
<1>7. \A g, k \in Handle : \A i \in DOMAIN caps'[g], j \in DOMAIN caps'[k] :
        caps'[g][i] = caps'[k][j] => g = k /\ i = j
  BY <1>0, <1>2 DEF Unshared
<1>8. \A i, j \in DOMAIN fromFw' :
        fromFw'[i].msg = fromFw'[j].msg /\ fromFw'[i].msg # NoMsg => i = j
  BY <1>0, <1>3 DEF Unshared
<1>9. \A g, k \in Handle : \A i \in DOMAIN toFw'[g], j \in DOMAIN caps'[k] :
       toFw'[g][i].msg # caps'[k][j]
  BY <1>0, <1>1, <1>2 DEF Unshared
<1>10. \A k \in Handle : \A i \in DOMAIN toFw'[k], j \in DOMAIN fromFw' :
        toFw'[k][i].msg # NoMsg => toFw'[k][i].msg # fromFw'[j].msg
  BY <1>0, <1>1, <1>3 DEF Unshared
<1>11. \A k \in Handle : \A i \in DOMAIN caps'[k], j \in DOMAIN fromFw' :
       caps'[k][i] # fromFw'[j].msg
  BY <1>0, <1>2, <1>3, <1>4 DEF Unshared
<1> QED
  BY <1>5, <1>6, <1>7, <1>8, <1>9, <1>10, <1>11 DEF Unshared

\* The firmware takes the message of a command for a capture.
LEMMA MsgCaptured ==
  ASSUME MsgInv, NEW h \in Handle, FwTake(h), UNCHANGED free,
         Head(toFw[h]).type \in {"START_AND_CAPTURE", "CAPTURE"},
         caps' = [caps EXCEPT ![h] = Append(@, Head(toFw[h]).msg)],
         UNCHANGED fromFw \/ \E r \in Responses : r.msg = NoMsg /\ Adds(r)
  PROVE  Unshared' /\ NotFree'
<1> DEFINE m == toFw[h][1].msg
<1>0. QueueTypes /\ HostTypes /\ Unshared /\ NotFree
  BY DEF MsgInv, BaseInv, TypeInv
<1>1. /\ \A k \in Handle \ {h} : toFw'[k] = toFw[k]
      /\ \A i \in DOMAIN toFw'[h] :
           i \in Nat \ {0} /\ i + 1 \in DOMAIN toFw[h] /\ toFw'[h][i] = toFw[h][i + 1]
      /\ 1 \in DOMAIN toFw[h] /\ m = Head(toFw[h]).msg
  <2>1. \A i \in DOMAIN toFw'[h] : i \in Nat \ {0}
    BY <1>0, Taken
  <2> QED
    BY <1>0, <2>1, Taken
<1>2. m \in Msg \ free /\ m # NoMsg
  BY <1>0, <1>1, Taken, StreamAssumption DEF Commands, NotFree
<1>3. \A k \in Handle : \A i \in DOMAIN caps'[k] :
        \/ i \in DOMAIN caps[k] /\ caps'[k][i] = caps[k][i]
        \/ k = h /\ i = Len(caps[h]) + 1 /\ caps'[k][i] = m
  <2>1. caps \in [Handle -> Seq(Msg)] /\ caps' = [caps EXCEPT ![h] = Append(@, m)]
    BY <1>0, <1>1 DEF QueueTypes
  <2> HIDE DEF m
  <2> QED
    BY <1>2, <2>1, OneMore
<1>4. \A i \in DOMAIN fromFw' :
        (i \in DOMAIN fromFw /\ fromFw'[i] = fromFw[i]) \/ fromFw'[i].msg = NoMsg
  BY <1>0, AddsOne DEF QueueTypes
<1>5. NoMsg \notin free /\ \A k \in Handle : \A i \in DOMAIN caps[k] : caps[k][i] # NoMsg
  BY <1>0, StreamAssumption DEF HostTypes, QueueTypes
<1>a. /\ \A k \in Handle : \A i \in DOMAIN toFw'[k] : toFw'[k][i].msg # m
      /\ \A k \in Handle : \A i \in DOMAIN caps[k] : caps[k][i] # m
      /\ \A i \in DOMAIN fromFw : fromFw[i].msg # m
  <2>1. \A k \in Handle : \A i \in DOMAIN toFw[k] : toFw[k][i].msg = m => k = h /\ i = 1
    BY <1>0, <1>1, <1>2 DEF Unshared
  <2>2. \A k \in Handle : \A i \in DOMAIN toFw'[k] : toFw'[k][i].msg # m
    BY <1>1, <2>1
  <2> QED
    BY <1>0, <1>1, <1>2, <2>2 DEF Unshared
<1> HIDE DEF m
<1>6. NotFree'
  BY <1>0, <1>1, <1>2, <1>3, <1>4, <1>5 DEF NotFree
<1>7. ASSUME NEW g \in Handle, NEW k \in Handle, NEW i \in DOMAIN toFw'[g], NEW j \in DOMAIN toFw'[k],
             toFw'[g][i].msg = toFw'[k][j].msg, toFw'[g][i].msg # NoMsg
      PROVE  g = k /\ i = j
  <2>1. CASE g = h /\ k = h
    <3>1. i + 1 = j + 1 /\ i \in Nat /\ j \in Nat
      BY <1>0, <1>1, <1>7, <2>1 DEF Unshared
    <3> QED
      BY <2>1, <3>1
  <2>2. CASE g # h /\ k # h
    BY <1>0, <1>1, <1>7, <2>2 DEF Unshared
  <2>3. CASE (g = h /\ k # h) \/ (g # h /\ k = h)
    BY <1>0, <1>1, <1>7, <2>3 DEF Unshared
  <2> QED
    BY <2>1, <2>2, <2>3
<1>8. \A g, k \in Handle : \A i \in DOMAIN caps'[g], j \in DOMAIN caps'[k] :
        caps'[g][i] = caps'[k][j] => g = k /\ i = j
  BY <1>0, <1>3, <1>a DEF Unshared
<1>9. \A i, j \in DOMAIN fromFw' :
        fromFw'[i].msg = fromFw'[j].msg /\ fromFw'[i].msg # NoMsg => i = j
  BY <1>0, <1>4 DEF Unshared
<1>10. \A g, k \in Handle : \A i \in DOMAIN toFw'[g], j \in DOMAIN caps'[k] :
       toFw'[g][i].msg # caps'[k][j]
  BY <1>0, <1>1, <1>3, <1>a DEF Unshared
<1>11. \A k \in Handle : \A i \in DOMAIN toFw'[k], j \in DOMAIN fromFw' :
        toFw'[k][i].msg # NoMsg => toFw'[k][i].msg # fromFw'[j].msg
  BY <1>0, <1>1, <1>4 DEF Unshared
<1>12. \A k \in Handle : \A i \in DOMAIN caps'[k], j \in DOMAIN fromFw' :
       caps'[k][i] # fromFw'[j].msg
  BY <1>0, <1>2, <1>3, <1>4, <1>5, <1>a DEF Unshared
<1> QED
  BY <1>6, <1>7, <1>8, <1>9, <1>10, <1>11, <1>12 DEF Unshared

\* A frame is done: its only report takes the message along.
LEMMA MsgReported ==
  ASSUME OneUse, MsgInv, NEW h \in Handle, FwFrame(h)
  PROVE  /\ Unshared' /\ NotFree'
         /\ \E m \in Msg : /\ \E i \in DOMAIN caps[h] : caps[h][i] = m
                          /\ \E r \in Responses : r.msg = m /\ Adds(r)
<1>0. QueueTypes /\ HostTypes /\ Unshared /\ NotFree
  BY DEF MsgInv, BaseInv, TypeInv
<1> DEFINE m == caps[h][1]
<1>1. m \in Msg /\ 1 \in DOMAIN caps[h] /\ m = Head(caps[h])
  BY <1>0 DEF FwFrame, QueueTypes
<1>2. pin[h] = Pins - 1
  BY <1>0 DEF OneUse, QueueTypes
<1>3. /\ \A k \in Handle \ {h} : caps'[k] = caps[k]
      /\ \A i \in DOMAIN caps'[h] :
           i \in Nat \ {0} /\ i + 1 \in DOMAIN caps[h] /\ caps'[h][i] = caps[h][i + 1]
  <2>1. caps \in [Handle -> Seq(Msg)] /\ caps[h] # << >> /\ caps' = [caps EXCEPT ![h] = Tail(@)]
    BY <1>0, <1>2 DEF FwFrame, QueueTypes
  <2>2. caps' \in [Handle -> Seq(Msg)]
    BY <2>1, OneLess
  <2>3. \A i \in DOMAIN caps'[h] : i \in Nat \ {0}
    BY <2>2
  <2> QED
    BY <2>1, <2>3, OneLess
<1>4. PICK r \in Responses : r.msg = m /\ Adds(r)
  <2>1. \E err \in BOOLEAN : Respond(h, "PIN_DATA_READY", err, m)
    BY <1>1 DEF FwFrame
  <2> QED
    BY <1>1, <2>1, Answered
<1>5. \A i \in DOMAIN fromFw' :
        \/ i \in DOMAIN fromFw /\ fromFw'[i] = fromFw[i]
        \/ i = Len(fromFw) + 1 /\ fromFw'[i].msg = m
  BY <1>0, <1>4, AddsOne DEF QueueTypes
<1>6. UNCHANGED << toFw, free >>
  BY DEF FwFrame, pool
<1>a. /\ \A k \in Handle : \A i \in DOMAIN toFw[k] : toFw[k][i].msg # m
      /\ \A k \in Handle : \A i \in DOMAIN caps'[k] : caps'[k][i] # m
      /\ \A i \in DOMAIN fromFw : fromFw[i].msg # m
      /\ m \notin free
  <2>1. \A k \in Handle : \A i \in DOMAIN caps[k] : caps[k][i] = m => k = h /\ i = 1
    BY <1>0, <1>1 DEF Unshared
  <2>2. \A k \in Handle : \A i \in DOMAIN caps'[k] : caps'[k][i] # m
    BY <1>3, <2>1
  <2> QED
    BY <1>0, <1>1, <2>2 DEF Unshared, NotFree
<1> HIDE DEF m
<1>7. NotFree'
  BY <1>0, <1>3, <1>5, <1>6, <1>a DEF NotFree
<1>8. \A g, k \in Handle : \A i \in DOMAIN caps'[g], j \in DOMAIN caps'[k] :
        caps'[g][i] = caps'[k][j] => g = k /\ i = j
  BY <1>0, <1>3 DEF Unshared
<1>9. \A i, j \in DOMAIN fromFw' :
        fromFw'[i].msg = fromFw'[j].msg /\ fromFw'[i].msg # NoMsg => i = j
  BY <1>0, <1>5, <1>a DEF Unshared
<1>10. \A g, k \in Handle : \A i \in DOMAIN toFw[g], j \in DOMAIN caps'[k] :
       toFw[g][i].msg # caps'[k][j]
  BY <1>0, <1>3 DEF Unshared
<1>11. \A k \in Handle : \A i \in DOMAIN toFw[k], j \in DOMAIN fromFw' :
        toFw[k][i].msg # NoMsg => toFw[k][i].msg # fromFw'[j].msg
  BY <1>0, <1>5, <1>a DEF Unshared
<1>12. \A k \in Handle : \A i \in DOMAIN caps'[k], j \in DOMAIN fromFw' :
       caps'[k][i] # fromFw'[j].msg
  BY <1>0, <1>3, <1>5, <1>a DEF Unshared
<1>13. Unshared'
  BY <1>0, <1>6, <1>8, <1>9, <1>10, <1>11, <1>12 DEF Unshared
<1> QED
  BY <1>1, <1>4, <1>7, <1>13 DEF m

\* The interrupt handler puts the message of a finished frame back.
LEMMA MsgDispatched ==
  ASSUME MsgInv, IsrDispatch PROVE Unshared' /\ NotFree' /\ Held'
<1> DEFINE r == Head(fromFw)
<1>0. QueueTypes /\ HostTypes /\ Unshared /\ NotFree /\ Held
  BY DEF MsgInv, BaseInv, TypeInv
<1>1. /\ r = fromFw[1] /\ 1 \in DOMAIN fromFw
      /\ UNCHANGED << pc, msg, toFw, caps >>
  BY <1>0, OldestResponse DEF IsrDispatch, QueueTypes, firmware
<1>2. \A i \in DOMAIN fromFw' :
        i \in Nat \ {0} /\ i + 1 \in DOMAIN fromFw /\ fromFw'[i] = fromFw[i + 1]
  BY <1>0, <1>1 DEF IsrDispatch, QueueTypes
<1>3. \A m \in free' : m \in free \/ (m = fromFw[1].msg /\ m # NoMsg)
  <2>1. UNCHANGED pool \/ PutMsg(r.msg)
    BY DEF IsrDispatch
  <2>2. UNCHANGED free \/ (r.msg # NoMsg /\ free' = free \cup {r.msg})
    BY <2>1 DEF PutMsg, pool
  <2> QED
    BY <1>1, <2>2
<1>4. fromFw[1].msg # NoMsg =>
        /\ \A h \in Handle : \A i \in DOMAIN toFw[h] : toFw[h][i].msg # fromFw[1].msg
        /\ \A i \in DOMAIN fromFw' : fromFw'[i].msg # fromFw[1].msg
  BY <1>0, <1>1, <1>2 DEF Unshared
<1>5. \A h \in Handle : \A i \in DOMAIN caps[h] : caps[h][i] # fromFw[1].msg
  BY <1>0, <1>1 DEF Unshared
<1>6. NotFree'
  BY <1>0, <1>1, <1>2, <1>3, <1>4, <1>5 DEF NotFree
<1>7. Unshared'
  <2>1. \A i, j \in DOMAIN fromFw' :
          fromFw'[i].msg = fromFw'[j].msg /\ fromFw'[i].msg # NoMsg => i = j
    BY <1>0, <1>2 DEF Unshared
  <2>2. \A k \in Handle : \A i \in DOMAIN toFw[k], j \in DOMAIN fromFw' :
          toFw[k][i].msg # NoMsg => toFw[k][i].msg # fromFw'[j].msg
    BY <1>0, <1>2 DEF Unshared
  <2>3. \A k \in Handle : \A i \in DOMAIN caps[k], j \in DOMAIN fromFw' :
          caps[k][i] # fromFw'[j].msg
    BY <1>0, <1>2 DEF Unshared
  <2> QED
    BY <1>0, <1>1, <2>1, <2>2, <2>3 DEF Unshared
<1>8. Held'
  BY <1>0, <1>1, <1>2, <1>3 DEF Held, HeldBy
<1> QED
  BY <1>6, <1>7, <1>8

LEMMA MsgProceed ==
  ASSUME OneUse, MsgInv, NEW p \in Pipe, Proceed(p)
  PROVE  Unshared' /\ NotFree' /\ Held'
<1>0. /\ QueueTypes /\ HostTypes /\ Unshared /\ NotFree /\ Held
      /\ BaseInv /\ TypeInv /\ ~ inReset
  BY DEF MsgInv, BaseInv, TypeInv
<1>1. Held'
  <2>1. \A q \in Pipe : pc'[q] # "opening"
    BY <1>0, ProceedIsBusy DEF BaseInv, OneBusy, TypeInv, RoutingInv, HandleTypes, Busy, Idle
  <2> QED
    BY <2>1 DEF Held
<1>2. NoOpenOut
  BY <1>0, OpenerBlocks DEF OneUse
<1>3. HostKeepsFirmware /\ handle[p] \in Handle
  BY <1>0, ProceedSends
<1>a. ASSUME UNCHANGED toFw, free' \subseteq free PROVE Unshared' /\ NotFree'
  BY <1>0, <1>3, <1>a DEF Unshared, NotFree, HostKeepsFirmware
<1>b. ASSUME NEW type \in {"FLUSH", "CLOSE"}, Send(handle[p], type, NoMsg), UNCHANGED free
      PROVE  Unshared' /\ NotFree'
  <2> DEFINE c == [type |-> type, msg |-> NoMsg]
  <2>1. c \in Commands /\ c.msg = NoMsg /\ Sends(handle[p], c)
    BY <1>b DEF Commands, Send, Sends
  <2> QED
    BY <1>3, <1>b, <2>1, MsgSent
<1>c. ASSUME NEW m \in free, GetMsg(m), Send(handle[p], "START_AND_CAPTURE", m)
      PROVE  Unshared' /\ NotFree'
  <2> DEFINE c == [type |-> "START_AND_CAPTURE", msg |-> m]
  <2>1. c \in Commands /\ c.msg = m /\ Sends(handle[p], c)
    BY <1>0, <1>c DEF Commands, Send, Sends, HostTypes
  <2> QED
    BY <1>3, <1>c, <2>1, MsgSent DEF GetMsg
<1>4. CASE OpenEnds(p)
  <2>1. free' = free \cup {msg[p]} /\ UNCHANGED << toFw, caps, fromFw >> /\ msg[p] \in Msg
    BY <1>0, <1>4, StreamAssumption DEF OpenEnds, PutMsg, firmware, HostTypes
  <2>2. HeldBy(p)
    BY <1>0, <1>4 DEF OpenEnds, Held
  <2>3. NotFree'
    BY <1>0, <1>2, <2>1, <2>2 DEF NotFree, HeldBy, NoOpenOut
  <2> QED
    BY <1>0, <1>1, <2>1, <2>3 DEF Unshared
<1>5. CASE StartNoMsg(p)
  BY <1>1, <1>5, <1>a DEF StartNoMsg, pool
<1>6. CASE StartStream(p)
  BY <1>0, <1>1, <1>6, <1>a, <1>c DEF StartStream, GetMsg
<1>7. CASE StartAcknowledged(p)
  BY <1>0, <1>1, <1>7, <1>a DEF StartAcknowledged, pool
<1>8. CASE StartNotAcknowledged(p)
  BY <1>1, <1>8, <1>a DEF StartNotAcknowledged, pool
<1>9. CASE UnwindClose(p)
  BY <1>1, <1>9, <1>a, <1>b DEF UnwindClose, pool
<1>10. CASE UnwindEnds(p) \/ SensorStarts(p) \/ SensorFailedEnds(p) \/ FlushEnds(p) \/ CloseEnds(p)
  BY <1>1, <1>10, <1>a DEF UnwindEnds, SensorStarts, SensorFailedEnds, FlushEnds, CloseEnds, pool
<1>11. CASE SensorFails(p)
  BY <1>1, <1>11, <1>a, <1>b DEF SensorFails, pool
<1>12. CASE Close(p)
  BY <1>1, <1>12, <1>a, <1>b DEF Close, pool
<1> QED
  BY <1>4, <1>5, <1>6, <1>7, <1>8, <1>9, <1>10, <1>11, <1>12 DEF Proceed

LEMMA MsgFirmware ==
  ASSUME OneUse, MsgInv, NEW h \in Handle, Firmware(h)
  PROVE  Unshared' /\ NotFree' /\ Held'
<1>0. QueueTypes /\ HostTypes /\ Unshared /\ NotFree /\ Held
  BY DEF MsgInv, BaseInv, TypeInv
<1>1. UNCHANGED << pc, msg, free >>
  BY DEF Firmware, FwOpen, FwStart, FwCapture, FwFrame, FwFlush, FwClose, session, pool
<1>2. \A p \in Pipe : pc[p] = "opening" => msg[p] \in Msg /\ msg[p] # NoMsg
  BY <1>0, StreamAssumption DEF HostTypes
<1>a. ASSUME NEW type \in {"OPEN_DONE", "START_ACK", "FLUSH_ACK", "CLOSE_ACK"},
             NEW err \in BOOLEAN, Respond(h, type, err, NoMsg)
      PROVE  \E r \in Responses : r.msg = NoMsg /\ Adds(r)
  <2>1. PICK r \in Responses : r.msg = NoMsg /\ Adds(r)
    BY <1>a, Answered
  <2> QED
    BY <2>1
<1>b. ASSUME FwTake(h), UNCHANGED caps \/ caps' = [caps EXCEPT ![h] = << >>],
             UNCHANGED fromFw \/ \E r \in Responses : r.msg = NoMsg /\ Adds(r)
      PROVE  Unshared' /\ NotFree' /\ Held'
  <2>1. \A k \in Handle : \A i \in DOMAIN toFw'[k] : \E j \in DOMAIN toFw[k] :
          toFw'[k][i] = toFw[k][j]
    BY <1>0, <1>b, Taken
  <2>2. \A k \in Handle : \A i \in DOMAIN caps'[k] :
          i \in DOMAIN caps[k] /\ caps'[k][i] = caps[k][i]
    <3>1. CASE UNCHANGED caps
      BY <3>1
    <3>2. CASE caps' = [caps EXCEPT ![h] = << >>]
      <4>1. \A k \in Handle : caps'[k] = IF k = h THEN << >> ELSE caps[k]
        BY <1>0, <3>2 DEF QueueTypes
      <4> QED
        BY <4>1
    <3> QED
      BY <1>b, <3>1, <3>2
  <2>3. \A i \in DOMAIN fromFw' :
          (i \in DOMAIN fromFw /\ fromFw'[i] = fromFw[i]) \/ fromFw'[i].msg = NoMsg
    BY <1>0, <1>b, AddsOne DEF QueueTypes
  <2>4. Held'
    BY <1>0, <1>1, <1>2, <2>1, <2>2, <2>3 DEF Held, HeldBy
  <2> QED
    BY <1>1, <1>b, <2>4, MsgTaken
<1>c. ASSUME FwTake(h), Head(toFw[h]).type \in {"START_AND_CAPTURE", "CAPTURE"},
             caps' = [caps EXCEPT ![h] = Append(@, Head(toFw[h]).msg)],
             UNCHANGED fromFw \/ \E r \in Responses : r.msg = NoMsg /\ Adds(r)
      PROVE  Unshared' /\ NotFree' /\ Held'
  <2>1. \A k \in Handle : \A i \in DOMAIN toFw'[k] : \E j \in DOMAIN toFw[k] :
          toFw'[k][i] = toFw[k][j]
    BY <1>0, <1>c, Taken
  <2>2. /\ toFw[h][1].type # "OPEN" /\ 1 \in DOMAIN toFw[h]
        /\ toFw[h][1].msg = Head(toFw[h]).msg /\ Head(toFw[h]).msg \in Msg
    BY <1>0, <1>c, Taken DEF Commands
  <2> DEFINE m == Head(toFw[h]).msg
  <2>3. \A k \in Handle : \A i \in DOMAIN caps'[k] :
          (i \in DOMAIN caps[k] /\ caps'[k][i] = caps[k][i]) \/ caps'[k][i] = m
    <3>1. caps \in [Handle -> Seq(Msg)] /\ caps' = [caps EXCEPT ![h] = Append(@, m)]
      BY <1>0, <1>c DEF QueueTypes
    <3>2. m \in Msg
      BY <2>2
    <3> HIDE DEF m
    <3> QED
      BY <3>1, <3>2, OneMore
  <2>4. \A i \in DOMAIN fromFw' :
          (i \in DOMAIN fromFw /\ fromFw'[i] = fromFw[i]) \/ fromFw'[i].msg = NoMsg
    BY <1>0, <1>c, AddsOne DEF QueueTypes
  <2>5. Held'
    BY <1>0, <1>1, <1>2, <2>1, <2>2, <2>3, <2>4 DEF Held, HeldBy
  <2> QED
    BY <1>1, <1>c, <2>5, MsgCaptured
<1>3. CASE FwOpen(h)
  BY <1>3, <1>a, <1>b, Zenon DEF FwOpen, Refusal, Legal
<1>4. CASE FwStart(h)
  <2>1. \E r \in Responses : r.msg = NoMsg /\ Adds(r)
    BY <1>4, <1>a, Zenon DEF FwStart, Refusal, Legal
  <2>2. \/ UNCHANGED caps
        \/ /\ Head(toFw[h]).type = "START_AND_CAPTURE"
           /\ caps' = [caps EXCEPT ![h] = Append(@, Head(toFw[h]).msg)]
    BY <1>4 DEF FwStart
  <2> QED
    BY <1>4, <1>b, <1>c, <2>1, <2>2 DEF FwStart
<1>5. CASE FwCapture(h)
  BY <1>5, <1>b, <1>c DEF FwCapture
<1>6. CASE FwFrame(h)
  <2>1. PICK m \in Msg : /\ \E i \in DOMAIN caps[h] : caps[h][i] = m
                         /\ \E r \in Responses : r.msg = m /\ Adds(r)
    BY <1>6, MsgReported
  <2>2. \A k \in Handle : \A i \in DOMAIN caps'[k] : \E j \in DOMAIN caps[k] :
          caps'[k][i] = caps[k][j]
    <3>1. caps \in [Handle -> Seq(Msg)] /\ caps[h] # << >>
          /\ (UNCHANGED caps \/ caps' = [caps EXCEPT ![h] = Tail(@)])
      BY <1>0, <1>6 DEF FwFrame, QueueTypes
    <3>2. CASE caps' = [caps EXCEPT ![h] = Tail(@)]
      BY <3>1, <3>2, OneLess
    <3> QED
      BY <3>1, <3>2
  <2>3. \A i \in DOMAIN fromFw' :
          (i \in DOMAIN fromFw /\ fromFw'[i] = fromFw[i]) \/ fromFw'[i].msg = m
    BY <1>0, <2>1, AddsOne DEF QueueTypes
  <2>4. Held'
    BY <1>0, <1>1, <1>6, <2>1, <2>2, <2>3 DEF Held, HeldBy, FwFrame
  <2> QED
    BY <1>6, <2>4, MsgReported
<1>7. CASE FwFlush(h)
  BY <1>7, <1>a, <1>b, Zenon DEF FwFlush, Legal
<1>8. CASE FwClose(h)
  BY <1>8, <1>a, <1>b, Zenon DEF FwClose, Legal
<1> QED
  BY <1>3, <1>4, <1>5, <1>6, <1>7, <1>8 DEF Firmware

LEMMA MsgNext == ASSUME OneUse PROVE MsgInv /\ [Next]_vars => MsgInv'
<1> SUFFICES ASSUME MsgInv, [Next]_vars PROVE MsgInv'
  OBVIOUS
<1>0. /\ QueueTypes /\ HostTypes /\ Unshared /\ NotFree /\ Held
      /\ BaseInv /\ TypeInv /\ ~ inReset
  BY DEF MsgInv, BaseInv, TypeInv
<1>z. BaseInv' /\ ~ inReset'
  <2>1. BaseInv'
    BY <1>0, BaseNext DEF OneUse
  <2>2. ~ inReset'
    BY <1>0 DEF OneUse, Next, StartNoHandle, StartOpen, StartOpenRefused, Capture, Stop,
       Proceed, OpenEnds, StartNoMsg, StartStream, StartAcknowledged,
       StartNotAcknowledged, UnwindClose, UnwindEnds, SensorStarts, SensorFails,
       SensorFailedEnds, FlushEnds, Close, CloseEnds, IsrFetch, IsrDispatch, ResetBegins,
       ResetEnds, Reboot, Firmware, FwOpen, FwStart, FwCapture, FwFrame, FwFlush,
       FwClose, vars
  <2> QED
    BY <2>1, <2>2
<1> SUFFICES Unshared' /\ NotFree' /\ Held'
  BY <1>z DEF MsgInv
<1>a. ASSUME UNCHANGED << toFw, caps, fromFw, msg, pc >>, free' \subseteq free
      PROVE  Unshared' /\ NotFree' /\ Held'
  BY <1>0, <1>a DEF Unshared, NotFree, Held, HeldBy
<1>1. ASSUME NEW p \in Pipe, Proceed(p) PROVE Unshared' /\ NotFree' /\ Held'
  BY <1>1, MsgProceed
<1>2. ASSUME NEW p \in Pipe, StartNoHandle(p) \/ StartOpenRefused(p)
      PROVE  Unshared' /\ NotFree' /\ Held'
  BY <1>2, <1>a DEF StartNoHandle, StartOpenRefused, GetMsg, pool, firmware
<1>3. ASSUME NEW p \in Pipe, StartOpen(p) PROVE Unshared' /\ NotFree' /\ Held'
  <2>1. PICK h \in Handle, m \in free : /\ Send(h, "OPEN", m) /\ GetMsg(m)
                                        /\ msg' = [msg EXCEPT ![p] = m]
    BY <1>3, FirstFreeHandle DEF StartOpen, FreeHandles
  <2> DEFINE c == [type |-> "OPEN", msg |-> m]
  <2>2. c \in Commands /\ c.msg = m /\ c.type = "OPEN" /\ m \in Msg /\ m # NoMsg
    BY <1>0, StreamAssumption DEF Commands, HostTypes
  <2>3. Sends(h, c) /\ HostKeepsFirmware /\ free' = free \ {c.msg} /\ c.msg \in free
    BY <1>3, <2>1, <2>2 DEF Send, Sends, GetMsg, HostKeepsFirmware, StartOpen, firmware
  <2> HIDE DEF c
  <2>4. Unshared' /\ NotFree'
    BY <2>2, <2>3, MsgSent
  <2>5. \A q \in Pipe : pc'[q] = "opening" => q = p
    BY <1>0, <1>3 DEF StartOpen, MayStart, StreamMutexFree, Goto, TypeInv, RoutingInv,
                      HandleTypes, Idle
  <2>6. \A k \in Handle : \A i \in DOMAIN toFw'[k] :
          (i \in DOMAIN toFw[k] /\ toFw'[k][i] = toFw[k][i]) \/ toFw'[k][i] = c
    BY <1>0, <2>2, <2>3, OneMore DEF Sends, QueueTypes
  <2>7. msg'[p] = m
    BY <1>0, <2>1 DEF HostTypes
  <2>8. HeldBy(p)'
    BY <1>0, <2>2, <2>3, <2>6, <2>7 DEF HeldBy, NotFree, HostKeepsFirmware
  <2> QED
    BY <2>4, <2>5, <2>8 DEF Held
<1>4. ASSUME NEW p \in Pipe, Capture(p) PROVE Unshared' /\ NotFree' /\ Held'
  <2>1. PICK m \in free : GetMsg(m) /\ (Send(handle[p], "CAPTURE", m) \/ UNCHANGED toFw)
    BY <1>4 DEF Capture
  <2>2. /\ handle[p] \in Handle /\ HostKeepsFirmware /\ UNCHANGED << pc, msg >>
    BY <1>0, <1>4 DEF Capture, TypeInv, RoutingInv, ResponsesAreRouted, Idle, session,
                      HostKeepsFirmware, firmware
  <2>3. CASE UNCHANGED toFw
    BY <1>a, <2>1, <2>2, <2>3 DEF HostKeepsFirmware, GetMsg
  <2>4. CASE Send(handle[p], "CAPTURE", m)
    <3> DEFINE c == [type |-> "CAPTURE", msg |-> m]
    <3>1. c \in Commands /\ c.msg = m /\ m \in Msg
      BY <1>0 DEF Commands, HostTypes
    <3>2. Sends(handle[p], c) /\ free' = free \ {c.msg} /\ c.msg \in free
      BY <2>1, <2>4, <3>1 DEF Send, Sends, GetMsg
    <3> HIDE DEF c
    <3>3. Unshared' /\ NotFree'
      BY <2>2, <3>1, <3>2, MsgSent
    <3>4. \A k \in Handle : \A i \in DOMAIN toFw'[k] :
            (i \in DOMAIN toFw[k] /\ toFw'[k][i] = toFw[k][i]) \/ toFw'[k][i] = c
      BY <1>0, <2>2, <3>1, <3>2, OneMore DEF Sends, QueueTypes
    <3>5. Held'
      BY <1>0, <2>2, <3>1, <3>2, <3>4 DEF Held, HeldBy, HostKeepsFirmware
    <3> QED
      BY <3>3, <3>5
  <2> QED
    BY <2>1, <2>3, <2>4
<1>5. ASSUME NEW p \in Pipe, Stop(p) PROVE Unshared' /\ NotFree' /\ Held'
  <2>1. /\ handle[p] \in Handle /\ HostKeepsFirmware /\ UNCHANGED << free, msg >>
        /\ Send(handle[p], "FLUSH", NoMsg) \/ UNCHANGED toFw
    BY <1>0, <1>5 DEF Stop, TypeInv, RoutingInv, ResponsesAreRouted, Idle, pool,
                      HostKeepsFirmware, firmware
  <2>2. Held'
    <3>1. \A q \in Pipe : pc'[q] # "opening"
      BY <1>0, <1>5 DEF Stop, StreamMutexFree, Goto, TypeInv, RoutingInv, HandleTypes, Idle
    <3> QED
      BY <3>1 DEF Held
  <2> DEFINE c == [type |-> "FLUSH", msg |-> NoMsg]
  <2>3. c \in Commands /\ c.msg = NoMsg
    BY DEF Commands
  <2>4. CASE UNCHANGED toFw
    BY <1>0, <2>1, <2>2, <2>4 DEF Unshared, NotFree, HostKeepsFirmware
  <2>5. CASE Send(handle[p], "FLUSH", NoMsg)
    BY <2>1, <2>2, <2>3, <2>5, MsgSent DEF Send, Sends
  <2> QED
    BY <2>1, <2>4, <2>5
<1>6. CASE IsrFetch \/ ResetBegins \/ ResetEnds \/ UNCHANGED vars
  BY <1>6, <1>a DEF IsrFetch, ResetBegins, ResetEnds, vars, session, pool, firmware
<1>7. CASE IsrDispatch
  BY <1>7, MsgDispatched
<1>8. CASE Reboot
  BY <1>8 DEF Reboot, Unshared, NotFree, Held, Idle
<1>9. ASSUME NEW h \in Handle, Firmware(h) PROVE Unshared' /\ NotFree' /\ Held'
  BY <1>9, MsgFirmware
<1> QED
  BY <1>1, <1>2, <1>3, <1>4, <1>5, <1>6, <1>7, <1>8, <1>9 DEF Next

LEMMA MsgInit == Init => MsgInv
<1> SUFFICES ASSUME Init PROVE MsgInv
  OBVIOUS
<1>1. Unshared /\ NotFree /\ Held /\ ~ inReset
  BY DEF Init, Unshared, NotFree, Held, Idle
<1> QED
  BY <1>1, BaseInit DEF MsgInv

\* A message is put back into the pool only when the firmware is done with it,
\* in spite of refusals, lost acknowledgements and late answers.
THEOREM FreeMessages == ASSUME OneUse PROVE Spec => []FreeMessagesUnused
<1>1. MsgInv => FreeMessagesUnused
  BY DEF MsgInv, NotFree, FreeMessagesUnused, MsgsOf, Range
<1> QED
  BY <1>1, MsgInit, MsgNext, PTL DEF Spec

\* No message is in two commands or captures of a stream at once.
THEOREM SubmittedOnce == ASSUME OneUse PROVE Spec => []CaptureSubmittedOnce
<1>1. MsgInv => CaptureSubmittedOnce
  BY DEF MsgInv, Unshared, CaptureSubmittedOnce, Range, IsInjective
<1> QED
  BY <1>1, MsgInit, MsgNext, PTL DEF Spec

-----------------------------------------------------------------------------
(* Legal commands.  The commands queued for a handle are legal one after    *)
(* the other whether or not the firmware refuses those before; the last one *)
(* and the state it leads to follow from what the handle's pipeline does.   *)

Followers(type) ==
  CASE type \in {"START", "START_AND_CAPTURE"} -> {"CLOSE"}
    [] type = "CAPTURE" -> {"CAPTURE", "FLUSH"}
    [] type = "FLUSH" -> {"CLOSE"}
    [] type = "CLOSE" -> {"OPEN"}
    [] type = "OPEN" -> {}

Orderly(h) ==
  /\ toFw[h] # << >> => Legal(toFw[h][1].type, fwStream[h])
  /\ \A i \in DOMAIN toFw[h] :
       i # 1 => toFw[h][i].type \in Followers(toFw[h][i - 1].type)

Ends(h, types, states) ==
  IF toFw[h] = << >> THEN fwStream[h] \in states
                     ELSE toFw[h][Len(toFw[h])].type \in types

LastSent(s) ==
  CASE s = "opening" -> {"OPEN"}
    [] s = "opened" -> {}
    [] s \in {"starting", "unwind"} -> {"START", "START_AND_CAPTURE"}
    [] s \in {"sensor", "streaming"} -> {"CAPTURE"}
    [] s \in {"flushing", "flushed"} -> {"FLUSH"}
    [] OTHER -> {"CLOSE"}

EndsIn(s) ==
  CASE s = "opening" -> {"closed", "open"}
    [] s = "opened" -> {"open"}
    [] s \in {"starting", "unwind"} -> {"open", "started"}
    [] s \in {"sensor", "streaming"} -> {"started"}
    [] s \in {"flushing", "flushed"} -> {"open"}
    [] OTHER -> {"closed"}

User(h) == IF pipes[h] = NoPipe THEN Idle ELSE pc[pipes[h]]

InPhase(h) == Ends(h, LastSent(User(h)), EndsIn(User(h)))

Rests(h, s) == toFw[h] = << >> /\ fwStream[h] = s

\* Once the opener is told, no earlier answer is left that could reach it.
IsTold(h) == User(h) = "opening" /\ "open" \in done[pipes[h]]

Told(h) ==
  /\ IsTold(h) => Rests(h, IF error[pipes[h]] THEN "closed" ELSE "open")
  /\ IsTold(h) \/ User(h) = "opened" => \A i \in DOMAIN fromFw : fromFw[i].handle # h

\* ip->error speaks of the START although frames of the stream set it too.
Acknowledged(h) ==
  User(h) = "starting" =>
    /\ "start" \in done[pipes[h]] /\ ~ error[pipes[h]] => Rests(h, "started")
    /\ \A i \in DOMAIN fromFw : fromFw[i].handle = h =>
         \/ /\ fromFw[i].type = "START_ACK"
            /\ Rests(h, IF fromFw[i].error THEN "open" ELSE "started")
         \/ fromFw[i].type = "PIN_DATA_READY" /\ Rests(h, "started")

Answers(h) ==
  \A i \in DOMAIN fromFw : fromFw[i].handle = h /\ fromFw[i].type = "OPEN_DONE" =>
    /\ Rests(h, IF fromFw[i].error THEN "closed" ELSE "open")
    /\ \A j \in DOMAIN fromFw : j > i => fromFw[j].handle # h

\* What the interrupt handler has fetched for the pipeline is an answer on h.
Fetched(h) ==
  (IsTold(h) \/ User(h) \in {"opened", "starting"}) /\ isr.busy /\ isr.pipe = pipes[h]
    => Head(fromFw).handle = h

LegalOn(h) ==
  Orderly(h) /\ InPhase(h) /\ Told(h) /\ Acknowledged(h) /\ Answers(h) /\ Fetched(h)

LegalInv == BaseInv /\ LeakInv /\ \A h \in Handle \ unclosed : LegalOn(h)

LEMMA OrderlySend ==
  ASSUME QueueTypes, NEW h \in Handle, NEW c \in Commands, Sends(h, c), UNCHANGED fwStream,
         Orderly(h), NEW types, NEW states, Ends(h, types, states),
         \A t \in types : c.type \in Followers(t), \A s \in states : Legal(c.type, s)
  PROVE  /\ Orderly(h)' /\ toFw'[h] # << >> /\ toFw'[h][Len(toFw'[h])] = c
<1>1. /\ toFw'[h] \in Seq(Commands) /\ toFw[h] \in Seq(Commands)
      /\ Len(toFw'[h]) = Len(toFw[h]) + 1 /\ toFw'[h][Len(toFw[h]) + 1] = c
      /\ \A i \in DOMAIN toFw[h] : toFw'[h][i] = toFw[h][i]
      /\ \A i \in DOMAIN toFw'[h] : i \in DOMAIN toFw[h] \/ i = Len(toFw[h]) + 1
  BY OneMore DEF Sends, QueueTypes
<1>2. CASE toFw[h] = << >>
  BY <1>1, <1>2 DEF Ends, Orderly
<1>3. CASE toFw[h] # << >>
  <2>1. Len(toFw[h]) \in DOMAIN toFw[h] /\ 1 \in DOMAIN toFw[h]
    BY <1>1, <1>3
  <2>2. c.type \in Followers(toFw[h][Len(toFw[h])].type)
    BY <1>3 DEF Ends
  <2>3. Legal(toFw'[h][1].type, fwStream'[h])
    BY <1>1, <1>3, <2>1 DEF Orderly
  <2>4. ASSUME NEW i \in DOMAIN toFw'[h], i # 1
        PROVE  toFw'[h][i].type \in Followers(toFw'[h][i - 1].type)
    <3>1. CASE i = Len(toFw[h]) + 1
      BY <1>1, <2>1, <2>2, <3>1
    <3>2. CASE i \in DOMAIN toFw[h]
      <4>1. i - 1 \in DOMAIN toFw[h]
        BY <1>1, <2>4, <3>2
      <4> QED
        BY <1>1, <2>4, <3>2, <4>1 DEF Orderly
    <3> QED
      BY <1>1, <3>1, <3>2
  <2> QED
    BY <1>1, <2>3, <2>4 DEF Orderly
<1> QED
  BY <1>2, <1>3

LEMMA OrderlyTake ==
  ASSUME QueueTypes, NEW h \in Handle, FwTake(h), Orderly(h),
         \A t \in Followers(Head(toFw[h]).type) : Legal(t, fwStream'[h])
  PROVE  /\ Orderly(h)'
         /\ \A types, states :
              Ends(h, types, states) /\ (Head(toFw[h]).type \in types => fwStream'[h] \in states)
              => Ends(h, types, states)'
<1>1. /\ toFw'[h] \in Seq(Commands) /\ toFw[h] \in Seq(Commands) /\ toFw[h] # << >>
      /\ Head(toFw[h]) = toFw[h][1] /\ 1 \in DOMAIN toFw[h]
      /\ Len(toFw'[h]) = Len(toFw[h]) - 1
      /\ \A i \in DOMAIN toFw'[h] : i + 1 \in DOMAIN toFw[h] /\ toFw'[h][i] = toFw[h][i + 1]
  BY Taken DEF QueueTypes, FwTake
<1>2. toFw'[h] # << >> => Legal(toFw'[h][1].type, fwStream'[h])
  <2> SUFFICES ASSUME toFw'[h] # << >> PROVE Legal(toFw'[h][1].type, fwStream'[h])
    OBVIOUS
  <2>1. 1 \in DOMAIN toFw'[h] /\ 2 \in DOMAIN toFw[h] /\ toFw'[h][1] = toFw[h][2]
    BY <1>1
  <2>2. \A i \in DOMAIN toFw[h] : i = 2 => toFw[h][i].type \in Followers(toFw[h][1].type)
    <3>1. \A i \in DOMAIN toFw[h] : i # 1 =>
            toFw[h][i].type \in Followers(toFw[h][i - 1].type)
      BY DEF Orderly
    <3>2. 2 # 1 /\ 2 - 1 = 1
      OBVIOUS
    <3> QED
      BY <3>1, <3>2
  <2> QED
    BY <1>1, <2>1, <2>2
<1>3. ASSUME NEW i \in DOMAIN toFw'[h], i # 1
      PROVE  toFw'[h][i].type \in Followers(toFw'[h][i - 1].type)
  <2>1. /\ i - 1 \in DOMAIN toFw'[h] /\ i \in DOMAIN toFw[h] /\ i + 1 \in DOMAIN toFw[h]
        /\ toFw'[h][i - 1] = toFw[h][i] /\ toFw'[h][i] = toFw[h][i + 1]
    BY <1>1, <1>3
  <2>2. toFw[h][i + 1].type \in Followers(toFw[h][(i + 1) - 1].type)
    BY <1>1, <2>1 DEF Orderly
  <2>3. (i + 1) - 1 = i
    BY <1>1
  <2> QED
    BY <2>1, <2>2, <2>3
<1>4. Orderly(h)'
  BY <1>2, <1>3 DEF Orderly
<1>5. ASSUME NEW types, NEW states, Ends(h, types, states),
             Head(toFw[h]).type \in types => fwStream'[h] \in states
      PROVE  Ends(h, types, states)'
  <2>1. CASE toFw'[h] = << >>
    <3>1. Len(toFw[h]) = 1
      BY <1>1, <2>1
    <3> QED
      BY <1>1, <1>5, <2>1, <3>1 DEF Ends
  <2>2. CASE toFw'[h] # << >>
    <3>1. toFw'[h][Len(toFw'[h])] = toFw[h][Len(toFw[h])]
      BY <1>1, <2>2
    <3> QED
      BY <1>1, <1>5, <2>2, <3>1 DEF Ends
  <2> QED
    BY <2>1, <2>2
<1> QED
  BY <1>4, <1>5

\* A start command waits alone, and nothing follows an OPEN.
LEMMA StartIsAlone ==
  ASSUME QueueTypes, NEW h \in Handle, Orderly(h), toFw[h] # << >>,
         toFw[h][Len(toFw[h])].type \in {"START", "START_AND_CAPTURE"}
  PROVE  Len(toFw[h]) = 1
<1> DEFINE n == Len(toFw[h])
<1>1. n \in DOMAIN toFw[h] /\ n \in Nat \ {0} /\ (n # 1 => n - 1 \in DOMAIN toFw[h])
  <2>1. toFw[h] \in Seq(Commands)
    BY DEF QueueTypes
  <2>2. DOMAIN toFw[h] = 1 .. n /\ n \in Nat
    BY <2>1
  <2>3. n # 0
    BY <2>1
  <2> HIDE DEF n
  <2> QED
    BY <2>2, <2>3
<1>2. ASSUME n # 1 PROVE FALSE
  <2>1. toFw[h][n].type \in Followers(toFw[h][n - 1].type)
    BY <1>1, <1>2 DEF Orderly
  <2>2. toFw[h][n - 1] \in Commands
    BY <1>1, <1>2 DEF QueueTypes
  <2> QED
    BY <2>1, <2>2 DEF Followers, Commands
<1> QED
  BY <1>2

LEMMA OpenIsLast ==
  ASSUME QueueTypes, NEW h \in Handle, Orderly(h), toFw[h] # << >>,
         toFw[h][1].type = "OPEN"
  PROVE  Len(toFw[h]) = 1
<1> DEFINE n == Len(toFw[h])
<1>1. n \in Nat /\ n # 0 /\ DOMAIN toFw[h] = 1 .. n
  <2>1. toFw[h] \in Seq(Commands)
    BY DEF QueueTypes
  <2> QED
    BY <2>1
<1>2. ASSUME n # 1 PROVE FALSE
  <2>1. \A i \in DOMAIN toFw[h] : i # 1 =>
          toFw[h][i].type \in Followers(toFw[h][i - 1].type)
    BY DEF Orderly
  <2>2. 2 \in DOMAIN toFw[h]
    <3> HIDE DEF n
    <3>1. 2 \in 1 .. n
      BY <1>1, <1>2
    <3> QED
      BY <1>1, <3>1
  <2>3. \A i \in DOMAIN toFw[h] : i = 2 => toFw[h][i].type \in Followers(toFw[h][1].type)
    <3>1. 2 # 1 /\ 2 - 1 = 1
      OBVIOUS
    <3> QED
      BY <2>1, <3>1
  <2> QED
    BY <2>2, <2>3 DEF Followers
<1> QED
  BY <1>2

\* What a step leaves alone stays legal.
LEMMA LegalElsewhere ==
  ASSUME NEW h \in Handle, LegalOn(h), UNCHANGED << fromFw, isr >>,
         toFw'[h] = toFw[h], fwStream'[h] = fwStream[h], pipes'[h] = pipes[h],
         pipes[h] # NoPipe => /\ pc'[pipes[h]] = pc[pipes[h]]
                              /\ done'[pipes[h]] = done[pipes[h]]
                              /\ error'[pipes[h]] = error[pipes[h]]
  PROVE  LegalOn(h)'
<1>1. User(h)' = User(h)
  BY DEF User
<1>2. IsTold(h)' <=> IsTold(h)
  BY <1>1, StreamAssumption DEF IsTold, User, Idle
<1>3. \A s : Rests(h, s)' <=> Rests(h, s)
  BY DEF Rests
<1>4. Orderly(h)' /\ InPhase(h)'
  BY <1>1 DEF LegalOn, Orderly, InPhase, Ends
<1>5. Told(h)'
  <2>1. IsTold(h) => pipes[h] # NoPipe
    BY DEF IsTold, User, Idle
  <2> QED
    BY <1>1, <1>2, <2>1 DEF LegalOn, Told, Rests
<1>6. Acknowledged(h)'
  <2>1. User(h) = "starting" => pipes[h] # NoPipe
    BY DEF User, Idle
  <2> QED
    BY <1>1, <2>1 DEF LegalOn, Acknowledged, Rests
<1>7. Answers(h)'
  BY DEF LegalOn, Answers, Rests
<1>8. Fetched(h)'
  BY <1>1, <1>2 DEF LegalOn, Fetched
<1> QED
  BY <1>4, <1>5, <1>6, <1>7, <1>8 DEF LegalOn

\* What each state of a pipeline says of its handle.
LEMMA Phases ==
  /\ LastSent("opening") = {"OPEN"} /\ EndsIn("opening") = {"closed", "open"}
  /\ LastSent("opened") = {} /\ EndsIn("opened") = {"open"}
  /\ \A s \in {"starting", "unwind"} :
       LastSent(s) = {"START", "START_AND_CAPTURE"} /\ EndsIn(s) = {"open", "started"}
  /\ \A s \in {"sensor", "streaming"} : LastSent(s) = {"CAPTURE"} /\ EndsIn(s) = {"started"}
  /\ \A s \in {"flushing", "flushed"} : LastSent(s) = {"FLUSH"} /\ EndsIn(s) = {"open"}
  /\ \A s \in {Idle, "unwinding", "closing"} : LastSent(s) = {"CLOSE"} /\ EndsIn(s) = {"closed"}
  BY DEF LastSent, EndsIn, Idle

\* A handle on which no start waits is legal when its queue is.
LEMMA LegalQuiet ==
  ASSUME NEW h \in Handle, NEW s \in Control \ {"opening", "opened", "starting"},
         User(h)' = s, Orderly(h)', Ends(h, LastSent(s), EndsIn(s))', OpenInv'
  PROVE  LegalOn(h)'
<1>1. \A i \in DOMAIN fromFw' : fromFw'[i].handle = h => fromFw'[i].type # "OPEN_DONE"
  BY StreamAssumption DEF OpenInv, AwaitsOpen, User
<1> QED
  BY <1>1 DEF LegalOn, InPhase, Told, IsTold, Acknowledged, Answers, Fetched

LEMMA LegalSend ==
  ASSUME QueueTypes, NEW h \in Handle, NEW c \in Commands, Sends(h, c), UNCHANGED fwStream,
         Orderly(h), NEW types, NEW states, Ends(h, types, states),
         \A t \in types : c.type \in Followers(t), \A s \in states : Legal(c.type, s),
         NEW s, c.type \in LastSent(s)
  PROVE  Orderly(h)' /\ Ends(h, LastSent(s), EndsIn(s))'
<1>1. /\ Orderly(h)' /\ toFw'[h] # << >> /\ toFw'[h][Len(toFw'[h])] = c
  BY OrderlySend
<1> QED
  BY <1>1 DEF Ends

\* A step of a start or stop leaves the other pipelines alone.
LEMMA ProceedAlone ==
  ASSUME TypeInv, NEW p \in Pipe, Proceed(p)
  PROVE  \A q \in Pipe \ {p} : /\ pc'[q] = pc[q] /\ done'[q] = done[q]
                                /\ error'[q] = error[q]
<1>1. UNCHANGED error
  BY DEF Proceed, OpenEnds, StartNoMsg, StartStream, StartAcknowledged,
         StartNotAcknowledged, UnwindClose, UnwindEnds, SensorStarts, SensorFails,
         SensorFailedEnds, FlushEnds, Close, CloseEnds
<1>2. \E d : done' = [done EXCEPT ![p] = d]
  <2>1. UNCHANGED done \/ \E c : done' = [done EXCEPT ![p] = @ \ {c}]
    BY DEF Proceed, OpenEnds, StartNoMsg, StartStream, StartAcknowledged,
           StartNotAcknowledged, UnwindClose, UnwindEnds, SensorStarts, SensorFails,
           SensorFailedEnds, FlushEnds, Close, CloseEnds, Reinit, Completed, Expired
  <2>2. done = [done EXCEPT ![p] = done[p]]
    BY DEF TypeInv, HostTypes
  <2> QED
    BY <2>1, <2>2
<1>3. \E s : pc' = [pc EXCEPT ![p] = s]
  BY ProceedIsBusy
<1> QED
  BY <1>1, <1>2, <1>3 DEF TypeInv, HostTypes, RoutingInv, HandleTypes

LEMMA LegalProceed ==
  ASSUME NothingAbandoned, OpenIsAnswered, LegalInv, NEW p \in Pipe, Proceed(p),
         NEW h \in Handle, h \notin unclosed'
  PROVE  LegalOn(h)'
<1>0. TypeInv /\ QueueTypes /\ HandleTypes /\ HostTypes /\ BaseInv /\ LeakInv
  BY DEF LegalInv, BaseInv, TypeInv, RoutingInv
<1>1. unclosed \subseteq unclosed'
  BY DEF Proceed, OpenEnds, StartNoMsg, StartStream, StartAcknowledged,
         StartNotAcknowledged, UnwindClose, UnwindEnds, SensorStarts, SensorFails,
         SensorFailedEnds, FlushEnds, Close, CloseEnds, firmware
<1>2. LegalOn(h)
  BY <1>1 DEF LegalInv
<1>3. HostKeepsFirmware /\ handle[p] \in Handle
  BY <1>0, ProceedSends
<1>4. pc[p] # Idle /\ pipes[handle[p]] = p
  BY <1>0, ProceedIsBusy DEF Busy, TypeInv, RoutingInv, ResponsesAreRouted
<1>5. CASE h # handle[p]
  <2>1. pipes[h] # p
    BY <1>0, <1>5, StreamAssumption DEF LeakInv
  <2>2. toFw'[h] = toFw[h]
    <3>1. CASE UNCHANGED toFw
      BY <3>1
    <3>2. ASSUME NEW c \in Commands, Sends(handle[p], c) PROVE toFw'[h] = toFw[h]
      BY <1>0, <1>3, <1>5, <3>2, OneMore DEF Sends, QueueTypes
    <3> QED
      BY <1>0, <3>1, <3>2, ProceedSends
  <2>3. pipes'[h] = pipes[h]
    BY <1>0, <1>5, ProceedKinds DEF Advances, Puts, Abandons, PutStreamHandle, HandleTypes
  <2>4. pipes[h] # NoPipe => /\ pc'[pipes[h]] = pc[pipes[h]]
                             /\ done'[pipes[h]] = done[pipes[h]]
                             /\ error'[pipes[h]] = error[pipes[h]]
    BY <1>0, <2>1, ProceedAlone DEF HandleTypes
  <2> QED
    BY <1>2, <1>3, <2>2, <2>3, <2>4, LegalElsewhere DEF HostKeepsFirmware
<1>6. CASE h = handle[p]
  <2>1. pipes[h] = p /\ p # NoPipe /\ User(h) = pc[p]
    BY <1>4, <1>6, StreamAssumption DEF User
  <2>2. NoOpenOut
    BY <1>0, OpenerBlocks
  <2>3. OpenInv'
    <3>1. NoOpenOut'
      BY <1>0, <1>3, <2>2, ProceedSends, NoOpenSent DEF HostKeepsFirmware
    <3> QED
      BY <3>1 DEF NoOpenOut, OpenInv
  <2>4. /\ Orderly(h) /\ Ends(h, LastSent(pc[p]), EndsIn(pc[p]))
        /\ Told(h) /\ Acknowledged(h) /\ Fetched(h)
    BY <1>2, <2>1 DEF LegalOn, InPhase
  <2>a. ASSUME NEW s \in Control, Goto(p, s), UNCHANGED pipes PROVE User(h)' = s
    BY <1>0, <2>1, <2>a DEF Goto, User, HandleTypes
  <2>b. ASSUME PutStreamHandle(p) PROVE User(h)' = Idle
    BY <1>0, <1>6, <2>b DEF PutStreamHandle, User, HandleTypes
  <2>c. ASSUME NEW s \in Control \ {"opening", "opened", "starting"}, User(h)' = s,
               UNCHANGED toFw, Ends(h, LastSent(s), EndsIn(s))
        PROVE  LegalOn(h)'
    <3>1. Orderly(h)' /\ Ends(h, LastSent(s), EndsIn(s))'
      BY <1>3, <2>4, <2>c DEF HostKeepsFirmware, Orderly, Ends
    <3> QED
      BY <2>3, <2>c, <3>1, LegalQuiet
  <2>d. ASSUME NEW type, NEW m, Send(h, type, m), [type |-> type, msg |-> m] \in Commands,
               NEW types, NEW states, Ends(h, types, states),
               \A t \in types : type \in Followers(t), \A s \in states : Legal(type, s),
               NEW s, type \in LastSent(s)
        PROVE  Orderly(h)' /\ Ends(h, LastSent(s), EndsIn(s))'
    <3> DEFINE c == [type |-> type, msg |-> m]
    <3>1. c \in Commands /\ c.type = type /\ Sends(h, c)
      BY <2>d DEF Send, Sends
    <3>2. UNCHANGED fwStream
      BY <1>3 DEF HostKeepsFirmware
    <3> HIDE DEF c
    <3> QED
      BY <1>0, <2>4, <2>d, <3>1, <3>2, LegalSend
  <2>5. CASE OpenEnds(p)
    <3>1. pc[p] = "opening" /\ "open" \in done[p] /\ UNCHANGED << toFw, error >>
      BY <2>5 DEF OpenEnds, Completed, Expired, OpenIsAnswered
    <3>2. IsTold(h)
      BY <2>1, <3>1 DEF IsTold
    <3>3. CASE error[p]
      <4>1. PutStreamHandle(p)
        BY <2>5, <3>3 DEF OpenEnds
      <4>2. Rests(h, "closed")
        BY <2>1, <2>4, <3>2, <3>3 DEF Told
      <4>3. Ends(h, LastSent(Idle), EndsIn(Idle))
        BY <4>2, Phases DEF Rests, Ends
      <4> QED
        BY <2>b, <2>c, <3>1, <4>1, <4>3 DEF Control, Idle
    <3>4. CASE ~ error[p]
      <4>1. Goto(p, "opened") /\ UNCHANGED pipes
        BY <2>5, <3>1, <3>4 DEF OpenEnds, Expired
      <4>2. Rests(h, "open") /\ \A i \in DOMAIN fromFw : fromFw[i].handle # h
        BY <2>1, <2>4, <3>2, <3>4 DEF Told
      <4>3. User(h)' = "opened"
        BY <2>a, <4>1 DEF Control
      <4>4. Orderly(h)' /\ InPhase(h)'
        BY <1>3, <2>4, <3>1, <4>2, <4>3, Phases
           DEF HostKeepsFirmware, Orderly, InPhase, Ends, Rests
      <4>5. Told(h)' /\ Acknowledged(h)' /\ Answers(h)'
        BY <1>3, <4>2, <4>3 DEF HostKeepsFirmware, Told, IsTold, Acknowledged, Answers
      <4>6. Fetched(h)'
        BY <1>3, <2>4, <3>2, <4>1, <4>3 DEF HostKeepsFirmware, Fetched
      <4> QED
        BY <4>4, <4>5, <4>6 DEF LegalOn
    <3> QED
      BY <3>3, <3>4
  <2>6. CASE StartNoMsg(p)
    BY <1>6, <2>6 DEF StartNoMsg
  <2>7. CASE StartStream(p)
    <3>1. PICK m \in free : \/ Send(h, "START", NoMsg)
                            \/ Send(h, "START_AND_CAPTURE", m)
      BY <1>6, <2>7 DEF StartStream, SendOutcome, NothingAbandoned
    <3>2. Goto(p, "starting") /\ UNCHANGED pipes /\ pc[p] = "opened"
          /\ "start" \notin done'[p]
      BY <1>0, <2>7 DEF StartStream, SendOutcome, NothingAbandoned, Reinit, HostTypes
    <3>3. User(h)' = "starting"
      BY <2>a, <3>2 DEF Control
    <3>4. Ends(h, {}, {"open"}) /\ \A i \in DOMAIN fromFw : fromFw[i].handle # h
      BY <2>1, <2>4, <3>2, Phases DEF Told
    <3>5. Orderly(h)' /\ InPhase(h)'
      <4>1. ASSUME NEW type \in {"START", "START_AND_CAPTURE"}
            PROVE  Legal(type, "open") /\ type \in LastSent("starting")
        BY Phases DEF Legal
      <4>2. /\ [type |-> "START", msg |-> NoMsg] \in Commands
            /\ [type |-> "START_AND_CAPTURE", msg |-> m] \in Commands
        BY <1>0 DEF Commands, HostTypes
      <4>3. Orderly(h)' /\ Ends(h, LastSent("starting"), EndsIn("starting"))'
        <5>1. CASE Send(h, "START", NoMsg)
          BY <2>d, <3>4, <4>1, <4>2, <5>1
        <5>2. CASE Send(h, "START_AND_CAPTURE", m)
          BY <2>d, <3>4, <4>1, <4>2, <5>2
        <5> QED
          BY <3>1, <5>1, <5>2
      <4> QED
        BY <3>3, <4>3 DEF InPhase
    <3>6. Told(h)' /\ Answers(h)'
      BY <1>3, <3>3, <3>4 DEF HostKeepsFirmware, Told, IsTold, Answers
    <3>7. Acknowledged(h)'
      BY <1>3, <2>1, <3>2, <3>3, <3>4 DEF HostKeepsFirmware, Acknowledged
    <3>8. Fetched(h)'
      BY <1>3, <2>1, <2>4, <3>2 DEF HostKeepsFirmware, Fetched
    <3> QED
      BY <3>5, <3>6, <3>7, <3>8 DEF LegalOn
  <2>8. CASE StartAcknowledged(p)
    <3>1. /\ pc[p] = "starting" /\ "start" \in done[p] /\ ~ error[p]
          /\ Goto(p, "sensor") /\ UNCHANGED pipes
          /\ UNCHANGED toFw \/ Send(h, "CAPTURE", msg[p])
      BY <1>6, <2>8 DEF StartAcknowledged, Completed, SendOutcome, NothingAbandoned
    <3>2. Rests(h, "started") /\ User(h)' = "sensor" /\ msg[p] \in Msg
      BY <1>0, <2>1, <2>4, <2>a, <3>1 DEF Acknowledged, Control, HostTypes
    <3>3. CASE UNCHANGED toFw
      <4>1. Ends(h, LastSent("sensor"), EndsIn("sensor"))
        BY <3>2, Phases DEF Rests, Ends
      <4> QED
        BY <2>c, <3>2, <3>3, <4>1 DEF Control
    <3>4. CASE Send(h, "CAPTURE", msg[p])
      <4>1. Ends(h, {}, {"started"}) /\ Legal("CAPTURE", "started")
            /\ "CAPTURE" \in LastSent("sensor")
            /\ [type |-> "CAPTURE", msg |-> msg[p]] \in Commands
        BY <3>2, Phases DEF Rests, Ends, Legal, Commands
      <4>2. Orderly(h)' /\ Ends(h, LastSent("sensor"), EndsIn("sensor"))'
        BY <2>d, <3>4, <4>1
      <4> QED
        BY <2>3, <3>2, <4>2, LegalQuiet DEF Control
    <3> QED
      BY <3>1, <3>3, <3>4
  <2>9. CASE StartNotAcknowledged(p)
    <3>1. pc[p] = "starting" /\ Goto(p, "unwind") /\ UNCHANGED << pipes, toFw >>
      BY <2>9 DEF StartNotAcknowledged
    <3> QED
      BY <2>4, <2>a, <2>c, <3>1, Phases DEF Control
  <2>10. CASE UnwindClose(p) \/ Close(p)
    <3>1. /\ Send(h, "CLOSE", NoMsg) /\ UNCHANGED pipes
          /\ \/ pc[p] = "unwind" /\ Goto(p, "unwinding")
             \/ pc[p] = "flushed" /\ Goto(p, "closing")
      BY <1>6, <2>10 DEF UnwindClose, Close, SendOutcome, NothingAbandoned
    <3>2. PICK s \in {"unwinding", "closing"} : User(h)' = s
      BY <2>a, <3>1 DEF Control
    <3>3. /\ \A t \in LastSent(pc[p]) : "CLOSE" \in Followers(t)
          /\ \A t \in EndsIn(pc[p]) : Legal("CLOSE", t)
          /\ "CLOSE" \in LastSent(s)
      BY <3>1, Phases DEF Followers, Legal
    <3>4. [type |-> "CLOSE", msg |-> NoMsg] \in Commands
      BY DEF Commands
    <3>5. Orderly(h)' /\ Ends(h, LastSent(s), EndsIn(s))'
      BY <2>4, <2>d, <3>1, <3>3, <3>4
    <3> QED
      BY <2>3, <3>2, <3>5, LegalQuiet DEF Control
  <2>11. CASE UnwindEnds(p) \/ CloseEnds(p)
    <3>1. pc[p] \in {"unwinding", "closing"} /\ PutStreamHandle(p) /\ UNCHANGED toFw
      BY <2>11 DEF UnwindEnds, CloseEnds
    <3>2. Ends(h, LastSent(Idle), EndsIn(Idle))
      BY <2>4, <3>1, Phases
    <3> QED
      BY <2>b, <2>c, <3>1, <3>2 DEF Control, Idle
  <2>12. CASE SensorStarts(p) \/ FlushEnds(p)
    <3>1. /\ UNCHANGED << pipes, toFw >>
          /\ \/ pc[p] = "sensor" /\ Goto(p, "streaming")
             \/ pc[p] = "flushing" /\ Goto(p, "flushed")
      BY <2>12 DEF SensorStarts, FlushEnds
    <3> QED
      BY <2>4, <2>a, <2>c, <3>1, Phases DEF Control
  <2>13. ~ SensorFails(p) /\ ~ SensorFailedEnds(p)
    BY <1>0 DEF SensorFails, SensorFailedEnds, NothingAbandoned, LeakInv
  <2> QED
    BY <2>5, <2>6, <2>7, <2>8, <2>9, <2>10, <2>11, <2>12, <2>13 DEF Proceed
<1> QED
  BY <1>5, <1>6

\* An OPEN goes out on a free handle, whose stream is closed or will be.
LEMMA LegalStartOpen ==
  ASSUME OpenIsAnswered, LegalInv, NEW p \in Pipe, StartOpen(p),
         NEW h \in Handle, h \notin unclosed
  PROVE  LegalOn(h)'
<1>0. /\ TypeInv /\ QueueTypes /\ HandleTypes /\ HostTypes /\ BaseInv /\ LeakInv
      /\ LegalOn(h)
  BY DEF LegalInv, BaseInv, TypeInv, RoutingInv
<1>1. NoOpenOut
  BY <1>0, OpenerBlocks DEF StartOpen, MayStart
<1>2. PICK g \in Handle, m \in free : /\ Send(g, "OPEN", m) /\ pipes[g] = NoPipe
                                      /\ pipes' = [pipes EXCEPT ![g] = p]
  BY FirstFreeHandle DEF StartOpen, FreeHandles
<1>3. /\ pc' = [pc EXCEPT ![p] = "opening"] /\ done' = [done EXCEPT ![p] = @ \ {"open"}]
      /\ UNCHANGED << error, isr, fromFw, fwStream >> /\ pc[p] = Idle
  BY DEF StartOpen, MayStart, Goto, Reinit, firmware
<1> DEFINE c == [type |-> "OPEN", msg |-> m]
<1>4. c \in Commands /\ Sends(g, c) /\ c.type = "OPEN"
  BY <1>0, <1>2 DEF Commands, HostTypes, Send, Sends
<1> HIDE DEF c
<1>5. CASE h = g
  <2>1. User(h) = Idle /\ User(h)' = "opening" /\ pipes'[h] = p /\ "open" \notin done'[p]
    BY <1>0, <1>2, <1>3, <1>5, StreamAssumption DEF User, HandleTypes, HostTypes
  <2>2. Orderly(h) /\ Ends(h, {"CLOSE"}, {"closed"})
    BY <1>0, <2>1, Phases DEF LegalOn, InPhase
  <2>3. "OPEN" \in Followers("CLOSE") /\ Legal("OPEN", "closed")
        /\ "OPEN" \in LastSent("opening")
    BY Phases DEF Followers, Legal
  <2>4. Orderly(h)' /\ Ends(h, LastSent("opening"), EndsIn("opening"))'
    BY <1>0, <1>3, <1>4, <1>5, <2>2, <2>3, LegalSend
  <2> QED
    BY <1>1, <1>3, <2>1, <2>4 DEF LegalOn, InPhase, Told, IsTold, Acknowledged, Answers,
                                  Fetched, NoOpenOut
<1>6. CASE h # g
  <2>1. toFw'[h] = toFw[h] /\ pipes'[h] = pipes[h]
    BY <1>0, <1>2, <1>4, <1>6, OneMore DEF Sends, QueueTypes, HandleTypes
  <2>2. pipes[h] # NoPipe => pipes[h] # p
    BY <1>0, <1>3 DEF LeakInv
  <2>3. pipes[h] # NoPipe => /\ pc'[pipes[h]] = pc[pipes[h]]
                             /\ done'[pipes[h]] = done[pipes[h]]
                             /\ error'[pipes[h]] = error[pipes[h]]
    BY <1>0, <1>3, <2>2 DEF HandleTypes, HostTypes
  <2> QED
    BY <1>0, <1>3, <2>1, <2>3, LegalElsewhere
<1> QED
  BY <1>5, <1>6

\* Captures and the flush go to a started stream.
LEMMA LegalStreaming ==
  ASSUME NothingAbandoned, LegalInv, NEW p \in Pipe, Capture(p) \/ Stop(p), OpenInv',
         NEW h \in Handle, h \notin unclosed
  PROVE  LegalOn(h)'
<1>0. /\ TypeInv /\ QueueTypes /\ HandleTypes /\ HostTypes /\ LeakInv
      /\ LegalOn(h)
  BY DEF LegalInv, BaseInv, TypeInv, RoutingInv
<1>1. handle[p] \in Handle /\ pipes[handle[p]] = p /\ pc[p] = "streaming"
  BY <1>0 DEF Capture, Stop, TypeInv, RoutingInv, ResponsesAreRouted, Idle
<1>2. /\ UNCHANGED << error, isr, fromFw, fwStream, pipes >>
      /\ \A q \in Pipe \ {p} : pc'[q] = pc[q] /\ done'[q] = done[q]
  <2>1. CASE Capture(p)
    BY <2>1 DEF Capture, session, firmware
  <2>2. CASE Stop(p)
    BY <1>0, <2>2 DEF Stop, Goto, Reinit, firmware, HandleTypes, HostTypes
  <2> QED
    BY <2>1, <2>2
<1>3. PICK c \in Commands, s \in {"streaming", "flushing"} :
        /\ Sends(handle[p], c) /\ pc'[p] = s
        /\ c.type \in LastSent(s) /\ c.type \in {"CAPTURE", "FLUSH"}
  <2>1. CASE Capture(p)
    <3>1. PICK m \in free : Send(handle[p], "CAPTURE", m)
      BY <2>1 DEF Capture, SendOutcome, NothingAbandoned
    <3>2. [type |-> "CAPTURE", msg |-> m] \in Commands
      BY <1>0 DEF Commands, HostTypes
    <3>3. pc'[p] = "streaming"
      BY <1>1, <2>1 DEF Capture, session
    <3> QED
      BY <3>1, <3>2, <3>3, Phases DEF Send, Sends
  <2>2. CASE Stop(p)
    <3>1. Send(handle[p], "FLUSH", NoMsg) /\ pc'[p] = "flushing"
      BY <1>0, <2>2 DEF Stop, SendOutcome, NothingAbandoned, Goto, HandleTypes
    <3>2. [type |-> "FLUSH", msg |-> NoMsg] \in Commands
      BY DEF Commands
    <3> QED
      BY <3>1, <3>2, Phases DEF Send, Sends
  <2> QED
    BY <2>1, <2>2
<1>4. CASE h = handle[p]
  <2>1. User(h) = "streaming" /\ User(h)' = s
    BY <1>1, <1>2, <1>3, <1>4, StreamAssumption DEF User
  <2>2. Orderly(h) /\ Ends(h, {"CAPTURE"}, {"started"})
    BY <1>0, <2>1, Phases DEF LegalOn, InPhase
  <2>3. c.type \in Followers("CAPTURE") /\ Legal(c.type, "started")
    BY <1>3 DEF Followers, Legal
  <2>4. Orderly(h)' /\ Ends(h, LastSent(s), EndsIn(s))'
    BY <1>0, <1>2, <1>3, <1>4, <2>2, <2>3, LegalSend
  <2> QED
    BY <2>1, <2>4, LegalQuiet DEF Control
<1>5. CASE h # handle[p]
  <2>1. toFw'[h] = toFw[h]
    BY <1>0, <1>1, <1>3, <1>5, OneMore DEF Sends, QueueTypes
  <2>2. pipes[h] # NoPipe => pipes[h] \in Pipe \ {p}
    BY <1>0, <1>1, <1>5 DEF LeakInv, HandleTypes
  <2> QED
    BY <1>0, <1>2, <2>1, <2>2, LegalElsewhere
<1> QED
  BY <1>4, <1>5

LEMMA LegalFetch ==
  ASSUME LegalInv, IsrFetch, NEW h \in Handle, h \notin unclosed
  PROVE  LegalOn(h)'
<1>0. LegalOn(h) /\ LeakInv /\ QueueTypes /\ HandleTypes
  BY DEF LegalInv, LeakInv, BaseInv, TypeInv, RoutingInv
<1>1. /\ UNCHANGED << pc, pipes, done, error, toFw, fromFw, fwStream >>
      /\ Head(fromFw).handle \in Handle /\ isr'.pipe = pipes[Head(fromFw).handle]
  BY <1>0, OldestResponse DEF IsrFetch, session, firmware
<1>2. Fetched(h)'
  <2>1. isr'.pipe = pipes[h] /\ pipes[h] # NoPipe => Head(fromFw).handle = h
    BY <1>0, <1>1 DEF LeakInv
  <2> QED
    BY <1>1, <2>1 DEF Fetched, IsTold, User, Idle
<1>3. Orderly(h)' /\ InPhase(h)' /\ Told(h)' /\ Acknowledged(h)' /\ Answers(h)'
  BY <1>0, <1>1 DEF LegalOn, Orderly, InPhase, Ends, User, Told, IsTold, Acknowledged,
                    Answers, Rests
<1> QED
  BY <1>2, <1>3 DEF LegalOn

\* A response completes a wait for the command that it answers: for a start,
\* what the handler fetched before is an answer on the same handle.
LEMMA LegalDispatch ==
  ASSUME LegalInv, IsrDispatch, NEW h \in Handle, h \notin unclosed
  PROVE  LegalOn(h)'
<1>0. /\ LegalOn(h) /\ LeakInv /\ QueueTypes /\ HandleTypes /\ HostTypes /\ OpenInv
  BY DEF LegalInv, LeakInv, BaseInv, TypeInv, RoutingInv
<1> DEFINE r == Head(fromFw)
           q == isr.pipe
<1>1. /\ UNCHANGED << pc, pipes, toFw, fwStream >> /\ isr.busy /\ ~ isr'.busy
      /\ r = fromFw[1] /\ 1 \in DOMAIN fromFw /\ r.handle \in Handle /\ r.error \in BOOLEAN
  BY <1>0, OldestResponse DEF IsrDispatch, QueueTypes, IsrIdle, firmware
<1>2. \A i \in DOMAIN fromFw' :
        /\ i \in Nat \ {0} /\ i + 1 \in DOMAIN fromFw /\ fromFw'[i] = fromFw[i + 1]
  BY <1>0, <1>1 DEF IsrDispatch, QueueTypes
<1>3. Orderly(h)' /\ InPhase(h)' /\ Fetched(h)'
  BY <1>0, <1>1 DEF LegalOn, Orderly, InPhase, Ends, User, Fetched
<1>4. Answers(h)'
  <2> SUFFICES ASSUME NEW i \in DOMAIN fromFw', fromFw'[i].handle = h,
                      fromFw'[i].type = "OPEN_DONE"
               PROVE  /\ toFw'[h] = << >>
                      /\ fwStream'[h] = IF fromFw'[i].error THEN "closed" ELSE "open"
                      /\ \A j \in DOMAIN fromFw' : j > i => fromFw'[j].handle # h
    BY DEF Answers, Rests
  <2>1. /\ Rests(h, IF fromFw[i + 1].error THEN "closed" ELSE "open")
        /\ \A j \in DOMAIN fromFw : j > i + 1 => fromFw[j].handle # h
    BY <1>0, <1>2 DEF LegalOn, Answers
  <2>2. \A j \in DOMAIN fromFw' : j > i => fromFw'[j].handle # h
    BY <1>2, <2>1
  <2> QED
    BY <1>1, <1>2, <2>1, <2>2 DEF Rests
<1>5. CASE pipes[h] = NoPipe \/ pipes[h] # q
  <2>1. pipes[h] # NoPipe => done'[pipes[h]] = done[pipes[h]] /\ error'[pipes[h]] = error[pipes[h]]
    BY <1>0, <1>5 DEF IsrDispatch, HostTypes, HandleTypes
  <2>2. User(h) \in {"opening", "opened", "starting"} => pipes[h] # NoPipe
    BY DEF User, Idle
  <2>3. Told(h)'
    BY <1>0, <1>1, <1>2, <2>1, <2>2 DEF LegalOn, Told, IsTold, User, Rests
  <2>4. Acknowledged(h)'
    BY <1>0, <1>1, <1>2, <2>1, <2>2 DEF LegalOn, Acknowledged, User, Rests
  <2> QED
    BY <1>3, <1>4, <2>3, <2>4 DEF LegalOn
<1>6. CASE pipes[h] # NoPipe /\ pipes[h] = q
  <2>1. /\ q \in Pipe /\ handle[q] = h /\ User(h) = pc[q] /\ User(h)' = pc[q]
        /\ error'[q] = r.error /\ done'[q] = done[q] \cup CompletionOf(r.type)
    BY <1>0, <1>1, <1>6 DEF IsrDispatch, HostTypes, HandleTypes, User, LeakInv
  <2>2. ~ IsTold(h) /\ User(h) # "opened"
    BY <1>0, <1>1, <1>6 DEF LegalOn, Fetched, Told
  <2>3. Told(h)'
    <3> SUFFICES ASSUME IsTold(h)'
                 PROVE  /\ Rests(h, IF error[pipes[h]] THEN "closed" ELSE "open")'
                        /\ \A i \in DOMAIN fromFw' : fromFw'[i].handle # h
      BY <2>1, <2>2 DEF Told
    <3>1. "open" \in CompletionOf(r.type)
      BY <1>1, <1>6, <2>1, <2>2 DEF IsTold
    <3>2. r.type = "OPEN_DONE"
      BY <3>1 DEF CompletionOf
    <3>3. r.handle = h
      BY <1>0, <1>1, <1>6, <3>2 DEF OpenInv, AwaitsOpen, LeakInv
    <3>4. /\ Rests(h, IF r.error THEN "closed" ELSE "open")
          /\ \A j \in DOMAIN fromFw : j > 1 => fromFw[j].handle # h
      BY <1>0, <1>1, <3>2, <3>3 DEF LegalOn, Answers
    <3>5. \A i \in DOMAIN fromFw' : fromFw'[i].handle # h
      BY <1>2, <3>4
    <3> QED
      BY <1>1, <1>6, <2>1, <3>4, <3>5 DEF Rests
  <2>4. Acknowledged(h)'
    <3> SUFFICES ASSUME User(h) = "starting" PROVE Acknowledged(h)'
      BY <2>1 DEF Acknowledged
    <3>1. r.handle = h
      BY <1>0, <1>1, <1>6 DEF LegalOn, Fetched
    <3>2. ~ r.error => Rests(h, "started")
      BY <1>0, <1>1, <3>1 DEF LegalOn, Acknowledged
    <3>3. \A i \in DOMAIN fromFw' : fromFw'[i].handle = h =>
             \/ /\ fromFw'[i].type = "START_ACK"
                /\ Rests(h, IF fromFw'[i].error THEN "open" ELSE "started")
             \/ fromFw'[i].type = "PIN_DATA_READY" /\ Rests(h, "started")
      BY <1>0, <1>2 DEF LegalOn, Acknowledged
    <3> QED
      BY <1>1, <1>6, <2>1, <3>2, <3>3 DEF Acknowledged, Rests
  <2> QED
    BY <1>3, <1>4, <2>3, <2>4 DEF LegalOn
<1> QED
  BY <1>5, <1>6

\* The steps of the firmware on another handle.
LEMMA LegalFirmwareElsewhere ==
  ASSUME QueueTypes, NEW h \in Handle, LegalOn(h),
         UNCHANGED << pc, pipes, done, error, isr >>,
         toFw'[h] = toFw[h], fwStream'[h] = fwStream[h],
         UNCHANGED fromFw \/ \E r \in Responses : r.handle # h /\ Adds(r)
  PROVE  LegalOn(h)'
<1>1. /\ \A i \in DOMAIN fromFw' : fromFw'[i].handle = h =>
           i \in DOMAIN fromFw /\ fromFw'[i] = fromFw[i]
      /\ fromFw # << >> => Head(fromFw') = Head(fromFw)
  <2>1. CASE UNCHANGED fromFw
    BY <2>1
  <2>2. ASSUME NEW r \in Responses, r.handle # h, Adds(r)
        PROVE  /\ \A i \in DOMAIN fromFw' : fromFw'[i].handle = h =>
                    i \in DOMAIN fromFw /\ fromFw'[i] = fromFw[i]
               /\ fromFw # << >> => Head(fromFw') = Head(fromFw)
    <3>1. \A i \in DOMAIN fromFw' : fromFw'[i].handle = h =>
            i \in DOMAIN fromFw /\ fromFw'[i] = fromFw[i]
      BY <2>2, AddsOne DEF QueueTypes
    <3>2. fromFw \in Seq(Responses) /\ fromFw' = Append(fromFw, r)
      BY <2>2 DEF QueueTypes, Adds
    <3>3. fromFw # << >> => Head(fromFw') = Head(fromFw)
      BY <3>2
    <3> QED
      BY <3>1, <3>3
  <2> QED
    BY <2>1, <2>2
<1>2. Orderly(h)' /\ InPhase(h)'
  BY DEF LegalOn, Orderly, InPhase, Ends, User
<1>3. Told(h)' /\ Acknowledged(h)' /\ Answers(h)'
  BY <1>1 DEF LegalOn, Told, IsTold, Acknowledged, Answers, User, Rests
<1>4. Fetched(h)'
  BY <1>1 DEF LegalOn, Fetched, IsTold, User, QueueTypes
<1> QED
  BY <1>2, <1>3, <1>4 DEF LegalOn

\* A command other than OPEN is taken: no start is told or about to be told.
LEMMA LegalTake ==
  ASSUME QueueTypes, NEW h \in Handle, LegalOn(h), FwTake(h),
         UNCHANGED << pc, pipes, done, error, isr >>,
         \A t \in Followers(Head(toFw[h]).type) : Legal(t, fwStream'[h]),
         Head(toFw[h]).type \in LastSent(User(h)) => fwStream'[h] \in EndsIn(User(h)),
         \/ UNCHANGED fromFw
         \/ \E r \in Responses :
              /\ Adds(r) /\ r.type # "OPEN_DONE"
              /\ User(h) = "starting" =>
                   /\ r.type = "START_ACK" /\ toFw'[h] = << >>
                   /\ fwStream'[h] = IF r.error THEN "open" ELSE "started"
  PROVE  LegalOn(h)'
<1>1. Orderly(h) /\ toFw[h] # << >> /\ User(h)' = User(h)
  BY DEF LegalOn, FwTake, User
<1>2. Orderly(h)' /\ InPhase(h)'
  BY <1>1, OrderlyTake DEF LegalOn, InPhase
<1>3. /\ ~ IsTold(h) /\ User(h) # "opened"
      /\ \A i \in DOMAIN fromFw : fromFw[i].handle = h => fromFw[i].type # "OPEN_DONE"
  BY <1>1, Phases DEF LegalOn, Told, Answers, Rests, InPhase, Ends
<1>4. ~ IsTold(h)'
  BY <1>1, <1>3 DEF IsTold
<1>5. /\ \A i \in DOMAIN fromFw' : \/ i \in DOMAIN fromFw /\ fromFw'[i] = fromFw[i]
                                   \/ /\ fromFw'[i].type # "OPEN_DONE"
                                      /\ User(h) = "starting" =>
                                           /\ fromFw'[i].type = "START_ACK"
                                           /\ toFw'[h] = << >>
                                           /\ fwStream'[h] = IF fromFw'[i].error THEN "open" ELSE "started"
      /\ fromFw # << >> => Head(fromFw') = Head(fromFw)
  <2>1. CASE UNCHANGED fromFw
    BY <2>1
  <2>2. CASE ~ UNCHANGED fromFw
    <3>1. PICK r \in Responses :
              /\ Adds(r) /\ r.type # "OPEN_DONE"
              /\ User(h) = "starting" =>
                   /\ r.type = "START_ACK" /\ toFw'[h] = << >>
                   /\ fwStream'[h] = IF r.error THEN "open" ELSE "started"
      BY <2>2
    <3>2. fromFw \in Seq(Responses) /\ fromFw' = Append(fromFw, r)
      BY <3>1 DEF QueueTypes, Adds
    <3>3. fromFw # << >> => Head(fromFw') = Head(fromFw)
      BY <3>2
    <3>4. \A i \in DOMAIN fromFw' :
            (i \in DOMAIN fromFw /\ fromFw'[i] = fromFw[i]) \/ fromFw'[i] = r
      BY <3>1, AddsOne DEF QueueTypes
    <3> QED
      BY <3>1, <3>3, <3>4
  <2> QED
    BY <2>1, <2>2
<1>6. Told(h)' /\ Answers(h)'
  BY <1>1, <1>3, <1>4, <1>5 DEF Told, Answers
<1>7. Acknowledged(h)'
  BY <1>1, <1>5 DEF LegalOn, Acknowledged, Rests
<1>8. Fetched(h)'
  BY <1>1, <1>3, <1>4, <1>5 DEF LegalOn, Fetched, QueueTypes
<1> QED
  BY <1>2, <1>6, <1>7, <1>8 DEF LegalOn

LEMMA LegalFirmware ==
  ASSUME LegalInv, NEW g \in Handle, Firmware(g), NEW h \in Handle, h \notin unclosed
  PROVE  LegalOn(h)'
<1>0. LegalOn(h) /\ QueueTypes /\ OpenInv /\ HandleTypes
  BY DEF LegalInv, BaseInv, TypeInv, RoutingInv
<1>1. UNCHANGED << pc, pipes, handle, done, error, isr >>
  BY DEF Firmware, FwOpen, FwStart, FwCapture, FwFrame, FwFlush, FwClose, session
<1>2. UNCHANGED toFw \/ FwTake(g)
  BY DEF Firmware, FwOpen, FwStart, FwCapture, FwFrame, FwFlush, FwClose
<1>3. UNCHANGED fromFw \/ \E r \in Responses : r.handle = g /\ Adds(r)
  <2>a. ASSUME NEW type \in {"OPEN_DONE", "START_ACK", "FLUSH_ACK", "CLOSE_ACK"},
               NEW err \in BOOLEAN, Respond(g, type, err, NoMsg)
        PROVE  \E r \in Responses : r.handle = g /\ Adds(r)
    <3>1. PICK r \in Responses : r.handle = g /\ Adds(r)
      BY <2>a, Answered
    <3> QED
      BY <3>1
  <2>1. CASE FwOpen(g) \/ FwStart(g)
    BY <2>1, <2>a, Zenon DEF FwOpen, FwStart, Refusal, Legal
  <2>2. CASE FwFlush(g) \/ FwClose(g)
    BY <2>2, <2>a, Zenon DEF FwFlush, FwClose, Legal
  <2>3. CASE FwCapture(g)
    BY <2>3 DEF FwCapture
  <2>4. CASE FwFrame(g)
    <3>1. Head(caps[g]) \in Msg
      BY <1>0, <2>4 DEF FwFrame, QueueTypes
    <3>2. \E err \in BOOLEAN : Respond(g, "PIN_DATA_READY", err, Head(caps[g]))
      BY <2>4 DEF FwFrame
    <3> QED
      BY <3>1, <3>2, Answered
  <2> QED
    BY <2>1, <2>2, <2>3, <2>4 DEF Firmware
<1>4. CASE h # g
  <2>1. toFw'[h] = toFw[h]
    BY <1>0, <1>2, <1>4, Taken
  <2>2. fwStream'[h] = fwStream[h]
    BY <1>0, <1>4 DEF Firmware, FwOpen, FwStart, FwCapture, FwFrame, FwFlush, FwClose, QueueTypes
  <2> QED
    BY <1>0, <1>1, <1>3, <1>4, <2>1, <2>2, LegalFirmwareElsewhere
<1>5. CASE h = g
  <2>0. Orderly(h) /\ InPhase(h) /\ fwStream[h] \in {"closed", "open", "started"}
    BY <1>0 DEF LegalOn, QueueTypes
  <2>t. ASSUME FwTake(h)
        PROVE  /\ Head(toFw[h]) = toFw[h][1] /\ 1 \in DOMAIN toFw[h] /\ toFw[h] # << >>
               /\ Legal(Head(toFw[h]).type, fwStream[h])
               /\ Len(toFw[h]) = 1 => toFw'[h] = << >>
    <3>1. /\ toFw[h] # << >> /\ Head(toFw[h]) = toFw[h][1] /\ 1 \in DOMAIN toFw[h]
          /\ Len(toFw'[h]) = Len(toFw[h]) - 1 /\ toFw'[h] \in Seq(Commands)
      BY <1>0, <2>t, Taken DEF FwTake
    <3>2. Legal(Head(toFw[h]).type, fwStream[h])
      BY <2>0, <3>1 DEF Orderly
    <3>3. Len(toFw[h]) = 1 => toFw'[h] = << >>
      BY <3>1
    <3> QED
      BY <3>1, <3>2, <3>3
  \* A start waits only for a start command, and that is alone in the queue.
  <2>s. ASSUME User(h) = "starting", toFw[h] # << >>
        PROVE  /\ Len(toFw[h]) = 1 /\ toFw[h][1].type \in {"START", "START_AND_CAPTURE"}
    BY <1>0, <2>0, <2>s, Phases, StartIsAlone DEF InPhase, Ends
  <2>1. CASE FwOpen(h)
    <3>1. FwTake(h) /\ Head(toFw[h]).type = "OPEN"
      BY <2>1 DEF FwOpen
    <3>2. /\ toFw'[h] = << >> /\ fwStream[h] = "closed"
          /\ toFw[h][1].type = "OPEN" /\ 1 \in DOMAIN toFw[h]
      BY <1>0, <2>0, <2>t, <3>1, OpenIsLast DEF Legal
    <3>3. /\ User(h) = "opening" /\ ~ IsTold(h)
          /\ \A i \in DOMAIN fromFw : fromFw[i].type # "OPEN_DONE"
      BY <1>0, <3>2, StreamAssumption DEF OpenInv, AwaitsOpen, User, IsTold
    <3>4. PICK bad \in BOOLEAN : /\ Respond(h, "OPEN_DONE", bad, NoMsg)
                                 /\ fwStream'[h] = IF bad THEN "closed" ELSE "open"
      <4>1. PICK refused \in Refusal :
               LET bad == refused \/ ~ Legal("OPEN", fwStream[h]) IN
               /\ Respond(h, "OPEN_DONE", bad, NoMsg)
               /\ fwStream' = IF bad THEN fwStream ELSE [fwStream EXCEPT ![h] = "open"]
        BY <2>1, Zenon DEF FwOpen
      <4>2. refused \in BOOLEAN
        BY DEF Refusal
      <4>3. CASE refused = TRUE
        BY <3>2, <4>1, <4>3
      <4>4. CASE refused = FALSE
        <5>1. Legal("OPEN", fwStream[h]) = TRUE
          BY <3>2 DEF Legal
        <5>2. (refused \/ ~ Legal("OPEN", fwStream[h])) = FALSE
          BY <4>4, <5>1
        <5> QED
          BY <1>0, <4>1, <5>2 DEF QueueTypes
      <4> QED
        BY <4>2, <4>3, <4>4
    <3>5. PICK r \in Responses : r.handle = h /\ r.error = bad /\ Adds(r)
      BY <3>4, Answered
    <3>6. Orderly(h)' /\ InPhase(h)'
      BY <1>0, <1>1, <3>2, <3>3, <3>4, Phases DEF Orderly, InPhase, Ends, User, QueueTypes
    <3>7. Told(h)' /\ Acknowledged(h)' /\ Fetched(h)'
      BY <1>1, <3>3 DEF Told, IsTold, Acknowledged, Fetched, User
    <3>8. Answers(h)'
      <4>1. \A i \in DOMAIN fromFw' : fromFw'[i].type = "OPEN_DONE" =>
               i = Len(fromFw) + 1 /\ fromFw'[i] = r
        BY <1>0, <3>3, <3>5, AddsOne DEF QueueTypes
      <4>2. \A i, j \in DOMAIN fromFw' : i = Len(fromFw) + 1 => ~ (j > i)
        <5>1. fromFw' \in Seq(Responses) /\ Len(fromFw') = Len(fromFw) + 1
          BY <1>0, <3>5, AddsOne DEF QueueTypes
        <5> QED
          BY <5>1
      <4>3. \A i \in DOMAIN fromFw' : fromFw'[i].type = "OPEN_DONE" =>
               fwStream'[h] = IF fromFw'[i].error THEN "closed" ELSE "open"
        BY <3>4, <3>5, <4>1
      <4> QED
        BY <3>2, <4>1, <4>2, <4>3 DEF Answers, Rests
    <3> QED
      BY <3>6, <3>7, <3>8 DEF LegalOn
  <2>2. CASE FwStart(h)
    <3> DEFINE c == Head(toFw[h])
    <3>1. FwTake(h) /\ c.type \in {"START", "START_AND_CAPTURE"}
      BY <2>2 DEF FwStart
    <3>2. fwStream[h] = "open"
      BY <2>t, <3>1 DEF Legal
    <3>3. PICK bad \in BOOLEAN : /\ Respond(h, "START_ACK", bad, NoMsg)
                                 /\ fwStream'[h] = IF bad THEN "open" ELSE "started"
      <4>1. PICK refused \in Refusal :
               LET bad == refused \/ ~ Legal(c.type, fwStream[h]) IN
               /\ Respond(h, "START_ACK", bad, NoMsg)
               /\ IF bad THEN UNCHANGED << fwStream, caps >>
                         ELSE fwStream' = [fwStream EXCEPT ![h] = "started"]
        BY <2>2, Zenon DEF FwStart
      <4>2. refused \in BOOLEAN
        BY DEF Refusal
      <4>3. CASE refused = TRUE
        BY <3>2, <4>1, <4>3
      <4>4. CASE refused = FALSE
        <5>1. Legal(c.type, fwStream[h]) = TRUE
          BY <3>1, <3>2 DEF Legal
        <5>2. (refused \/ ~ Legal(c.type, fwStream[h])) = FALSE
          BY <4>4, <5>1
        <5> QED
          BY <1>0, <4>1, <5>2 DEF QueueTypes
      <4> QED
        BY <4>2, <4>3, <4>4
    <3>4. PICK r \in Responses : r.type = "START_ACK" /\ r.error = bad /\ Adds(r)
      BY <3>3, Answered
    <3>5. User(h) = "starting" => toFw'[h] = << >>
      BY <2>s, <2>t, <3>1
    <3>6. fwStream'[h] \in {"open", "started"}
      BY <3>3
    <3>7. \A t \in Followers(c.type) : Legal(t, fwStream'[h])
      BY <3>1, <3>6 DEF Followers, Legal
    <3>8. c.type \in LastSent(User(h)) => fwStream'[h] \in EndsIn(User(h))
      BY <3>1, <3>6 DEF LastSent, EndsIn
    <3> QED
      BY <1>0, <1>1, <3>1, <3>3, <3>4, <3>5, <3>7, <3>8, LegalTake
  <2>3. CASE FwCapture(h) \/ FwFlush(h) \/ FwClose(h)
    <3>1. FwTake(h) /\ Head(toFw[h]).type \in {"CAPTURE", "FLUSH", "CLOSE"}
      BY <2>3 DEF FwCapture, FwFlush, FwClose
    <3>2. User(h) # "starting"
      BY <2>s, <2>t, <3>1
    <3>a. ASSUME NEW type \in {"FLUSH_ACK", "CLOSE_ACK"}, NEW err \in BOOLEAN,
                 Respond(h, type, err, NoMsg)
          PROVE  \E r \in Responses : Adds(r) /\ r.type # "OPEN_DONE"
      <4>1. PICK r \in Responses : r.type = type /\ Adds(r)
        BY <3>a, Answered
      <4> QED
        BY <4>1
    <3>3. UNCHANGED fromFw \/ \E r \in Responses : Adds(r) /\ r.type # "OPEN_DONE"
      <4>1. CASE FwCapture(h)
        BY <4>1 DEF FwCapture
      <4>2. CASE FwFlush(h)
        BY <4>2, <3>a, Zenon DEF FwFlush, Legal
      <4>3. CASE FwClose(h)
        BY <4>3, <3>a, Zenon DEF FwClose, Legal
      <4> QED
        BY <2>3, <4>1, <4>2, <4>3
    <3>4. \/ Head(toFw[h]).type = "CAPTURE" /\ fwStream'[h] = "started"
          \/ Head(toFw[h]).type = "FLUSH" /\ fwStream'[h] = "open"
          \/ Head(toFw[h]).type = "CLOSE" /\ fwStream'[h] = "closed"
      <4>1. CASE FwCapture(h)
        BY <2>t, <4>1 DEF FwCapture, Legal
      <4>2. CASE FwFlush(h)
        <5>1. FwTake(h) /\ Head(toFw[h]).type = "FLUSH"
          BY <4>2 DEF FwFlush
        <5>2. Legal("FLUSH", fwStream[h])
          BY <2>t, <5>1
        <5>3. fwStream' = [fwStream EXCEPT ![h] = "open"]
          BY <4>2, <5>2 DEF FwFlush
        <5> QED
          BY <1>0, <5>1, <5>3 DEF QueueTypes
      <4>3. CASE FwClose(h)
        BY <1>0, <4>3 DEF FwClose, QueueTypes
      <4> QED
        BY <2>3, <4>1, <4>2, <4>3
    <3>5. \A t \in Followers(Head(toFw[h]).type) : Legal(t, fwStream'[h])
      BY <3>4 DEF Followers, Legal
    <3>6. Head(toFw[h]).type \in LastSent(User(h)) => fwStream'[h] \in EndsIn(User(h))
      BY <3>4 DEF LastSent, EndsIn
    <3> QED
      BY <1>0, <1>1, <3>1, <3>2, <3>3, <3>5, <3>6, LegalTake
  <2>4. CASE FwFrame(h)
    <3>1. fwStream[h] = "started" /\ UNCHANGED << toFw, fwStream >>
      BY <2>4 DEF FwFrame
    <3>2. ~ IsTold(h) /\ User(h) # "opened"
      BY <1>0, <2>0, <3>1, Phases DEF LegalOn, Told, Rests, InPhase, Ends
    <3>3. \A i \in DOMAIN fromFw : fromFw[i].handle = h => fromFw[i].type # "OPEN_DONE"
      BY <1>0, <3>1 DEF LegalOn, Answers, Rests
    <3>4. User(h) = "starting" => Rests(h, "started")
      <4> SUFFICES ASSUME User(h) = "starting", toFw[h] # << >> PROVE FALSE
        BY <3>1 DEF Rests
      <4>1. Legal(toFw[h][1].type, "started")
        BY <2>0, <3>1 DEF Orderly
      <4> QED
        BY <2>s, <4>1 DEF Legal
    <3>5. PICK r \in Responses : r.type = "PIN_DATA_READY" /\ Adds(r)
      <4>1. Head(caps[h]) \in Msg
        BY <1>0, <2>4 DEF FwFrame, QueueTypes
      <4>2. \E err \in BOOLEAN : Respond(h, "PIN_DATA_READY", err, Head(caps[h]))
        BY <2>4 DEF FwFrame
      <4> QED
        BY <4>1, <4>2, Answered
    <3>6. /\ \A i \in DOMAIN fromFw' :
               (i \in DOMAIN fromFw /\ fromFw'[i] = fromFw[i]) \/ fromFw'[i] = r
          /\ fromFw # << >> => Head(fromFw') = Head(fromFw)
      <4>1. fromFw \in Seq(Responses) /\ fromFw' = Append(fromFw, r)
        BY <1>0, <3>5 DEF QueueTypes, Adds
      <4>2. fromFw # << >> => Head(fromFw') = Head(fromFw)
        BY <4>1
      <4> QED
        BY <1>0, <3>5, <4>2, AddsOne DEF QueueTypes
    <3>7. Orderly(h)' /\ InPhase(h)'
      BY <1>1, <2>0, <3>1 DEF Orderly, InPhase, Ends, User
    <3>8. Told(h)' /\ Answers(h)'
      BY <1>1, <3>2, <3>3, <3>5, <3>6 DEF Told, IsTold, User, Answers
    <3>9. Acknowledged(h)'
      BY <1>0, <1>1, <3>1, <3>4, <3>5, <3>6 DEF LegalOn, Acknowledged, User, Rests
    <3>10. Fetched(h)'
      BY <1>0, <1>1, <3>6 DEF LegalOn, Fetched, IsTold, User, QueueTypes
    <3> QED
      BY <3>7, <3>8, <3>9, <3>10 DEF LegalOn
  <2> QED
    BY <1>5, <2>1, <2>2, <2>3, <2>4 DEF Firmware
<1> QED
  BY <1>4, <1>5

LEMMA LegalNext ==
  ASSUME NothingAbandoned, OpenIsAnswered PROVE LegalInv /\ [Next]_vars => LegalInv'
<1> SUFFICES ASSUME LegalInv, [Next]_vars PROVE LegalInv'
  OBVIOUS
<1>1. BaseInv' /\ LeakInv'
  BY BaseNext, LeakNext DEF LegalInv
<1>2. unclosed \subseteq unclosed' \/ Reboot
  <2>1. ASSUME NEW p \in Pipe, Proceed(p) PROVE unclosed \subseteq unclosed'
    <3>1. CASE OpenEnds(p) \/ StartNoMsg(p) \/ StartStream(p)
      BY <3>1 DEF OpenEnds, StartNoMsg, StartStream, firmware
    <3>2. CASE StartAcknowledged(p) \/ StartNotAcknowledged(p) \/ UnwindClose(p)
               \/ UnwindEnds(p)
      BY <3>2 DEF StartAcknowledged, StartNotAcknowledged, UnwindClose, UnwindEnds, firmware
    <3>3. CASE \/ SensorStarts(p) \/ SensorFails(p) \/ SensorFailedEnds(p)
               \/ FlushEnds(p) \/ Close(p) \/ CloseEnds(p)
      BY <3>3 DEF SensorStarts, SensorFails, SensorFailedEnds, FlushEnds, Close, CloseEnds,
         firmware
    <3> QED
      BY <2>1, <3>1, <3>2, <3>3 DEF Proceed
  <2>2. ASSUME NEW p \in Pipe,
               StartNoHandle(p) \/ StartOpen(p) \/ StartOpenRefused(p) \/ Capture(p) \/ Stop(p)
        PROVE  unclosed \subseteq unclosed'
    BY <2>2 DEF StartNoHandle, StartOpen, StartOpenRefused, Capture, Stop, firmware
  <2>3. ASSUME NEW g \in Handle, Firmware(g) PROVE unclosed \subseteq unclosed'
    BY <2>3 DEF Firmware, FwOpen, FwStart, FwCapture, FwFrame, FwFlush, FwClose
  <2>4. CASE IsrFetch \/ IsrDispatch \/ ResetBegins \/ ResetEnds \/ UNCHANGED vars
    BY <2>4 DEF IsrFetch, IsrDispatch, ResetBegins, ResetEnds, firmware, vars
  <2> QED
    BY <2>1, <2>2, <2>3, <2>4 DEF Next
<1> SUFFICES ASSUME NEW h \in Handle, h \notin unclosed' PROVE LegalOn(h)'
  BY <1>1 DEF LegalInv
<1>3. CASE Reboot
  <2>1. pipes'[h] = NoPipe
    BY <1>3 DEF Reboot, LegalInv, LeakInv, RoutingInv, HandleTypes
  <2>2. User(h)' = Idle /\ toFw'[h] = << >> /\ fwStream'[h] = "closed" /\ fromFw' = << >>
    BY <1>3, <2>1 DEF Reboot, User
  <2> QED
    BY <2>2, Phases DEF LegalOn, Orderly, InPhase, Ends, Told, IsTold, Acknowledged,
                        Answers, Fetched, Idle
<1>4. CASE ~ Reboot
  <2>1. h \notin unclosed /\ LegalOn(h)
    BY <1>2, <1>4 DEF LegalInv
  <2>2. ASSUME NEW p \in Pipe, Proceed(p) PROVE LegalOn(h)'
    BY <2>2, LegalProceed
  <2>3. ASSUME NEW p \in Pipe, StartOpen(p) PROVE LegalOn(h)'
    BY <2>1, <2>3, LegalStartOpen
  <2>4. ASSUME NEW p \in Pipe, Capture(p) \/ Stop(p) PROVE LegalOn(h)'
    BY <1>1, <2>1, <2>4, LegalStreaming DEF BaseInv
  <2>5. CASE IsrFetch
    BY <2>1, <2>5, LegalFetch
  <2>6. CASE IsrDispatch
    BY <2>1, <2>6, LegalDispatch
  <2>7. ASSUME NEW g \in Handle, Firmware(g) PROVE LegalOn(h)'
    BY <2>1, <2>7, LegalFirmware
  <2>8. ASSUME NEW p \in Pipe, StartNoHandle(p) PROVE LegalOn(h)'
    BY <2>1, <2>8, LegalElsewhere DEF StartNoHandle, firmware
  <2>9. CASE ResetBegins \/ ResetEnds \/ UNCHANGED vars
    BY <2>1, <2>9, LegalElsewhere DEF ResetBegins, ResetEnds, vars, session, firmware
  <2>10. \A p \in Pipe : ~ StartOpenRefused(p)
    BY DEF StartOpenRefused, SendOutcome, NothingAbandoned
  <2> QED
    BY <1>4, <2>2, <2>3, <2>4, <2>5, <2>6, <2>7, <2>8, <2>9, <2>10 DEF Next
<1> QED
  BY <1>3, <1>4

LEMMA LegalInit == Init => LegalInv
<1> SUFFICES ASSUME Init PROVE LegalInv
  OBVIOUS
<1>1. ASSUME NEW h \in Handle PROVE LegalOn(h)
  BY Phases DEF Init, IsrIdle, LegalOn, User, Orderly, InPhase, Ends, Told, IsTold,
                Acknowledged, Answers, Fetched, Idle
<1> QED
  BY <1>1, BaseInit, LeakInit DEF LegalInv

\* The firmware never receives a command that its stream is not ready for, in
\* spite of refusals, of time-outs of every wait but the first, and of answers
\* that arrive when the handle has a new user.
THEOREM CommandsLegal ==
  ASSUME NothingAbandoned, OpenIsAnswered PROVE Spec => []FirmwareCommandsLegal
<1>1. LegalInv => FirmwareCommandsLegal
  <2> SUFFICES ASSUME LegalInv, NEW h \in Handle \ unclosed, toFw[h] # << >>
               PROVE  Legal(Head(toFw[h]).type, fwStream[h])
    BY DEF FirmwareCommandsLegal
  <2>1. toFw[h] \in Seq(Commands)
    BY DEF LegalInv, BaseInv, TypeInv, QueueTypes
  <2>2. Head(toFw[h]) = toFw[h][1]
    BY <2>1
  <2> QED
    BY <2>2 DEF LegalInv, LegalOn, Orderly
<1> QED
  BY <1>1, LegalInit, LegalNext, PTL DEF Spec
=============================================================================
