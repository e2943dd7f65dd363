---------------------------- MODULE IsysQueueProofs ----------------------------
(***************************************************************************)
(* For every number of nodes and of buffers, if no node is started while   *)
(* another one is being stopped: types are kept, every buffer is in one    *)
(* place, the firmware writes only to buffers that wait for it, no         *)
(* complete frame is left lying, and buffers are not overtaken.            *)
(***************************************************************************)
EXTENDS IsysQueue, FiniteSetTheorems, SequenceTheorems, TLAPS

\* Nodes are started again when all of them have stopped, or have come back
\* from a start that failed.
StartsTogether == Restarts = "whenAllStopped"

(* Pipelines, nodes, threads and mutexes *)

N == Cardinality(Node)
IoctlPhase == {"idle", "relock", "submit", "oops"}
FwPhase == {"start", "await", "flush"}

CtlType ==
  /\ ssc \in [Node -> BOOLEAN] /\ first \in [Node -> BOOLEAN]
  /\ pipe \in [Node -> Node \cup {NoNode}]
  /\ ip \in [Node -> [nrQueues : Nat, queues : SUBSET Node, nrStreaming : Int,
                      streaming : BOOLEAN, startCount : Int]]
  /\ lock \in [Node -> Thread \cup {NoThread}]
  /\ ipOf \in [Thread -> Node \cup {NoNode}]
  /\ pc \in [Thread -> IoctlPhase \cup OnPhase \cup OffPhase \cup StartPhase]
  /\ \A q \in Node : /\ pc[B(q)] \in IoctlPhase \cup StartPhase
                     /\ pc[S(q)] \in {"idle"} \cup OnPhase \cup OffPhase \cup StartPhase
                     /\ pc[B(q)] = "submit" => ipOf[B(q)] \in Node

\* Is the pipeline in node o set up, and do all nodes stream in it?
Live(o) == ip[o].startCount = 1
Full(o) == Live(o) /\ ip[o].queues = Node

\* One pipeline at a time: it counts the nodes that stream, and they point to
\* it.  One that was given up keeps nodes, but never all of them.
OnePipeline(o) ==
  /\ ip[o].nrStreaming = Cardinality(ip[o].queues)
  /\ ip[o].nrQueues \in {0, N}
  /\ ip[o].queues # {} => ip[o].nrQueues = N
  /\ ip[o].startCount \in {0, 1}
  /\ Live(o) => ip[o].nrQueues = N /\ \A q \in ip[o].queues : pipe[q] = o
  /\ \A q \in Node : pipe[q] = o => Live(o)
  /\ ~ Live(o) /\ ip[o].queues # {} => /\ ip[o].queues # Node
                                       /\ \A r \in Node : pipe[r] = NoNode
  /\ Live(o) /\ (\E r \in Node : pipe[r] = NoNode) => ip[o].queues # {}
  /\ Live(o) => \A p \in Node : Live(p) => p = o

\* While a node is being started none is being stopped, and a pipeline in
\* which nodes stream is the pipeline of all.
OneStart(q) ==
  pc[S(q)] \in OnPhase \cup StartPhase =>
    /\ \A r \in Node : pc[S(r)] \notin OffPhase
    /\ \A o \in Node : ip[o].queues # {} => \A r \in Node : pipe[r] = o

\* Where a node is, by what its thread does.
OneNode(q) ==
  /\ pc[S(q)] \in OnPhase => ssc[q] /\ \A o \in Node : q \notin ip[o].queues
  /\ pc[S(q)] \in {"onJoin", "onUndo"} =>
        ipOf[S(q)] \in Node /\ \A r \in Node : pipe[r] = ipOf[S(q)]
  /\ pc[S(q)] = "onUndo" => ip[ipOf[S(q)]].queues = Node \ {q}
  /\ pc[S(q)] \in {"idle", "offWait"} /\ ssc[q] => \E o \in Node : q \in ip[o].queues
  /\ ~ ssc[q] => pc[S(q)] = "idle" /\ \A o \in Node : Live(o) => q \notin ip[o].queues
  /\ pc[S(q)] \in {"offLock", "offStop", "flush"} =>
        pipe[q] = ipOf[S(q)] /\ (pipe[q] # NoNode => q \in ip[pipe[q]].queues)
  /\ pc[S(q)] \in {"offStop", "flush"} => ipOf[S(q)] \in Node
  /\ pc[S(q)] = "flush" => ip[ipOf[S(q)]].queues = Node /\ lock[ipOf[S(q)]] = S(q)
  /\ pc[S(q)] = "offReturn" => pipe[q] = NoNode /\ ipOf[S(q)] \in Node

\* A thread that starts a stream has the pipeline's mutex, and all nodes stream;
\* only buf_queue() may come late, to a pipeline that is empty again.
OneRun(t) ==
  pc[t] \in StartPhase =>
    /\ ipOf[t] \in Node /\ lock[ipOf[t]] = t
    /\ \/ ip[ipOf[t]].queues = Node /\ ip[ipOf[t]].startCount = 1
       \/ ip[ipOf[t]].queues = {} /\ t[2] = "buf"

OneMutex == \A t, u \in Thread : pc[t] \in FwPhase /\ pc[u] \in FwPhase => t = u

Pipelines == \A o \in Node : OnePipeline(o)
Starts == \A q \in Node : OneStart(q)
Nodes == \A q \in Node : OneNode(q)
Runs == \A t \in Thread : OneRun(t)
Ctl == CtlType /\ OneMutex /\ Pipelines /\ Starts /\ Nodes /\ Runs

\* A stream that was opened is not started after all.
GivenUp(t) == StreamNotAcknowledged(t) \/ SensorFails(t)

-----------------------------------------------------------------------------
(* Threads, finite sets *)

LEMMA Threads ==
  /\ \A t \in Thread : (\E q \in Node : t = S(q)) \/ (\E q \in Node : t = B(q))
  /\ \A q \in Node : S(q) \in Thread /\ B(q) \in Thread /\ S(q)[1] = q /\ B(q)[1] = q
                     /\ S(q)[2] = "stream" /\ B(q)[2] = "buf" /\ S(q) # NoThread /\ B(q) # NoThread
  /\ \A q, r \in Node : S(q) # B(r) /\ (S(q) = S(r) => q = r) /\ (B(q) = B(r) => q = r)
  /\ NoThread \notin Thread
BY QueueAssumption DEF Thread, S, B, NoThread

LEMMA SubsetFacts ==
  /\ N \in Nat
  /\ \A X \in SUBSET Node :
       /\ IsFiniteSet(X) /\ Cardinality(X) \in Nat /\ Cardinality(X) <= N
       /\ Cardinality(X) = N => X = Node
       /\ Cardinality(X) = 0 <=> X = {}
       /\ \A q \in Node : /\ q \notin X => Cardinality(X \cup {q}) = Cardinality(X) + 1
                          /\ q \in X => Cardinality(X \ {q}) = Cardinality(X) - 1
<1>1. IsFiniteSet(Node) /\ N \in Nat
  BY QueueAssumption, FS_CardinalityType DEF QueueAssumption, N
<1> SUFFICES ASSUME NEW X \in SUBSET Node
             PROVE  /\ IsFiniteSet(X) /\ Cardinality(X) \in Nat /\ Cardinality(X) <= N
                    /\ Cardinality(X) = N => X = Node
                    /\ Cardinality(X) = 0 <=> X = {}
                    /\ \A q \in Node : /\ q \notin X => Cardinality(X \cup {q}) = Cardinality(X) + 1
                                       /\ q \in X => Cardinality(X \ {q}) = Cardinality(X) - 1
  BY <1>1
<1>2. IsFiniteSet(X) /\ Cardinality(X) <= N /\ (Cardinality(X) = N => X = Node)
  BY <1>1, FS_Subset DEF N
<1>3. Cardinality(X) \in Nat
  BY <1>2, FS_CardinalityType
<1>4. Cardinality(X) = 0 <=> X = {}
  BY <1>2, FS_EmptySet
<1>5. ASSUME NEW q \in Node
      PROVE  /\ q \notin X => Cardinality(X \cup {q}) = Cardinality(X) + 1
             /\ q \in X => Cardinality(X \ {q}) = Cardinality(X) - 1
  BY <1>2, FS_AddElement, FS_RemoveElement
<1> QED
  BY <1>2, <1>3, <1>4, <1>5

\* A pipeline whose nodes all stream, or one that no node is in.
LEMMA Complete ==
  ASSUME Ctl, NEW o \in Node, ip[o].nrStreaming = ip[o].nrQueues
  PROVE  Full(o) \/ (ip[o].queues = {} /\ ip[o].nrQueues = 0)
<1>1. OnePipeline(o) /\ ip[o].queues \in SUBSET Node
  BY DEF Ctl, CtlType, Pipelines
<1> DEFINE Q == ip[o].queues
<1>a. (Cardinality(Q) = N => Q = Node) /\ (Cardinality(Q) = 0 => Q = {})
  <2> HIDE DEF Q
  <2> QED BY <1>1, SubsetFacts DEF Q
<1>2. ip[o].nrQueues = 0 => ip[o].queues = {}
  BY <1>1, <1>a DEF OnePipeline
<1>3. ip[o].nrQueues = N => ip[o].queues = Node
  BY <1>1, <1>a DEF OnePipeline
<1>4. ip[o].nrQueues = N => Live(o)
  BY <1>1, <1>3 DEF OnePipeline, Live
<1> QED
  BY <1>1, <1>2, <1>3, <1>4 DEF OnePipeline, Full

\* A node that streams in a pipeline, and has not lost it, points to it.
LEMMA Member ==
  ASSUME Ctl, NEW q \in Node, NEW o \in Node, q \in ip[o].queues
  PROVE  /\ pipe[q] # NoNode => pipe[q] = o /\ Live(o)
         /\ \A p \in Node : pipe[p] # NoNode => pipe[p] = o
<1>1. OnePipeline(o) /\ NoNode \notin Node
  BY QueueAssumption DEF Ctl, Pipelines, QueueAssumption
<1>2. ASSUME NEW p \in Node, pipe[p] # NoNode PROVE pipe[p] = o /\ Live(o)
  <2>1. pipe[p] \in Node
    BY <1>2 DEF Ctl, CtlType
  <2>2. Live(pipe[p]) /\ OnePipeline(pipe[p])
    BY <2>1 DEF Ctl, Pipelines, OnePipeline
  <2>3. Live(o)
    BY <1>1, <1>2 DEF OnePipeline
  <2> QED
    BY <2>1, <2>2, <2>3 DEF OnePipeline
<1> QED
  BY <1>2

-----------------------------------------------------------------------------
(* buf_queue() *)

\* A step of a thread takes free mutexes and drops its own.
MayHold(t, l) == \A r \in Node : lock[r] \notin {t, NoThread} => l[r] = lock[r]

\* A step of a thread B(q) that leaves pipelines and nodes alone.
BufMoves(q, s, o, l) ==
  /\ pc' = [pc EXCEPT ![B(q)] = s] /\ ipOf' = [ipOf EXCEPT ![B(q)] = o] /\ lock' = l
  /\ pipe' = pipe /\ ip' = ip /\ ssc' = ssc /\ first' = first
BufMayRun(q, s, o, l) ==
  /\ s \in StartPhase => o \in Node /\ l[o] = B(q) /\ (Full(o) \/ ip[o].queues = {})
  /\ s = "submit" => o \in Node
  /\ s \in FwPhase => \A t \in Thread : pc[t] \in FwPhase => t = B(q)

LEMMA BufStep ==
  ASSUME Ctl, NEW q \in Node, NEW s \in IoctlPhase \cup StartPhase, NEW o \in Node \cup {NoNode},
         NEW l \in [Node -> Thread \cup {NoThread}],
         BufMoves(q, s, o, l), MayHold(B(q), l), BufMayRun(q, s, o, l)
  PROVE  Ctl'
<1> USE DEF Ctl, BufMoves
<1>0. /\ pc' \in [Thread -> IoctlPhase \cup OnPhase \cup OffPhase \cup StartPhase]
      /\ \A r \in Node : pc'[S(r)] = pc[S(r)] /\ ipOf'[S(r)] = ipOf[S(r)]
      /\ \A t \in Thread : t # B(q) => pc'[t] = pc[t] /\ ipOf'[t] = ipOf[t]
      /\ pc'[B(q)] = s /\ ipOf'[B(q)] = o
  BY Threads DEF CtlType
<1>1. CtlType'
  BY <1>0, Threads DEF CtlType, BufMayRun
<1>2. OneMutex'
  BY <1>0, Threads DEF OneMutex, BufMayRun
<1>3. Pipelines'
  BY DEF Pipelines, OnePipeline, Live, Full
<1>4. Starts'
  BY <1>0 DEF Starts, OneStart
<1>5. Nodes'
  <2> SUFFICES ASSUME NEW r \in Node PROVE OneNode(r)'
    BY DEF Nodes
  <2>1. OneNode(r)
    BY DEF Nodes
  <2>2. pc[S(r)] = "flush" => ipOf[S(r)] \in Node /\ l[ipOf[S(r)]] = S(r)
    BY <2>1, Threads DEF OneNode, MayHold
  <2> QED
    BY <1>0, <2>1, <2>2 DEF OneNode, Live
<1>6. Runs'
  <2> SUFFICES ASSUME NEW t \in Thread, pc'[t] \in StartPhase
               PROVE  /\ ipOf'[t] \in Node /\ lock'[ipOf'[t]] = t
                      /\ \/ ip[ipOf'[t]].queues = Node /\ ip[ipOf'[t]].startCount = 1
                         \/ ip[ipOf'[t]].queues = {} /\ t[2] = "buf"
    BY DEF Runs, OneRun
  <2>1. CASE t = B(q)
    BY <2>1, <1>0, Threads DEF Full, Live, BufMayRun
  <2>2. CASE t # B(q)
    <3>1. OneRun(t) /\ pc[t] \in StartPhase
      BY <2>2, <1>0 DEF Runs
    <3>2. lock'[ipOf[t]] = t
      BY <3>1, <2>2, Threads DEF OneRun, MayHold
    <3> QED
      BY <3>1, <3>2, <2>2, <1>0 DEF OneRun, Full, Live
  <2> QED
    BY <2>1, <2>2
<1> QED
  BY <1>1, <1>2, <1>3, <1>4, <1>5, <1>6

\* A step that nothing here is about.
LEMMA CtlUnchanged ==
  ASSUME Ctl, UNCHANGED << pipe, ip, ssc, first, pc, ipOf, lock >>
  PROVE  Ctl'
<1> USE DEF Ctl
<1>1. CtlType'
  BY DEF CtlType
<1>2. OneMutex'
  BY DEF OneMutex
<1>3. Pipelines'
  BY DEF Pipelines, OnePipeline, Live, Full
<1>4. Starts'
  BY DEF Starts, OneStart
<1>5. Nodes'
  BY DEF Nodes, OneNode, Live
<1>6. Runs'
  BY DEF Runs, OneRun
<1> QED
  BY <1>1, <1>2, <1>3, <1>4, <1>5, <1>6

LEMMA QBufCtl == ASSUME Ctl, NEW q \in Node, QBuf(q) PROVE Ctl'
<1>1. CASE UNCHANGED pc
  BY <1>1, CtlUnchanged DEF QBuf, pipeline, flags
<1>2. CASE pc' = [pc EXCEPT ![B(q)] = "relock"]
  <2>1. /\ ipOf' = [ipOf EXCEPT ![B(q)] = ipOf[B(q)]] /\ ipOf[B(q)] \in Node \cup {NoNode}
        /\ lock' = lock /\ lock \in [Node -> Thread \cup {NoThread}]
        /\ UNCHANGED << pipe, ip, ssc, first >>
    BY Threads DEF Ctl, CtlType, QBuf, pipeline, flags
  <2>2. BufMoves(q, "relock", ipOf[B(q)], lock) /\ MayHold(B(q), lock)
    BY <1>2, <2>1 DEF BufMoves, MayHold
  <2>3. BufMayRun(q, "relock", ipOf[B(q)], lock)
    BY DEF BufMayRun, StartPhase, FwPhase
  <2> QED
    BY <2>1, <2>2, <2>3, BufStep DEF IoctlPhase
<1> QED
  BY <1>1, <1>2 DEF QBuf, Goto

\* buf_queue() as far as it starts no stream.
LEMMA QBufEndsCtl ==
  ASSUME Ctl, NEW q \in Node, QBufRelocks(q) \/ QBufWaits(q) \/ QBufNoMsg(q) \/ QBufCaptures(q)
  PROVE  Ctl'
<1>1. /\ \E s \in IoctlPhase : pc' = [pc EXCEPT ![B(q)] = s]
      /\ \E o \in Node \cup {NoNode} : ipOf' = [ipOf EXCEPT ![B(q)] = o]
      /\ lock' = lock /\ lock \in [Node -> Thread \cup {NoThread}]
      /\ UNCHANGED << pipe, ip, ssc, first >>
  <2>1. ipOf[B(q)] \in Node \cup {NoNode} /\ ipOf = [ipOf EXCEPT ![B(q)] = ipOf[B(q)]]
        /\ pipe[q] \in Node \cup {NoNode}
    BY Threads DEF Ctl, CtlType
  <2>2. CASE QBufRelocks(q)
    BY <2>1, <2>2 DEF Ctl, CtlType, QBufRelocks, pipeline, flags, Goto, IoctlPhase
  <2>3. CASE QBufWaits(q)
    BY <2>1, <2>3 DEF Ctl, CtlType, QBufWaits, pipeline, flags, locals, Goto, IoctlPhase
  <2>4. CASE QBufNoMsg(q)
    BY <2>1, <2>4 DEF Ctl, CtlType, QBufNoMsg, pipeline, flags, locals, Goto, IoctlPhase
  <2>5. CASE QBufCaptures(q)
    BY <2>1, <2>5 DEF Ctl, CtlType, QBufCaptures, pipeline, flags, locals, Goto, IoctlPhase
  <2> QED
    BY <2>2, <2>3, <2>4, <2>5
<1>2. PICK s \in IoctlPhase : pc' = [pc EXCEPT ![B(q)] = s]
  BY <1>1
<1>3. PICK o \in Node \cup {NoNode} : ipOf' = [ipOf EXCEPT ![B(q)] = o]
  BY <1>1
<1>4. s \notin StartPhase /\ s \notin FwPhase
  BY DEF IoctlPhase, StartPhase, FwPhase
<1>5. s = "submit" => o \in Node
  <2>1. pc'[B(q)] = s /\ ipOf'[B(q)] = o
    BY <1>2, <1>3, Threads DEF Ctl, CtlType
  <2>2. CASE QBufRelocks(q)
    BY <1>2, <1>3, <2>1, <2>2, Threads DEF Ctl, CtlType, QBufRelocks, Goto
  <2>3. CASE QBufWaits(q) \/ QBufNoMsg(q) \/ QBufCaptures(q)
    BY <1>2, <2>1, <2>3, Threads DEF Ctl, CtlType, QBufWaits, QBufNoMsg, QBufCaptures, Goto
  <2> QED
    BY <2>2, <2>3
<1>6. BufMoves(q, s, o, lock) /\ MayHold(B(q), lock) /\ BufMayRun(q, s, o, lock)
  BY <1>1, <1>2, <1>3, <1>4, <1>5 DEF BufMoves, MayHold, BufMayRun
<1> QED
  BY <1>1, <1>6, BufStep

LEMMA QBufStartsCtl == ASSUME Ctl, NEW q \in Node, QBufStarts(q) PROVE Ctl'
<1> DEFINE t == B(q)
           o == ipOf[t]
<1>1. t \in Thread /\ o \in Node \cup {NoNode} /\ pc[t] = "submit" /\ t # NoThread
  BY Threads DEF Ctl, CtlType, QBufStarts
<1>2. o \in Node
  BY <1>1 DEF Ctl, CtlType
<1>3. ip[o].nrStreaming = ip[o].nrQueues
  BY DEF QBufStarts, SubmitReady
<1>4. Full(o) \/ ip[o].queues = {}
  BY <1>2, <1>3, Complete
<1>5. /\ pc' = [pc EXCEPT ![t] = "start"] /\ ipOf' = [ipOf EXCEPT ![t] = o]
      /\ lock' = [lock EXCEPT ![o] = t] /\ lock[o] \in {NoThread, t}
      /\ UNCHANGED << pipe, ip, ssc, first >>
      /\ \A u \in Thread : pc[u] \notin FwPhase
  BY <1>1 DEF Ctl, CtlType, QBufStarts, Goto, Holds, CanLock, pipeline, locals, flags,
              StreamMutexFree, FwPhase
<1> DEFINE l == [lock EXCEPT ![o] = t]
<1>6. l \in [Node -> Thread \cup {NoThread}] /\ l[o] = t
      /\ \A r \in Node : lock[r] \notin {t, NoThread} => l[r] = lock[r]
  BY <1>1, <1>2, <1>5 DEF Ctl, CtlType
<1> HIDE DEF t, o, l
<1>7. lock' = l
  BY <1>5 DEF l
<1>8. BufMoves(q, "start", o, l) /\ MayHold(t, l)
  BY <1>5, <1>6, <1>7 DEF BufMoves, MayHold, t
<1>9. BufMayRun(q, "start", o, l)
  BY <1>2, <1>4, <1>5, <1>6 DEF BufMayRun, t
<1> QED
  BY <1>2, <1>6, <1>8, <1>9, BufStep DEF t, StartPhase
-----------------------------------------------------------------------------
(* start_streaming() and stop_streaming(), as far as they leave pipelines alone *)

\* A step of a thread S(q).
NodeMoves(q, pl, o, z, l) ==
  /\ pc' = [pc EXCEPT ![S(q)] = pl] /\ ipOf' = [ipOf EXCEPT ![S(q)] = o]
  /\ ssc' = [ssc EXCEPT ![q] = z] /\ lock' = l
  /\ pipe' = pipe /\ ip' = ip /\ first' \in [Node -> BOOLEAN]
MayRun(q, pl, o, l) ==
  /\ pl \in StartPhase => o \in Node /\ l[o] = S(q) /\ Full(o)
  /\ pl \in FwPhase => \A t \in Thread : pc[t] \in FwPhase => t = S(q)
MayStart(q, pl) ==
  /\ pl \in OnPhase \cup StartPhase =>
        /\ \A r \in Node \ {q} : pc[S(r)] \notin OffPhase
        /\ \A p \in Node : ip[p].queues # {} => \A r \in Node : pipe[r] = p
  /\ pl \in OffPhase => \A r \in Node \ {q} : pc[S(r)] \notin OnPhase \cup StartPhase

LEMMA NodeStep ==
  ASSUME Ctl, NEW q \in Node, NEW pl \in {"idle"} \cup OnPhase \cup OffPhase \cup StartPhase,
         NEW o \in Node \cup {NoNode}, NEW z \in BOOLEAN,
         NEW l \in [Node -> Thread \cup {NoThread}],
         NodeMoves(q, pl, o, z, l), MayHold(S(q), l), MayRun(q, pl, o, l), MayStart(q, pl),
         OneNode(q)'
  PROVE  Ctl'
<1> USE DEF Ctl
<1>0. /\ pc' \in [Thread -> IoctlPhase \cup OnPhase \cup OffPhase \cup StartPhase]
      /\ \A x \in Node : pc'[B(x)] = pc[B(x)] /\ ipOf'[B(x)] = ipOf[B(x)]
      /\ \A u \in Thread : u # S(q) => pc'[u] = pc[u] /\ ipOf'[u] = ipOf[u]
      /\ \A x \in Node : x # q => pc'[S(x)] = pc[S(x)] /\ ipOf'[S(x)] = ipOf[S(x)]
      /\ pc'[S(q)] = pl /\ ipOf'[S(q)] = o
  BY Threads DEF CtlType, IoctlPhase, NodeMoves
<1>u. pipe' = pipe /\ ip' = ip /\ lock' = l
  BY DEF NodeMoves
<1>p. OnPhase \cap StartPhase = {} /\ OnPhase \cap OffPhase = {} /\ OffPhase \cap StartPhase = {}
  BY DEF OnPhase, OffPhase, StartPhase
<1>1. CtlType'
  BY <1>0, Threads DEF CtlType, NodeMoves
<1>2. OneMutex'
  BY <1>0, Threads DEF OneMutex, MayRun
<1>3. Pipelines'
  BY <1>u DEF Pipelines, OnePipeline, Live, Full
<1>4. Starts'
  <2> SUFFICES ASSUME NEW r \in Node, pc'[S(r)] \in OnPhase \cup StartPhase
               PROVE  /\ \A p \in Node : pc'[S(p)] \notin OffPhase
                      /\ \A p \in Node : ip[p].queues # {} => \A v \in Node : pipe[v] = p
    BY <1>u DEF Starts, OneStart
  <2>1. CASE r = q
    BY <2>1, <1>0, <1>p DEF MayStart
  <2>2. CASE r # q
    <3>1. pc[S(r)] \in OnPhase \cup StartPhase /\ OneStart(r)
      BY <2>2, <1>0 DEF Starts
    <3>2. pl \notin OffPhase
      BY <2>2, <3>1 DEF MayStart
    <3> QED
      BY <3>1, <3>2, <1>0 DEF OneStart
  <2> QED
    BY <2>1, <2>2
<1>5. Nodes'
  <2> SUFFICES ASSUME NEW r \in Node, r # q PROVE OneNode(r)'
    BY DEF Nodes
  <2>1. OneNode(r)
    BY DEF Nodes
  <2>2. pc[S(r)] = "flush" => ipOf[S(r)] \in Node /\ l[ipOf[S(r)]] = S(r)
    BY <2>1, Threads DEF OneNode, MayHold
  <2>3. ssc'[r] = ssc[r]
    BY DEF CtlType, NodeMoves
  <2>4. pc'[S(r)] = pc[S(r)] /\ ipOf'[S(r)] = ipOf[S(r)]
    BY <1>0
  <2> QED
    BY <1>u, <2>1, <2>2, <2>3, <2>4 DEF OneNode, Live
<1>6. Runs'
  <2> SUFFICES ASSUME NEW t \in Thread, pc'[t] \in StartPhase
               PROVE  /\ ipOf'[t] \in Node /\ lock'[ipOf'[t]] = t
                      /\ \/ ip[ipOf'[t]].queues = Node /\ ip[ipOf'[t]].startCount = 1
                         \/ ip[ipOf'[t]].queues = {} /\ t[2] = "buf"
    BY <1>u DEF Runs, OneRun
  <2>1. CASE t = S(q)
    BY <2>1, <1>0, <1>u DEF Full, Live, MayRun
  <2>2. CASE t # S(q)
    <3>1. OneRun(t) /\ pc[t] \in StartPhase
      BY <2>2, <1>0 DEF Runs
    <3>2. lock'[ipOf[t]] = t
      BY <3>1, <2>2, <1>u, Threads DEF OneRun, MayHold
    <3> QED
      BY <3>1, <3>2, <2>2, <1>0 DEF OneRun, Full, Live
  <2> QED
    BY <2>1, <2>2
<1> QED
  BY <1>1, <1>2, <1>3, <1>4, <1>5, <1>6

LEMMA StreamOnCtl == ASSUME StartsTogether, Ctl, NEW q \in Node, StreamOn(q) PROVE Ctl'
<1> DEFINE t == S(q)
<1>1. /\ t \in Thread /\ ipOf[t] \in Node \cup {NoNode} /\ pc[t] = "idle" /\ ~ ssc[q]
      /\ ipOf' = [ipOf EXCEPT ![t] = ipOf[t]] /\ pc' = [pc EXCEPT ![t] = "onWait"]
      /\ lock' = lock /\ lock \in [Node -> Thread \cup {NoThread}]
      /\ ssc' = [ssc EXCEPT ![q] = TRUE] /\ UNCHANGED << pipe, ip >>
      /\ first' \in [Node -> BOOLEAN] /\ ~ Draining
  BY Threads DEF Ctl, CtlType, StreamOn, pipeline, locals, Goto, StartsTogether
<1>2. \A r \in Node : pc[S(r)] \notin OffPhase
  BY <1>1 DEF Draining
<1>3. ASSUME NEW p \in Node, ip[p].queues # {}
      PROVE  Live(p) /\ \A r \in Node : pipe[r] = p
  <2>1. ip[p].nrStreaming > 0
    <3> DEFINE Q == ip[p].queues
    <3>1. Q \in SUBSET Node /\ Q # {} /\ ip[p].nrStreaming = Cardinality(Q)
      BY <1>3 DEF Ctl, CtlType, Pipelines, OnePipeline
    <3> HIDE DEF Q
    <3>2. Cardinality(Q) \in Nat /\ Cardinality(Q) # 0
      BY <3>1, SubsetFacts
    <3> QED
      BY <3>1, <3>2
  <2>2. \A r \in Node : pipe[r] \in Node
    BY <1>1, <2>1 DEF Draining, Ctl, CtlType
  <2>3. Live(p)
    BY <1>3, <2>2, QueueAssumption DEF QueueAssumption, Ctl, Pipelines, OnePipeline
  <2> QED
    BY <2>2, <2>3 DEF Ctl, Pipelines, OnePipeline
<1>4. \A p \in Node : q \notin ip[p].queues
  BY <1>1, <1>3 DEF Ctl, Nodes, OneNode
<1>5. OneNode(q)'
  BY <1>1, <1>4 DEF OneNode, OnPhase, Ctl, CtlType
<1>6. NodeMoves(q, "onWait", ipOf[t], TRUE, lock) /\ MayHold(t, lock)
  BY <1>1 DEF NodeMoves, MayHold
<1>7. MayRun(q, "onWait", ipOf[t], lock) /\ MayStart(q, "onWait")
  BY <1>2, <1>3 DEF MayRun, MayStart, OnPhase, OffPhase, StartPhase, FwPhase
<1> QED
  BY <1>1, <1>5, <1>6, <1>7, NodeStep DEF OnPhase
LEMMA StartWaitsCtl == ASSUME Ctl, NEW q \in Node, StartWaits(q) PROVE Ctl'
<1> DEFINE t == S(q)
<1>1. /\ t \in Thread /\ ipOf[t] \in Node \cup {NoNode} /\ pc[t] = "onWait"
      /\ NodeMoves(q, "onLock", ipOf[t], ssc[q], lock) /\ pc'[t] = "onLock"
      /\ UNCHANGED << pipe, ip, ssc, ipOf >>
      /\ ssc[q] \in BOOLEAN /\ lock \in [Node -> Thread \cup {NoThread}] /\ MayHold(t, lock)
  BY Threads DEF Ctl, CtlType, StartWaits, pipeline, locals, flags, Goto, NodeMoves, MayHold
<1>2. OneNode(q) /\ OneStart(q)
  BY DEF Ctl, Nodes, Starts
<1>3. OneNode(q)'
  BY <1>1, <1>2 DEF OneNode, OnPhase, Live
<1>4. MayRun(q, "onLock", ipOf[t], lock) /\ MayStart(q, "onLock")
  BY <1>1, <1>2 DEF OneStart, MayRun, MayStart, OnPhase, OffPhase, StartPhase, FwPhase
<1> QED
  BY <1>1, <1>3, <1>4, NodeStep DEF OnPhase

LEMMA StartFindsPipelineCtl == ASSUME Ctl, NEW q \in Node, StartFindsPipeline(q) PROVE Ctl'
<1> DEFINE t == S(q)
           o == pipe[q]
           l == IF o = q THEN [lock EXCEPT ![q] = t] ELSE lock
<1>1. /\ t \in Thread /\ o \in Node /\ pc[t] = "onLock" /\ t # NoThread
      /\ NodeMoves(q, "onJoin", o, ssc[q], l) /\ pc'[t] = "onJoin" /\ ipOf'[t] = o
      /\ UNCHANGED << pipe, ip, ssc >>
      /\ ssc[q] \in BOOLEAN /\ l \in [Node -> Thread \cup {NoThread}] /\ MayHold(t, l)
  BY Threads DEF Ctl, CtlType, StartFindsPipeline, pipeline, locals, flags, Goto, Holds,
     NodeMoves, MayHold
<1>2. OneNode(q) /\ OneStart(q) /\ OnePipeline(o)
  BY <1>1 DEF Ctl, Nodes, Starts, Pipelines
<1> HIDE DEF l
<1>3. \A r \in Node : pipe[r] = o
  <2>1. Live(o)
    BY <1>1, <1>2 DEF OnePipeline
  <2>2. ip[o].queues # {} => \A r \in Node : pipe[r] = o
    BY <1>1, <1>2 DEF OneStart, OnPhase
  <2>3. ip[o].queues = {} => \A r \in Node : pipe[r] \in Node
    BY <1>2, <2>1 DEF OnePipeline, Ctl, CtlType
  <2>4. ASSUME NEW r \in Node, pipe[r] \in Node PROVE pipe[r] = o
    <3>1. OnePipeline(pipe[r])
      BY <2>4 DEF Ctl, Pipelines
    <3>2. Live(pipe[r])
      BY <3>1 DEF OnePipeline
    <3> QED
      BY <1>2, <2>1, <3>2, <2>4 DEF OnePipeline
  <2> QED
    BY <2>2, <2>3, <2>4
<1>4. OneNode(q)'
  BY <1>1, <1>2, <1>3 DEF OneNode, OnPhase, Live
<1>5. MayRun(q, "onJoin", o, l) /\ MayStart(q, "onJoin")
  BY <1>1, <1>2 DEF OneStart, MayRun, MayStart, OnPhase, OffPhase, StartPhase, FwPhase
<1> QED
  BY <1>1, <1>4, <1>5, NodeStep DEF OnPhase

LEMMA StreamOffCtl == ASSUME StartsTogether, Ctl, NEW q \in Node, StreamOff(q) PROVE Ctl'
<1> DEFINE t == S(q)
<1>1. /\ t \in Thread /\ ipOf[t] \in Node \cup {NoNode} /\ pc[t] = "idle" /\ ssc[q]
      /\ NodeMoves(q, "offWait", ipOf[t], ssc[q], lock) /\ pc'[t] = "offWait"
      /\ UNCHANGED << pipe, ip, ssc, ipOf >> /\ ~ Starting
      /\ ssc[q] \in BOOLEAN /\ lock \in [Node -> Thread \cup {NoThread}] /\ MayHold(t, lock)
  BY Threads DEF Ctl, CtlType, StreamOff, pipeline, locals, flags, Goto, NodeMoves, MayHold,
     StartsTogether
<1>2. OneNode(q)
  BY DEF Ctl, Nodes
<1>3. OneNode(q)'
  BY <1>1, <1>2 DEF OneNode, OnPhase, Live
<1>4. MayRun(q, "offWait", ipOf[t], lock) /\ MayStart(q, "offWait")
  BY <1>1, <1>2, Threads DEF Starting, MayRun, MayStart, OnPhase, OffPhase, StartPhase, FwPhase
<1> QED
  BY <1>1, <1>3, <1>4, NodeStep DEF OffPhase

\* While a node stops, none is being started.
LEMMA Stopping ==
  ASSUME Ctl, NEW q \in Node, pc[S(q)] \in OffPhase
  PROVE  \A r \in Node \ {q} : pc[S(r)] \notin OnPhase \cup StartPhase
BY DEF Ctl, Starts, OneStart

LEMMA StopWaitsCtl == ASSUME Ctl, NEW q \in Node, StopWaits(q) PROVE Ctl'
<1> DEFINE t == S(q)
           o == pipe[q]
<1>1. /\ t \in Thread /\ o \in Node \cup {NoNode} /\ pc[t] = "offWait"
      /\ NodeMoves(q, "offLock", o, ssc[q], lock) /\ pc'[t] = "offLock" /\ ipOf'[t] = o
      /\ UNCHANGED << pipe, ip, ssc >>
      /\ ssc[q] \in BOOLEAN /\ lock \in [Node -> Thread \cup {NoThread}] /\ MayHold(t, lock)
  BY Threads DEF Ctl, CtlType, StopWaits, pipeline, locals, flags, Goto, NodeMoves, MayHold
<1>2. OneNode(q) /\ \A r \in Node \ {q} : pc[S(r)] \notin OnPhase \cup StartPhase
  BY <1>1, Stopping DEF Ctl, Nodes, OffPhase
<1>m. o # NoNode => q \in ip[o].queues
  BY <1>1, <1>2, Member DEF OneNode
<1>3. OneNode(q)'
  BY <1>1, <1>2, <1>m DEF OneNode, OnPhase, Live
<1>4. MayRun(q, "offLock", o, lock) /\ MayStart(q, "offLock")
  BY <1>2 DEF MayRun, MayStart, OnPhase, OffPhase, StartPhase, FwPhase
<1> QED
  BY <1>1, <1>3, <1>4, NodeStep DEF OffPhase

LEMMA StopLocksCtl == ASSUME Ctl, NEW q \in Node, StopLocks(q) PROVE Ctl'
<1> DEFINE t == S(q)
           o == ipOf[t]
           l == IF o = q THEN [lock EXCEPT ![q] = t] ELSE lock
<1>1. /\ t \in Thread /\ o \in Node /\ pc[t] = "offLock"
      /\ NodeMoves(q, "offStop", o, ssc[q], l) /\ pc'[t] = "offStop" /\ ipOf' = ipOf
      /\ UNCHANGED << pipe, ip, ssc >>
      /\ ssc[q] \in BOOLEAN /\ l \in [Node -> Thread \cup {NoThread}] /\ MayHold(t, l)
  BY Threads DEF Ctl, CtlType, StopLocks, pipeline, locals, flags, Goto, Holds, NodeMoves, MayHold
<1>2. OneNode(q) /\ \A r \in Node \ {q} : pc[S(r)] \notin OnPhase \cup StartPhase
  BY <1>1, Stopping DEF Ctl, Nodes, OffPhase
<1> HIDE DEF l
<1>3. OneNode(q)'
  BY <1>1, <1>2 DEF OneNode, OnPhase, Live
<1>4. MayRun(q, "offStop", o, l) /\ MayStart(q, "offStop")
  BY <1>2 DEF MayRun, MayStart, OnPhase, OffPhase, StartPhase, FwPhase
<1> QED
  BY <1>1, <1>3, <1>4, NodeStep DEF OffPhase

LEMMA StopFlushesCtl == ASSUME Ctl, NEW q \in Node, StopFlushes(q) PROVE Ctl'
<1> DEFINE t == S(q)
           o == ipOf[t]
           l == [lock EXCEPT ![o] = t]
<1>1. /\ t \in Thread /\ pc[t] = "offStop" /\ OneNode(q) /\ o \in Node
      /\ \A r \in Node \ {q} : pc[S(r)] \notin OnPhase \cup StartPhase
  BY Threads, Stopping DEF StopFlushes, Ctl, Nodes, OneNode, OffPhase
<1>2. /\ NodeMoves(q, "flush", o, ssc[q], l) /\ pc'[t] = "flush" /\ ipOf' = ipOf /\ lock' = l
      /\ UNCHANGED << pipe, ip, ssc >> /\ l[o] = t /\ StreamMutexFree
      /\ ssc[q] \in BOOLEAN /\ l \in [Node -> Thread \cup {NoThread}] /\ MayHold(t, l)
  BY <1>1, Threads DEF Ctl, CtlType, StopFlushes, pipeline, locals, flags, Goto, Holds, CanLock,
                       NodeMoves, MayHold
<1>3. q \in ip[o].queues
  BY <1>1, QueueAssumption DEF OneNode, QueueAssumption
<1>4. ip[o].queues = Node
  BY <1>1, <1>3, Complete DEF StopFlushes, Full
<1> HIDE DEF l
<1>5. OneNode(q)'
  BY <1>1, <1>2, <1>4 DEF OneNode, OnPhase, Live
<1>6. MayRun(q, "flush", o, l) /\ MayStart(q, "flush")
  BY <1>1, <1>2 DEF StreamMutexFree, MayRun, MayStart, OnPhase, OffPhase, StartPhase, FwPhase
<1> QED
  BY <1>1, <1>2, <1>5, <1>6, NodeStep DEF OffPhase

LEMMA StopFindsNoneCtl == ASSUME Ctl, NEW q \in Node, StopFindsNone(q) PROVE Ctl'
<1> DEFINE t == S(q)
<1>1. /\ t \in Thread /\ ipOf[t] = NoNode /\ pc[t] = "offLock"
      /\ NodeMoves(q, "idle", NoNode, FALSE, lock) /\ pc'[t] = "idle" /\ ipOf' = ipOf
      /\ UNCHANGED << pipe, ip >> /\ ssc'[q] = FALSE
      /\ lock \in [Node -> Thread \cup {NoThread}] /\ MayHold(t, lock)
  BY Threads DEF Ctl, CtlType, StopFindsNone, Cancel, pipeline, locals, Goto, NodeMoves, MayHold
<1>2. pipe[q] = NoNode
  BY <1>1 DEF Ctl, Nodes, OneNode
<1>3. \A o \in Node : Live(o) => q \notin ip[o].queues
  BY <1>2, QueueAssumption DEF QueueAssumption, Ctl, Pipelines, OnePipeline
<1>4. OneNode(q)'
  BY <1>1, <1>3 DEF OneNode, OnPhase, Live
<1>5. MayRun(q, "idle", NoNode, lock) /\ MayStart(q, "idle")
  BY DEF MayRun, MayStart, OnPhase, OffPhase, StartPhase, FwPhase
<1> QED
  BY <1>1, <1>4, <1>5, NodeStep

LEMMA StopReturnsCtl == ASSUME Ctl, NEW q \in Node, StopReturns(q) PROVE Ctl'
<1> DEFINE t == S(q)
           l == [lock EXCEPT ![q] = NoThread]
<1>1. /\ t \in Thread /\ ipOf[t] \in Node \cup {NoNode} /\ pc[t] = "offReturn"
      /\ NodeMoves(q, "idle", ipOf[t], FALSE, l) /\ pc'[t] = "idle" /\ ipOf' = ipOf
      /\ UNCHANGED << pipe, ip >> /\ ssc'[q] = FALSE
      /\ l \in [Node -> Thread \cup {NoThread}] /\ MayHold(t, l)
  BY Threads DEF Ctl, CtlType, StopReturns, Cancel, pipeline, locals, Goto, Unlocks, CanLock,
                 NodeMoves, MayHold
<1>2. pipe[q] = NoNode
  BY <1>1 DEF Ctl, Nodes, OneNode
<1>3. \A o \in Node : Live(o) => q \notin ip[o].queues
  BY <1>2, QueueAssumption DEF QueueAssumption, Ctl, Pipelines, OnePipeline
<1> HIDE DEF l
<1>4. OneNode(q)'
  BY <1>1, <1>3 DEF OneNode, OnPhase, Live
<1>5. MayRun(q, "idle", ipOf[t], l) /\ MayStart(q, "idle")
  BY DEF MayRun, MayStart, OnPhase, OffPhase, StartPhase, FwPhase
<1> QED
  BY <1>1, <1>4, <1>5, NodeStep
-----------------------------------------------------------------------------
(* ipu_isys_stream_start() *)

\* A thread that starts a stream, and the node if it is that of a start.
LEMMA Running ==
  ASSUME Ctl, NEW t \in Thread, pc[t] \in StartPhase
  PROVE  /\ ipOf[t] \in Node /\ lock[ipOf[t]] = t /\ OneRun(t)
         /\ \A q \in Node : t = S(q) =>
              /\ Full(ipOf[t]) /\ pipe[q] = ipOf[t] /\ q \in ip[ipOf[t]].queues /\ ssc[q]
<1> DEFINE o == ipOf[t]
<1>1. OneRun(t) /\ o \in Node /\ lock[o] = t
  BY DEF Ctl, Runs, OneRun
<1>2. ASSUME NEW q \in Node, t = S(q)
      PROVE  Full(o) /\ pipe[q] = o /\ q \in ip[o].queues /\ ssc[q]
  <2>1. Full(o)
    BY <1>1, <1>2, Threads DEF OneRun, Full, Live
  <2>2. pipe[q] = o /\ q \in ip[o].queues
    BY <1>1, <2>1 DEF Full, Ctl, Pipelines, OnePipeline
  <2>3. ssc[q]
    BY <1>2 DEF Ctl, Nodes, OneNode, StartPhase
  <2> QED
    BY <2>1, <2>2, <2>3
<1> QED
  BY <1>1, <1>2

\* The thread goes on, or it is done and drops the mutex.
LEMMA RunMoves ==
  ASSUME Ctl, NEW t \in Thread, pc[t] \in StartPhase,
         UNCHANGED << pipe, ip, ssc, first, ipOf >>,
         \/ pc[t] = "start" /\ pc' = [pc EXCEPT ![t] = "await"] /\ lock' = lock
         \/ pc' = [pc EXCEPT ![t] = "idle"] /\ lock' = [lock EXCEPT ![ipOf[t]] = NoThread]
  PROVE  Ctl'
<1> DEFINE o == ipOf[t]
<1>1. PICK w \in {"await", "idle"} :
        /\ pc' = [pc EXCEPT ![t] = w] /\ pc'[t] = w
        /\ lock' = IF w = "idle" THEN [lock EXCEPT ![o] = NoThread] ELSE lock
        /\ w = "await" => pc[t] = "start"
  BY DEF Ctl, CtlType
<1> DEFINE l == IF w = "idle" THEN [lock EXCEPT ![o] = NoThread] ELSE lock
<1>2. /\ o \in Node /\ lock[o] = t /\ OneRun(t)
      /\ \A q \in Node : t = S(q) =>
           /\ Full(o) /\ pipe[q] = o /\ q \in ip[o].queues /\ ssc[q]
  BY Running
<1>3. /\ l \in [Node -> Thread \cup {NoThread}] /\ MayHold(t, l) /\ (w = "await" => l[o] = t)
      /\ ipOf' = [ipOf EXCEPT ![t] = o]
  BY <1>1, <1>2, Threads DEF Ctl, CtlType, MayHold
<1> HIDE DEF l
<1>4. lock' = l /\ w \notin OnPhase \cup OffPhase
      /\ w \in IoctlPhase \cup StartPhase /\ w \in {"idle"} \cup OnPhase \cup OffPhase \cup StartPhase
      /\ (w \in StartPhase \/ w \in FwPhase => w = "await")
  BY <1>1 DEF l, StartPhase, IoctlPhase, OnPhase, OffPhase, FwPhase
<1>5. w \in FwPhase => \A u \in Thread : pc[u] \in FwPhase => u = t
  BY <1>1, <1>4 DEF Ctl, OneMutex, FwPhase
<1>6. ASSUME NEW q \in Node, t = B(q) PROVE Ctl'
  <2>1. BufMoves(q, w, o, l)
    BY <1>1, <1>3, <1>4, <1>6 DEF BufMoves
  <2>2. BufMayRun(q, w, o, l)
    BY <1>1, <1>2, <1>3, <1>4, <1>5, <1>6 DEF OneRun, Full, Live, BufMayRun
  <2> QED
    BY <1>2, <1>3, <1>4, <1>6, <2>1, <2>2, BufStep
<1>7. ASSUME NEW q \in Node, t = S(q) PROVE Ctl'
  <2>1. Full(o) /\ pipe[q] = o /\ q \in ip[o].queues /\ ssc[q]
    BY <1>2, <1>7
  <2>2. NodeMoves(q, w, o, ssc[q], l) /\ ssc[q] \in BOOLEAN
    BY <1>1, <1>3, <1>4, <1>7 DEF NodeMoves, Ctl, CtlType
  <2>3. MayRun(q, w, o, l)
    BY <1>2, <1>3, <1>4, <1>5, <1>7, <2>1 DEF MayRun
  <2>4. OneStart(q) /\ OneNode(q)
    BY DEF Ctl, Starts, Nodes
  <2>5. MayStart(q, w)
    BY <1>4, <1>7, <2>4 DEF MayStart, OneStart
  <2>6. OneNode(q)'
    BY <1>1, <1>2, <1>7, <2>1 DEF OneNode, OnPhase, Live
  <2> QED
    BY <1>2, <1>3, <1>4, <1>7, <2>2, <2>3, <2>5, <2>6, NodeStep
<1> QED
  BY <1>6, <1>7, Threads

LEMMA StreamStartsCtl ==
  ASSUME Ctl, NEW t \in Thread, StreamStarts(t) \/ FillCaptures(t) \/ FillEnds(t)
  PROVE  Ctl'
<1>1. pc[t] \in StartPhase /\ UNCHANGED << pipe, ip, ssc, first, ipOf >>
  BY DEF StreamStarts, FillCaptures, FillEnds, pipeline, locals, flags, StartPhase
<1>2. CASE StreamStarts(t)
  BY <1>1, <1>2, RunMoves DEF StreamStarts, Goto
<1>3. CASE FillEnds(t)
  BY <1>1, <1>3, RunMoves DEF FillEnds, Goto, Unlocks
<1>4. CASE FillCaptures(t) /\ UNCHANGED << pc, lock >>
  BY <1>1, <1>4, CtlUnchanged
<1>5. CASE FillCaptures(t) /\ Goto(t, "idle") /\ Unlocks(ipOf[t])
  BY <1>1, <1>5, RunMoves DEF Goto, Unlocks
<1> QED
  BY <1>2, <1>3, <1>4, <1>5 DEF FillCaptures

LEMMA StreamStartedCtl == ASSUME Ctl, NEW t \in Thread, StreamStarted(t) PROVE Ctl'
<1> DEFINE o == ipOf[t]
<1>1. pc[t] \in StartPhase /\ t \in Thread /\ o \in Node /\ lock[o] = t /\ OneRun(t)
  BY Running DEF StreamStarted, StartPhase
<1>2. /\ UNCHANGED << pipe, ssc, first, ipOf, lock >> /\ pc' = [pc EXCEPT ![t] = "fill"]
      /\ ip' = [ip EXCEPT ![o].streaming = TRUE] /\ pc[t] = "await"
  BY DEF StreamStarted, pipeline, buffers, locals, flags, Goto
<1> HIDE DEF o
<1>a. ip[o] \in [nrQueues : Nat, queues : SUBSET Node, nrStreaming : Int,
                 streaming : BOOLEAN, startCount : Int] /\ DOMAIN ip = Node
  BY <1>1 DEF Ctl, CtlType
<1>b. ip' \in [Node -> [nrQueues : Nat, queues : SUBSET Node, nrStreaming : Int,
                      streaming : BOOLEAN, startCount : Int]]
  BY <1>1, <1>2, <1>a DEF Ctl, CtlType
<1>3. /\ \A p \in Node : /\ ip'[p].nrQueues = ip[p].nrQueues /\ ip'[p].queues = ip[p].queues
                         /\ ip'[p].nrStreaming = ip[p].nrStreaming
                         /\ ip'[p].startCount = ip[p].startCount
                         /\ p # o => ip'[p].streaming = ip[p].streaming
      /\ \A u \in Thread : pc'[u] = IF u = t THEN "fill" ELSE pc[u]
      /\ ip' \in [Node -> [nrQueues : Nat, queues : SUBSET Node, nrStreaming : Int,
                           streaming : BOOLEAN, startCount : Int]]
  <2>1. ASSUME NEW p \in Node
        PROVE  /\ ip'[p].nrQueues = ip[p].nrQueues /\ ip'[p].queues = ip[p].queues
               /\ ip'[p].nrStreaming = ip[p].nrStreaming
               /\ ip'[p].startCount = ip[p].startCount
               /\ p # o => ip'[p].streaming = ip[p].streaming
    BY <1>1, <1>2, <1>a
  <2>2. \A u \in Thread : pc'[u] = IF u = t THEN "fill" ELSE pc[u]
    BY <1>2 DEF Ctl, CtlType
  <2> QED
    BY <1>b, <2>1, <2>2
<1>4. CtlType'
  <2>1. pc' \in [Thread -> IoctlPhase \cup OnPhase \cup OffPhase \cup StartPhase]
    BY <1>2 DEF Ctl, CtlType, StartPhase
  <2>2. \A q \in Node : /\ pc'[B(q)] \in IoctlPhase \cup StartPhase
                        /\ pc'[S(q)] \in {"idle"} \cup OnPhase \cup OffPhase \cup StartPhase
                        /\ pc'[B(q)] = "submit" => ipOf[B(q)] \in Node
    BY <1>3, Threads DEF Ctl, CtlType, StartPhase
  <2> QED
    BY <1>2, <1>3, <2>1, <2>2 DEF Ctl, CtlType
<1>5. OneMutex'
  BY <1>3 DEF Ctl, OneMutex, FwPhase
<1>6. Pipelines'
  <2> SUFFICES ASSUME NEW p \in Node PROVE OnePipeline(p)'
    BY DEF Pipelines
  <2>1. OnePipeline(p)
    BY DEF Ctl, Pipelines
  <2>2. p = o => Full(p) \/ ip[p].queues = {}
    BY <1>1 DEF OneRun, Full, Live, o
  <2> QED
    BY <1>2, <1>3, <2>1, <2>2 DEF OnePipeline, Full, Live
<1>7. Starts'
  BY <1>2, <1>3, Threads DEF Ctl, Starts, OneStart, OffPhase, StartPhase, OnPhase
<1>8. Nodes'
  <2> SUFFICES ASSUME NEW q \in Node PROVE OneNode(q)'
    BY DEF Nodes
  <2>1. OneNode(q)
    BY DEF Ctl, Nodes
  <2>2. CASE S(q) = t
    <3>1. ssc[q] /\ pc'[S(q)] = "fill"
      BY <1>1, <1>3, <2>2, Running
    <3> QED
      BY <1>2, <3>1 DEF OneNode, OnPhase
  <2>3. CASE S(q) # t
    <3>1. pc'[S(q)] = pc[S(q)] /\ pipe[q] \in Node \cup {NoNode}
      BY <1>3, <2>3, Threads DEF Ctl, CtlType
    <3> QED
      BY <1>2, <1>3, <2>1, <3>1 DEF OneNode, Live
  <2> QED
    BY <2>2, <2>3
<1>9. Runs'
  <2> SUFFICES ASSUME NEW u \in Thread, pc'[u] \in StartPhase
               PROVE  /\ ipOf[u] \in Node /\ lock[ipOf[u]] = u
                      /\ \/ ip'[ipOf[u]].queues = Node /\ ip'[ipOf[u]].startCount = 1
                         \/ ip'[ipOf[u]].queues = {} /\ u[2] = "buf"
    BY <1>2 DEF Runs, OneRun
  <2>1. OneRun(u) /\ pc[u] \in StartPhase
    BY <1>1, <1>3 DEF Ctl, Runs
  <2> QED
    BY <1>3, <2>1 DEF OneRun
<1> QED
  BY <1>4, <1>5, <1>6, <1>7, <1>8, <1>9 DEF Ctl
-----------------------------------------------------------------------------
(* Pipelines *)

IpRecord == [nrQueues : Nat, queues : SUBSET Node, nrStreaming : Int,
             streaming : BOOLEAN, startCount : Int]

\* The start of node q fails after all nodes had come: it leaves the pipeline.
LEMMA UnwindsCtl ==
  ASSUME Ctl, NEW q \in Node, pc[S(q)] \in StartPhase, StartUnwinds(S(q)),
         UNCHANGED << pipe, ipOf, ssc, first >>
  PROVE  Ctl'
<1> DEFINE t == S(q)
<1>0. PICK o \in Node : o = ipOf[t]
  BY Running, Threads
<1>1. /\ t \in Thread /\ t[1] = q /\ o \in Node /\ lock[o] = t /\ Full(o) /\ pipe[q] = o
      /\ q \in ip[o].queues /\ ssc[q] /\ t # B(q) /\ t # NoThread /\ o # NoNode
  BY <1>0, Running, Threads, QueueAssumption DEF QueueAssumption
<1>2. /\ lock' = IF o = q THEN [lock EXCEPT ![q] = t] ELSE [lock EXCEPT ![o] = NoThread]
      /\ ip' = [ip EXCEPT ![o] = Without(@, q)]
      /\ pc' = [pc EXCEPT ![t] = "onUndo"]
  BY <1>0, <1>1 DEF StartUnwinds, BackToNode, Holds, Unlocks, Goto
<1>3. ip \in [Node -> IpRecord]
  BY DEF Ctl, CtlType, IpRecord
<1> HIDE DEF t
<1>4. /\ ip' \in [Node -> IpRecord] /\ \A p \in Node : p # o => ip'[p] = ip[p]
      /\ ip'[o].nrQueues = ip[o].nrQueues /\ ip'[o].startCount = ip[o].startCount
      /\ ip'[o].queues = Node \ {q} /\ ip'[o].nrStreaming = ip[o].nrStreaming - 1
  <2>1. ip'[o] = [ip[o] EXCEPT !.nrStreaming = @ - 1, !.queues = @ \ {q}]
    BY <1>1, <1>2, <1>3 DEF Without
  <2>2. ip[o] \in IpRecord /\ ip[o].queues = Node
    BY <1>1, <1>3 DEF Full
  <2>r. ip'[o] = [nrQueues |-> ip[o].nrQueues, queues |-> Node \ {q},
                  nrStreaming |-> ip[o].nrStreaming - 1, streaming |-> ip[o].streaming,
                  startCount |-> ip[o].startCount]
    BY <2>1, <2>2 DEF IpRecord
  <2>3. ip'[o] \in IpRecord
    BY <2>r, <2>2 DEF IpRecord
  <2> QED
    BY <1>1, <1>2, <1>3, <2>r, <2>3
<1>5. \A p \in Node : Live(p)' <=> Live(p)
  BY <1>1, <1>4 DEF Live
<1>6. /\ \A x \in Node : pc'[B(x)] = pc[B(x)]
      /\ \A u \in Thread : u # t => pc'[u] = pc[u]
      /\ \A x \in Node : x # q => pc'[S(x)] = pc[S(x)]
      /\ pc'[t] = "onUndo" /\ pc'[S(q)] = "onUndo"
  BY <1>1, <1>2, Threads DEF Ctl, CtlType, t
<1>7. CtlType'
  <2>1. lock' \in [Node -> Thread \cup {NoThread}]
    BY <1>1, <1>2 DEF Ctl, CtlType
  <2>2. pc' \in [Thread -> IoctlPhase \cup OnPhase \cup OffPhase \cup StartPhase]
    BY <1>2 DEF Ctl, CtlType, OnPhase
  <2>3. \A x \in Node : /\ pc'[B(x)] \in IoctlPhase \cup StartPhase
                        /\ pc'[S(x)] \in {"idle"} \cup OnPhase \cup OffPhase \cup StartPhase
                        /\ pc'[B(x)] = "submit" => ipOf[B(x)] \in Node
    BY <1>6 DEF Ctl, CtlType, OnPhase
  <2> QED
    BY <1>4, <2>1, <2>2, <2>3 DEF Ctl, CtlType, IpRecord
<1>8. OneMutex'
  <2>1. "onUndo" \notin FwPhase
    BY DEF FwPhase
  <2> QED
    BY <1>6, <2>1 DEF Ctl, OneMutex
<1>9. Pipelines'
  <2> SUFFICES ASSUME NEW p \in Node PROVE OnePipeline(p)'
    BY DEF Pipelines
  <2>1. OnePipeline(p) /\ OnePipeline(o) /\ \A x \in Node : pipe[x] = o
    BY <1>1 DEF Ctl, Pipelines, OnePipeline, Full
  <2>2. CASE p = o
    <3>1. Cardinality(Node \ {q}) = Cardinality(Node) - 1 /\ ip[o].nrStreaming = Cardinality(Node)
      BY <1>1, <2>1, SubsetFacts DEF OnePipeline, Full
    <3>2. ip'[o].nrStreaming = Cardinality(ip'[o].queues)
      BY <1>4, <3>1
    <3>3. Live(o)' /\ Live(o)
      BY <1>1, <1>5 DEF Full
    <3>4. \A x \in Node : pipe[x] # NoNode
      BY <1>1, <2>1
    <3> QED
      BY <1>1, <1>4, <1>5, <2>1, <2>2, <3>2, <3>3, <3>4 DEF OnePipeline
  <2>3. CASE p # o
    BY <1>4, <1>5, <2>1, <2>3 DEF OnePipeline
  <2> QED
    BY <2>2, <2>3
<1>10. Starts'
  <2>1. OneStart(q) /\ \A x \in Node : pipe[x] = o
    BY <1>1 DEF Ctl, Starts, Pipelines, OnePipeline, Full
  <2>2. \A x \in Node : pc'[S(x)] \notin OffPhase
    BY <1>1, <1>6, <2>1 DEF OneStart, t, OffPhase
  <2>3. \A p \in Node : ip'[p].queues # {} => \A x \in Node : pipe[x] = p
    BY <1>4, <2>1 DEF OneStart
  <2> QED
    BY <2>2, <2>3 DEF Starts, OneStart
<1>11. Nodes'
  <2> SUFFICES ASSUME NEW x \in Node PROVE OneNode(x)'
    BY DEF Nodes
  <2>1. OneNode(x) /\ \A y \in Node : pipe[y] = o
    BY <1>1 DEF Ctl, Nodes, Pipelines, OnePipeline, Full
  <2>2. \A p \in Node : p # o => ip[p].queues = {}
    BY <1>1, <2>1 DEF Ctl, Starts, OneStart, t
  <2>3. CASE x = q
    BY <1>0, <1>1, <1>4, <1>6, <2>1, <2>2, <2>3 DEF OneNode, OnPhase, t
  <2>4. CASE x # q
    <3>1. x \in ip[o].queues /\ pc'[S(x)] = pc[S(x)] /\ x \in ip'[o].queues
      BY <1>1, <1>4, <1>6, <2>4 DEF Full
    <3>2. pc[S(x)] \notin OnPhase \cup OffPhase
      BY <1>1, <2>1, <3>1 DEF OneNode, Ctl, Starts, OneStart, t
    <3>3. ssc[x]
      BY <1>1, <2>1, <3>1 DEF OneNode, Full
    <3> QED
      BY <2>1, <3>1, <3>2, <3>3 DEF OneNode, OnPhase, OffPhase
  <2> QED
    BY <2>3, <2>4
<1>12. Runs'
  <2> SUFFICES ASSUME NEW u \in Thread, pc'[u] \in StartPhase
               PROVE  /\ ipOf[u] \in Node /\ lock'[ipOf[u]] = u
                      /\ \/ ip'[ipOf[u]].queues = Node /\ ip'[ipOf[u]].startCount = 1
                         \/ ip'[ipOf[u]].queues = {} /\ u[2] = "buf"
    BY DEF Runs, OneRun
  <2>1. u # t
    BY <1>6 DEF StartPhase
  <2>2. OneRun(u) /\ pc[u] \in StartPhase
    BY <1>6, <2>1 DEF Ctl, Runs
  <2>3. ipOf[u] # o
    BY <1>1, <2>1, <2>2 DEF OneRun
  <2>4. lock'[ipOf[u]] = u
    BY <1>1, <1>2, <2>1, <2>2, <2>3 DEF OneRun, Ctl, CtlType
  <2> QED
    BY <1>4, <2>2, <2>3, <2>4 DEF OneRun
<1> QED
  BY <1>7, <1>8, <1>9, <1>10, <1>11, <1>12 DEF Ctl
LEMMA StartFailsCtl ==
  ASSUME Ctl, NEW t \in Thread, StreamStartFails(t) \/ GivenUp(t) \/ FillNoMsg(t)
  PROVE  Ctl'
<1>1. pc[t] \in StartPhase /\ StartUnwinds(t) /\ UNCHANGED << pipe, ipOf, ssc, first >>
  BY DEF StreamStartFails, StreamNotStarted, GivenUp, StreamNotAcknowledged, SensorFails,
     FillNoMsg, locals, flags, StartPhase
<1>2. ASSUME NEW q \in Node, t = B(q) PROVE Ctl'
  <2>1. Unlocks(ipOf[t]) /\ Goto(t, "idle") /\ UNCHANGED ip
    BY <1>1, <1>2, Threads DEF StartUnwinds
  <2> QED
    BY <1>1, <2>1, RunMoves DEF Unlocks, Goto
<1>3. ASSUME NEW q \in Node, t = S(q) PROVE Ctl'
  BY <1>1, <1>3, UnwindsCtl
<1> QED
  BY <1>2, <1>3, Threads

\* A step of a thread S(q) that changes pipeline o.
PipeMoves(q, w, o, l) ==
  /\ pc' = [pc EXCEPT ![S(q)] = w] /\ lock' = l
  /\ ip' \in [Node -> IpRecord] /\ \A p \in Node : p # o => ip'[p] = ip[p]
  /\ pipe' \in [Node -> Node \cup {NoNode}]
  /\ ssc' \in [Node -> BOOLEAN] /\ first' \in [Node -> BOOLEAN]
  /\ ipOf' \in [Thread -> Node \cup {NoNode}]
  /\ \A u \in Thread : u # S(q) => ipOf'[u] = ipOf[u]

LEMMA PipeStep ==
  ASSUME Ctl, NEW q \in Node, NEW w \in {"idle"} \cup OnPhase \cup OffPhase \cup StartPhase,
         NEW o \in Node, NEW l \in [Node -> Thread \cup {NoThread}],
         PipeMoves(q, w, o, l), MayHold(S(q), l), OneRun(S(q))',
         \A u \in Thread : pc[u] \in StartPhase /\ ipOf[u] = o => u = S(q),
         w \in FwPhase => \A u \in Thread : pc[u] \in FwPhase => u = S(q)
  PROVE  /\ CtlType' /\ OneMutex' /\ Runs'
         /\ pc'[S(q)] = w /\ lock' = l
         /\ \A x \in Node : x # q => pc'[S(x)] = pc[S(x)] /\ ipOf'[S(x)] = ipOf[S(x)]
<1>1. /\ \A x \in Node : pc'[B(x)] = pc[B(x)] /\ ipOf'[B(x)] = ipOf[B(x)]
      /\ \A u \in Thread : u # S(q) => pc'[u] = pc[u] /\ ipOf'[u] = ipOf[u]
      /\ \A x \in Node : x # q => pc'[S(x)] = pc[S(x)] /\ ipOf'[S(x)] = ipOf[S(x)]
      /\ pc'[S(q)] = w
      /\ pc' \in [Thread -> IoctlPhase \cup OnPhase \cup OffPhase \cup StartPhase]
  BY Threads DEF Ctl, CtlType, PipeMoves, IoctlPhase
<1>2. CtlType'
  <2>1. \A x \in Node : /\ pc'[B(x)] \in IoctlPhase \cup StartPhase
                        /\ pc'[S(x)] \in {"idle"} \cup OnPhase \cup OffPhase \cup StartPhase
                        /\ pc'[B(x)] = "submit" => ipOf'[B(x)] \in Node
    BY <1>1 DEF Ctl, CtlType
  <2> QED
    BY <1>1, <2>1 DEF CtlType, PipeMoves, IpRecord
<1>3. OneMutex'
  BY <1>1 DEF Ctl, OneMutex
<1>4. Runs'
  <2> SUFFICES ASSUME NEW u \in Thread, u # S(q), pc'[u] \in StartPhase
               PROVE  /\ ipOf'[u] \in Node /\ lock'[ipOf'[u]] = u
                      /\ \/ ip'[ipOf'[u]].queues = Node /\ ip'[ipOf'[u]].startCount = 1
                         \/ ip'[ipOf'[u]].queues = {} /\ u[2] = "buf"
    BY DEF Runs, OneRun
  <2>1. OneRun(u) /\ pc[u] \in StartPhase /\ ipOf'[u] = ipOf[u] /\ ipOf[u] # o
    BY <1>1 DEF Ctl, Runs
  <2>2. lock'[ipOf[u]] = u
    BY <2>1, Threads DEF OneRun, PipeMoves, MayHold
  <2> QED
    BY <2>1, <2>2 DEF OneRun, PipeMoves
<1> QED
  BY <1>1, <1>2, <1>3, <1>4 DEF PipeMoves

\* Nobody runs a pipeline whose mutex is free or with S(q).
LEMMA NobodyRuns ==
  ASSUME Ctl, NEW q \in Node, NEW o \in Node, CanLock(o, S(q))
  PROVE  \A u \in Thread : pc[u] \in StartPhase /\ ipOf[u] = o => u = S(q)
BY Threads DEF Ctl, Runs, OneRun, CanLock

LEMMA StartJoinsCtl == ASSUME Ctl, NEW q \in Node, StartJoins(q) PROVE Ctl'
<1> DEFINE t == S(q)
<1>1. t \in Thread /\ OneNode(q) /\ OneStart(q) /\ pc[t] = "onJoin"
  BY Threads DEF StartJoins, Ctl, Nodes, Starts
<1>2. PICK o \in Node : o = ipOf[t] /\ \A x \in Node : pipe[x] = o
  BY <1>1 DEF OneNode
<1>3. /\ OnePipeline(o) /\ Live(o) /\ ssc[q] /\ \A p \in Node : q \notin ip[p].queues
      /\ ip \in [Node -> IpRecord] /\ o # NoNode /\ t # NoThread
  BY <1>1, <1>2, Threads, QueueAssumption
     DEF Ctl, Pipelines, OnePipeline, OneNode, OnPhase, CtlType, IpRecord, QueueAssumption
<1>4. PICK w \in {"idle", "start"} :
        /\ pc' = [pc EXCEPT ![t] = w]
        /\ lock' = [lock EXCEPT ![o] = IF w = "idle" THEN NoThread ELSE t]
        /\ w = "start" => ip[o].nrStreaming + 1 = ip[o].nrQueues /\ StreamMutexFree
  BY <1>2 DEF StartJoins, Goto, Unlocks, Holds
<1>5. /\ ip' = [ip EXCEPT ![o].nrStreaming = @ + 1, ![o].queues = ip[o].queues \cup {q}]
      /\ CanLock(o, t) /\ UNCHANGED << pipe, ipOf, first, ssc >>
  BY <1>2 DEF StartJoins, locals, flags
<1>6. /\ ip' \in [Node -> IpRecord] /\ \A p \in Node : p # o => ip'[p] = ip[p]
      /\ ip'[o].nrQueues = ip[o].nrQueues /\ ip'[o].startCount = ip[o].startCount
      /\ ip'[o].queues = ip[o].queues \cup {q} /\ ip'[o].nrStreaming = ip[o].nrStreaming + 1
  <2>1. ip[o] \in IpRecord
    BY <1>3
  <2>2. ip'[o] = [nrQueues |-> ip[o].nrQueues, queues |-> ip[o].queues \cup {q},
                  nrStreaming |-> ip[o].nrStreaming + 1, streaming |-> ip[o].streaming,
                  startCount |-> ip[o].startCount]
    BY <1>3, <1>5, <2>1 DEF IpRecord
  <2>3. ip'[o] \in IpRecord
    BY <2>1, <2>2 DEF IpRecord
  <2> QED
    BY <1>3, <1>5, <2>2, <2>3
<1>7. \A p \in Node : Live(p)' <=> Live(p)
  BY <1>6 DEF Live
<1>8. Cardinality(ip'[o].queues) = ip'[o].nrStreaming
  <2> DEFINE Q == ip[o].queues
  <2>1. Q \in SUBSET Node /\ q \notin Q /\ Cardinality(Q) = ip[o].nrStreaming
    BY <1>3 DEF OnePipeline, Ctl, CtlType
  <2> HIDE DEF Q
  <2>2. Cardinality(Q \cup {q}) = Cardinality(Q) + 1
    BY <2>1, SubsetFacts
  <2> QED
    BY <1>6, <2>1, <2>2 DEF Q
<1>9. w = "start" => ip'[o].queues = Node
  <2> DEFINE Q == ip'[o].queues
  <2>1. Q \in SUBSET Node /\ Cardinality(Q) = ip[o].nrStreaming + 1 /\ ip[o].nrQueues = N
    BY <1>3, <1>6, <1>8 DEF OnePipeline, IpRecord
  <2> HIDE DEF Q
  <2>2. Cardinality(Q) = N => Q = Node
    BY <2>1, SubsetFacts
  <2> QED
    BY <1>4, <2>1, <2>2 DEF Q
<1> DEFINE l == [lock EXCEPT ![o] = IF w = "idle" THEN NoThread ELSE t]
<1>10. /\ PipeMoves(q, w, o, l) /\ MayHold(t, l) /\ l \in [Node -> Thread \cup {NoThread}]
       /\ pc'[t] = w /\ (w = "start" => l[o] = t)
  BY <1>1, <1>4, <1>5, <1>6, Threads DEF PipeMoves, MayHold, Ctl, CtlType, CanLock
<1> HIDE DEF l
<1>11. OneRun(t)'
  <2>1. w = "start" => ip'[o].startCount = 1
    BY <1>3, <1>6 DEF Live
  <2> QED
    BY <1>2, <1>4, <1>5, <1>9, <1>10, <2>1 DEF OneRun, StartPhase, PipeMoves
<1>12. w \in FwPhase => \A u \in Thread : pc[u] \in FwPhase => u = t
  BY <1>4 DEF StreamMutexFree, FwPhase
<1>13. /\ CtlType' /\ OneMutex' /\ Runs'
       /\ \A x \in Node : x # q => pc'[S(x)] = pc[S(x)] /\ ipOf'[S(x)] = ipOf[S(x)]
  <2>1. w \in {"idle"} \cup OnPhase \cup OffPhase \cup StartPhase
    BY DEF StartPhase
  <2>2. \A u \in Thread : pc[u] \in StartPhase /\ ipOf[u] = o => u = t
    BY <1>5, NobodyRuns
  <2> HIDE DEF t
  <2> QED
    BY <1>10, <1>11, <1>12, <2>1, <2>2, PipeStep DEF t
<1>14. Pipelines'
  <2> SUFFICES ASSUME NEW p \in Node PROVE OnePipeline(p)'
    BY DEF Pipelines
  <2>1. OnePipeline(p)
    BY DEF Ctl, Pipelines
  <2>2. CASE p = o
    <3>1. Live(o)'
      BY <1>3, <1>7
    <3> QED
      BY <1>2, <1>3, <1>5, <1>6, <1>7, <1>8, <2>1, <2>2, <3>1 DEF OnePipeline
  <2>3. CASE p # o
    BY <1>5, <1>6, <1>7, <2>1, <2>3 DEF OnePipeline
  <2> QED
    BY <2>2, <2>3
<1>15. Starts'
  <2>1. \A x \in Node : pc'[S(x)] \notin OffPhase
    BY <1>1, <1>4, <1>10, <1>13 DEF OneStart, OnPhase, OffPhase
  <2>2. \A p \in Node : ip'[p].queues # {} => \A x \in Node : pipe[x] = p
    BY <1>1, <1>2, <1>6 DEF OneStart, OnPhase
  <2> QED
    BY <1>5, <2>1, <2>2 DEF Starts, OneStart
<1>16. Nodes'
  <2> SUFFICES ASSUME NEW x \in Node PROVE OneNode(x)'
    BY DEF Nodes
  <2>1. OneNode(x)
    BY DEF Ctl, Nodes
  <2>2. CASE x = q
    BY <1>2, <1>3, <1>4, <1>5, <1>6, <1>10, <2>2 DEF OneNode, OnPhase
  <2>3. CASE x # q
    <3>1. pc'[S(x)] = pc[S(x)] /\ ipOf'[S(x)] = ipOf[S(x)] /\ ssc'[x] = ssc[x]
      BY <1>5, <1>13, <2>3
    <3>2. pc[S(x)] # "onUndo"
      BY <1>2, <1>3, <2>1, <2>3 DEF OneNode
    <3>3. pc[S(x)] \notin OffPhase
      BY <1>1 DEF OneStart, OnPhase
    <3>4. \A p \in Node : x \in ip'[p].queues <=> x \in ip[p].queues
      BY <1>6, <2>3
    <3>5. pipe'[x] = o
      BY <1>2, <1>5
    <3> QED
      BY <1>2, <1>5, <1>7, <2>1, <3>1, <3>2, <3>3, <3>4, <3>5 DEF OneNode, OnPhase, OffPhase
  <2> QED
    BY <2>2, <2>3
<1> QED
  BY <1>13, <1>14, <1>15, <1>16 DEF Ctl
\* A node that finds no pipeline when it starts: there is none anywhere.
LEMMA NoPipeline ==
  ASSUME Ctl, NEW q \in Node, pc[S(q)] \in OnPhase, pipe[q] = NoNode
  PROVE  /\ \A p \in Node : ip[p].queues = {} /\ ip[p].startCount = 0 /\ pipe[p] = NoNode
         /\ \A r \in Node : pc[S(r)] \notin {"onJoin", "onUndo"} \cup OffPhase
<1>1. OneStart(q) /\ OneNode(q)
  BY DEF Ctl, Starts, Nodes
<1>2. NoNode \notin Node
  BY QueueAssumption DEF QueueAssumption
<1>3. ASSUME NEW p \in Node PROVE ip[p].queues = {} /\ ip[p].startCount = 0
  <2>1. ip[p].queues = {}
    BY <1>1, <1>2 DEF OneStart
  <2> QED
    BY <2>1 DEF Ctl, Pipelines, OnePipeline, Live
<1>4. ASSUME NEW p \in Node PROVE pipe[p] = NoNode
  <2>1. pipe[p] \in Node \cup {NoNode}
    BY DEF Ctl, CtlType
  <2>2. pipe[p] \in Node => Live(pipe[p])
    BY DEF Ctl, Pipelines, OnePipeline
  <2> QED
    BY <1>3, <2>1, <2>2 DEF Live
<1>5. ASSUME NEW r \in Node PROVE pc[S(r)] \notin {"onJoin", "onUndo"} \cup OffPhase
  <2>1. OneNode(r)
    BY DEF Ctl, Nodes
  <2> QED
    BY <1>1, <1>2, <2>1 DEF OneNode, OneStart
<1> QED
  BY <1>3, <1>4, <1>5

LEMMA StartPreparesCtl == ASSUME Ctl, NEW q \in Node, StartPrepares(q) PROVE Ctl'
<1> DEFINE t == S(q)
<1>1. /\ t \in Thread /\ OneNode(q) /\ pc[t] = "onLock" /\ ssc[q] /\ t # NoThread
      /\ \A p \in Node : ip[p].queues = {} /\ ip[p].startCount = 0 /\ pipe[p] = NoNode
      /\ \A r \in Node : pc[S(r)] \notin {"onJoin", "onUndo"} \cup OffPhase
      /\ ip \in [Node -> IpRecord] /\ q # NoNode
  BY Threads, NoPipeline, QueueAssumption
     DEF StartPrepares, Ctl, Nodes, CtlType, OnPhase, OneNode, IpRecord, QueueAssumption
<1>2. {r \in Node : pipe[r] = NoNode} = Node
  BY <1>1
<1> DEFINE l == [lock EXCEPT ![q] = t]
<1>3. /\ pipe' = [r \in Node |-> q]
      /\ ip' = [ip EXCEPT ![q].nrQueues = N, ![q].startCount = 1]
      /\ ipOf' = [ipOf EXCEPT ![t] = q] /\ first' = [first EXCEPT ![q] = TRUE]
      /\ lock' = l /\ pc' = [pc EXCEPT ![t] = "onJoin"] /\ ssc' = ssc /\ lock[q] = NoThread
  BY <1>1, <1>2 DEF StartPrepares, Holds, Goto, flags, N
<1>4. /\ ip' \in [Node -> IpRecord] /\ \A p \in Node : p # q => ip'[p] = ip[p]
      /\ ip'[q].nrQueues = N /\ ip'[q].startCount = 1
      /\ ip'[q].queues = {} /\ ip'[q].nrStreaming = ip[q].nrStreaming
  <2>1. ip[q] \in IpRecord /\ N \in Nat
    BY <1>1, SubsetFacts
  <2>2. ip'[q] = [nrQueues |-> N, queues |-> ip[q].queues, nrStreaming |-> ip[q].nrStreaming,
                  streaming |-> ip[q].streaming, startCount |-> 1]
    BY <1>1, <1>3, <2>1 DEF IpRecord
  <2>3. ip'[q] \in IpRecord
    BY <2>1, <2>2 DEF IpRecord
  <2> QED
    BY <1>1, <1>3, <2>2, <2>3
<1>5. /\ PipeMoves(q, "onJoin", q, l) /\ MayHold(t, l) /\ l \in [Node -> Thread \cup {NoThread}]
      /\ pc'[t] = "onJoin" /\ ipOf'[t] = q
  BY <1>1, <1>3, <1>4, Threads DEF PipeMoves, MayHold, Ctl, CtlType
<1> HIDE DEF l
<1>6. /\ CtlType' /\ OneMutex' /\ Runs'
      /\ \A x \in Node : x # q => pc'[S(x)] = pc[S(x)] /\ ipOf'[S(x)] = ipOf[S(x)]
  <2>1. "onJoin" \in OnPhase /\ "onJoin" \notin FwPhase
    BY DEF OnPhase, FwPhase
  <2>2. OneRun(t)'
    BY <1>5 DEF OneRun, StartPhase
  <2>3. \A u \in Thread : pc[u] \in StartPhase /\ ipOf[u] = q => u = t
    BY <1>3, NobodyRuns DEF CanLock
  <2> QED
    BY <1>5, <2>1, <2>2, <2>3, PipeStep
<1>7. Pipelines'
  <2> SUFFICES ASSUME NEW p \in Node PROVE OnePipeline(p)'
    BY DEF Pipelines
  <2>1. OnePipeline(p)
    BY DEF Ctl, Pipelines
  <2>2. \A x \in Node : Live(x)' <=> x = q
    BY <1>1, <1>4 DEF Live
  <2>3. \A x \in Node : pipe'[x] = q
    BY <1>3
  <2>4. CASE p = q
    <3>1. ip'[q].nrStreaming = Cardinality(ip'[q].queues)
      BY <1>1, <1>4, <2>1, <2>4 DEF OnePipeline
    <3>2. Live(q)' /\ \A x \in Node : pipe'[x] # NoNode
      BY <1>1, <2>2, <2>3
    <3> QED
      BY <1>4, <2>2, <2>3, <2>4, <3>1, <3>2 DEF OnePipeline
  <2>5. CASE p # q
    BY <1>1, <1>4, <2>1, <2>2, <2>3, <2>5 DEF OnePipeline
  <2> QED
    BY <2>4, <2>5
<1>8. \A p \in Node : ip'[p].queues = {}
  BY <1>1, <1>4
<1>9. Starts'
  <2>1. \A x \in Node : pc'[S(x)] \notin OffPhase
    BY <1>1, <1>5, <1>6 DEF OffPhase
  <2> QED
    BY <1>8, <2>1 DEF Starts, OneStart
<1>10. Nodes'
  <2> SUFFICES ASSUME NEW x \in Node PROVE OneNode(x)'
    BY DEF Nodes
  <2>1. OneNode(x) /\ pipe'[x] = q
    BY <1>3 DEF Ctl, Nodes
  <2>2. CASE x = q
    BY <1>1, <1>3, <1>5, <1>8, <2>2 DEF OneNode
  <2>3. CASE x # q
    <3>1. pc'[S(x)] = pc[S(x)] /\ ssc'[x] = ssc[x]
      BY <1>3, <1>6, <2>3
    <3>2. pc[S(x)] \notin StartPhase
      <4>1. pc[S(x)] \in StartPhase => x \in ip[ipOf[S(x)]].queues /\ ipOf[S(x)] \in Node
        BY Running, Threads
      <4> QED
        BY <1>1, <4>1
    <3>3. pc[S(x)] = "idle" => ~ ssc[x]
      BY <1>1, <2>1 DEF OneNode
    <3> QED
      BY <1>1, <1>8, <2>1, <3>1, <3>2, <3>3 DEF OneNode, OnPhase, OffPhase
  <2> QED
    BY <2>2, <2>3
<1> QED
  BY <1>6, <1>7, <1>9, <1>10 DEF Ctl
LEMMA StartPrepareFailsCtl == ASSUME Ctl, NEW q \in Node, StartPrepareFails(q) PROVE Ctl'
<1> DEFINE t == S(q)
<1>1. /\ t \in Thread /\ OneNode(q) /\ pc[t] = "onLock" /\ ssc[q]
      /\ \A p \in Node : ip[p].queues = {} /\ ip[p].startCount = 0 /\ pipe[p] = NoNode
      /\ ip \in [Node -> IpRecord]
  BY Threads, NoPipeline DEF StartPrepareFails, Ctl, Nodes, CtlType, OnPhase, OneNode, IpRecord
<1>2. /\ ip' = [ip EXCEPT ![q].nrQueues = 0, ![q].startCount = 0]
      /\ ssc' = [ssc EXCEPT ![q] = FALSE] /\ UNCHANGED << pipe, ipOf, first, lock >>
      /\ pc' = [pc EXCEPT ![t] = "idle"] /\ lock[q] = NoThread
  BY <1>1 DEF StartPrepareFails, StartFails, Goto, locals
<1>3. /\ ip' \in [Node -> IpRecord] /\ \A p \in Node : p # q => ip'[p] = ip[p]
      /\ ip'[q].nrQueues = 0 /\ ip'[q].startCount = 0
      /\ ip'[q].queues = {} /\ ip'[q].nrStreaming = ip[q].nrStreaming
  <2>1. ip[q] \in IpRecord
    BY <1>1
  <2>2. ip'[q] = [nrQueues |-> 0, queues |-> ip[q].queues, nrStreaming |-> ip[q].nrStreaming,
                  streaming |-> ip[q].streaming, startCount |-> 0]
    BY <1>1, <1>2, <2>1 DEF IpRecord
  <2>3. ip'[q] \in IpRecord
    BY <2>1, <2>2 DEF IpRecord
  <2> QED
    BY <1>1, <1>2, <2>2, <2>3
<1>4. /\ PipeMoves(q, "idle", q, lock) /\ MayHold(t, lock) /\ lock \in [Node -> Thread \cup {NoThread}]
      /\ pc'[t] = "idle" /\ ssc'[q] = FALSE
  BY <1>1, <1>2, <1>3, Threads DEF PipeMoves, MayHold, Ctl, CtlType
<1>5. /\ CtlType' /\ OneMutex' /\ Runs'
      /\ \A x \in Node : x # q => pc'[S(x)] = pc[S(x)] /\ ipOf'[S(x)] = ipOf[S(x)]
  <2>1. "idle" \notin FwPhase
    BY DEF FwPhase
  <2>2. OneRun(t)'
    BY <1>4 DEF OneRun, StartPhase
  <2>3. \A u \in Thread : pc[u] \in StartPhase /\ ipOf[u] = q => u = t
    BY <1>2, NobodyRuns DEF CanLock
  <2> QED
    BY <1>4, <2>1, <2>2, <2>3, PipeStep
<1>6. Pipelines'
  <2> SUFFICES ASSUME NEW p \in Node PROVE OnePipeline(p)'
    BY DEF Pipelines
  <2>1. OnePipeline(p)
    BY DEF Ctl, Pipelines
  <2>2. \A x \in Node : ~ Live(x)' /\ ~ Live(x)
    BY <1>1, <1>3 DEF Live
  <2>3. CASE p = q
    <3>1. ip'[q].nrStreaming = Cardinality(ip'[q].queues)
      BY <1>1, <1>3, <2>1, <2>3 DEF OnePipeline
    <3> QED
      BY <1>2, <1>3, <2>1, <2>2, <2>3, <3>1 DEF OnePipeline
  <2>4. CASE p # q
    BY <1>2, <1>3, <2>1, <2>2, <2>4 DEF OnePipeline
  <2> QED
    BY <2>3, <2>4
<1>7. \A p \in Node : ip'[p].queues = {}
  BY <1>1, <1>3
<1>8. Starts'
  <2> SUFFICES ASSUME NEW x \in Node, pc'[S(x)] \in OnPhase \cup StartPhase
               PROVE  \A r \in Node : pc'[S(r)] \notin OffPhase
    BY <1>7 DEF Starts, OneStart
  <2>1. OneStart(q)
    BY DEF Ctl, Starts
  <2> QED
    BY <1>1, <1>4, <1>5, <2>1 DEF OneStart, OnPhase, OffPhase
<1>9. Nodes'
  <2> SUFFICES ASSUME NEW x \in Node PROVE OneNode(x)'
    BY DEF Nodes
  <2>1. OneNode(x) /\ pipe'[x] = NoNode
    BY <1>1, <1>2 DEF Ctl, Nodes
  <2>2. CASE x = q
    BY <1>1, <1>2, <1>4, <1>7, <2>2 DEF OneNode, OnPhase
  <2>3. CASE x # q
    <3>1. pc'[S(x)] = pc[S(x)] /\ ssc'[x] = ssc[x] /\ ipOf'[S(x)] = ipOf[S(x)]
      BY <1>2, <1>5, <2>3
    <3>2. pc[S(x)] \in {"onWait", "onLock"} \/ (pc[S(x)] = "idle" /\ ~ ssc[x])
      <4>1. pc[S(x)] \notin {"onJoin", "onUndo"} \cup OffPhase
        BY <1>1, NoPipeline DEF OnPhase
      <4>2. pc[S(x)] \in StartPhase => x \in ip[ipOf[S(x)]].queues /\ ipOf[S(x)] \in Node
        BY Running, Threads
      <4>3. pc[S(x)] = "idle" => ~ ssc[x]
        BY <1>1, <2>1 DEF OneNode
      <4>4. pc[S(x)] \in {"idle"} \cup OnPhase \cup OffPhase \cup StartPhase
        BY DEF Ctl, CtlType
      <4> QED
        BY <1>1, <4>1, <4>2, <4>3, <4>4 DEF OnPhase
    <3> QED
      BY <1>7, <2>1, <3>1, <3>2 DEF OneNode, OnPhase, OffPhase
  <2> QED
    BY <2>2, <2>3
<1> QED
  BY <1>5, <1>6, <1>8, <1>9 DEF Ctl

LEMMA StartUndoneCtl == ASSUME Ctl, NEW q \in Node, StartUndone(q) PROVE Ctl'
<1> DEFINE t == S(q)
<1>1. /\ t \in Thread /\ OneNode(q) /\ OneStart(q) /\ pc[t] = "onUndo" /\ ssc[q] /\ t # NoThread
      /\ \A p \in Node : q \notin ip[p].queues
  BY Threads DEF StartUndone, Ctl, Nodes, Starts, OneNode, OnPhase
<1>2. PICK o \in Node : o = ipOf[t] /\ \A x \in Node : pipe[x] = o
  BY <1>1 DEF OneNode
<1>3. /\ OnePipeline(o) /\ Live(o) /\ ip[o].queues = Node \ {q} /\ ip \in [Node -> IpRecord]
      /\ o # NoNode /\ \A p \in Node \ {o} : ip[p].queues = {} /\ ~ Live(p)
  <2>1. OnePipeline(o) /\ Live(o)
    BY <1>2 DEF Ctl, Pipelines, OnePipeline
  <2>2. \A p \in Node \ {o} : ip[p].queues = {} /\ ~ Live(p)
    BY <1>1, <1>2, <2>1 DEF OneStart, OnPhase, OnePipeline
  <2> QED
    BY <1>1, <1>2, <2>1, <2>2, QueueAssumption DEF QueueAssumption, OneNode, Ctl, CtlType, IpRecord
<1> DEFINE l == [lock EXCEPT ![q] = NoThread]
<1>4. /\ pc' = [pc EXCEPT ![t] = "idle"] /\ lock' = l /\ CanLock(q, t)
      /\ ssc' = [ssc EXCEPT ![q] = FALSE] /\ UNCHANGED << ipOf, first >>
  BY <1>1 DEF StartUndone, StartFails, Unlocks, Goto, locals
<1>5. MayHold(t, l) /\ l \in [Node -> Thread \cup {NoThread}] /\ pc'[t] = "idle" /\ ssc'[q] = FALSE
  BY <1>1, <1>4, Threads DEF MayHold, CanLock, Ctl, CtlType
<1>6. \A x \in Node : x # q => /\ pc[S(x)] = "idle" \/ (pc[S(x)] \in StartPhase)
                               /\ ssc[x] /\ x \in ip[o].queues
  <2> SUFFICES ASSUME NEW x \in Node, x # q
               PROVE  (pc[S(x)] = "idle" \/ pc[S(x)] \in StartPhase) /\ ssc[x] /\ x \in ip[o].queues
    OBVIOUS
  <2>1. OneNode(x) /\ x \in ip[o].queues
    BY <1>3 DEF Ctl, Nodes
  <2>2. pc[S(x)] \notin OnPhase \cup OffPhase
    BY <1>1, <2>1 DEF OneNode, OneStart, OnPhase
  <2>3. pc[S(x)] \in {"idle"} \cup OnPhase \cup OffPhase \cup StartPhase
    BY DEF Ctl, CtlType
  <2> QED
    BY <1>3, <2>1, <2>2, <2>3 DEF OneNode
<1>7. \A x \in Node : x # q => pc[S(x)] = "idle"
  <2> SUFFICES ASSUME NEW x \in Node, x # q, pc[S(x)] \in StartPhase PROVE FALSE
    BY <1>6
  <2>1. ipOf[S(x)] \in Node /\ Full(ipOf[S(x)])
    BY Running, Threads
  <2> QED
    BY <1>1, <2>1 DEF Full
<1> HIDE DEF l
<1>8. CASE UNCHANGED << pipe, ip >>
  <2>1. NodeMoves(q, "idle", o, FALSE, l) /\ lock' = l
    BY <1>2, <1>4, <1>8, Threads DEF NodeMoves, Ctl, CtlType
  <2>2. OneNode(q)'
    BY <1>1, <1>5, <1>8 DEF OneNode, OnPhase
  <2>3. MayRun(q, "idle", o, l) /\ MayStart(q, "idle")
    BY DEF MayRun, MayStart, OnPhase, OffPhase, StartPhase, FwPhase
  <2> QED
    BY <1>5, <2>1, <2>2, <2>3, NodeStep
<1>9. CASE pipe' = PipeAfterStop(q, o) /\ ip' = [ip EXCEPT ![o].startCount = @ - 1]
  <2>1. pipe' = [r \in Node |-> NoNode]
    BY <1>3, <1>9 DEF PipeAfterStop, Live
  <2>2. /\ ip' \in [Node -> IpRecord] /\ \A p \in Node : p # o => ip'[p] = ip[p]
        /\ ip'[o].nrQueues = ip[o].nrQueues /\ ip'[o].startCount = 0
        /\ ip'[o].queues = ip[o].queues /\ ip'[o].nrStreaming = ip[o].nrStreaming
    <3>1. ip[o] \in IpRecord /\ ip[o].startCount = 1
      BY <1>3 DEF Live
    <3>2. ip'[o] = [nrQueues |-> ip[o].nrQueues, queues |-> ip[o].queues,
                    nrStreaming |-> ip[o].nrStreaming, streaming |-> ip[o].streaming,
                    startCount |-> ip[o].startCount - 1]
      BY <1>3, <1>9, <3>1 DEF IpRecord
    <3>3. ip'[o] \in IpRecord
      BY <3>1, <3>2 DEF IpRecord
    <3> QED
      BY <1>3, <1>9, <3>1, <3>2, <3>3
  <2>3. PipeMoves(q, "idle", o, l)
    BY <1>1, <1>4, <2>1, <2>2 DEF PipeMoves, Ctl, CtlType
  <2>4. \A u \in Thread : pc[u] \in StartPhase /\ ipOf[u] = o => u = t
    \* Nobody runs a pipeline that node q has left.
    <3>1. \A u \in Thread : pc[u] \in StartPhase => OneRun(u)
      BY DEF Ctl, Runs
    <3>2. ip[o].queues # Node
      BY <1>1
    <3>3. ip[o].queues = {} => lock[o] \in {NoThread, t}
      BY <1>3, <1>4 DEF CanLock
    <3>4. ASSUME NEW u \in Thread, pc[u] \in StartPhase, ipOf[u] = o PROVE u = t
      <4>1. lock[o] = u /\ ip[o].queues = {}
        BY <3>1, <3>2, <3>4 DEF OneRun
      <4> QED
        BY <3>3, <4>1, Threads
    <3> QED
      BY <3>4
  <2>5. /\ CtlType' /\ OneMutex' /\ Runs'
        /\ \A x \in Node : x # q => pc'[S(x)] = pc[S(x)] /\ ipOf'[S(x)] = ipOf[S(x)]
    <3>1. "idle" \notin FwPhase
      BY DEF FwPhase
    <3>2. OneRun(t)'
      BY <1>5 DEF OneRun, StartPhase
    <3> QED
      BY <1>5, <2>3, <2>4, <3>1, <3>2, PipeStep
  <2>6. \A p \in Node : ~ Live(p)'
    BY <1>3, <2>2 DEF Live
  <2>7. Pipelines'
    <3> SUFFICES ASSUME NEW p \in Node PROVE OnePipeline(p)'
      BY DEF Pipelines
    <3>1. OnePipeline(p) /\ \A x \in Node : pipe'[x] = NoNode
      BY <2>1 DEF Ctl, Pipelines
    <3>2. CASE p = o
      <4>1. ip'[o].nrStreaming = Cardinality(ip'[o].queues) /\ ip'[o].queues # Node
        BY <1>3, <2>2 DEF OnePipeline
      <4>2. \A x \in Node : pipe'[x] # o
        BY <1>3, <3>1
      <4> QED
        BY <1>3, <2>2, <2>6, <3>1, <3>2, <4>1, <4>2 DEF OnePipeline
    <3>3. CASE p # o
      <4>1. ip'[p] = ip[p] /\ ip[p].queues = {} /\ \A x \in Node : pipe'[x] # p
        BY <1>3, <2>2, <3>1, <3>3, QueueAssumption DEF QueueAssumption
      <4> QED
        BY <2>6, <3>1, <4>1 DEF OnePipeline
    <3> QED
      BY <3>2, <3>3
  <2>8. \A x \in Node : pc'[S(x)] = "idle"
    BY <1>5, <1>7, <2>5
  <2>9. Starts'
    BY <2>8 DEF Starts, OneStart, OnPhase, StartPhase
  <2>10. Nodes'
    <3> SUFFICES ASSUME NEW x \in Node PROVE OneNode(x)'
      BY DEF Nodes
    <3>1. ssc'[x] => x # q
      BY <1>5
    <3>2. x # q => x \in ip'[o].queues
      BY <1>6, <2>2
    <3> QED
      BY <2>6, <2>8, <3>1, <3>2 DEF OneNode, OnPhase
  <2> QED
    BY <2>5, <2>7, <2>9, <2>10 DEF Ctl
<1> QED
  BY <1>2, <1>4, <1>8, <1>9 DEF StartUndone
LEMMA Leaving ==
  ASSUME NEW i \in IpRecord, NEW q, NEW v, NEW sc,
         v = [Without(i, q) EXCEPT !.streaming = FALSE, !.startCount = sc]
  PROVE  v = [nrQueues |-> i.nrQueues, queues |-> i.queues \ {q},
              nrStreaming |-> i.nrStreaming - 1, streaming |-> FALSE, startCount |-> sc]
<1>0. PICK w : w = Without(i, q)
  OBVIOUS
<1>1. w = [i EXCEPT !.nrStreaming = @ - 1, !.queues = @ \ {q}]
  BY <1>0 DEF Without
<1>2. w = [nrQueues |-> i.nrQueues, queues |-> i.queues \ {q},
           nrStreaming |-> i.nrStreaming - 1, streaming |-> i.streaming,
           startCount |-> i.startCount]
  BY <1>1 DEF IpRecord
<1>3. /\ w.nrQueues = i.nrQueues /\ w.queues = i.queues \ {q}
      /\ w.nrStreaming = i.nrStreaming - 1 /\ w.startCount = i.startCount
  BY <1>2
<1>4. v = [w EXCEPT !.streaming = FALSE, !.startCount = sc]
  BY <1>0, Zenon
<1>5. w \in IpRecord
  BY <1>2 DEF IpRecord
<1>6. v = [nrQueues |-> w.nrQueues, queues |-> w.queues, nrStreaming |-> w.nrStreaming,
           streaming |-> FALSE, startCount |-> sc]
  BY <1>4, <1>5 DEF IpRecord
<1> QED
  BY <1>3, <1>6, Zenon

\* Node q leaves the pipeline it streams in.
LEMMA LeaveCtl ==
  ASSUME Ctl, NEW q \in Node, pc[S(q)] \in {"offStop", "flush"}, CanLock(ipOf[S(q)], S(q)),
         LeavePipeline(q, ipOf[S(q)]), BackToNode(q, ipOf[S(q)]), Goto(S(q), "offReturn"),
         UNCHANGED << locals, ssc >>
  PROVE  Ctl'
<1> DEFINE t == S(q)
<1>1. /\ t \in Thread /\ OneNode(q) /\ ssc[q] /\ t # NoThread
      /\ \A r \in Node \ {q} : pc[S(r)] \notin OnPhase \cup StartPhase
  BY Threads, Stopping DEF Ctl, Nodes, OneNode, OffPhase
<1>2. PICK o \in Node : o = ipOf[t] /\ pipe[q] = o /\ q \in ip[o].queues
  BY <1>1, QueueAssumption DEF OneNode, QueueAssumption
<1>3. /\ OnePipeline(o) /\ Live(o) /\ ip \in [Node -> IpRecord] /\ o # NoNode
      /\ \A p \in Node \ {o} : ip[p].queues = {} /\ ~ Live(p)
      /\ \A x \in Node : pipe[x] \in {o, NoNode}
  <2>1. OnePipeline(o) /\ Live(o) /\ o # NoNode
    BY <1>2, QueueAssumption DEF Ctl, Pipelines, OnePipeline, QueueAssumption
  <2>2. \A x \in Node : pipe[x] \in {o, NoNode}
    BY <1>2, Member
  <2>3. ASSUME NEW p \in Node \ {o} PROVE ip[p].queues = {} /\ ~ Live(p)
    BY <1>2, <2>1, <2>3 DEF Ctl, Pipelines, OnePipeline
  <2> QED
    BY <2>1, <2>2, <2>3 DEF Ctl, CtlType, IpRecord
<1>4. ip[o].nrStreaming = 1 => ip[o].queues = {q}
  <2> DEFINE Q == ip[o].queues
  <2>1. Q \in SUBSET Node /\ q \in Q /\ Cardinality(Q) = ip[o].nrStreaming
    BY <1>2, <1>3 DEF IpRecord, OnePipeline
  <2>2. Q \ {q} \in SUBSET Node
    BY <2>1
  <2> HIDE DEF Q
  <2>3. Cardinality(Q \ {q}) = Cardinality(Q) - 1
    BY <2>1, SubsetFacts
  <2>4. Cardinality(Q \ {q}) = 0 => Q \ {q} = {}
    BY <2>2, SubsetFacts
  <2>5. Cardinality(Q) = 1 => Cardinality(Q \ {q}) = 0
    BY <2>3
  <2>6. Q \ {q} = {} => Q = {q}
    BY <2>1
  <2> QED
    BY <2>1, <2>4, <2>5, <2>6 DEF Q
<1>5. ip[o].nrStreaming # 1 => ip[o].queues \ {q} # {}
  <2> SUFFICES ASSUME ip[o].queues \ {q} = {} PROVE ip[o].nrStreaming = 1
    OBVIOUS
  <2> DEFINE Q == ip[o].queues
  <2>1. Q \in SUBSET Node /\ q \in Q /\ Q \ {q} = {} /\ Cardinality(Q) = ip[o].nrStreaming
    BY <1>2, <1>3 DEF IpRecord, OnePipeline
  <2> HIDE DEF Q
  <2>2. Cardinality(Q \ {q}) = Cardinality(Q) - 1 /\ Cardinality(Q) \in Nat
    BY <2>1, SubsetFacts
  <2>3. Cardinality(Q \ {q}) = 0
    BY <2>1, SubsetFacts
  <2> QED
    BY <2>1, <2>2, <2>3
<1> DEFINE last == ip[o].nrStreaming = 1
           l == IF o = q THEN [lock EXCEPT ![q] = t] ELSE [lock EXCEPT ![o] = NoThread]
           sc == IF last THEN 0 ELSE 1
<1>6. /\ pc' = [pc EXCEPT ![t] = "offReturn"] /\ lock' = l /\ CanLock(o, t)
      /\ UNCHANGED << ipOf, first, ssc >>
      /\ pipe' = IF last THEN [r \in Node |-> NoNode] ELSE [pipe EXCEPT ![q] = NoNode]
  BY <1>2, <1>3 DEF BackToNode, Holds, Unlocks, Goto, locals, LeavePipeline, PipeAfterStop, Live
<1>7. /\ ip' \in [Node -> IpRecord] /\ \A p \in Node : p # o => ip'[p] = ip[p]
      /\ ip'[o].nrQueues = ip[o].nrQueues /\ ip'[o].startCount = sc
      /\ ip'[o].queues = ip[o].queues \ {q} /\ ip'[o].nrStreaming = ip[o].nrStreaming - 1
  <2>1. ip[o] \in IpRecord /\ ip[o].startCount = 1
    BY <1>3 DEF Live
  <2>2. ip'[o] = [nrQueues |-> ip[o].nrQueues, queues |-> ip[o].queues \ {q},
                  nrStreaming |-> ip[o].nrStreaming - 1, streaming |-> FALSE,
                  startCount |-> IF last THEN ip[o].startCount - 1 ELSE ip[o].startCount]
    <3>1. PICK v, sd : /\ v = [Without(ip[o], q) EXCEPT !.streaming = FALSE, !.startCount = sd]
                       /\ sd = IF last THEN ip[o].startCount - 1 ELSE ip[o].startCount
      BY Zenon
    <3>2. ip' = [ip EXCEPT ![o] = v]
      <4>1. LeavePipeline(q, o)
        BY <1>2, Zenon
      <4> QED
        BY <3>1, <4>1, Zenon DEF LeavePipeline
    <3>3. ip'[o] = v
      BY <1>3, <3>2
    <3>4. v = [nrQueues |-> ip[o].nrQueues, queues |-> ip[o].queues \ {q},
               nrStreaming |-> ip[o].nrStreaming - 1, streaming |-> FALSE, startCount |-> sd]
      <4>1. ip[o] \in IpRecord
        BY <2>1
      <4>2. v = [Without(ip[o], q) EXCEPT !.streaming = FALSE, !.startCount = sd]
        BY <3>1
      <4> QED
        BY <4>1, <4>2, Leaving, Zenon
    <3> QED
      BY <3>1, <3>3, <3>4, Zenon
  <2> HIDE DEF last
  <2>3. ip'[o].startCount = sc /\ sc \in Int
    BY <2>1, <2>2
  <2>4. ip'[o] \in IpRecord
    <3>1. ip[o].nrStreaming - 1 \in Int /\ (IF last THEN ip[o].startCount - 1 ELSE ip[o].startCount) \in Int
      BY <2>1 DEF IpRecord
    <3> QED
      BY <2>1, <2>2, <3>1 DEF IpRecord
  <2>5. \A p \in Node : p # o => ip'[p] = ip[p]
    BY <1>2, <1>3 DEF LeavePipeline
  <2>6. ip' \in [Node -> IpRecord]
    <3>1. DOMAIN ip' = Node /\ ip' = [p \in Node |-> ip'[p]]
      BY <1>2, <1>3 DEF LeavePipeline
    <3> QED
      BY <1>3, <2>4, <2>5, <3>1
  <2> QED
    BY <2>2, <2>3, <2>5, <2>6
<1>8. /\ PipeMoves(q, "offReturn", o, l) /\ MayHold(t, l) /\ l \in [Node -> Thread \cup {NoThread}]
      /\ pc'[t] = "offReturn" /\ ipOf'[t] = o
  <2>1. pipe' \in [Node -> Node \cup {NoNode}]
    BY <1>6 DEF Ctl, CtlType
  <2> HIDE DEF last
  <2> QED
    BY <1>1, <1>2, <1>6, <1>7, <2>1, Threads DEF PipeMoves, MayHold, CanLock, Ctl, CtlType
<1> HIDE DEF l
<1>9. /\ CtlType' /\ OneMutex' /\ Runs'
      /\ \A x \in Node : x # q => pc'[S(x)] = pc[S(x)] /\ ipOf'[S(x)] = ipOf[S(x)]
      /\ lock' = l
  <2>1. "offReturn" \in OffPhase /\ "offReturn" \notin FwPhase
    BY DEF OffPhase, FwPhase
  <2>2. OneRun(t)'
    BY <1>8 DEF OneRun, StartPhase
  <2>3. \A u \in Thread : pc[u] \in StartPhase /\ ipOf[u] = o => u = t
    BY <1>6, NobodyRuns
  <2> QED
    BY <1>8, <2>1, <2>2, <2>3, PipeStep
<1>10. /\ pipe'[q] = NoNode /\ \A x \in Node : pipe'[x] \in {o, NoNode}
       /\ ~ last => \A x \in Node : x # q => pipe'[x] = pipe[x]
       /\ last => \A x \in Node : pipe'[x] = NoNode
  BY <1>3, <1>6 DEF Ctl, CtlType
<1>11. \A p \in Node : Live(p)' <=> p = o /\ ~ last
  BY <1>3, <1>7 DEF Live
<1>12. last => \A p \in Node : ip'[p].queues = {}
  BY <1>3, <1>4, <1>7
<1>13. ~ last => ip'[o].queues # {}
  BY <1>5, <1>7
<1> HIDE DEF last
<1>14. Pipelines'
  <2> SUFFICES ASSUME NEW p \in Node PROVE OnePipeline(p)'
    BY DEF Pipelines
  <2>1. OnePipeline(p)
    BY DEF Ctl, Pipelines
  <2>2. CASE p = o
    <3>1. ip'[o].nrStreaming = Cardinality(ip'[o].queues)
      <4> DEFINE Q == ip[o].queues
      <4>1. Q \in SUBSET Node /\ q \in Q /\ Cardinality(Q) = ip[o].nrStreaming
        BY <1>2, <1>3 DEF IpRecord, OnePipeline
      <4> HIDE DEF Q
      <4>2. Cardinality(Q \ {q}) = Cardinality(Q) - 1
        BY <4>1, SubsetFacts
      <4> QED
        BY <1>7, <4>1, <4>2 DEF Q
    <3>2. \A x \in ip'[o].queues : pipe'[x] = o \/ last
      <4> SUFFICES ASSUME NEW x \in ip'[o].queues, ~ last PROVE pipe'[x] = o
        OBVIOUS
      <4>1. x \in ip[o].queues /\ x # q /\ x \in Node
        BY <1>3, <1>7 DEF IpRecord
      <4> QED
        BY <1>3, <1>10, <4>1 DEF OnePipeline
    <3>3. \A x \in Node : pipe'[x] = o => ~ last
      BY <1>3, <1>10
    <3>4. ip'[o].nrQueues = N
      BY <1>3, <1>7 DEF OnePipeline
    <3>5. ip'[o].startCount \in {0, 1}
      BY <1>7
    <3> QED
      BY <1>11, <1>12, <1>13, <2>2, <3>1, <3>2, <3>3, <3>4, <3>5 DEF OnePipeline
  <2>3. CASE p # o
    <3>1. ip'[p] = ip[p] /\ ip[p].queues = {} /\ \A x \in Node : pipe'[x] # p
      BY <1>3, <1>7, <1>10, <2>3, QueueAssumption DEF QueueAssumption
    <3> QED
      BY <1>11, <2>1, <2>3, <3>1 DEF OnePipeline
  <2> QED
    BY <2>2, <2>3
<1>15. Starts'
  BY <1>1, <1>8, <1>9 DEF Starts, OneStart, OnPhase, StartPhase
<1>16. Nodes'
  <2> SUFFICES ASSUME NEW x \in Node PROVE OneNode(x)'
    BY DEF Nodes
  <2>1. OneNode(x)
    BY DEF Ctl, Nodes
  <2>2. CASE x = q
    BY <1>1, <1>6, <1>8, <1>10, <2>2 DEF OneNode, OnPhase
  <2>3. CASE x # q
    <3>1. /\ pc'[S(x)] = pc[S(x)] /\ ssc'[x] = ssc[x] /\ ipOf'[S(x)] = ipOf[S(x)]
          /\ pc[S(x)] \notin OnPhase
      BY <1>1, <1>6, <1>9, <2>3
    <3>2. \A p \in Node : x \in ip'[p].queues <=> x \in ip[p].queues
      BY <1>3, <1>7, <2>3
    <3>3. pc[S(x)] \in {"offLock", "offStop", "flush"} =>
            pipe'[x] = pipe[x] /\ (pipe[x] # NoNode => ~ last)
      <4>1. CASE last
        <5>1. \A p \in Node : x \notin ip[p].queues
          BY <1>12, <3>2, <4>1
        <5>2. pipe[x] \in Node \cup {NoNode}
          BY DEF Ctl, CtlType
        <5>3. pc[S(x)] \in {"offLock", "offStop", "flush"} => pipe[x] = NoNode
          BY <2>1, <5>1, <5>2 DEF OneNode
        <5> QED
          BY <1>10, <4>1, <5>3
      <4>2. CASE ~ last
        BY <1>10, <2>3, <4>2
      <4> QED
        BY <4>1, <4>2
    <3>4. pc[S(x)] # "flush"
      <4> SUFFICES ASSUME pc[S(x)] = "flush" PROVE FALSE
        OBVIOUS
      <4>1. ipOf[S(x)] \in Node /\ ip[ipOf[S(x)]].queues = Node /\ lock[ipOf[S(x)]] = S(x)
        BY <2>1 DEF OneNode
      <4>2. ipOf[S(x)] = o
        BY <1>3, <4>1
      <4> QED
        BY <1>6, <2>3, <4>1, <4>2, Threads DEF CanLock
    <3>5. pc[S(x)] = "offReturn" => pipe'[x] = NoNode
      BY <1>10, <2>1, <2>3 DEF OneNode
    <3>8. pc[S(x)] \in {"offLock", "offStop", "flush"} =>
            pipe'[x] = ipOf[S(x)] /\ (pipe'[x] # NoNode => x \in ip'[pipe'[x]].queues)
      <4> SUFFICES ASSUME pc[S(x)] \in {"offLock", "offStop", "flush"}, pipe[x] # NoNode
                   PROVE  x \in ip'[pipe[x]].queues
        BY <2>1, <3>3 DEF OneNode
      <4>1. x \in ip[pipe[x]].queues /\ pipe[x] \in Node
        BY <2>1 DEF OneNode, Ctl, CtlType
      <4> QED
        BY <3>2, <4>1
    <3>6. \A p \in Node : Live(p)' => Live(p)
      BY <1>3, <1>11
    <3>7. pc[S(x)] \notin OnPhase
      BY <3>1
    <3>9. (\E p \in Node : x \in ip[p].queues) => \E p \in Node : x \in ip'[p].queues
      BY <3>2
    <3>10. (\A p \in Node : Live(p) => x \notin ip[p].queues)
             => \A p \in Node : Live(p)' => x \notin ip'[p].queues
      BY <3>2, <3>6
    <3> QED
      BY <2>1, <3>1, <3>2, <3>4, <3>5, <3>7, <3>8, <3>9, <3>10 DEF OneNode, OnPhase
  <2> QED
    BY <2>2, <2>3
<1> QED
  BY <1>9, <1>14, <1>15, <1>16 DEF Ctl

LEMMA StopLeavesCtl ==
  ASSUME Ctl, NEW q \in Node, StopFlushed(q) \/ StopLeaves(q)
  PROVE  Ctl'
<1>1. CASE StopFlushed(q)
  <2>1. lock[ipOf[S(q)]] = S(q)
    BY <1>1 DEF StopFlushed, Ctl, Nodes, OneNode
  <2> QED
    BY <1>1, <2>1, LeaveCtl DEF StopFlushed, flags, CanLock
<1>2. CASE StopLeaves(q)
  BY <1>2, LeaveCtl DEF StopLeaves, flags
<1> QED
  BY <1>1, <1>2

\* Whatever ioctl, answer or frame is next (start_streaming, stop_streaming,
\* buf_queue, stream_ready and the steps they are made of), pipelines, mutexes and
\* threads stay as Ctl has them.
THEOREM CtlStep == ASSUME StartsTogether, Ctl, [Next]_vars PROVE Ctl'
<1>1. CASE UNCHANGED vars
  BY <1>1, CtlUnchanged DEF vars, pipeline, locals, flags
<1>2. ASSUME NEW q \in Node, BufReady(q) \/ LateReady(q) PROVE Ctl'
  BY <1>2, CtlUnchanged DEF BufReady, LateReady, pipeline, locals, flags
<1>3. ASSUME NEW t \in Thread, StreamStart(t) PROVE Ctl'
  BY <1>3, StartFailsCtl, StreamStartsCtl, StreamStartedCtl DEF StreamStart, GivenUp
<1>4. ASSUME NEW q \in Node, QueueStep(q) PROVE Ctl'
  BY <1>3, <1>4, Threads, QBufEndsCtl, QBufStartsCtl DEF QueueStep
<1>5. ASSUME NEW q \in Node, StreamStep(q) PROVE Ctl'
  BY <1>3, <1>5, Threads, StartWaitsCtl, StartPreparesCtl, StartPrepareFailsCtl,
     StartFindsPipelineCtl, StartJoinsCtl, StartUndoneCtl, StopWaitsCtl, StopFindsNoneCtl,
     StopLocksCtl, StopFlushesCtl, StopLeavesCtl, StopReturnsCtl DEF StreamStep
<1> QED
  BY <1>1, <1>2, <1>4, <1>5, QBufCtl, StreamOnCtl, StreamOffCtl DEF Next

\* No node has a pipeline when the driver is loaded.
THEOREM CtlInit == Init => Ctl
<1> SUFFICES ASSUME Init PROVE Ctl
  OBVIOUS
<1>1. /\ \A q \in Node : pipe[q] = NoNode /\ ~ ssc[q]
      /\ \A t \in Thread : pc[t] = "idle"
      /\ \A o \in Node : /\ ip[o].queues = {} /\ ip[o].nrStreaming = 0 /\ ip[o].nrQueues = 0
                         /\ ip[o].startCount = 0
  BY DEF Init
<1>2. CtlType
  <2>1. "idle" \in IoctlPhase
    BY DEF IoctlPhase
  <2> QED
    BY <2>1, Threads DEF Init, CtlType
<1>3. OneMutex /\ Starts /\ Runs
  BY <1>1, Threads DEF OneMutex, Starts, Runs, OneStart, OneRun, FwPhase, OnPhase, StartPhase
<1>4. Pipelines
  <2> SUFFICES ASSUME NEW o \in Node PROVE OnePipeline(o)
    BY DEF Pipelines
  <2>1. PICK Q : Q = ip[o].queues
    OBVIOUS
  <2>2. Cardinality(Q) = 0
    BY <1>1, <2>1, SubsetFacts
  <2>3. ip[o].nrStreaming = Cardinality(ip[o].queues)
    BY <1>1, <2>1, <2>2
  <2>4. \A q \in Node : pipe[q] # o
    BY <1>1, QueueAssumption DEF QueueAssumption
  <2> QED
    BY <1>1, <2>3, <2>4 DEF OnePipeline, Live
<1>5. Nodes
  BY <1>1, Threads DEF Nodes, OneNode, OnPhase, Live
<1> QED
  BY <1>2, <1>3, <1>4, <1>5 DEF Ctl
-----------------------------------------------------------------------------
(* Lists of buffers *)

\* Nothing is in the list twice; what is in it.
NoTwice(s) == \A i, j \in 1 .. Len(s) : s[i] = s[j] => i = j
IsList(s, X) == s \in Seq(X) /\ NoTwice(s)

LEMMA EmptyList == ASSUME NEW X PROVE IsList(<< >>, X) /\ In(<< >>) = {}
BY DEF IsList, NoTwice, In

LEMMA TailList ==
  ASSUME NEW X, NEW s, IsList(s, X), s # << >>
  PROVE  /\ IsList(Tail(s), X) /\ Head(s) \in In(s) /\ Head(s) \in X
         /\ In(Tail(s)) = In(s) \ {Head(s)}
<1>1. /\ Len(s) \in Nat \ {0} /\ Head(s) = s[1] /\ Tail(s) \in Seq(X) /\ Len(Tail(s)) = Len(s) - 1
      /\ \A i \in 1 .. Len(s) - 1 : Tail(s)[i] = s[i + 1]
  BY DEF IsList
<1>2. NoTwice(Tail(s))
  <2> SUFFICES ASSUME NEW i \in 1 .. Len(s) - 1, NEW j \in 1 .. Len(s) - 1,
                      Tail(s)[i] = Tail(s)[j]
               PROVE  i = j
    BY <1>1 DEF NoTwice
  <2>1. s[i + 1] = s[j + 1] /\ i + 1 \in 1 .. Len(s) /\ j + 1 \in 1 .. Len(s)
    BY <1>1
  <2> QED
    BY <2>1 DEF IsList, NoTwice
<1>3. In(Tail(s)) \subseteq In(s) \ {Head(s)}
  <2> SUFFICES ASSUME NEW i \in 1 .. Len(s) - 1
               PROVE  Tail(s)[i] \in In(s) /\ Tail(s)[i] # Head(s)
    BY <1>1 DEF In
  <2>1. Tail(s)[i] = s[i + 1] /\ i + 1 \in 1 .. Len(s) /\ 1 \in 1 .. Len(s) /\ i + 1 # 1
    BY <1>1
  <2> QED
    BY <1>1, <2>1 DEF In, IsList, NoTwice
<1>4. In(s) \ {Head(s)} \subseteq In(Tail(s))
  <2> SUFFICES ASSUME NEW i \in 1 .. Len(s), s[i] # s[1]
               PROVE  s[i] \in In(Tail(s))
    BY <1>1 DEF In
  <2>1. i - 1 \in 1 .. Len(s) - 1 /\ Tail(s)[i - 1] = s[i]
    BY <1>1
  <2> QED
    BY <1>1, <2>1 DEF In
<1>5. Head(s) \in In(s) /\ Head(s) \in X
  BY <1>1 DEF In, IsList
<1> QED
  BY <1>1, <1>2, <1>3, <1>4, <1>5 DEF IsList

LEMMA JoinedList ==
  ASSUME NEW X, NEW s, IsList(s, X), NEW u, IsList(u, X), In(s) \cap In(u) = {}
  PROVE  IsList(s \o u, X) /\ In(s \o u) = In(s) \cup In(u)
<1> DEFINE n == Len(s)
           m == Len(u)
           w == s \o u
<1>1. /\ n \in Nat /\ m \in Nat /\ w \in Seq(X) /\ Len(w) = n + m
      /\ \A i \in 1 .. n + m : w[i] = IF i <= n THEN s[i] ELSE u[i - n]
  BY DEF IsList
<1>w. PICK v : v = w
  OBVIOUS
<1> HIDE DEF w, n, m
<1>2. NoTwice(w)
  <2> SUFFICES ASSUME NEW i \in 1 .. n + m, NEW j \in 1 .. n + m, w[i] = w[j] PROVE i = j
    BY <1>1 DEF NoTwice
  <2>1. \A x, y \in 1 .. n + m : x <= n /\ y > n => w[x] # w[y]
    <3> SUFFICES ASSUME NEW x \in 1 .. n + m, NEW y \in 1 .. n + m, x <= n, y > n, w[x] = w[y]
                 PROVE  FALSE
      OBVIOUS
    <3>1. w[x] = s[x] /\ w[y] = u[y - n] /\ x \in 1 .. n /\ y - n \in 1 .. m
      BY <1>1
    <3>2. s[x] \in In(s) /\ u[y - n] \in In(u)
      BY <3>1 DEF In, n, m
    <3> QED
      BY <3>1, <3>2
  <2>2. CASE i <= n /\ j <= n
    <3>1. s[i] = s[j] /\ i \in 1 .. Len(s) /\ j \in 1 .. Len(s)
      BY <1>1, <2>2 DEF n
    <3> QED
      BY <3>1 DEF IsList, NoTwice
  <2>3. CASE i > n /\ j > n
    <3>1. u[i - n] = u[j - n] /\ i - n \in 1 .. Len(u) /\ j - n \in 1 .. Len(u)
      BY <1>1, <2>3 DEF m
    <3>2. i - n = j - n
      BY <3>1 DEF IsList, NoTwice
    <3> QED
      BY <1>1, <3>2
  <2> QED
    BY <1>1, <2>1, <2>2, <2>3
<1>3. In(w) \subseteq In(s) \cup In(u)
  <2> SUFFICES ASSUME NEW i \in 1 .. n + m PROVE w[i] \in In(s) \cup In(u)
    BY <1>1 DEF In
  <2>1. (w[i] = s[i] /\ i \in 1 .. n) \/ (w[i] = u[i - n] /\ i - n \in 1 .. m)
    BY <1>1
  <2> QED
    BY <2>1 DEF In, n, m
<1>4. In(s) \subseteq In(w)
  <2> SUFFICES ASSUME NEW i \in 1 .. n PROVE s[i] \in In(w)
    BY DEF In, n
  <2>1. i \in 1 .. Len(w) /\ w[i] = s[i]
    BY <1>1
  <2> QED
    BY <2>1 DEF In
<1>5. In(u) \subseteq In(w)
  <2> SUFFICES ASSUME NEW i \in 1 .. m PROVE u[i] \in In(w)
    BY DEF In, m
  <2>1. n + i \in 1 .. Len(w) /\ w[n + i] = u[i]
    BY <1>1
  <2> QED
    BY <2>1 DEF In
<1> QED
  BY <1>1, <1>2, <1>3, <1>4, <1>5 DEF IsList, w

\* The buffers of a set one after the other.
LEMMA SetList ==
  ASSUME NEW T, IsFiniteSet(T), NEW X, T \subseteq X
  PROVE  IsList(SetToSeq(T), X) /\ In(SetToSeq(T)) = T
<1> DEFINE n == Cardinality(T)
           w == SetToSeq(T)
<1>1. n \in Nat /\ ExistsBijection(1 .. n, T)
  BY FS_CardinalityType
<1>2. PICK f \in [1 .. n -> T] : /\ \A i, j \in 1 .. n : i # j => f[i] # f[j]
                                 /\ \A b \in T : \E i \in 1 .. n : f[i] = b
  BY <1>1 DEF ExistsBijection, Bijection, Injection, Surjection, IsInjective
<1>3. w \in [1 .. n -> T] /\ \A i, j \in 1 .. n : w[i] = w[j] => i = j
  <2>1. f \in [1 .. n -> T] /\ IsInjective(f)
    BY <1>2 DEF IsInjective
  <2>2. w \in [1 .. n -> T] /\ IsInjective(w)
    BY <2>1, Zenon DEF SetToSeq
  <2> QED
    BY <2>2 DEF IsInjective
<1> HIDE DEF w
<1>4. Len(w) = n /\ w \in Seq(X)
  BY <1>1, <1>3
<1>5. NoTwice(w)
  BY <1>3, <1>4 DEF NoTwice
<1>6. \A b \in T : b \in In(w)
  <2>1. IsFiniteSet(1 .. n) /\ Cardinality(1 .. n) = n
    BY <1>1, FS_Interval
  <2>2. w \in Injection(1 .. n, T)
    BY <1>3 DEF Injection, IsInjective
  <2>3. w \in Surjection(1 .. n, T)
    BY <2>1, <2>2, FS_Injection DEF n
  <2> QED
    BY <1>4, <2>3 DEF Surjection, In
<1>7. In(w) \subseteq T
  BY <1>3, <1>4 DEF In
<1> QED
  BY <1>4, <1>5, <1>6, <1>7 DEF IsList, w

LEMMA FiniteBuf == IsFiniteSet(Buf) /\ \A b \in Buf : NodeOf(b) \in Node /\ b \in BufsOf(NodeOf(b))
<1>1. IsFiniteSet(1 .. BufsPerNode) /\ IsFiniteSet({BufsPerNode + 1})
  <2>1. 1 \in Int /\ BufsPerNode \in Int
    BY QueueAssumption DEF QueueAssumption
  <2>2. IsFiniteSet(1 .. BufsPerNode)
    BY <2>1, FS_Interval
  <2>3. IsFiniteSet({BufsPerNode + 1})
    BY FS_Singleton, Zenon
  <2> QED
    BY <2>2, <2>3
<1>2. IsFiniteSet(Node) /\ IsFiniteSet(DeepNode)
  BY FS_Subset, QueueAssumption DEF QueueAssumption
<1>3. IsFiniteSet(Node \X (1 .. BufsPerNode)) /\ IsFiniteSet(DeepNode \X {BufsPerNode + 1})
  BY <1>1, <1>2, FS_Product
<1> QED
  BY <1>3, FS_Union, QueueAssumption DEF QueueAssumption, Buf, NodeOf, BufsOf
-----------------------------------------------------------------------------
(* Where the buffers are *)

Waiting(b) == b \in active[NodeOf(b)]

BufType ==
  /\ vb \in [Buf -> {"user", "vb2", "driver"}]
  /\ incoming \in [Node -> Seq(Buf)] /\ active \in [Node -> SUBSET Buf]
  /\ bl \in [Thread -> SUBSET Buf]
  /\ fw \in [Node -> Seq(SUBSET Buf)]
  /\ \A q \in Node : IsList(incoming[q], BufsOf(q)) /\ active[q] \subseteq BufsOf(q)

\* A buffer is in one place at most, and only the driver's are in any.
OneBuf(b) ==
  /\ Listed(b) => ~ Waiting(b) /\ ~ Taken(b)
  /\ Waiting(b) => ~ Taken(b)
  /\ Listed(b) \/ Waiting(b) \/ Taken(b) => vb[b] = "driver"
  /\ vb[b] = "driver" /\ ~ MsgMayRunOut => Listed(b) \/ Waiting(b) \/ Taken(b)

\* Only a thread that is about to start a stream works with a list of buffers.
OneTake(t) == bl[t] # {} => pc[t] = "start" /\ ip[ipOf[t]].queues # {}

Bufs == \A b \in Buf : OneBuf(b)
Takes == \A t \in Thread : OneTake(t)
BufInv == BufType /\ Bufs /\ Takes

LEMMA TakenLists ==
  ASSUME BufType, NEW queues \in SUBSET Node, ListReady(queues), TakeList(queues)
  PROVE  /\ incoming' \in [Node -> Seq(Buf)] /\ \A q \in Node : IsList(incoming'[q], BufsOf(q))
         /\ \A b \in Buf : (b \in In(incoming'[NodeOf(b)]) <=> Listed(b) /\ b \notin BufferList(queues))
         /\ \A b \in BufferList(queues) : b \in Buf /\ Listed(b) /\ NodeOf(b) \in queues
<1>1. ASSUME NEW q \in queues
      PROVE  /\ IsList(Tail(incoming[q]), BufsOf(q)) /\ Head(incoming[q]) \in In(incoming[q])
             /\ Head(incoming[q]) \in BufsOf(q)
             /\ In(Tail(incoming[q])) = In(incoming[q]) \ {Head(incoming[q])}
  <2>1. IsList(incoming[q], BufsOf(q)) /\ incoming[q] # << >>
    BY DEF BufType, ListReady
  <2> QED
    BY <2>1, TailList
<1>2. \A q \in Node : incoming'[q] = IF q \in queues THEN Tail(incoming[q]) ELSE incoming[q]
  BY DEF TakeList
<1>3. \A q \in Node : IsList(incoming'[q], BufsOf(q))
  BY <1>1, <1>2 DEF BufType
<1>4. incoming' \in [Node -> Seq(Buf)]
  <2>1. ASSUME NEW q \in Node PROVE incoming'[q] \in Seq(Buf)
    <3>1. PICK s : s = incoming'[q]
      OBVIOUS
    <3>2. s \in Seq(BufsOf(q)) /\ BufsOf(q) \subseteq Buf
      BY <1>3, <3>1 DEF IsList, BufsOf
    <3> QED
      BY <3>1, <3>2
  <2> QED
    BY <2>1 DEF TakeList
<1>5. \A b \in BufferList(queues) : /\ b \in Buf /\ Listed(b) /\ NodeOf(b) \in queues
                                    /\ b = Head(incoming[NodeOf(b)])
  <2> SUFFICES ASSUME NEW q \in queues, NEW b, b = Head(incoming[q])
               PROVE  b \in Buf /\ Listed(b) /\ NodeOf(b) = q
    BY DEF BufferList
  <2> QED
    BY <1>1 DEF BufsOf, Listed
<1>6. ASSUME NEW b \in Buf
      PROVE  (b \in In(incoming'[NodeOf(b)]) <=> Listed(b) /\ b \notin BufferList(queues))
  <2> DEFINE q == NodeOf(b)
  <2>0. q \in Node
    BY FiniteBuf
  <2>1. CASE q \in queues
    <3>1. incoming'[q] = Tail(incoming[q])
      BY <1>2, <2>0, <2>1
    <3>2. In(incoming'[q]) = In(incoming[q]) \ {Head(incoming[q])}
      BY <1>1, <2>1, <3>1
    <3>3. b \in BufferList(queues) <=> b = Head(incoming[q])
      BY <1>5, <2>1 DEF BufferList
    <3> QED
      BY <3>2, <3>3 DEF Listed
  <2>2. CASE q \notin queues
    BY <1>2, <1>5, <2>0, <2>2 DEF Listed
  <2> QED
    BY <2>1, <2>2
<1> QED
  BY <1>3, <1>4, <1>5, <1>6

\* Every list l[q] is followed, or preceded, by buffers of q that are not in it.
LEMMA AddedList ==
  ASSUME NEW q \in Node, NEW s, IsList(s, BufsOf(q)), NEW bs \in SUBSET BufsOf(q), bs \cap In(s) = {}
  PROVE  /\ IsList(Added(s, bs), BufsOf(q)) /\ In(Added(s, bs)) = In(s) \cup bs
         /\ IsList(PutBack(s, bs), BufsOf(q)) /\ In(PutBack(s, bs)) = In(s) \cup bs
<1>1. IsFiniteSet(bs)
  BY FiniteBuf, FS_Subset DEF BufsOf
<1>2. PICK u : u = SetToSeq(bs)
  OBVIOUS
<1>3. IsList(u, BufsOf(q)) /\ In(u) = bs
  BY <1>1, <1>2, SetList
<1>4. /\ IsList(s \o u, BufsOf(q)) /\ In(s \o u) = In(s) \cup In(u)
      /\ IsList(u \o s, BufsOf(q)) /\ In(u \o s) = In(u) \cup In(s)
  BY <1>3, JoinedList
<1> QED
  BY <1>2, <1>3, <1>4 DEF Added, PutBack

LEMMA Enqueued ==
  ASSUME BufType, NEW q \in Node, NEW bs \in SUBSET BufsOf(q), Enqueue(q, bs),
         \A b \in bs : ~ Listed(b)
  PROVE  /\ vb' \in [Buf -> {"user", "vb2", "driver"}]
         /\ incoming' \in [Node -> Seq(Buf)] /\ \A r \in Node : IsList(incoming'[r], BufsOf(r))
         /\ \A b \in Buf : /\ (b \in In(incoming'[NodeOf(b)]) <=> Listed(b) \/ b \in bs)
                           /\ vb'[b] = IF b \in bs THEN "driver" ELSE vb[b]
<1>1. PICK s : s = Added(incoming[q], bs)
  OBVIOUS
<1>2. IsList(s, BufsOf(q)) /\ In(s) = In(incoming[q]) \cup bs
  <2>1. bs \cap In(incoming[q]) = {}
    BY DEF Listed, BufsOf
  <2>2. IsList(incoming[q], BufsOf(q))
    BY DEF BufType
  <2> QED
    BY <1>1, <2>1, <2>2, AddedList
<1>3. incoming' = [incoming EXCEPT ![q] = s]
  BY <1>1 DEF Enqueue
<1>4. \A r \in Node : incoming'[r] = IF r = q THEN s ELSE incoming[r]
  BY <1>3 DEF BufType
<1>5. \A r \in Node : IsList(incoming'[r], BufsOf(r))
  BY <1>2, <1>4 DEF BufType
<1>6. incoming' \in [Node -> Seq(Buf)]
  <2>1. s \in Seq(Buf)
    BY <1>2 DEF IsList, BufsOf
  <2> QED
    BY <1>3, <2>1 DEF BufType
<1>7. /\ vb' \in [Buf -> {"user", "vb2", "driver"}]
      /\ \A b \in Buf : vb'[b] = IF b \in bs THEN "driver" ELSE vb[b]
  BY DEF Enqueue, BufType
<1>8. ASSUME NEW b \in Buf PROVE (b \in In(incoming'[NodeOf(b)]) <=> Listed(b) \/ b \in bs)
  <2>1. NodeOf(b) \in Node
    BY FiniteBuf
  <2>2. CASE NodeOf(b) = q
    BY <1>2, <1>4, <2>1, <2>2 DEF Listed
  <2>3. CASE NodeOf(b) # q
    BY <1>4, <2>1, <2>3 DEF Listed, BufsOf
  <2> QED
    BY <2>2, <2>3
<1> QED
  BY <1>5, <1>6, <1>7, <1>8

LEMMA Returned ==
  ASSUME BufType, NEW q \in Node, ReturnBuffers(q)
  PROVE  /\ incoming' \in [Node -> Seq(Buf)] /\ active' \in [Node -> SUBSET Buf]
         /\ \A r \in Node : IsList(incoming'[r], BufsOf(r)) /\ active'[r] \subseteq BufsOf(r)
         /\ \A b \in Buf : /\ (b \in In(incoming'[NodeOf(b)]) <=> Listed(b) /\ NodeOf(b) # q)
                           /\ (b \in active'[NodeOf(b)] <=> Waiting(b) /\ NodeOf(b) # q)
<1>1. /\ \A r \in Node : incoming'[r] = IF r = q THEN << >> ELSE incoming[r]
      /\ \A r \in Node : active'[r] = IF r = q THEN {} ELSE active[r]
  BY DEF ReturnBuffers, BufType
<1>2. /\ IsList(<< >>, BufsOf(q)) /\ In(<< >>) = {}
  BY EmptyList
<1>3. \A r \in Node : IsList(incoming'[r], BufsOf(r)) /\ active'[r] \subseteq BufsOf(r)
  BY <1>1, <1>2 DEF BufType
<1>4. incoming' \in [Node -> Seq(Buf)] /\ active' \in [Node -> SUBSET Buf]
  BY DEF ReturnBuffers, BufType
<1>5. ASSUME NEW b \in Buf
      PROVE  /\ (b \in In(incoming'[NodeOf(b)]) <=> Listed(b) /\ NodeOf(b) # q)
             /\ (b \in active'[NodeOf(b)] <=> Waiting(b) /\ NodeOf(b) # q)
  <2>1. NodeOf(b) \in Node
    BY FiniteBuf
  <2> QED
    BY <1>1, <1>2, <2>1 DEF Listed, Waiting
<1> QED
  BY <1>3, <1>4, <1>5, Zenon

LEMMA Activated ==
  ASSUME BufType, NEW bs \in SUBSET Buf, Activate(bs)
  PROVE  /\ active' \in [Node -> SUBSET Buf] /\ \A r \in Node : active'[r] \subseteq BufsOf(r)
         /\ \A b \in Buf : (b \in active'[NodeOf(b)] <=> Waiting(b) \/ b \in bs)
<1>1. \A r \in Node : active'[r] = active[r] \cup (bs \cap BufsOf(r))
  BY DEF Activate
<1>2. \A r \in Node : active'[r] \subseteq BufsOf(r) /\ BufsOf(r) \subseteq Buf
  BY <1>1 DEF BufType, BufsOf
<1>3. active' \in [Node -> SUBSET Buf]
  BY <1>2 DEF Activate
<1>4. \A b \in Buf : NodeOf(b) \in Node /\ b \in BufsOf(NodeOf(b))
  BY FiniteBuf
<1> QED
  BY <1>1, <1>2, <1>3, <1>4 DEF Waiting

\* The flush after a start that failed.
Flushing(o, back) ==
  /\ incoming' = [q \in Node |-> Added(PutBack(incoming[q], back \cap BufsOf(q)),
                                       ToIncoming(o) \cap BufsOf(q))]
  /\ active' = [q \in Node |-> active[q] \ Flushed(o)]

LEMMA FlushedBuffers ==
  ASSUME BufType, NEW o, ip[o].queues \in SUBSET Node
  PROVE  /\ Flushed(o) \subseteq Buf /\ ToIncoming(o) \subseteq Flushed(o)
         /\ \A b \in Flushed(o) : Waiting(b)
<1>1. ASSUME NEW q \in ip[o].queues, NEW b \in active[q] PROVE b \in Buf /\ b \in active[NodeOf(b)]
  BY DEF BufType, BufsOf
<1> QED
  BY <1>1 DEF Flushed, ToIncoming, Waiting

LEMMA AfterFlush ==
  ASSUME BufType, NEW o, ip[o].queues \in SUBSET Node, NEW back \in SUBSET Buf, Flushing(o, back),
         \A b \in back : ~ Listed(b) /\ ~ Waiting(b),
         \A b \in Buf : Waiting(b) => ~ Listed(b)
  PROVE  /\ incoming' \in [Node -> Seq(Buf)] /\ active' \in [Node -> SUBSET Buf]
         /\ \A r \in Node : IsList(incoming'[r], BufsOf(r)) /\ active'[r] \subseteq BufsOf(r)
         /\ \A b \in Buf : /\ (b \in In(incoming'[NodeOf(b)]) <=> Listed(b) \/ b \in back \/ b \in ToIncoming(o))
                           /\ (b \in active'[NodeOf(b)] <=> Waiting(b) /\ b \notin Flushed(o))
<1>0. /\ Flushed(o) \subseteq Buf /\ ToIncoming(o) \subseteq Flushed(o)
      /\ \A b \in Flushed(o) : Waiting(b)
  BY FlushedBuffers
<1>1. ASSUME NEW q \in Node
      PROVE  /\ IsList(incoming'[q], BufsOf(q))
             /\ In(incoming'[q]) = In(incoming[q]) \cup (back \cap BufsOf(q)) \cup (ToIncoming(o) \cap BufsOf(q))
  <2>1. PICK bs \in SUBSET BufsOf(q) : bs = back \cap BufsOf(q)
    OBVIOUS
  <2>2. PICK fs \in SUBSET BufsOf(q) : fs = ToIncoming(o) \cap BufsOf(q)
    OBVIOUS
  <2>3. PICK s : s = PutBack(incoming[q], bs)
    OBVIOUS
  <2>4. IsList(incoming[q], BufsOf(q)) /\ bs \cap In(incoming[q]) = {}
    BY <2>1 DEF BufType, Listed, BufsOf
  <2>5. IsList(s, BufsOf(q)) /\ In(s) = In(incoming[q]) \cup bs
    BY <2>3, <2>4, AddedList
  <2>6. fs \cap In(s) = {}
    <3>1. \A b \in fs : ~ Listed(b) /\ b \notin back /\ NodeOf(b) = q
      BY <1>0, <2>2 DEF BufsOf
    <3> QED
      BY <2>1, <2>5, <3>1 DEF Listed
  <2>7. IsList(Added(s, fs), BufsOf(q)) /\ In(Added(s, fs)) = In(s) \cup fs
    BY <2>5, <2>6, AddedList
  <2>8. incoming'[q] = Added(s, fs)
    BY <2>1, <2>2, <2>3, Zenon DEF Flushing
  <2> QED
    BY <2>1, <2>2, <2>5, <2>7, <2>8
<1>2. incoming' \in [Node -> Seq(Buf)]
  <2>1. ASSUME NEW q \in Node PROVE incoming'[q] \in Seq(Buf)
    <3>1. PICK s : s = incoming'[q]
      OBVIOUS
    <3>2. s \in Seq(BufsOf(q)) /\ BufsOf(q) \subseteq Buf
      BY <1>1, <3>1 DEF IsList, BufsOf
    <3> QED
      BY <3>1, <3>2
  <2>2. incoming' = [q \in Node |-> incoming'[q]]
    BY DEF Flushing
  <2> QED
    BY <2>1, <2>2
<1>3. \A q \in Node : active'[q] = active[q] \ Flushed(o)
  BY DEF Flushing
<1>4. active' \in [Node -> SUBSET Buf] /\ \A r \in Node : active'[r] \subseteq BufsOf(r)
  BY <1>3 DEF Flushing, BufType
<1>5. \A b \in Buf : NodeOf(b) \in Node /\ b \in BufsOf(NodeOf(b))
  BY FiniteBuf
<1>6. ASSUME NEW b \in Buf
      PROVE  /\ (b \in In(incoming'[NodeOf(b)]) <=> Listed(b) \/ b \in back \/ b \in ToIncoming(o))
             /\ (b \in active'[NodeOf(b)] <=> Waiting(b) /\ b \notin Flushed(o))
  <2>1. In(incoming'[NodeOf(b)]) = In(incoming[NodeOf(b)]) \cup (back \cap BufsOf(NodeOf(b)))
                                     \cup (ToIncoming(o) \cap BufsOf(NodeOf(b)))
    BY <1>1, <1>5
  <2> QED
    BY <1>3, <1>5, <2>1 DEF Listed, Waiting
<1> QED
  BY <1>1, <1>2, <1>4, <1>6, Zenon
-----------------------------------------------------------------------------
(* A thread that is about to start a stream *)

Undisturbed(t) ==
  /\ pc'[t] = pc[t] /\ ipOf'[t] = ipOf[t]
  /\ ip'[ipOf[t]].queues = ip[ipOf[t]].queues /\ ip'[ipOf[t]].streaming = ip[ipOf[t]].streaming

\* No step of another thread changes the pipeline of one that starts a stream.
LEMMA RunsKept ==
  ASSUME Ctl, Next, NEW t \in Thread, pc[t] \in StartPhase, ~ StreamStart(t)
  PROVE  Undisturbed(t)
<1>0. PICK o \in Node : o = ipOf[t]
  BY DEF Ctl, Runs, OneRun
<1>1. lock[o] = t /\ t # NoThread /\ ip \in [Node -> IpRecord]
  BY <1>0, Threads DEF Ctl, Runs, OneRun, CtlType, IpRecord
<1>2. ASSUME NEW u \in Thread, u # t, NEW s, pc' = [pc EXCEPT ![u] = s] \/ UNCHANGED pc,
             UNCHANGED ipOf \/ \E x : ipOf' = [ipOf EXCEPT ![u] = x],
             ip'[o].queues = ip[o].queues, ip'[o].streaming = ip[o].streaming
      PROVE  Undisturbed(t)
  BY <1>0, <1>2 DEF Undisturbed, Ctl, CtlType
<1>9. \A u \in Thread : pc[u] \notin StartPhase => u # t
  OBVIOUS
<1>3. ASSUME NEW u \in Thread, StreamStart(u) PROVE Undisturbed(t)
  <2>1. u # t
    BY <1>3
  <2>2. UNCHANGED ipOf /\ (UNCHANGED pc \/ \E s : pc' = [pc EXCEPT ![u] = s])
    BY <1>3 DEF StreamStart, StreamStartFails, StreamStarts, StreamNotStarted,
       StreamNotAcknowledged, SensorFails, StreamStarted,
                FillCaptures, FillNoMsg, FillEnds, locals, Goto, StartUnwinds
  <2>3. CASE UNCHANGED ip
    BY <1>2, <2>1, <2>2, <2>3
  <2>4. CASE StreamStarted(u)
    <3>0. PICK p \in Node : p = ipOf[u] /\ lock[p] = u
      BY <2>4 DEF StreamStarted, Ctl, Runs, OneRun, StartPhase
    <3>1. ip'[o] = ip[o]
      BY <1>1, <2>1, <2>4, <3>0 DEF StreamStarted
    <3> QED
      BY <1>2, <2>1, <2>2, <3>1
  <2>5. CASE StartUnwinds(u) /\ pc[u] \in StartPhase /\ ~ UNCHANGED ip
    <3>1. PICK p \in Node : p = ipOf[u] /\ lock[p] = u
      BY <2>5 DEF Ctl, Runs, OneRun
    <3>2. \E q \in Node : ip' = [ip EXCEPT ![p] = Without(@, u[1])]
      BY <2>5, <3>1 DEF StartUnwinds
    <3>3. p # o
      BY <1>1, <2>1, <3>1
    <3>4. ip'[o] = ip[o]
      BY <1>1, <3>2, <3>3
    <3> QED
      BY <1>2, <2>1, <2>2, <3>4
  <2> QED
    BY <1>3, <2>3, <2>4, <2>5 DEF StreamStart, StreamStartFails, StreamStarts, StreamNotStarted,
       StreamNotAcknowledged, SensorFails,
       FillCaptures, FillNoMsg, FillEnds, pipeline, StartPhase
<1>4. ASSUME NEW q \in Node, QBuf(q) \/ StreamOn(q) \/ StreamOff(q) \/ BufReady(q) \/ LateReady(q)
      PROVE  Undisturbed(t)
  <2>1. UNCHANGED << ip, ipOf >>
    BY <1>4 DEF QBuf, StreamOn, StreamOff, BufReady, LateReady, pipeline, locals
  <2>2. S(q) \in Thread /\ B(q) \in Thread
    BY Threads
  <2>3. CASE BufReady(q) \/ LateReady(q)
    BY <1>0, <2>1, <2>3 DEF BufReady, LateReady, Undisturbed
  <2>5. CASE QBuf(q)
    <3>1. /\ UNCHANGED pc \/ \E s : pc' = [pc EXCEPT ![B(q)] = s]
          /\ pc[B(q)] = "idle"
      BY <2>5 DEF QBuf, Goto
    <3> QED
      BY <1>2, <1>9, <2>1, <2>2, <3>1 DEF StartPhase
  <2>4. CASE StreamOn(q) \/ StreamOff(q)
    <3>1. pc[S(q)] = "idle" /\ \E s : pc' = [pc EXCEPT ![S(q)] = s]
      BY <2>4 DEF StreamOn, StreamOff, Goto
    <3> QED
      BY <1>2, <1>9, <2>1, <2>2, <3>1 DEF StartPhase
  <2> QED
    BY <1>4, <2>3, <2>4, <2>5
<1>5. ASSUME NEW q \in Node, QueueStep(q) PROVE Undisturbed(t)
  <2>1. B(q) \in Thread
    BY Threads
  <2>2. CASE QBufRelocks(q) \/ QBufWaits(q) \/ QBufNoMsg(q) \/ QBufStarts(q) \/ QBufCaptures(q)
    <3>1. /\ pc[B(q)] \notin StartPhase /\ UNCHANGED ip /\ \E s : pc' = [pc EXCEPT ![B(q)] = s]
          /\ UNCHANGED ipOf \/ \E x : ipOf' = [ipOf EXCEPT ![B(q)] = x]
      BY <2>2 DEF QBufRelocks, QBufWaits, QBufNoMsg, QBufStarts, QBufCaptures, Goto, pipeline,
         locals, StartPhase
    <3> QED
      BY <1>2, <1>9, <2>1, <3>1
  <2> QED
    BY <1>3, <1>5, <2>1, <2>2 DEF QueueStep
<1>6. ASSUME NEW q \in Node, StreamStep(q) PROVE Undisturbed(t)
  <2>1. S(q) \in Thread
    BY Threads
  <2>2. CASE \/ StartWaits(q) \/ StartFindsPipeline(q) \/ StopWaits(q) \/ StopFindsNone(q)
             \/ StopLocks(q) \/ StopFlushes(q) \/ StopReturns(q)
    <3>1. /\ pc[S(q)] \notin StartPhase /\ UNCHANGED ip /\ \E s : pc' = [pc EXCEPT ![S(q)] = s]
          /\ UNCHANGED ipOf \/ \E x : ipOf' = [ipOf EXCEPT ![S(q)] = x]
      BY <2>2 DEF StartWaits, StartFindsPipeline, StopWaits, StopFindsNone, StopLocks, StopFlushes,
                  StopReturns, Goto, pipeline, locals, StartPhase
    <3> QED
      BY <1>2, <1>9, <2>1, <3>1
  <2>3. CASE StartPrepares(q) \/ StartPrepareFails(q) \/ StartUndone(q)
    <3>1. /\ pc[S(q)] \notin StartPhase /\ \E s : pc' = [pc EXCEPT ![S(q)] = s]
          /\ UNCHANGED ipOf \/ \E x : ipOf' = [ipOf EXCEPT ![S(q)] = x]
      BY <2>3 DEF StartPrepares, StartPrepareFails, StartUndone, StartFails, Goto, locals,
         StartPhase
    <3>2. ip'[o].queues = ip[o].queues /\ ip'[o].streaming = ip[o].streaming
      BY <1>1, <2>3 DEF StartPrepares, StartPrepareFails, StartUndone, IpRecord
    <3> QED
      BY <1>2, <1>9, <2>1, <3>1, <3>2
  <2>4. CASE StartJoins(q)
    <3>1. /\ pc[S(q)] \notin StartPhase /\ \E s : pc' = [pc EXCEPT ![S(q)] = s] /\ UNCHANGED ipOf
      BY <2>4 DEF StartJoins, Goto, locals, StartPhase
    <3>2. ipOf[S(q)] # o
      BY <1>1, <1>9, <2>1, <2>4, <3>1 DEF StartJoins, CanLock
    <3>3. ip'[o] = ip[o]
      BY <1>1, <2>4, <3>2 DEF StartJoins
    <3> QED
      BY <1>2, <1>9, <2>1, <3>1, <3>3
  <2>5. CASE StopFlushed(q) \/ StopLeaves(q)
    <3>1. /\ pc[S(q)] \in {"flush", "offStop"} /\ \E s : pc' = [pc EXCEPT ![S(q)] = s]
          /\ UNCHANGED ipOf /\ LeavePipeline(q, ipOf[S(q)])
      BY <2>5 DEF StopFlushed, StopLeaves, Goto, locals
    <3>2. ipOf[S(q)] # o
      BY <1>1, <1>9, <2>1, <2>5, <3>1 DEF StartPhase, StopFlushed, StopLeaves, CanLock, Ctl,
         Nodes, OneNode
    <3>3. ip'[o] = ip[o]
      BY <1>1, <3>1, <3>2 DEF LeavePipeline
    <3> QED
      BY <1>2, <1>9, <2>1, <3>1, <3>3 DEF StartPhase
  <2> QED
    BY <1>3, <1>6, <2>1, <2>2, <2>3, <2>4, <2>5 DEF StreamStep
<1> QED
  BY <1>4, <1>5, <1>6 DEF Next

LEMMA TakeKept ==
  ASSUME Ctl, Next, BufType, NEW t \in Thread, OneTake(t), bl'[t] \in {{}, bl[t]}
  PROVE  OneTake(t)'
<1> SUFFICES ASSUME bl'[t] # {}, bl'[t] = bl[t]
             PROVE  pc'[t] = "start" /\ ip'[ipOf'[t]].queues # {}
  BY DEF OneTake
<1>1. pc[t] = "start" /\ ip[ipOf[t]].queues # {}
  BY DEF OneTake
<1>2. ~ StreamStart(t)
  BY <1>1 DEF StreamStart, StreamStartFails, StreamStarts, StreamNotStarted,
     StreamNotAcknowledged, SensorFails, StreamStarted,
              FillCaptures, FillNoMsg, FillEnds, BufType
<1> QED
  BY <1>1, <1>2, RunsKept DEF Undisturbed, StartPhase
-----------------------------------------------------------------------------
(* Every step leaves each buffer in one place *)

\* Steps that are not about buffers.
LEMMA OthersBufs ==
  ASSUME Ctl, Next, BufInv, UNCHANGED << vb, incoming, active, bl >>,
         fw' \in [Node -> Seq(SUBSET Buf)]
  PROVE  BufInv'
<1>1. BufType'
  BY DEF BufInv, BufType
<1>2. Bufs'
  BY DEF BufInv, Bufs, OneBuf, Listed, Waiting, Taken
<1>3. Takes'
  BY TakeKept DEF BufInv, Takes
<1> QED
  BY <1>1, <1>2, <1>3 DEF BufInv

LEMMA QBufBufs ==
  ASSUME Ctl, Next, BufInv, NEW q \in Node, NEW bs \in SUBSET BufsOf(q), Enqueue(q, bs),
         \A b \in bs : vb[b] # "driver", UNCHANGED << active, bl, fw >>
  PROVE  BufInv'
<1>1. \A b \in bs : b \in Buf /\ ~ Listed(b) /\ ~ Waiting(b) /\ ~ Taken(b)
  BY DEF BufInv, Bufs, OneBuf, BufsOf
<1>2. /\ vb' \in [Buf -> {"user", "vb2", "driver"}]
      /\ incoming' \in [Node -> Seq(Buf)] /\ \A r \in Node : IsList(incoming'[r], BufsOf(r))
      /\ \A b \in Buf : /\ (b \in In(incoming'[NodeOf(b)]) <=> Listed(b) \/ b \in bs)
                        /\ vb'[b] = IF b \in bs THEN "driver" ELSE vb[b]
  BY <1>1, Enqueued DEF BufInv
<1>3. BufType'
  BY <1>2 DEF BufInv, BufType
<1>4. Bufs'
  <2> SUFFICES ASSUME NEW b \in Buf PROVE OneBuf(b)'
    BY DEF Bufs
  <2>1. /\ Listed(b)' <=> Listed(b) \/ b \in bs
        /\ Waiting(b)' <=> Waiting(b)
        /\ Taken(b)' <=> Taken(b)
    BY <1>2 DEF Listed, Waiting, Taken
  <2> QED
    BY <1>1, <1>2, <2>1 DEF BufInv, Bufs, OneBuf
<1>5. Takes'
  BY TakeKept DEF BufInv, Takes
<1> QED
  BY <1>3, <1>4, <1>5 DEF BufInv

\* The buffers of a list go nowhere: no message was to be had.
LEMMA LostBufs ==
  ASSUME Ctl, Next, BufInv, NEW queues \in SUBSET Node, ListReady(queues), TakeList(queues),
         MsgMayRunOut, UNCHANGED << vb, active, bl, fw >>
  PROVE  BufInv'
<1>1. /\ incoming' \in [Node -> Seq(Buf)] /\ \A r \in Node : IsList(incoming'[r], BufsOf(r))
      /\ \A b \in Buf : (b \in In(incoming'[NodeOf(b)]) <=> Listed(b) /\ b \notin BufferList(queues))
  BY TakenLists DEF BufInv
<1>2. BufType'
  BY <1>1 DEF BufInv, BufType
<1>3. Bufs'
  BY <1>1 DEF BufInv, Bufs, OneBuf, Listed, Waiting, Taken
<1>4. Takes'
  BY TakeKept DEF BufInv, Takes
<1> QED
  BY <1>2, <1>3, <1>4 DEF BufInv

\* They go to the firmware.
LEMMA SentBufs ==
  ASSUME Ctl, Next, BufInv, NEW queues \in SUBSET Node, ListReady(queues), TakeList(queues),
         Activate(BufferList(queues)), UNCHANGED << vb, bl >>, fw' \in [Node -> Seq(SUBSET Buf)]
  PROVE  BufInv'
<1>1. /\ incoming' \in [Node -> Seq(Buf)] /\ \A r \in Node : IsList(incoming'[r], BufsOf(r))
      /\ \A b \in Buf : (b \in In(incoming'[NodeOf(b)]) <=> Listed(b) /\ b \notin BufferList(queues))
      /\ \A b \in BufferList(queues) : b \in Buf /\ Listed(b) /\ NodeOf(b) \in queues
  BY TakenLists DEF BufInv
<1>2. PICK bs \in SUBSET Buf : bs = BufferList(queues)
  BY <1>1
<1>3. /\ active' \in [Node -> SUBSET Buf] /\ \A r \in Node : active'[r] \subseteq BufsOf(r)
      /\ \A b \in Buf : (b \in active'[NodeOf(b)] <=> Waiting(b) \/ b \in bs)
  BY <1>2, Activated DEF BufInv
<1>4. BufType'
  BY <1>1, <1>3 DEF BufInv, BufType
<1>5. Bufs'
  <2> SUFFICES ASSUME NEW b \in Buf PROVE OneBuf(b)'
    BY DEF Bufs
  <2>1. /\ Listed(b)' <=> Listed(b) /\ b \notin bs
        /\ Waiting(b)' <=> Waiting(b) \/ b \in bs
        /\ Taken(b)' <=> Taken(b)
        /\ b \in bs => Listed(b)
        /\ vb'[b] = vb[b]
    BY <1>1, <1>2, <1>3 DEF Listed, Waiting, Taken
  <2> QED
    BY <2>1 DEF BufInv, Bufs, OneBuf
<1>6. Takes'
  BY TakeKept DEF BufInv, Takes
<1> QED
  BY <1>4, <1>5, <1>6 DEF BufInv

\* Thread t takes them to start a stream.
LEMMA TakesBufs ==
  ASSUME Ctl, Next, BufInv, NEW queues \in SUBSET Node, ListReady(queues), TakeList(queues),
         NEW t \in Thread, bl' = [bl EXCEPT ![t] = BufferList(queues)], StreamMutexFree,
         pc'[t] = "start", ipOf'[t] \in Node, ip'[ipOf'[t]].queues = queues,
         UNCHANGED << vb, active, fw >>
  PROVE  BufInv'
<1>1. /\ incoming' \in [Node -> Seq(Buf)] /\ \A r \in Node : IsList(incoming'[r], BufsOf(r))
      /\ \A b \in Buf : (b \in In(incoming'[NodeOf(b)]) <=> Listed(b) /\ b \notin BufferList(queues))
      /\ \A b \in BufferList(queues) : b \in Buf /\ Listed(b) /\ NodeOf(b) \in queues
  BY TakenLists DEF BufInv
<1>2. PICK bs \in SUBSET Buf : bs = BufferList(queues)
  BY <1>1
<1>3. bl' = [bl EXCEPT ![t] = bs] /\ bl \in [Thread -> SUBSET Buf] /\ \A u \in Thread : bl[u] = {}
  BY <1>2 DEF BufInv, BufType, Takes, OneTake, StreamMutexFree
<1>4. BufType'
  BY <1>1, <1>3 DEF BufInv, BufType
<1>5. Bufs'
  <2> SUFFICES ASSUME NEW b \in Buf PROVE OneBuf(b)'
    BY DEF Bufs
  <2>1. Taken(b)' <=> b \in bs
    BY <1>3 DEF Taken
  <2>2. ~ Taken(b)
    BY <1>3 DEF Taken
  <2>3. /\ Listed(b)' <=> Listed(b) /\ b \notin bs
        /\ Waiting(b)' <=> Waiting(b)
        /\ b \in bs => Listed(b)
        /\ vb'[b] = vb[b]
    BY <1>1, <1>2 DEF Listed, Waiting
  <2> QED
    BY <2>1, <2>2, <2>3 DEF BufInv, Bufs, OneBuf
<1>6. Takes'
  <2> SUFFICES ASSUME NEW u \in Thread PROVE OneTake(u)'
    BY DEF Takes
  <2>1. CASE u = t
    <3>1. bs # {} => queues # {}
      BY <1>1, <1>2
    <3> QED
      BY <1>3, <2>1, <3>1 DEF OneTake
  <2>2. CASE u # t
    BY <1>3, <2>2 DEF OneTake
  <2> QED
    BY <2>1, <2>2
<1> QED
  BY <1>4, <1>5, <1>6 DEF BufInv
\* No thread works with a list of buffers while the stream mutex is free, or
\* while a node has no pipeline.
LEMMA NothingTaken ==
  ASSUME Ctl, BufInv, StreamMutexFree \/ \E q \in Node : pipe[q] = NoNode
  PROVE  \A t \in Thread : bl[t] = {}
<1> SUFFICES ASSUME NEW t \in Thread, bl[t] # {} PROVE FALSE
  OBVIOUS
<1>1. pc[t] = "start" /\ ip[ipOf[t]].queues # {}
  BY DEF BufInv, Takes, OneTake
<1>2. PICK o \in Node : o = ipOf[t] /\ ip[o].queues = Node /\ Live(o)
  BY <1>1 DEF Ctl, Runs, OneRun, StartPhase, Live
<1>3. \A q \in Node : pipe[q] = o
  BY <1>2 DEF Ctl, Pipelines, OnePipeline
<1> QED
  BY <1>1, <1>2, <1>3, QueueAssumption DEF StreamMutexFree, QueueAssumption

\* All buffers of node q go back to videobuf2.
LEMMA ReturnedBufs ==
  ASSUME Ctl, Next, BufInv, NEW q \in Node, ReturnBuffers(q), \A t \in Thread : bl[t] = {},
         NEW gone \in SUBSET BufsOf(q), \A b \in BufsOf(q) : vb[b] = "driver" => b \in gone,
         NEW to \in {"user", "vb2"}, vb' = [b \in Buf |-> IF b \in gone THEN to ELSE vb[b]],
         UNCHANGED << bl, fw >>
  PROVE  BufInv'
<1>1. /\ incoming' \in [Node -> Seq(Buf)] /\ active' \in [Node -> SUBSET Buf]
      /\ \A r \in Node : IsList(incoming'[r], BufsOf(r)) /\ active'[r] \subseteq BufsOf(r)
      /\ \A b \in Buf : /\ (b \in In(incoming'[NodeOf(b)]) <=> Listed(b) /\ NodeOf(b) # q)
                        /\ (b \in active'[NodeOf(b)] <=> Waiting(b) /\ NodeOf(b) # q)
  BY Returned DEF BufInv
<1>2. vb' \in [Buf -> {"user", "vb2", "driver"}]
  BY DEF BufInv, BufType
<1>3. BufType'
  BY <1>1, <1>2 DEF BufInv, BufType
<1>4. Bufs'
  <2> SUFFICES ASSUME NEW b \in Buf PROVE OneBuf(b)'
    BY DEF Bufs
  <2>1. /\ Listed(b)' <=> Listed(b) /\ NodeOf(b) # q
        /\ Waiting(b)' <=> Waiting(b) /\ NodeOf(b) # q
        /\ ~ Taken(b)' /\ ~ Taken(b)
    BY <1>1 DEF Listed, Waiting, Taken
  <2>2. /\ NodeOf(b) = q => vb'[b] # "driver"
        /\ NodeOf(b) # q => vb'[b] = vb[b]
    BY DEF BufsOf
  <2> QED
    BY <2>1, <2>2 DEF BufInv, Bufs, OneBuf
<1>5. Takes'
  BY DEF Takes, OneTake
<1> QED
  BY <1>3, <1>4, <1>5 DEF BufInv

LEMMA ReturnsBufs ==
  ASSUME Ctl, Next, BufInv, NEW q \in Node,
         StartPrepareFails(q) \/ StartUndone(q) \/ StopFindsNone(q) \/ StopReturns(q)
  PROVE  BufInv'
<1>1. CASE StartPrepareFails(q) \/ StartUndone(q)
  <2>1. /\ StreamMutexFree /\ ReturnBuffers(q) /\ UNCHANGED << bl, fw >>
        /\ vb' = [b \in Buf |-> IF b \in {c \in BufsOf(q) : vb[c] = "driver"} THEN "vb2" ELSE vb[b]]
    BY <1>1 DEF StartPrepareFails, StartUndone, StartFails, BuffersDone
  <2>2. PICK gone \in SUBSET BufsOf(q) : gone = {c \in BufsOf(q) : vb[c] = "driver"}
    OBVIOUS
  <2>3. \A t \in Thread : bl[t] = {}
    BY <2>1, NothingTaken
  <2>4. vb' = [b \in Buf |-> IF b \in gone THEN "vb2" ELSE vb[b]]
    BY <2>1, <2>2
  <2> QED
    BY <2>1, <2>2, <2>3, <2>4, ReturnedBufs
<1>2. CASE StopFindsNone(q) \/ StopReturns(q)
  <2>1. /\ ReturnBuffers(q) /\ UNCHANGED << bl, fw >>
        /\ vb' = [b \in Buf |-> IF b \in BufsOf(q) THEN "user" ELSE vb[b]]
    BY <1>2 DEF StopFindsNone, StopReturns, Cancel, BuffersDone
  <2>2. pipe[q] = NoNode
    BY <1>2 DEF StopFindsNone, StopReturns, Ctl, Nodes, OneNode
  <2>3. \A t \in Thread : bl[t] = {}
    BY <2>2, NothingTaken
  <2> QED
    BY <2>1, <2>3, ReturnedBufs
<1> QED
  BY <1>1, <1>2

\* A start fails, and the buffers of thread t and of the active lists go back.
LEMMA FlushedBufs ==
  ASSUME Ctl, Next, BufInv, NEW t \in Thread, ip[ipOf[t]].queues \in SUBSET Node,
         Flushing(ipOf[t], bl[t]), bl' = [bl EXCEPT ![t] = {}], \A u \in Thread : bl[u] # {} => u = t,
         vb' = [b \in Buf |-> IF b \in Flushed(ipOf[t]) \ ToIncoming(ipOf[t]) THEN "vb2" ELSE vb[b]],
         fw' \in [Node -> Seq(SUBSET Buf)]
  PROVE  BufInv'
<1>0. PICK o : o = ipOf[t]
  OBVIOUS
<1>1. PICK back \in SUBSET Buf : back = bl[t]
  BY DEF BufInv, BufType
<1>2. /\ \A b \in Buf : Taken(b) <=> b \in back
      /\ \A b \in back : ~ Listed(b) /\ ~ Waiting(b)
      /\ \A b \in Buf : Waiting(b) => ~ Listed(b)
  <2>1. \A b \in Buf : Taken(b) <=> b \in back
    BY <1>1 DEF Taken
  <2> QED
    BY <2>1 DEF BufInv, Bufs, OneBuf
<1>3. /\ incoming' \in [Node -> Seq(Buf)] /\ active' \in [Node -> SUBSET Buf]
      /\ \A r \in Node : IsList(incoming'[r], BufsOf(r)) /\ active'[r] \subseteq BufsOf(r)
      /\ \A b \in Buf : /\ (b \in In(incoming'[NodeOf(b)]) <=> Listed(b) \/ b \in back \/ b \in ToIncoming(o))
                        /\ (b \in active'[NodeOf(b)] <=> Waiting(b) /\ b \notin Flushed(o))
  <2>1. Flushing(o, back) /\ ip[o].queues \in SUBSET Node /\ BufType
    BY <1>0, <1>1 DEF BufInv
  <2> QED
    BY <1>2, <2>1, AfterFlush
<1>4. /\ ToIncoming(o) \subseteq Flushed(o) /\ \A b \in Flushed(o) : Waiting(b)
  BY <1>0, FlushedBuffers DEF BufInv
<1>5. BufType'
  <2>1. vb' \in [Buf -> {"user", "vb2", "driver"}] /\ bl' \in [Thread -> SUBSET Buf]
    BY DEF BufInv, BufType
  <2> QED
    BY <1>3, <2>1 DEF BufType
<1>6. Bufs'
  <2> SUFFICES ASSUME NEW b \in Buf PROVE OneBuf(b)'
    BY DEF Bufs
  <2>1. /\ Listed(b)' <=> Listed(b) \/ b \in back \/ b \in ToIncoming(o)
        /\ Waiting(b)' <=> Waiting(b) /\ b \notin Flushed(o)
        /\ Taken(b) <=> b \in back
        /\ b \in ToIncoming(o) => b \in Flushed(o)
        /\ b \in Flushed(o) => Waiting(b)
    BY <1>2, <1>3, <1>4 DEF Listed, Waiting
  <2>2. ~ Taken(b)'
    BY DEF Taken, BufInv, BufType
  <2>3. vb'[b] = IF b \in Flushed(o) /\ b \notin ToIncoming(o) THEN "vb2" ELSE vb[b]
    BY <1>0
  <2> QED
    BY <2>1, <2>2, <2>3 DEF BufInv, Bufs, OneBuf
<1>7. Takes'
  BY DEF Takes, OneTake, BufInv, BufType
<1> QED
  BY <1>5, <1>6, <1>7 DEF BufInv

LEMMA PutBackNothing == ASSUME NEW X, NEW s, IsList(s, X) PROVE PutBack(s, {}) = s
<1>1. PICK u : u = SetToSeq({})
  OBVIOUS
<1>2. IsList(u, X) /\ In(u) = {}
  BY <1>1, SetList, FS_EmptySet
<1>3. u = << >>
  <2>1. u \in Seq(X) /\ Len(u) \in Nat /\ (1 \in 1 .. Len(u) => u[1] \in In(u))
    BY <1>2 DEF IsList, In
  <2>2. Len(u) = 0
    BY <1>2, <2>1
  <2> QED
    BY <2>1, <2>2
<1> QED
  BY <1>1, <1>3 DEF PutBack, IsList

\* Whether the firmware answers or not, its frames are finished, taken away or stray.
LEMMA Empties ==
  ASSUME BufType, NEW o \in Node, Flush(o) \/ Close(o) PROVE fw' = [fw EXCEPT ![o] = << >>]
BY DEF Flush, Close, Keeps, BufType

LEMMA GivesUp ==
  ASSUME Ctl, BufType, NEW t \in Thread, GivenUp(t)
  PROVE  StreamNotStarted(t) /\ ipOf[t] \in Node /\ fw' = [fw EXCEPT ![ipOf[t]] = << >>]
<1>1. StreamNotStarted(t) /\ (Flush(ipOf[t]) \/ Close(ipOf[t]))
  BY DEF GivenUp, StreamNotAcknowledged, SensorFails
<1>2. ipOf[t] \in Node
  BY <1>1 DEF StreamNotStarted, Ctl, Runs, OneRun, StartPhase
<1> QED
  BY <1>1, <1>2, Empties

LEMMA StartFailsBufs ==
  ASSUME "buf" \notin FailingStarts, Ctl, Next, BufInv, NEW t \in Thread,
         StreamStartFails(t) \/ GivenUp(t)
  PROVE  BufInv'
<1>0. PICK q \in Node : t = S(q) /\ t # B(t[1])
  BY Threads DEF StreamStartFails, StreamNotStarted, GivenUp, StreamNotAcknowledged, SensorFails
<1>1. PICK o \in Node : o = ipOf[t] /\ ip[o].queues \in SUBSET Node
  BY DEF Ctl, CtlType, Runs, OneRun, StartPhase, StreamStartFails, StreamNotStarted, GivenUp,
     StreamNotAcknowledged, SensorFails
<1>2. \A u \in Thread : bl[u] # {} => u = t
  BY DEF BufInv, Takes, OneTake, Ctl, OneMutex, FwPhase, StreamStartFails, StreamNotStarted,
     GivenUp, StreamNotAcknowledged, SensorFails
<1>3. CASE StreamStartFails(t)
  <2>1. /\ Flushing(o, bl[t]) /\ bl' = [bl EXCEPT ![t] = {}] /\ UNCHANGED fw
    BY <1>1, <1>3 DEF StreamStartFails, Flushing
  <2>2. vb' = [b \in Buf |-> IF b \in {} THEN "user"
                             ELSE IF b \in Flushed(o) \ ToIncoming(o) THEN "vb2" ELSE vb[b]]
    BY <1>0, <1>1, <1>3 DEF StreamStartFails
  <2>3. vb' = [b \in Buf |-> IF b \in Flushed(o) \ ToIncoming(o) THEN "vb2" ELSE vb[b]]
    BY <2>2
  <2>4. fw' \in [Node -> Seq(SUBSET Buf)]
    BY <2>1 DEF BufInv, BufType
  <2> QED
    BY <1>1, <1>2, <2>1, <2>3, <2>4, FlushedBufs
<1>4. CASE GivenUp(t)
  <2>0. StreamNotStarted(t) /\ fw' = [fw EXCEPT ![o] = << >>]
    BY <1>1, <1>4, GivesUp DEF BufInv, StreamNotStarted
  <2>1. bl[t] = {}
    BY <2>0 DEF StreamNotStarted, BufInv, Takes, OneTake
  <2>2. /\ active' = [r \in Node |-> active[r] \ Flushed(o)]
        /\ incoming' = [r \in Node |-> Added(incoming[r], ToIncoming(o) \cap BufsOf(r))]
        /\ vb' = [b \in Buf |-> IF b \in Flushed(o) \ ToIncoming(o) THEN "vb2" ELSE vb[b]]
        /\ bl' = bl /\ fw' = [fw EXCEPT ![o] = << >>]
    BY <1>1, <2>0 DEF StreamNotStarted, BuffersDone
  <2>3. \A r \in Node : incoming[r] = PutBack(incoming[r], bl[t] \cap BufsOf(r))
    <3> SUFFICES ASSUME NEW r \in Node PROVE incoming[r] = PutBack(incoming[r], bl[t] \cap BufsOf(r))
      OBVIOUS
    <3>1. IsList(incoming[r], BufsOf(r))
      BY DEF BufInv, BufType
    <3>2. bl[t] \cap BufsOf(r) = {}
      BY <2>1
    <3> QED
      BY <3>1, <3>2, PutBackNothing
  <2>4. incoming' = [r \in Node |-> Added(PutBack(incoming[r], bl[t] \cap BufsOf(r)),
                                          ToIncoming(o) \cap BufsOf(r))]
    BY <2>2, <2>3
  <2>5. Flushing(o, bl[t])
    BY <2>2, <2>4 DEF Flushing
  <2>6. bl' = [bl EXCEPT ![t] = {}]
    BY <2>1, <2>2 DEF BufInv, BufType
  <2>7. fw' \in [Node -> Seq(SUBSET Buf)]
    BY <2>2 DEF BufInv, BufType
  <2> QED
    BY <1>1, <1>2, <2>2, <2>5, <2>6, <2>7, FlushedBufs
<1> QED
  BY <1>3, <1>4
LEMMA Lengthened ==
  ASSUME NEW X, NEW s \in Seq(X), NEW x \in X
  PROVE  Append(s, x) \in Seq(X) /\ << x >> \o s \in Seq(X)
OBVIOUS

LEMMA StreamStartsBufs ==
  ASSUME Ctl, Next, BufInv, NEW t \in Thread, StreamStarts(t) PROVE BufInv'
<1>1. PICK bs \in SUBSET Buf : bs = bl[t]
  BY DEF BufInv, BufType
<1>2. /\ Activate(bs) /\ bl' = [bl EXCEPT ![t] = {}] /\ UNCHANGED << vb, incoming >>
      /\ Send(ipOf[t], bs)
  BY <1>1 DEF StreamStarts
<1>3. /\ active' \in [Node -> SUBSET Buf] /\ \A r \in Node : active'[r] \subseteq BufsOf(r)
      /\ \A b \in Buf : (b \in active'[NodeOf(b)] <=> Waiting(b) \/ b \in bs)
  BY <1>2, Activated DEF BufInv
<1>4. \A u \in Thread : bl[u] # {} => u = t
  BY DEF BufInv, Takes, OneTake, Ctl, OneMutex, FwPhase, StreamStarts
<1>5. BufType'
  <2>1. fw' \in [Node -> Seq(SUBSET Buf)]
    <3>1. PICK o \in Node : o = ipOf[t]
      BY DEF Ctl, Runs, OneRun, StartPhase, StreamStarts
    <3>0. fw[o] \in Seq(SUBSET Buf) /\ bs \in SUBSET Buf
      BY <3>1 DEF BufInv, BufType
    <3>2. PICK s \in Seq(SUBSET Buf) : s = Append(fw[o], bs)
      BY <3>0, Lengthened
    <3>3. fw' = [fw EXCEPT ![o] = s]
      BY <1>2, <3>1, <3>2 DEF Send
    <3> QED
      BY <3>2, <3>3 DEF BufInv, BufType
  <2> QED
    BY <1>2, <1>3, <2>1 DEF BufInv, BufType
<1>6. Bufs'
  <2> SUFFICES ASSUME NEW b \in Buf PROVE OneBuf(b)'
    BY DEF Bufs
  <2>1. Taken(b) <=> b \in bs
    BY <1>1, <1>4 DEF Taken
  <2>2. ~ Taken(b)'
    BY <1>2, <1>4 DEF Taken, BufInv, BufType
  <2>3. /\ Listed(b)' <=> Listed(b)
        /\ Waiting(b)' <=> Waiting(b) \/ b \in bs
        /\ vb'[b] = vb[b]
    BY <1>2, <1>3 DEF Listed, Waiting
  <2> QED
    BY <2>1, <2>2, <2>3 DEF BufInv, Bufs, OneBuf
<1>7. Takes'
  BY <1>2, <1>4 DEF Takes, OneTake, BufInv, BufType
<1> QED
  BY <1>5, <1>6, <1>7 DEF BufInv

LEMMA BufReadyBufs ==
  ASSUME Ctl, Next, BufInv, NEW o \in Node, BufReady(o) PROVE BufInv'
<1>1. /\ fw[o] # << >> /\ fw[o] \in Seq(SUBSET Buf) /\ UNCHANGED << incoming, bl >>
  BY DEF BufReady, BufInv, BufType
<1>2. PICK b \in Head(fw[o]) :
        /\ LET rest == Head(fw[o]) \ {b} IN
             fw' = [fw EXCEPT ![o] = IF rest = {} THEN Tail(@) ELSE << rest >> \o Tail(@)]
        /\ IF b \in active[NodeOf(b)]
           THEN /\ active' = [active EXCEPT ![NodeOf(b)] = @ \ {b}]
                /\ BuffersDone({b}, "user")
           ELSE UNCHANGED << active, vb, older >>
  BY DEF BufReady
<1>3. b \in Buf /\ Head(fw[o]) \in SUBSET Buf
  BY <1>1
<1>4. fw' \in [Node -> Seq(SUBSET Buf)]
  <2>1. PICK rest \in SUBSET Buf : rest = Head(fw[o]) \ {b}
    BY <1>3
  <2>2. PICK s : s = IF rest = {} THEN Tail(fw[o]) ELSE << rest >> \o Tail(fw[o])
    OBVIOUS
  <2>3. Tail(fw[o]) \in Seq(SUBSET Buf) /\ << rest >> \o Tail(fw[o]) \in Seq(SUBSET Buf)
    <3>1. Tail(fw[o]) \in Seq(SUBSET Buf)
      BY <1>1
    <3> QED
      BY <2>1, <3>1, Lengthened
  <2>4. s \in Seq(SUBSET Buf)
    BY <2>2, <2>3
  <2>5. fw' = [fw EXCEPT ![o] = s]
    BY <1>2, <2>1, <2>2
  <2> QED
    BY <2>4, <2>5 DEF BufInv, BufType
<1>5. CASE ~ Waiting(b)
  BY <1>1, <1>2, <1>4, <1>5, OthersBufs DEF Waiting
<1>6. CASE Waiting(b)
  <2>1. /\ active' = [active EXCEPT ![NodeOf(b)] = @ \ {b}] /\ NodeOf(b) \in Node
        /\ vb' = [c \in Buf |-> IF c \in {b} THEN "user" ELSE vb[c]]
    BY <1>2, <1>3, <1>6, FiniteBuf DEF Waiting, BuffersDone
  <2>2. BufType'
    BY <1>1, <1>4, <2>1 DEF BufInv, BufType
  <2>3. Bufs'
    <3> SUFFICES ASSUME NEW c \in Buf PROVE OneBuf(c)'
      BY DEF Bufs
    <3>1. /\ Listed(c)' <=> Listed(c)
          /\ Taken(c)' <=> Taken(c)
      BY <1>1 DEF Listed, Taken
    <3>2. NodeOf(c) \in Node
      BY FiniteBuf
    <3>3. Waiting(c)' <=> Waiting(c) /\ c # b
      BY <2>1, <3>2 DEF Waiting, BufInv, BufType
    <3>4. vb'[c] = IF c = b THEN "user" ELSE vb[c]
      BY <2>1
    <3> QED
      BY <1>6, <3>1, <3>3, <3>4 DEF BufInv, Bufs, OneBuf
  <2>4. Takes'
    BY <1>1, TakeKept DEF BufInv, Takes
  <2> QED
    BY <2>2, <2>3, <2>4 DEF BufInv
<1> QED
  BY <1>5, <1>6

LEMMA FrameSent ==
  ASSUME BufType, NEW o \in Node, NEW bs \in SUBSET Buf, Send(o, bs) \/ UNCHANGED fw
  PROVE  fw' \in [Node -> Seq(SUBSET Buf)]
<1>1. CASE Send(o, bs)
  <2>0. fw[o] \in Seq(SUBSET Buf) /\ bs \in SUBSET Buf
    BY DEF BufType
  <2>1. PICK s \in Seq(SUBSET Buf) : s = Append(fw[o], bs)
    BY <2>0, Lengthened
  <2>2. fw' = [fw EXCEPT ![o] = s]
    BY <1>1, <2>1 DEF Send
  <2> QED
    BY <2>1, <2>2 DEF BufType
<1> QED
  BY <1>1 DEF BufType

\* The queues of a pipeline that is submitted to.
LEMMA Submitted ==
  ASSUME Ctl, NEW q \in Node, pc[B(q)] = "submit"
  PROVE  ipOf[B(q)] \in Node /\ ip[ipOf[B(q)]].queues \in SUBSET Node
<1>1. PICK o \in Node : o = ipOf[B(q)]
  BY DEF Ctl, CtlType
<1> QED
  BY <1>1 DEF Ctl, CtlType

LEMMA CapturesBufs ==
  ASSUME Ctl, Next, BufInv,
         \/ \E q \in Node : QBufNoMsg(q) \/ QBufCaptures(q)
         \/ \E t \in Thread : FillNoMsg(t) \/ FillCaptures(t)
  PROVE  BufInv'
<1>1. ASSUME NEW o \in Node, NEW queues, queues = ip[o].queues, queues \in SUBSET Node,
             ListReady(queues), TakeList(queues), Activate(BufferList(queues)),
             Send(o, BufferList(queues)) \/ UNCHANGED fw, UNCHANGED << vb, bl >>
      PROVE  BufInv'
  <2>1. \A b \in BufferList(queues) : b \in Buf
    BY <1>1, TakenLists DEF BufInv
  <2>2. fw' \in [Node -> Seq(SUBSET Buf)]
    BY <1>1, <2>1, FrameSent DEF BufInv
  <2> QED
    BY <1>1, <2>2, SentBufs
<1>2. ASSUME NEW q \in Node, QBufNoMsg(q) \/ QBufCaptures(q) PROVE BufInv'
  <2>1. PICK o \in Node : o = ipOf[B(q)] /\ ip[o].queues \in SUBSET Node
    BY <1>2, Submitted DEF QBufNoMsg, QBufCaptures
  <2>2. ListReady(ip[o].queues) /\ TakeList(ip[o].queues)
    BY <1>2, <2>1 DEF QBufNoMsg, QBufCaptures, SubmitReady
  <2>3. CASE QBufNoMsg(q)
    BY <2>1, <2>2, <2>3, LostBufs DEF QBufNoMsg, MsgRunsOut
  <2>4. CASE QBufCaptures(q)
    BY <1>1, <2>1, <2>2, <2>4 DEF QBufCaptures
  <2> QED
    BY <1>2, <2>3, <2>4
<1>3. ASSUME NEW t \in Thread, FillNoMsg(t) \/ FillCaptures(t) PROVE BufInv'
  <2>1. PICK o \in Node : o = ipOf[t] /\ ip[o].queues \in SUBSET Node
    BY <1>3 DEF FillNoMsg, FillCaptures, Ctl, CtlType, Runs, OneRun, StartPhase
  <2>2. ListReady(ip[o].queues) /\ TakeList(ip[o].queues)
    BY <1>3, <2>1 DEF FillNoMsg, FillCaptures
  <2>3. CASE FillNoMsg(t)
    BY <2>1, <2>2, <2>3, LostBufs DEF FillNoMsg, MsgRunsOut
  <2>4. CASE FillCaptures(t)
    BY <1>1, <2>1, <2>2, <2>4 DEF FillCaptures
  <2> QED
    BY <1>3, <2>3, <2>4
<1> QED
  BY <1>2, <1>3

LEMMA BeginsBufs ==
  ASSUME Ctl, Next, BufInv, NEW q \in Node, QBufStarts(q) \/ StartJoins(q)
  PROVE  BufInv'
<1>1. CASE QBufStarts(q)
  <2>1. PICK o \in Node : o = ipOf[B(q)] /\ ip[o].queues \in SUBSET Node
    BY <1>1, Submitted DEF QBufStarts
  <2>2. /\ ListReady(ip[o].queues) /\ TakeList(ip[o].queues) /\ StreamMutexFree
        /\ bl' = [bl EXCEPT ![B(q)] = BufferList(ip[o].queues)]
        /\ ipOf' = ipOf /\ ip' = ip /\ UNCHANGED << vb, active, fw >>
        /\ pc' = [pc EXCEPT ![B(q)] = "start"]
    BY <1>1, <2>1 DEF QBufStarts, SubmitReady, pipeline, locals, Goto
  <2>3. B(q) \in Thread /\ pc'[B(q)] = "start"
    BY <2>2, Threads DEF Ctl, CtlType
  <2> QED
    BY <2>1, <2>2, <2>3, TakesBufs
<1>2. CASE StartJoins(q)
  <2>0. S(q) \in Thread
    BY Threads
  <2>1. PICK o \in Node : o = ipOf[S(q)]
    BY <1>2 DEF StartJoins, Ctl, Nodes, OneNode
  <2>2. PICK queues \in SUBSET Node : queues = ip[o].queues \cup {q}
    BY DEF Ctl, CtlType
  <2>3. /\ ip' = [ip EXCEPT ![o].nrStreaming = @ + 1, ![o].queues = queues]
        /\ UNCHANGED << vb, active, fw, ipOf >>
    BY <1>2, <2>1, <2>2 DEF StartJoins, locals
  <2>4. \/ UNCHANGED << incoming, bl >>
        \/ /\ ListReady(queues) /\ TakeList(queues) /\ StreamMutexFree
           /\ bl' = [bl EXCEPT ![S(q)] = BufferList(queues)]
           /\ pc' = [pc EXCEPT ![S(q)] = "start"]
    BY <1>2, <2>1, <2>2 DEF StartJoins, Goto
  <2>5. CASE UNCHANGED << incoming, bl >>
    BY <2>3, <2>5, OthersBufs DEF BufInv, BufType
  <2>6. CASE /\ ListReady(queues) /\ TakeList(queues) /\ StreamMutexFree
             /\ bl' = [bl EXCEPT ![S(q)] = BufferList(queues)]
             /\ pc' = [pc EXCEPT ![S(q)] = "start"]
    <3>1. pc'[S(q)] = "start" /\ ipOf'[S(q)] = o
      BY <2>0, <2>1, <2>3, <2>6 DEF Ctl, CtlType
    <3>2. ip'[o].queues = queues
      <4>1. ip \in [Node -> IpRecord]
        BY DEF Ctl, CtlType, IpRecord
      <4> QED
        BY <2>3, <4>1 DEF IpRecord
    <3> QED
      BY <2>0, <2>3, <2>6, <3>1, <3>2, TakesBufs
  <2> QED
    BY <2>4, <2>5, <2>6
<1> QED
  BY <1>1, <1>2

\* No step of any ioctl, error path or frame gives a buffer two owners: what
\* leaves one of the lists incoming, active and bl is on one other, or returned
\* to videobuf2.
THEOREM BufInvStep ==
  ASSUME StartsTogether, "buf" \notin FailingStarts, Ctl, BufInv, [Next]_vars
  PROVE  BufInv'
<1>1. CASE UNCHANGED vars
  <2>1. UNCHANGED << buffers, pipeline, locals, pc >>
    BY <1>1 DEF vars
  <2>2. BufType'
    BY <2>1 DEF buffers, BufInv, BufType
  <2>3. Bufs'
    BY <2>1 DEF buffers, BufInv, Bufs, OneBuf, Listed, Waiting, Taken
  <2>4. Takes'
    BY <2>1 DEF buffers, pipeline, locals, BufInv, Takes, OneTake
  <2> QED
    BY <2>2, <2>3, <2>4 DEF BufInv
<1> SUFFICES ASSUME Next PROVE BufInv'
  BY <1>1
<1>t. \A q \in Node : S(q) \in Thread /\ B(q) \in Thread
  BY Threads
<1>2. ASSUME NEW q \in Node, QBuf(q) PROVE BufInv'
  <2>1. PICK b \in BufsOf(q) :
          /\ vb[b] = "user"
          /\ \/ vb' = [vb EXCEPT ![b] = "vb2"] /\ UNCHANGED incoming
             \/ Enqueue(q, {b})
    BY <1>2 DEF QBuf
  <2>2. UNCHANGED << active, bl, fw >>
    BY <1>2 DEF QBuf
  <2>3. CASE Enqueue(q, {b})
    <3>1. \A c \in {b} : vb[c] # "driver"
      BY <2>1
    <3>2. {b} \in SUBSET BufsOf(q)
      OBVIOUS
    <3> QED
      BY <2>2, <2>3, <3>1, <3>2, QBufBufs
  <2>4. CASE vb' = [vb EXCEPT ![b] = "vb2"] /\ UNCHANGED incoming
    <3>1. BufType'
      BY <2>2, <2>4 DEF BufInv, BufType
    <3>2. Bufs'
      <4> SUFFICES ASSUME NEW c \in Buf PROVE OneBuf(c)'
        BY DEF Bufs
      <4>1. /\ Listed(c)' <=> Listed(c)
            /\ Waiting(c)' <=> Waiting(c)
            /\ Taken(c)' <=> Taken(c)
        BY <2>2, <2>4 DEF Listed, Waiting, Taken
      <4>2. /\ c = b => vb[c] # "driver" /\ vb'[c] # "driver"
            /\ c # b => vb'[c] = vb[c]
        BY <2>1, <2>4 DEF BufInv, BufType
      <4> QED
        BY <4>1, <4>2 DEF BufInv, Bufs, OneBuf
    <3>3. Takes'
      BY <2>2, TakeKept DEF BufInv, Takes
    <3> QED
      BY <3>1, <3>2, <3>3 DEF BufInv
  <2> QED
    BY <2>1, <2>3, <2>4
<1>3. ASSUME NEW q \in Node, StreamOn(q) PROVE BufInv'
  <2>1. PICK bs \in SUBSET BufsOf(q) : bs = {b \in BufsOf(q) : vb[b] = "vb2"}
    OBVIOUS
  <2>2. Enqueue(q, bs) /\ UNCHANGED << active, bl, fw >> /\ \A b \in bs : vb[b] # "driver"
    BY <1>3, <2>1 DEF StreamOn
  <2> QED
    BY <2>2, QBufBufs
<1>4. ASSUME NEW q \in Node, StreamOff(q) PROVE BufInv'
  BY <1>4, OthersBufs DEF StreamOff, buffers, BufInv, BufType
<1>5. ASSUME NEW t \in Thread, StreamStart(t) PROVE BufInv'
  <2>1. CASE StreamStarted(t) \/ FillEnds(t)
    BY <2>1, OthersBufs DEF StreamStarted, FillEnds, buffers, BufInv, BufType
  <2> QED
    BY <1>5, <2>1, StartFailsBufs, StreamStartsBufs, CapturesBufs DEF StreamStart, GivenUp
<1>6. ASSUME NEW q \in Node, QueueStep(q) PROVE BufInv'
  <2>1. CASE QBufRelocks(q) \/ QBufWaits(q)
    BY <2>1, OthersBufs DEF QBufRelocks, QBufWaits, buffers, BufInv, BufType
  <2> QED
    BY <1>5, <1>6, <1>t, <2>1, CapturesBufs, BeginsBufs DEF QueueStep
<1>7. ASSUME NEW q \in Node, StreamStep(q) PROVE BufInv'
  <2>1. CASE \/ StartWaits(q) \/ StartPrepares(q) \/ StartFindsPipeline(q) \/ StopWaits(q)
             \/ StopLocks(q) \/ StopFlushes(q) \/ StopLeaves(q)
    <3>1. UNCHANGED << vb, incoming, active, bl, fw >>
      BY <2>1 DEF StartWaits, StartPrepares, StartFindsPipeline, StopWaits, StopLocks, StopFlushes,
                  StopLeaves, buffers
    <3> QED
      BY <3>1, OthersBufs DEF BufInv, BufType
  <2>2. CASE StopFlushed(q)
    <3>1. PICK o \in Node : fw' = [fw EXCEPT ![o] = << >>]
      BY <2>2, Empties, QueueAssumption DEF StopFlushed, Ctl, Nodes, OneNode, QueueAssumption,
         BufInv
    <3>2. fw' \in [Node -> Seq(SUBSET Buf)]
      BY <3>1 DEF BufInv, BufType
    <3> QED
      BY <2>2, <3>2, OthersBufs DEF StopFlushed
  <2>3. CASE StartPrepareFails(q) \/ StartUndone(q) \/ StopFindsNone(q) \/ StopReturns(q)
    BY <2>3, ReturnsBufs
  <2>4. CASE StartJoins(q)
    BY <2>4, BeginsBufs
  <2> QED
    BY <1>5, <1>7, <1>t, <2>1, <2>2, <2>3, <2>4 DEF StreamStep
<1>8. ASSUME NEW o \in Node, BufReady(o) PROVE BufInv'
  BY <1>8, BufReadyBufs
<1>9. ASSUME NEW o \in Node, LateReady(o) PROVE BufInv'
  BY <1>9, OthersBufs DEF LateReady, BufInv, BufType
<1> QED
  BY <1>2, <1>3, <1>4, <1>6, <1>7, <1>8, <1>9 DEF Next

\* Before the first QBUF all buffers are with the application.
THEOREM BufInvInit == Init => BufInv
<1> SUFFICES ASSUME Init PROVE BufInv
  OBVIOUS
<1>1. /\ \A q \in Node : incoming[q] = << >> /\ active[q] = {} /\ IsList(incoming[q], BufsOf(q))
      /\ \A q \in Node : In(incoming[q]) = {}
      /\ \A t \in Thread : bl[t] = {}
      /\ \A b \in Buf : vb[b] = "user"
  BY EmptyList DEF Init
<1>2. BufType
  BY <1>1 DEF Init, BufType
<1>3. Bufs
  BY <1>1, FiniteBuf DEF Bufs, OneBuf, Listed, Waiting, Taken
<1>4. Takes
  BY <1>1 DEF Takes, OneTake
<1> QED
  BY <1>2, <1>3, <1>4 DEF BufInv

LEMMA PlacesOf ==
  ASSUME Ctl, BufInv, NEW b \in Buf
  PROVE  Places(b) = IF Listed(b) \/ Waiting(b) \/ Taken(b) THEN 1 ELSE 0
<1> DEFINE I == {i \in DOMAIN incoming[NodeOf(b)] : incoming[NodeOf(b)][i] = b}
           T == {t \in Thread : b \in bl[t]}
<1>1. Cardinality(I) = IF Listed(b) THEN 1 ELSE 0
  <2>1. PICK s : s = incoming[NodeOf(b)] /\ s \in Seq(BufsOf(NodeOf(b))) /\ NoTwice(s)
    BY FiniteBuf DEF BufInv, BufType, IsList
  <2>2. I = {i \in 1 .. Len(s) : s[i] = b}
    BY <2>1
  <2>3. CASE Listed(b)
    <3>1. PICK i \in 1 .. Len(s) : s[i] = b
      BY <2>1, <2>3 DEF Listed, In
    <3>2. I = {i}
      BY <2>1, <2>2, <3>1 DEF NoTwice
    <3> QED
      BY <2>3, <3>2, FS_Singleton, Zenon
  <2>4. CASE ~ Listed(b)
    <3>1. I = {}
      BY <2>1, <2>2, <2>4 DEF Listed, In
    <3> QED
      BY <2>4, <3>1, FS_EmptySet, Zenon
  <2> QED
    BY <2>3, <2>4
<1>2. Cardinality(T) = IF Taken(b) THEN 1 ELSE 0
  <2>1. CASE Taken(b)
    <3>1. PICK t \in Thread : b \in bl[t]
      BY <2>1 DEF Taken
    <3>2. T = {t}
      BY <3>1 DEF BufInv, Takes, OneTake, Ctl, OneMutex, FwPhase
    <3> QED
      BY <2>1, <3>2, FS_Singleton, Zenon
  <2>2. CASE ~ Taken(b)
    <3>1. T = {}
      BY <2>2 DEF Taken
    <3> QED
      BY <2>2, <3>1, FS_EmptySet, Zenon
  <2> QED
    BY <2>1, <2>2
<1>3. Places(b) = Cardinality(I) + (IF Waiting(b) THEN 1 ELSE 0) + Cardinality(T)
  BY Zenon DEF Places, Waiting
<1> HIDE DEF I, T
<1>4. OneBuf(b)
  BY DEF BufInv, Bufs
<1> QED
  BY <1>1, <1>2, <1>3, <1>4 DEF OneBuf

\* The control state of the ioctls that share a pipeline, and the owner of each
\* buffer, are at all times what Ctl and BufInv say, whatever fails but the start
\* that a QBUF triggers.
THEOREM InvariantHolds ==
  ASSUME StartsTogether, "buf" \notin FailingStarts
  PROVE  Spec => [](Ctl /\ BufInv)
<1>1. Init => Ctl /\ BufInv
  BY CtlInit, BufInvInit
<1>2. Ctl /\ BufInv /\ [Next]_vars => (Ctl /\ BufInv)'
  BY CtlStep, BufInvStep
<1> QED
  BY <1>1, <1>2, PTL DEF Spec

\* A buffer that videobuf2 gave to the driver is on one list of it, and one that
\* went back is on none, through all error paths: see BufferInOnePlace.
THEOREM OnePlace ==
  ASSUME StartsTogether, "buf" \notin FailingStarts
  PROVE  Spec => []BufferInOnePlace
<1>1. Ctl /\ BufInv => BufferInOnePlace
  <2> SUFFICES ASSUME Ctl, BufInv, NEW b \in Buf
               PROVE  IF vb[b] # "driver" THEN Places(b) = 0
                      ELSE Places(b) = 1 \/ (MsgMayRunOut /\ Places(b) = 0)
    BY DEF BufferInOnePlace
  <2>1. OneBuf(b) /\ Places(b) = IF Listed(b) \/ Waiting(b) \/ Taken(b) THEN 1 ELSE 0
    BY PlacesOf DEF BufInv, Bufs
  <2> QED
    BY <2>1 DEF OneBuf
<1> QED
  BY <1>1, InvariantHolds, PTL
-----------------------------------------------------------------------------
(* The frames of the firmware *)

NoBufTwice(o) == \A i, j \in 1 .. Len(fw[o]) : \A b \in Buf : b \in fw[o][i] /\ b \in fw[o][j] => i = j

\* Does the pipeline in node o run, or is its first frame under way?
Fed(o) ==
  /\ Full(o)
  /\ ip[o].streaming \/ \E t \in Thread : pc[t] = "await" /\ ipOf[t] = o
  /\ \A t \in Thread : pc[t] = "start" => ipOf[t] # o

\* The frames are of a pipeline that runs, their buffers wait, each for one frame.
OneFirmware(o) ==
  /\ \A b \in Buf : InFw(b, o) => Waiting(b) /\ Fed(o)
  /\ NoBufTwice(o)
OneFill(t) == pc[t] = "fill" /\ ip[ipOf[t]].queues # {} => ip[ipOf[t]].streaming

Frames == \A o \in Node : OneFirmware(o)
Fills == \A t \in Thread : OneFill(t)
FwInv == Frames /\ Fills

\* Nothing is under way without a complete pipeline.
LEMMA NothingInFw ==
  ASSUME Ctl, FwInv, NEW o \in Node, NEW b \in Buf,
         \/ \E q \in Node : pipe[q] = NoNode
         \/ \E p \in Node : p # o /\ Live(p)
         \/ ~ Full(o)
  PROVE  ~ InFw(b, o)
<1> SUFFICES ASSUME Full(o) PROVE FALSE
  BY DEF FwInv, Frames, OneFirmware, Fed
<1>1. \A q \in Node : pipe[q] = o /\ o # NoNode
  BY QueueAssumption DEF QueueAssumption, Full, Ctl, Pipelines, OnePipeline
<1>2. \A p \in Node : Live(p) => p = o
  BY DEF Full, Ctl, Pipelines, OnePipeline
<1> QED
  BY <1>1, <1>2

LEMMA FillsStep ==
  ASSUME StartsTogether, Ctl, Next, FwInv PROVE Fills'
<1> SUFFICES ASSUME NEW t \in Thread, pc'[t] = "fill", ip'[ipOf'[t]].queues # {}
             PROVE  ip'[ipOf'[t]].streaming
  BY DEF Fills, OneFill
<1>1. CASE pc[t] \in StartPhase /\ ~ StreamStart(t)
  BY <1>1, RunsKept DEF Undisturbed, FwInv, Fills, OneFill
<1>2. CASE StreamStarted(t)
  <2>1. PICK o \in Node : o = ipOf[t]
    BY <1>2 DEF StreamStarted, StartPhase, Ctl, Runs, OneRun
  <2>2. ip \in [Node -> IpRecord]
    BY DEF Ctl, CtlType, IpRecord
  <2>3. ip' = [ip EXCEPT ![o].streaming = TRUE] /\ ipOf' = ipOf
    BY <1>2, <2>1 DEF StreamStarted, locals
  <2> QED
    BY <2>1, <2>2, <2>3 DEF IpRecord
<1>3. CASE StreamStart(t) /\ ~ StreamStarted(t)
  <2>1. pc[t] \in StartPhase
    BY <1>3 DEF StreamStart, StreamStartFails, StreamStarts, StreamNotStarted,
       StreamNotAcknowledged, SensorFails,
                FillCaptures, FillNoMsg, FillEnds, StartPhase
  <2>2. CASE FillCaptures(t)
    <3>1. UNCHANGED << ip, ipOf >> /\ pc[t] = "fill"
      BY <2>2 DEF FillCaptures, pipeline, locals
    <3> QED
      BY <3>1 DEF FwInv, Fills, OneFill
  <2>3. CASE ~ FillCaptures(t)
    <3>1. \E s \in {"idle", "onUndo", "await"} : pc' = [pc EXCEPT ![t] = s]
      BY <1>3, <2>3 DEF StreamStart, StreamStartFails, StreamStarts, StreamNotStarted,
         StreamNotAcknowledged, SensorFails,
                FillNoMsg, FillEnds, StartUnwinds, Goto
    <3> QED
      BY <3>1 DEF Ctl, CtlType
  <2> QED
    BY <2>2, <2>3
<1>4. CASE pc[t] \notin StartPhase
  <2>1. ASSUME NEW u \in Thread, u # t, StreamStart(u) PROVE pc'[t] = pc[t]
    <3>1. UNCHANGED pc \/ \E s : pc' = [pc EXCEPT ![u] = s]
      BY <2>1 DEF StreamStart, StreamStartFails, StreamStarts, StreamNotStarted,
         StreamNotAcknowledged, SensorFails, StreamStarted,
                  FillCaptures, FillNoMsg, FillEnds, StartUnwinds, Goto
    <3> QED
      BY <2>1, <3>1 DEF Ctl, CtlType
  <2>2. \A u \in Thread : StreamStart(u) => u # t
    BY <1>4 DEF StreamStart, StreamStartFails, StreamStarts, StreamNotStarted,
       StreamNotAcknowledged, SensorFails, StreamStarted,
                FillCaptures, FillNoMsg, FillEnds, StartPhase
  <2>3. \A q \in Node : S(q) \in Thread /\ B(q) \in Thread
    BY Threads
  <2>4. UNCHANGED pc \/ (\E x \in Thread : StreamStart(x))
          \/ \E u \in Thread : \E s \in {"idle", "relock", "submit", "oops", "start"} \cup OnPhase \cup OffPhase :
               pc' = [pc EXCEPT ![u] = s]
    <3>1. ASSUME NEW q \in Node, QBuf(q) \/ StreamOn(q) \/ StreamOff(q) \/ BufReady(q) \/ LateReady(q)
          PROVE UNCHANGED pc \/ \E u \in Thread : \E s \in {"idle", "relock", "submit", "oops", "start"} \cup OnPhase \cup OffPhase :
               pc' = [pc EXCEPT ![u] = s]
      BY <2>3, <3>1 DEF QBuf, StreamOn, StreamOff, BufReady, LateReady, Goto, OnPhase, OffPhase
    <3>2. ASSUME NEW q \in Node, QueueStep(q), ~ StreamStart(B(q))
          PROVE \E u \in Thread : \E s \in {"idle", "relock", "submit", "oops", "start"} \cup OnPhase \cup OffPhase :
               pc' = [pc EXCEPT ![u] = s]
      BY <2>3, <3>2 DEF QueueStep, QBufRelocks, QBufWaits, QBufNoMsg, QBufStarts, QBufCaptures, Goto
    <3>3. ASSUME NEW q \in Node, StreamStep(q), ~ StreamStart(S(q))
          PROVE \E u \in Thread : \E s \in {"idle", "relock", "submit", "oops", "start"} \cup OnPhase \cup OffPhase :
               pc' = [pc EXCEPT ![u] = s]
      BY <2>3, <3>3 DEF StreamStep, StartWaits, StartPrepares, StartPrepareFails,
         StartFindsPipeline,
         StartJoins, StartUndone, StartFails, StopWaits, StopFindsNone, StopLocks, StopFlushes,
         StopFlushed, StopLeaves, StopReturns, Goto, OnPhase, OffPhase
    <3> QED
      BY <2>3, <3>1, <3>2, <3>3 DEF Next
  <2>5. pc'[t] # "fill"
    <3>1. CASE UNCHANGED pc
      BY <1>4, <3>1 DEF StartPhase
    <3>2. CASE \E u \in Thread : StreamStart(u)
      BY <1>4, <2>1, <2>2, <3>2 DEF StartPhase
    <3>3. ASSUME NEW u \in Thread, NEW s \in {"idle", "relock", "submit", "oops", "start"} \cup OnPhase \cup OffPhase,
                 pc' = [pc EXCEPT ![u] = s]
          PROVE  pc'[t] # "fill"
      BY <1>4, <3>3 DEF StartPhase, OnPhase, OffPhase, Ctl, CtlType
    <3> QED
      BY <2>4, <3>1, <3>2, <3>3
  <2> QED
    BY <2>5
<1> QED
  BY <1>1, <1>2, <1>3, <1>4
\* A step that leaves pipelines alone, of a thread u that neither begins to
\* start the stream of o nor gives it up.
LEMMA FedStays ==
  ASSUME Ctl, NEW o \in Node, Fed(o), NEW u \in Thread, NEW s,
         pc' = [pc EXCEPT ![u] = s] \/ UNCHANGED pc,
         UNCHANGED ipOf \/ \E x : ipOf' = [ipOf EXCEPT ![u] = x],
         UNCHANGED ip, pc[u] # "await",
         ~ UNCHANGED pc /\ s = "start" => ipOf'[u] # o,
         pc[u] = "start" => UNCHANGED ipOf
  PROVE  Fed(o)'
<1>1. Full(o)'
  BY DEF Fed, Full, Live
<1>2. \A t \in Thread : t # u => pc'[t] = pc[t] /\ ipOf'[t] = ipOf[t]
  BY DEF Ctl, CtlType
<1>3. pc'[u] = "start" => ipOf'[u] # o
  <2>1. CASE UNCHANGED pc
    <3>1. pc[u] = "start" => UNCHANGED ipOf /\ ipOf[u] # o
      BY DEF Fed
    <3> QED
      BY <2>1, <3>1
  <2>2. CASE pc' = [pc EXCEPT ![u] = s] /\ ~ UNCHANGED pc
    BY <2>2 DEF Ctl, CtlType
  <2> QED
    BY <2>1, <2>2
<1>4. \A t \in Thread : pc'[t] = "start" => ipOf'[t] # o
  BY <1>2, <1>3 DEF Fed
<1>5. (\E t \in Thread : pc[t] = "await" /\ ipOf[t] = o)
        => \E t \in Thread : pc'[t] = "await" /\ ipOf'[t] = o
  BY <1>2
<1> QED
  BY <1>1, <1>4, <1>5 DEF Fed

\* No step but those that end a stream takes from the firmware a pipeline that
\* is complete.
LEMMA FedKept ==
  ASSUME StartsTogether, Ctl, Ctl', Next, FwInv, NEW o \in Node, Fed(o), ~ MsgMayRunOut,
         \A t \in Thread : ~ StreamStartFails(t) /\ ~ GivenUp(t) /\ ~ StreamStarts(t),
         \A q \in Node : ~ StopFlushed(q)
  PROVE  Fed(o)'
<1>t. \A q \in Node : S(q) \in Thread /\ B(q) \in Thread
  BY Threads
<1>0. /\ Full(o) /\ ip[o].startCount = 1 /\ ip[o].queues = Node /\ ip \in [Node -> IpRecord]
      /\ \A q \in Node : pipe[q] = o /\ pipe[q] # NoNode
      /\ ip[o].nrStreaming = ip[o].nrQueues
  <2>1. Full(o) /\ OnePipeline(o)
    BY DEF Fed, Ctl, Pipelines
  <2> QED
    BY <2>1, QueueAssumption DEF Full, Live, OnePipeline, QueueAssumption, Ctl, CtlType, IpRecord, N
<1>1. ASSUME NEW q \in Node, QBuf(q) \/ StreamOn(q) \/ StreamOff(q) \/ BufReady(q) \/ LateReady(q)
      PROVE  Fed(o)'
  <2>1. UNCHANGED << ip, ipOf >>
    BY <1>1 DEF QBuf, StreamOn, StreamOff, BufReady, LateReady, pipeline, locals
  <2>2. PICK u \in Thread : /\ u \in {S(q), B(q)}
                            /\ \/ UNCHANGED pc
                               \/ \E s \in {"relock", "onWait", "offWait"} : pc' = [pc EXCEPT ![u] = s]
                            /\ pc[u] # "await" \/ UNCHANGED pc
    BY <1>1, <1>t DEF QBuf, StreamOn, StreamOff, BufReady, LateReady, Goto
  <2>3. CASE UNCHANGED pc
    BY <2>1, <2>3 DEF Fed, Full, Live
  <2>4. ASSUME NEW s \in {"relock", "onWait", "offWait"}, pc' = [pc EXCEPT ![u] = s], pc[u] # "await"
        PROVE  Fed(o)'
    BY <2>1, <2>4, FedStays
  <2> QED
    BY <2>2, <2>3, <2>4
<1>2. ASSUME NEW t \in Thread, StreamStart(t) PROVE Fed(o)'
  <2>1. CASE StreamStarted(t)
    <3>1. PICK p \in Node : p = ipOf[t]
      BY <2>1 DEF StreamStarted, StartPhase, Ctl, Runs, OneRun
    <3>2. /\ ip' = [ip EXCEPT ![p].streaming = TRUE] /\ pc' = [pc EXCEPT ![t] = "fill"]
          /\ UNCHANGED ipOf
      BY <2>1, <3>1 DEF StreamStarted, Goto, locals
    <3>3. Full(o)'
      BY <1>0, <3>2 DEF Full, Live, IpRecord
    <3>4. \A u \in Thread : u # t => pc'[u] = pc[u]
      BY <3>2 DEF Ctl, CtlType
    <3>5. \A u \in Thread : pc'[u] = "start" => ipOf'[u] # o
      BY <3>2, <3>4 DEF Fed, Ctl, CtlType
    <3>6. CASE p = o
      <4>1. ip'[o].streaming
        BY <1>0, <3>2, <3>6 DEF IpRecord
      <4> QED
        BY <3>3, <3>5, <4>1 DEF Fed
    <3>7. CASE p # o
      <4>1. ip'[o].streaming = ip[o].streaming
        BY <1>0, <3>2, <3>7
      <4>2. (\E u \in Thread : pc[u] = "await" /\ ipOf[u] = o)
              => \E u \in Thread : pc'[u] = "await" /\ ipOf'[u] = o
        BY <3>1, <3>2, <3>4, <3>7
      <4> QED
        BY <3>3, <3>5, <4>1, <4>2 DEF Fed
    <3> QED
      BY <3>6, <3>7
  <2>2. CASE FillCaptures(t) \/ FillEnds(t)
    <3>1. /\ UNCHANGED << ip, ipOf >> /\ pc[t] = "fill"
          /\ UNCHANGED pc \/ pc' = [pc EXCEPT ![t] = "idle"]
      BY <2>2 DEF FillCaptures, FillEnds, Goto, pipeline, locals
    <3> QED
      BY <3>1, FedStays
  <2> QED
    BY <1>2, <2>1, <2>2 DEF StreamStart, GivenUp, FillNoMsg, MsgRunsOut
<1>3. ASSUME NEW q \in Node, QueueStep(q) PROVE Fed(o)'
  <2>1. CASE QBufRelocks(q) \/ QBufWaits(q) \/ QBufCaptures(q)
    <3>1. /\ UNCHANGED ip /\ pc[B(q)] \in {"relock", "submit"}
          /\ \E s \in IoctlPhase : pc' = [pc EXCEPT ![B(q)] = s]
          /\ UNCHANGED ipOf \/ \E x : ipOf' = [ipOf EXCEPT ![B(q)] = x]
      BY <2>1 DEF QBufRelocks, QBufWaits, QBufCaptures, Goto, pipeline, locals, IoctlPhase
    <3>2. PICK s \in IoctlPhase : pc' = [pc EXCEPT ![B(q)] = s]
      BY <3>1
    <3>3. s # "start" /\ pc[B(q)] # "start" /\ pc[B(q)] # "await"
      BY <3>1 DEF IoctlPhase
    <3> QED
      BY <1>t, <3>1, <3>2, <3>3, FedStays
  <2>2. CASE QBufStarts(q)
    <3>1. /\ UNCHANGED << ip, ipOf >> /\ pc[B(q)] = "submit" /\ pc' = [pc EXCEPT ![B(q)] = "start"]
          /\ StreamMutexFree /\ ~ ip[ipOf[B(q)]].streaming
      BY <2>2 DEF QBufStarts, Goto, pipeline, locals
    <3>2. ipOf[B(q)] # o
      BY <3>1 DEF Fed, StreamMutexFree
    <3> QED
      BY <1>t, <3>1, <3>2, FedStays
  <2> QED
    BY <1>2, <1>3, <1>t, <2>1, <2>2 DEF QueueStep, QBufNoMsg, MsgRunsOut
<1>4. ASSUME NEW q \in Node, StreamStep(q) PROVE Fed(o)'
  <2>1. CASE \/ StartWaits(q) \/ StartFindsPipeline(q) \/ StopWaits(q) \/ StopFindsNone(q)
             \/ StopLocks(q) \/ StopFlushes(q) \/ StopReturns(q)
    <3>1. /\ UNCHANGED ip /\ pc[S(q)] \notin {"start", "await"}
          /\ \E s \in {"idle"} \cup OnPhase \cup OffPhase : pc' = [pc EXCEPT ![S(q)] = s]
          /\ UNCHANGED ipOf \/ \E x : ipOf' = [ipOf EXCEPT ![S(q)] = x]
      BY <2>1 DEF StartWaits, StartFindsPipeline, StopWaits, StopFindsNone, StopLocks, StopFlushes,
                  StopReturns, Goto, pipeline, locals, OnPhase, OffPhase
    <3>2. PICK s \in {"idle"} \cup OnPhase \cup OffPhase : pc' = [pc EXCEPT ![S(q)] = s]
      BY <3>1
    <3>3. s # "start" /\ pc[S(q)] # "start" /\ pc[S(q)] # "await"
      BY <3>1 DEF OnPhase, OffPhase
    <3> QED
      BY <1>t, <3>1, <3>2, <3>3, FedStays
  <2>2. ~ StartPrepares(q) /\ ~ StartPrepareFails(q)
    BY <1>0 DEF StartPrepares, StartPrepareFails
  <2>3. ~ StartJoins(q) /\ ~ StartUndone(q)
    BY <1>0 DEF StartJoins, StartUndone, Ctl, Nodes, OneNode, OnPhase
  <2>4. ~ StopLeaves(q)
    <3> SUFFICES ASSUME StopLeaves(q) PROVE FALSE
      OBVIOUS
    <3>1. ipOf[S(q)] = o /\ StreamMutexFree
      BY <1>0 DEF StopLeaves, Ctl, Nodes, OneNode
    <3>2. ~ ip[o].streaming
      BY <1>0, <3>1 DEF StopLeaves
    <3> QED
      BY <3>1, <3>2 DEF Fed, StreamMutexFree
  <2> QED
    BY <1>2, <1>4, <1>t, <2>1, <2>2, <2>3, <2>4 DEF StreamStep
<1> QED
  BY <1>1, <1>3, <1>4 DEF Next
\* No frame is left.
LEMMA FramesGone ==
  ASSUME BufType', \A o \in Node, b \in Buf : ~ InFw(b, o)'
  PROVE  Frames'
<1> SUFFICES ASSUME NEW o \in Node PROVE OneFirmware(o)'
  BY DEF Frames
<1>1. \A b \in Buf : ~ InFw(b, o)'
  OBVIOUS
<1> QED
  BY <1>1 DEF OneFirmware, NoBufTwice, InFw

\* No frame is added or finished, and no buffer stops waiting.
LEMMA FramesStay ==
  ASSUME FwInv, UNCHANGED fw, \A b \in Buf : Waiting(b) => Waiting(b)',
         \A o \in Node : Fed(o) => Fed(o)'
  PROVE  Frames'
<1> SUFFICES ASSUME NEW o \in Node PROVE OneFirmware(o)'
  BY DEF Frames
<1>1. OneFirmware(o)
  BY DEF FwInv, Frames
<1>2. \A b \in Buf : (InFw(b, o)' <=> InFw(b, o)) /\ (NoBufTwice(o)' <=> NoBufTwice(o))
  BY DEF InFw, NoBufTwice
<1>3. NoBufTwice(o)'
  BY <1>1 DEF OneFirmware, NoBufTwice
<1> QED
  BY <1>1, <1>2, <1>3 DEF OneFirmware

LEMMA AppendedFrame ==
  ASSUME NEW s \in Seq(SUBSET Buf), NEW bs \in SUBSET Buf, NEW u, u = Append(s, bs)
  PROVE  /\ \A b \in Buf : (\E i \in 1 .. Len(u) : b \in u[i])
                             <=> (\E i \in 1 .. Len(s) : b \in s[i]) \/ b \in bs
         /\ /\ \A i, j \in 1 .. Len(s) : \A b \in Buf : b \in s[i] /\ b \in s[j] => i = j
            /\ \A b \in bs : \A i \in 1 .. Len(s) : b \notin s[i]
            => \A i, j \in 1 .. Len(u) : \A b \in Buf : b \in u[i] /\ b \in u[j] => i = j
<1>1. /\ Len(s) \in Nat /\ Len(u) = Len(s) + 1 /\ u[Len(s) + 1] = bs
      /\ \A i \in 1 .. Len(s) : u[i] = s[i]
  OBVIOUS
<1>2. \A i \in 1 .. Len(u) : i \in 1 .. Len(s) \/ i = Len(s) + 1
  BY <1>1
<1>3. 1 .. Len(s) \subseteq 1 .. Len(u) /\ Len(s) + 1 \in 1 .. Len(u)
  BY <1>1
<1>4. \A b \in Buf : (\E i \in 1 .. Len(u) : b \in u[i])
                       <=> (\E i \in 1 .. Len(s) : b \in s[i]) \/ b \in bs
  BY <1>1, <1>2, <1>3
<1>5. ASSUME \A i, j \in 1 .. Len(s) : \A b \in Buf : b \in s[i] /\ b \in s[j] => i = j,
             \A b \in bs : \A i \in 1 .. Len(s) : b \notin s[i]
      PROVE  \A i, j \in 1 .. Len(u) : \A b \in Buf : b \in u[i] /\ b \in u[j] => i = j
  BY <1>1, <1>2, <1>5
<1> QED
  BY <1>4, <1>5

\* A frame is added, of buffers that begin to wait.
LEMMA FramesSent ==
  ASSUME BufType, FwInv, NEW o \in Node, NEW bs \in SUBSET Buf, Send(o, bs),
         \A b \in Buf : (Waiting(b)' <=> Waiting(b) \/ b \in bs),
         \A b \in bs : ~ Waiting(b),
         \A p \in Node : Fed(p) => Fed(p)', bs # {} => Fed(o)'
  PROVE  Frames'
<1> SUFFICES ASSUME NEW p \in Node PROVE OneFirmware(p)'
  BY DEF Frames
<1>1. OneFirmware(p)
  BY DEF FwInv, Frames
<1>2. PICK s \in Seq(SUBSET Buf) : s = fw[o]
  BY DEF BufType
<1>3. PICK u : u = Append(s, bs)
  OBVIOUS
<1>4. fw' = [fw EXCEPT ![o] = u] /\ fw \in [Node -> Seq(SUBSET Buf)]
  BY <1>2, <1>3 DEF Send, BufType
<1>5. CASE p # o
  <2>1. fw'[p] = fw[p]
    BY <1>4, <1>5
  <2>2. \A b \in Buf : InFw(b, p)' <=> InFw(b, p)
    BY <2>1 DEF InFw
  <2>3. NoBufTwice(p)'
    BY <1>1, <2>1 DEF OneFirmware, NoBufTwice
  <2> QED
    BY <1>1, <2>2, <2>3 DEF OneFirmware
<1>6. CASE p = o
  <2>1. fw'[p] = u /\ fw[p] = s
    BY <1>2, <1>4, <1>6
  <2>2. /\ \A b \in Buf : InFw(b, p)' <=> (\E i \in 1 .. Len(u) : b \in u[i])
        /\ \A b \in Buf : InFw(b, p) <=> (\E i \in 1 .. Len(s) : b \in s[i])
    BY <2>1 DEF InFw
  <2>3. \A i, j \in 1 .. Len(s) : \A b \in Buf : b \in s[i] /\ b \in s[j] => i = j
    BY <1>1, <2>1 DEF OneFirmware, NoBufTwice
  <2>4. \A b \in bs : ~ InFw(b, p)
    BY <1>1 DEF OneFirmware
  <2>5. \A b \in bs : \A i \in 1 .. Len(s) : b \notin s[i]
    BY <2>2, <2>4
  <2>6. \A i, j \in 1 .. Len(u) : \A b \in Buf : b \in u[i] /\ b \in u[j] => i = j
    BY <1>3, <2>3, <2>5, AppendedFrame
  <2>7. NoBufTwice(p)'
    BY <2>1, <2>6 DEF NoBufTwice
  <2>8. \A b \in Buf : InFw(b, p)' <=> InFw(b, p) \/ b \in bs
    BY <1>3, <2>2, AppendedFrame
  <2> QED
    BY <1>1, <1>6, <2>7, <2>8 DEF OneFirmware
<1> QED
  BY <1>5, <1>6
\* Steps that end a stream, or return the buffers of a node that has none.
LEMMA EndsFrames ==
  ASSUME StartsTogether, "buf" \notin FailingStarts, Ctl, BufInv, BufType', FwInv,
         \/ \E t \in Thread : StreamStartFails(t) \/ GivenUp(t)
         \/ \E q \in Node : \/ StopFlushed(q) \/ StartPrepareFails(q) \/ StartUndone(q)
                            \/ StopFindsNone(q) \/ StopReturns(q)
  PROVE  Frames'
<1>0. ASSUME \A o \in Node, b \in Buf : ~ InFw(b, o) \/ fw'[o] = << >>,
             \A o \in Node : fw'[o] = fw[o] \/ fw'[o] = << >>
      PROVE  Frames'
  <2>1. ASSUME NEW o \in Node, NEW b \in Buf PROVE ~ InFw(b, o)'
    <3>1. CASE fw'[o] = << >>
      <4>1. Len(fw'[o]) = 0
        BY <3>1
      <4> QED
        BY <4>1 DEF InFw
    <3>2. CASE fw'[o] # << >>
      BY <1>0, <3>2 DEF InFw
    <3> QED
      BY <3>1, <3>2
  <2> QED
    BY <2>1, FramesGone
<1>1. ASSUME NEW p \in Node, Live(p) \/ \A o \in Node : ~ Full(o),
             fw' = [fw EXCEPT ![p] = << >>]
      PROVE  Frames'
  <2>1. \A o \in Node : fw'[o] = IF o = p THEN << >> ELSE fw[o]
    BY <1>1 DEF BufInv, BufType
  <2>2. \A o \in Node, b \in Buf : o # p => ~ InFw(b, o)
    BY <1>1, NothingInFw
  <2> QED
    BY <1>0, <2>1, <2>2
<1>2. ASSUME UNCHANGED fw, \A o \in Node, b \in Buf : ~ InFw(b, o) PROVE Frames'
  BY <1>0, <1>2
<1>3. ASSUME NEW t \in Thread, StreamStartFails(t) \/ GivenUp(t) PROVE Frames'
  <2>1. PICK p \in Node : p = ipOf[t] /\ Full(p)
    BY <1>3, Threads DEF Ctl, Runs, OneRun, StartPhase, StreamStartFails, StreamNotStarted,
       GivenUp, StreamNotAcknowledged, SensorFails, Full, Live
  <2>2. CASE StreamStartFails(t)
    <3>1. pc[t] = "start" /\ UNCHANGED fw
      BY <2>2 DEF StreamStartFails
    <3>2. ASSUME NEW o \in Node, NEW b \in Buf PROVE ~ InFw(b, o)
      <4>1. CASE o = p
        BY <2>1, <3>1, <4>1 DEF FwInv, Frames, OneFirmware, Fed
      <4>2. CASE o # p
        BY <2>1, <4>2, NothingInFw DEF Full
      <4> QED
        BY <4>1, <4>2
    <3> QED
      BY <1>2, <3>1, <3>2
  <2>3. CASE GivenUp(t)
    BY <1>1, <2>1, <2>3, GivesUp DEF BufInv, Full
  <2> QED
    BY <1>3, <2>2, <2>3
<1>4. ASSUME NEW q \in Node, StopFlushed(q) PROVE Frames'
  <2>1. PICK p \in Node : p = ipOf[S(q)] /\ pipe[q] = p /\ fw' = [fw EXCEPT ![p] = << >>]
    BY <1>4, Empties, QueueAssumption DEF StopFlushed, Ctl, Nodes, OneNode, QueueAssumption, BufInv
  <2>2. Live(p)
    BY <2>1 DEF Ctl, Pipelines, OnePipeline
  <2> QED
    BY <1>1, <2>1, <2>2
<1>5. ASSUME NEW q \in Node, StartPrepareFails(q) \/ StopFindsNone(q) \/ StopReturns(q)
      PROVE  Frames'
  <2>1. pipe[q] = NoNode /\ UNCHANGED fw
    BY <1>5 DEF StartPrepareFails, StopFindsNone, StopReturns, Ctl, Nodes, OneNode
  <2> QED
    BY <1>2, <2>1, NothingInFw
<1>6. ASSUME NEW q \in Node, StartUndone(q) PROVE Frames'
  <2>1. PICK p \in Node : p = ipOf[S(q)] /\ ip[p].queues = Node \ {q} /\ pipe[q] = p
    BY <1>6 DEF StartUndone, Ctl, Nodes, OneNode
  <2>2. Live(p) /\ ~ Full(p) /\ UNCHANGED fw
    BY <1>6, <2>1 DEF StartUndone, Ctl, Pipelines, OnePipeline, Full
  <2>3. \A o \in Node : o = p \/ (p # o /\ Live(p))
    BY <2>2
  <2> QED
    BY <1>2, <2>2, <2>3, NothingInFw
<1> QED
  BY <1>3, <1>4, <1>5, <1>6
\* The first frame of a stream.
LEMMA StartsFrames ==
  ASSUME Ctl, BufInv, FwInv, NEW t \in Thread, StreamStarts(t)
  PROVE  Frames'
<1>1. PICK o \in Node : o = ipOf[t] /\ OneRun(t) /\ pc[t] = "start"
  BY DEF Ctl, Runs, OneRun, StartPhase, StreamStarts
<1>2. PICK bs \in SUBSET Buf : bs = bl[t]
  BY DEF BufInv, BufType
<1>3. /\ Activate(bs) /\ Send(o, bs) /\ pc' = [pc EXCEPT ![t] = "await"] /\ UNCHANGED << ip, ipOf >>
  BY <1>1, <1>2 DEF StreamStarts, Goto, pipeline, locals
<1>4. \A b \in Buf : (Waiting(b)' <=> Waiting(b) \/ b \in bs)
  BY <1>3, Activated DEF BufInv, Waiting
<1>5. \A b \in bs : ~ Waiting(b)
  BY <1>2 DEF BufInv, Bufs, OneBuf, Taken
<1>6. ASSUME NEW p \in Node, Fed(p) PROVE Fed(p)'
  BY <1>1, <1>3, <1>6, FedStays
<1>7. ASSUME bs # {} PROVE Fed(o)'
  <2>1. Full(o)
    BY <1>1, <1>2, <1>7 DEF BufInv, Takes, OneTake, OneRun, StartPhase, Full, Live
  <2>2. pc'[t] = "await" /\ \A u \in Thread : u # t => pc'[u] = pc[u]
    BY <1>3 DEF Ctl, CtlType
  <2>3. \A u \in Thread : pc'[u] # "start"
    BY <1>1, <2>2 DEF Ctl, OneMutex, FwPhase
  <2> QED
    BY <1>1, <1>3, <2>1, <2>2, <2>3 DEF Fed, Full, Live
<1> QED
  BY <1>3, <1>4, <1>5, <1>6, <1>7, FramesSent DEF BufInv

\* A further frame.
LEMMA CapturesFrames ==
  ASSUME Ctl, BufInv, FwInv, \A p \in Node : Fed(p) => Fed(p)',
         \/ \E q \in Node : QBufCaptures(q)
         \/ \E t \in Thread : FillCaptures(t)
  PROVE  Frames'
<1>1. ASSUME NEW o \in Node, ip[o].queues # {} => Fed(o), ListReady(ip[o].queues),
             TakeList(ip[o].queues), Activate(BufferList(ip[o].queues)),
             Send(o, BufferList(ip[o].queues)) \/ UNCHANGED fw
      PROVE  Frames'
  <2>1. PICK queues \in SUBSET Node : queues = ip[o].queues
    BY DEF Ctl, CtlType
  <2>2. \A b \in BufferList(queues) : b \in Buf /\ Listed(b) /\ NodeOf(b) \in queues
    BY <1>1, <2>1, TakenLists DEF BufInv
  <2>3. PICK bs \in SUBSET Buf : bs = BufferList(queues)
    BY <2>2
  <2>4. Activate(bs) /\ (Send(o, bs) \/ UNCHANGED fw)
    BY <1>1, <2>1, <2>3
  <2>5. \A b \in Buf : (Waiting(b)' <=> Waiting(b) \/ b \in bs)
    BY <2>4, Activated DEF BufInv, Waiting
  <2>6. \A b \in bs : ~ Waiting(b)
    BY <2>2, <2>3 DEF BufInv, Bufs, OneBuf
  <2>7. bs # {} => Fed(o)'
    BY <1>1, <2>1, <2>2, <2>3
  <2>8. CASE Send(o, bs)
    BY <2>5, <2>6, <2>7, <2>8, FramesSent DEF BufInv
  <2>9. CASE UNCHANGED fw
    BY <2>5, <2>9, FramesStay
  <2> QED
    BY <2>4, <2>8, <2>9
<1>2. ASSUME NEW q \in Node, QBufCaptures(q) PROVE Frames'
  <2>1. PICK o \in Node : o = ipOf[B(q)]
    BY <1>2, Submitted DEF QBufCaptures
  <2>2. /\ ip[o].nrStreaming = ip[o].nrQueues /\ ip[o].streaming /\ CanLock(o, B(q))
        /\ pc[B(q)] = "submit" /\ ListReady(ip[o].queues) /\ TakeList(ip[o].queues)
        /\ Activate(BufferList(ip[o].queues)) /\ (Send(o, BufferList(ip[o].queues)) \/ UNCHANGED fw)
    BY <1>2, <2>1 DEF QBufCaptures, SubmitReady
  <2>3. ip[o].queues # {} => Full(o)
    BY <2>2, Complete
  <2>4. ASSUME NEW u \in Thread, pc[u] = "start" PROVE ipOf[u] # o
    BY <2>2, <2>4, Threads DEF CanLock, Ctl, Runs, OneRun, StartPhase
  <2>5. ip[o].queues # {} => Fed(o)
    BY <2>2, <2>3, <2>4 DEF Fed
  <2> QED
    BY <1>1, <2>2, <2>5
<1>3. ASSUME NEW t \in Thread, FillCaptures(t) PROVE Frames'
  <2>1. PICK o \in Node : o = ipOf[t] /\ OneRun(t) /\ pc[t] = "fill"
    BY <1>3 DEF FillCaptures, Ctl, Runs, OneRun, StartPhase
  <2>2. /\ ListReady(ip[o].queues) /\ TakeList(ip[o].queues)
        /\ Activate(BufferList(ip[o].queues)) /\ (Send(o, BufferList(ip[o].queues)) \/ UNCHANGED fw)
    BY <1>3, <2>1 DEF FillCaptures
  <2>3. ip[o].queues # {} => Full(o) /\ ip[o].streaming
    BY <2>1 DEF OneRun, StartPhase, Full, Live, FwInv, Fills, OneFill
  <2>4. ASSUME NEW u \in Thread, pc[u] = "start" PROVE ipOf[u] # o
    BY <2>1, <2>4 DEF Ctl, Runs, OneRun, StartPhase
  <2>5. ip[o].queues # {} => Fed(o)
    BY <2>3, <2>4 DEF Fed
  <2> QED
    BY <1>1, <2>2, <2>5
<1> QED
  BY <1>2, <1>3

LEMMA Prefixed ==
  ASSUME NEW X, NEW v \in Seq(X), NEW x, x \in X, NEW u, u = << x >> \o v
  PROVE  /\ Len(v) \in Nat /\ Len(u) = Len(v) + 1 /\ u[1] = x
         /\ \A i \in 1 .. Len(u) : i # 1 => u[i] = v[i - 1]
OBVIOUS

LEMMA Shortened == ASSUME NEW X, NEW s \in Seq(X), s # << >> PROVE Tail(s) \in Seq(X)
OBVIOUS

\* Buffer b of the oldest frame is full.
LEMMA FinishedPin ==
  ASSUME NEW X, NEW s \in Seq(X), s # << >>, NEW b, NEW rest \in X, rest = Head(s) \ {b},
         NEW u, u = IF rest = {} THEN Tail(s) ELSE << rest >> \o Tail(s)
  PROVE  \E d \in {0, 1} : \A i \in 1 .. Len(u) : /\ i + d \in 1 .. Len(s)
                                                 /\ u[i] \subseteq s[i + d]
                                                 /\ i + d = 1 => u[i] = rest
<1>1. PICK v \in Seq(X) : v = Tail(s)
  BY Shortened, Zenon
<1>2. /\ Len(s) \in Nat \ {0} /\ Head(s) = s[1] /\ Len(v) = Len(s) - 1
      /\ \A i \in 1 .. Len(s) - 1 : v[i] = s[i + 1]
  BY <1>1
<1>3. CASE rest = {}
  <2>1. u = v
    BY <1>1, <1>3
  <2>2. ASSUME NEW i \in 1 .. Len(u)
        PROVE  i + 1 \in 1 .. Len(s) /\ u[i] \subseteq s[i + 1] /\ i + 1 # 1
    <3>1. i \in 1 .. Len(s) - 1 /\ i + 1 \in 1 .. Len(s) /\ i + 1 # 1
      BY <1>2, <2>1
    <3>2. u[i] = s[i + 1]
      BY <1>2, <2>1, <3>1
    <3> QED
      BY <3>1, <3>2
  <2> QED
    BY <2>2
<1>4. CASE rest # {}
  <2>1. u = << rest >> \o v
    BY <1>1, <1>4
  <2>2. /\ Len(v) \in Nat /\ Len(u) = Len(v) + 1 /\ u[1] = rest
        /\ \A i \in 1 .. Len(u) : i # 1 => u[i] = v[i - 1]
    <3>1. PICK x : x = rest
      OBVIOUS
    <3>2. x \in X /\ u = << x >> \o v
      BY <2>1, <3>1
    <3>3. /\ Len(v) \in Nat /\ Len(u) = Len(v) + 1 /\ u[1] = x
          /\ \A i \in 1 .. Len(u) : i # 1 => u[i] = v[i - 1]
      BY ONLY <3>2, v \in Seq(X), Prefixed
    <3> QED
      BY <3>1, <3>3
  <2>3. ASSUME NEW i \in 1 .. Len(u)
        PROVE  i + 0 \in 1 .. Len(s) /\ u[i] \subseteq s[i + 0] /\ (i + 0 = 1 => u[i] = rest)
    <3>0. i + 0 = i /\ i \in 1 .. Len(s)
      BY <1>2, <2>2
    <3>1. CASE i = 1
      BY <1>2, <2>2, <3>0, <3>1
    <3>2. CASE i # 1
      <4>1. i - 1 \in 1 .. Len(s) - 1 /\ i - 1 + 1 = i
        BY <3>0, <1>2, <3>2
      <4>2. v[i - 1] = s[i - 1 + 1]
        BY <1>2, <4>1
      <4>3. u[i] = s[i]
        BY <2>2, <3>2, <4>1, <4>2
      <4> QED
        BY <3>0, <3>2, <4>3
    <3> QED
      BY <3>1, <3>2
  <2> QED
    BY <2>3
<1> QED
  BY <1>3, <1>4

LEMMA ReadyFrames ==
  ASSUME Ctl, BufInv, FwInv, NEW o \in Node, BufReady(o) PROVE Frames'
<1>1. PICK s \in Seq(SUBSET Buf) : s = fw[o] /\ s # << >>
  BY DEF BufReady, BufInv, BufType
<1>2. PICK b \in Head(s) :
        /\ LET rest == Head(s) \ {b} IN
             fw' = [fw EXCEPT ![o] = IF rest = {} THEN Tail(s) ELSE << rest >> \o Tail(s)]
        /\ IF b \in active[NodeOf(b)]
           THEN active' = [active EXCEPT ![NodeOf(b)] = @ \ {b}]
           ELSE UNCHANGED active
  BY <1>1 DEF BufReady
<1>3. b \in Buf /\ Head(s) \in SUBSET Buf /\ Head(s) = s[1] /\ 1 \in 1 .. Len(s)
  BY <1>1
<1>4. PICK rest \in SUBSET Buf : rest = Head(s) \ {b}
  BY <1>3
<1>5. PICK u : u = IF rest = {} THEN Tail(s) ELSE << rest >> \o Tail(s)
  OBVIOUS
<1>6. PICK d \in {0, 1} : \A i \in 1 .. Len(u) : /\ i + d \in 1 .. Len(s)
                                                 /\ u[i] \subseteq s[i + d]
                                                 /\ i + d = 1 => u[i] = rest
  BY ONLY <1>1, <1>4, <1>5, FinishedPin
<1>7. fw' = [fw EXCEPT ![o] = u] /\ fw \in [Node -> Seq(SUBSET Buf)]
  BY <1>2, <1>4, <1>5 DEF BufInv, BufType
<1>8. OneFirmware(o) /\ InFw(b, o)
  BY <1>1, <1>2, <1>3 DEF FwInv, Frames, InFw
<1>9. fw'[o] = u /\ \A p \in Node : p # o => fw'[p] = fw[p]
  BY <1>7
<1>10. Full(o)
  BY <1>3, <1>8 DEF OneFirmware, Fed
<1>11. \A c \in Buf : c # b => (Waiting(c) => Waiting(c)')
  <2> SUFFICES ASSUME NEW c \in Buf, c # b, Waiting(c) PROVE Waiting(c)'
    OBVIOUS
  <2>1. NodeOf(c) \in Node /\ active \in [Node -> SUBSET Buf]
    BY FiniteBuf DEF BufInv, BufType
  <2> QED
    BY <1>2, <2>1 DEF Waiting
<1>12. \A p \in Node : Fed(p)' <=> Fed(p)
  BY DEF BufReady, pipeline, locals, Fed, Full, Live
<1>13. ASSUME NEW p \in Node, p # o PROVE OneFirmware(p)'
  <2>1. \A c \in Buf : ~ InFw(c, p)
    BY <1>10, <1>13, NothingInFw DEF Full
  <2>2. \A c \in Buf : ~ InFw(c, p)'
    BY <1>9, <1>13, <2>1 DEF InFw
  <2> QED
    BY <2>2 DEF OneFirmware, NoBufTwice, InFw
<1>14. OneFirmware(o)'
  <2>1. NoBufTwice(o) /\ \A i \in 1 .. Len(s) : b \in s[i] => i = 1
    BY <1>1, <1>2, <1>3, <1>8 DEF OneFirmware, NoBufTwice
  <2>2. NoBufTwice(o)'
    <3> SUFFICES ASSUME NEW i \in 1 .. Len(u), NEW j \in 1 .. Len(u), NEW c \in Buf, c \in u[i], c \in u[j]
                 PROVE  i = j
      BY <1>9 DEF NoBufTwice
    <3>1. i + d \in 1 .. Len(s) /\ j + d \in 1 .. Len(s) /\ c \in s[i + d] /\ c \in s[j + d]
      BY <1>6
    <3>2. i + d = j + d
      BY <1>1, <2>1, <3>1 DEF NoBufTwice
    <3>3. i \in Int /\ j \in Int /\ d \in Int
      OBVIOUS
    <3> QED
      BY <3>2, <3>3
  <2>3. ASSUME NEW c \in Buf, InFw(c, o)' PROVE Waiting(c)' /\ Fed(o)'
    <3>1. PICK i \in 1 .. Len(u) : c \in u[i]
      BY <1>9, <2>3 DEF InFw
    <3>2. i + d \in 1 .. Len(s) /\ c \in s[i + d] /\ (i + d = 1 => c \in rest)
      BY <1>6, <3>1
    <3>3. c # b
      BY <1>4, <2>1, <3>2
    <3>4. InFw(c, o)
      BY <1>1, <3>2 DEF InFw
    <3> QED
      BY <1>8, <1>11, <1>12, <3>3, <3>4 DEF OneFirmware
  <2> QED
    BY <2>2, <2>3 DEF OneFirmware
<1> QED
  BY <1>13, <1>14 DEF Frames

\* The frames of the firmware wait, whatever step is taken.
THEOREM FwInvStep ==
  ASSUME StartsTogether, "buf" \notin FailingStarts, ~ MsgMayRunOut,
         Ctl, Ctl', BufInv, BufInv', FwInv, [Next]_vars
  PROVE  FwInv'
<1>1. CASE UNCHANGED vars
  <2>1. UNCHANGED << fw, active, pipeline, locals, pc >>
    BY <1>1 DEF vars, buffers
  <2>2. Frames'
    BY <2>1, FramesStay DEF pipeline, locals, Waiting, Fed, Full, Live
  <2>3. Fills'
    BY <2>1 DEF pipeline, locals, FwInv, Fills, OneFill
  <2> QED
    BY <2>2, <2>3 DEF FwInv
<1> SUFFICES ASSUME Next PROVE Frames'
  BY <1>1, FillsStep DEF FwInv
<1>t. \A q \in Node : S(q) \in Thread /\ B(q) \in Thread
  BY Threads
<1>2. CASE \/ \E t \in Thread : StreamStartFails(t) \/ GivenUp(t)
           \/ \E q \in Node : \/ StopFlushed(q) \/ StartPrepareFails(q) \/ StartUndone(q)
                              \/ StopFindsNone(q) \/ StopReturns(q)
  BY <1>2, EndsFrames DEF BufInv
<1>3. CASE \E t \in Thread : StreamStarts(t)
  BY <1>3, StartsFrames
<1>4. CASE ~ \/ \E t \in Thread : StreamStartFails(t) \/ GivenUp(t) \/ StreamStarts(t)
             \/ \E q \in Node : \/ StopFlushed(q) \/ StartPrepareFails(q) \/ StartUndone(q)
                                \/ StopFindsNone(q) \/ StopReturns(q)
  <2>1. \A o \in Node : Fed(o) => Fed(o)'
    BY <1>4, FedKept
  <2>2. ASSUME UNCHANGED << active, fw >> PROVE Frames'
    BY <2>1, <2>2, FramesStay DEF Waiting
  <2>3. ASSUME NEW q \in Node, QBuf(q) \/ StreamOn(q) \/ StreamOff(q) PROVE Frames'
    BY <2>2, <2>3 DEF QBuf, StreamOn, StreamOff, buffers
  <2>4. ASSUME NEW t \in Thread, StreamStart(t) PROVE Frames'
    <3>1. CASE StreamStarted(t) \/ FillEnds(t)
      BY <2>2, <3>1 DEF StreamStarted, FillEnds, buffers
    <3>2. CASE FillCaptures(t)
      BY <2>1, <3>2, CapturesFrames
    <3> QED
      BY <1>4, <2>4, <3>1, <3>2 DEF StreamStart, GivenUp, FillNoMsg, MsgRunsOut
  <2>5. ASSUME NEW q \in Node, QueueStep(q) PROVE Frames'
    <3>1. CASE QBufRelocks(q) \/ QBufWaits(q) \/ QBufStarts(q)
      BY <2>2, <3>1 DEF QBufRelocks, QBufWaits, QBufStarts, buffers
    <3>2. CASE QBufCaptures(q)
      BY <2>1, <3>2, CapturesFrames
    <3> QED
      BY <1>t, <2>4, <2>5, <3>1, <3>2 DEF QueueStep, QBufNoMsg, MsgRunsOut
  <2>6. ASSUME NEW q \in Node, StreamStep(q) PROVE Frames'
    <3>1. CASE \/ StartWaits(q) \/ StartPrepares(q) \/ StartFindsPipeline(q) \/ StartJoins(q)
               \/ StopWaits(q) \/ StopLocks(q) \/ StopFlushes(q) \/ StopLeaves(q)
      <4>1. UNCHANGED << active, fw >>
        BY <3>1 DEF StartWaits, StartPrepares, StartFindsPipeline, StartJoins, StopWaits,
                    StopLocks, StopFlushes, StopLeaves, buffers
      <4> QED
        BY <2>2, <4>1
    <3> QED
      BY <1>4, <1>t, <2>4, <2>6, <3>1 DEF StreamStep
  <2>7. ASSUME NEW o \in Node, BufReady(o) PROVE Frames'
    BY <2>7, ReadyFrames
  <2>8. ASSUME NEW o \in Node, LateReady(o) PROVE Frames'
    BY <2>2, <2>8 DEF LateReady
  <2> QED
    BY <2>3, <2>5, <2>6, <2>7, <2>8 DEF Next
<1> QED
  BY <1>2, <1>3, <1>4

\* The firmware has no frames when the driver is loaded.
THEOREM FwInvInit == Init => FwInv
<1> SUFFICES ASSUME Init PROVE FwInv
  OBVIOUS
<1>1. \A o \in Node : fw[o] = << >> /\ Len(fw[o]) = 0
  BY DEF Init
<1>2. Frames
  BY <1>1 DEF Frames, OneFirmware, NoBufTwice, InFw
<1>3. Fills
  BY DEF Init, Fills, OneFill
<1> QED
  BY <1>2, <1>3 DEF FwInv

\* The firmware writes only to buffers that wait for it on an active list, as
\* long as messages are to be had: see FirmwareBuffersActive.
THEOREM WritesToWaiting ==
  ASSUME StartsTogether, "buf" \notin FailingStarts, ~ MsgMayRunOut
  PROVE  Spec => []FirmwareBuffersActive
<1>1. Init => Ctl /\ BufInv /\ FwInv
  BY CtlInit, BufInvInit, FwInvInit
<1>2. Ctl /\ BufInv /\ FwInv /\ [Next]_vars => (Ctl /\ BufInv /\ FwInv)'
  BY CtlStep, BufInvStep, FwInvStep
<1>3. Ctl /\ BufInv /\ FwInv => FirmwareBuffersActive
  <2> SUFFICES ASSUME BufInv, FwInv, NEW o \in Node, NEW i \in DOMAIN fw[o], NEW b \in fw[o][i]
               PROVE  b \in active[NodeOf(b)]
    BY DEF FirmwareBuffersActive
  <2>1. fw[o] \in Seq(SUBSET Buf) /\ i \in 1 .. Len(fw[o])
    BY DEF BufInv, BufType
  <2>2. b \in Buf /\ InFw(b, o)
    BY <2>1 DEF InFw
  <2> QED
    BY <2>2 DEF FwInv, Frames, OneFirmware, Waiting
<1> QED
  BY <1>1, <1>2, <1>3, PTL DEF Spec
-----------------------------------------------------------------------------
(* No complete frame is left lying *)

\* Does a thread start the stream of pipeline o, or is a buffer of it under way
\* between buf_queue() and the pipeline?
StreamStarting(o) == \E t \in Thread : pc[t] \in StartPhase /\ ipOf[t] = o
Pending(o) == {r \in Node : \/ pc[B(r)] = "relock" /\ sawPipe[r]
                            \/ pc[B(r)] = "submit" /\ ipOf[B(r)] = o}

\* Some node has no more buffers on incoming than there are threads coming
\* for one.
OneStall(o) ==
  Full(o) /\ ~ StreamStarting(o) => \E q \in Node : Len(incoming[q]) <= Cardinality(Pending(o))
StallInv == sawPipe \in [Node -> BOOLEAN] /\ \A o \in Node : OneStall(o)

LEMMA PendingCount ==
  ASSUME NEW o \in Node
  PROVE  /\ Pending(o) \in SUBSET Node /\ Pending(o)' \in SUBSET Node
         /\ Cardinality(Pending(o)) \in Nat /\ Cardinality(Pending(o)') \in Nat
<1>1. Pending(o) \in SUBSET Node /\ Pending(o)' \in SUBSET Node
  BY DEF Pending
<1> QED
  BY <1>1, SubsetFacts

LEMMA MorePending ==
  ASSUME NEW X \in SUBSET Node, NEW Y \in SUBSET Node, X \subseteq Y
  PROVE  Cardinality(X) <= Cardinality(Y)
<1>1. IsFiniteSet(Y)
  BY SubsetFacts
<1> QED
  BY <1>1, FS_Subset

LEMMA Lengths ==
  ASSUME BufType, NEW q \in Node
  PROVE  /\ Len(incoming[q]) \in Nat
         /\ incoming[q] = << >> => Len(incoming[q]) = 0
         /\ incoming[q] # << >> => Len(Tail(incoming[q])) = Len(incoming[q]) - 1
<1>1. PICK s : s = incoming[q]
  OBVIOUS
<1>2. s \in Seq(BufsOf(q))
  BY <1>1 DEF BufType, IsList
<1>3. /\ Len(s) \in Nat
      /\ s = << >> => Len(s) = 0
      /\ s # << >> => Len(Tail(s)) = Len(s) - 1
  BY <1>2
<1> QED
  BY <1>1, <1>3

\* A list with one buffer more.
LEMMA OneLonger ==
  ASSUME NEW X, NEW s, s \in Seq(X), NEW v, v \in Seq(X), Len(v) = 1
  PROVE  Len(s \o v) = Len(s) + 1
<1>1. Len(s \o v) = Len(s) + Len(v)
  BY ConcatProperties
<1> QED
  BY <1>1

LEMMA AddedLength ==
  ASSUME BufType, NEW q \in Node, NEW b \in BufsOf(q)
  PROVE  Len(Added(incoming[q], {b})) = Len(incoming[q]) + 1
<1> DEFINE w == SetToSeq({b})
<1>1. IsFiniteSet({b}) /\ Cardinality({b}) = 1
  BY FS_Singleton, Zenon
<1>2. IsList(w, BufsOf(q)) /\ In(w) = {b}
  BY <1>1, SetList
<1>3. PICK s : s = incoming[q]
  OBVIOUS
<1>4. s \in Seq(BufsOf(q))
  BY <1>3 DEF BufType, IsList
<1>5. PICK v : v = w
  OBVIOUS
<1>6. v \in Seq(BufsOf(q)) /\ NoTwice(v) /\ In(v) = {b}
  BY <1>2, <1>5 DEF IsList
<1> HIDE DEF w
<1>7. Len(v) = 1
  <2>1. PICK n \in Nat : n = Len(v)
    BY <1>6
  <2>2. \A i \in 1 .. n : v[i] = b
    BY <1>6, <2>1 DEF In
  <2>3. n # 0
    BY <1>6, <2>1 DEF In
  <2>4. ~ n > 1
    <3> SUFFICES ASSUME n > 1 PROVE FALSE
      OBVIOUS
    <3>1. 1 \in 1 .. n /\ 2 \in 1 .. n
      OBVIOUS
    <3>2. 1 = 2
      BY <1>6, <2>1, <2>2, <3>1 DEF NoTwice
    <3> QED
      BY <3>2
  <2>5. n = 1
    BY <2>3, <2>4
  <2> QED
    BY <2>1, <2>5
<1>8. Len(s \o v) = Len(s) + 1
  BY ONLY <1>4, <1>6, <1>7, OneLonger
<1>9. Added(incoming[q], {b}) = s \o v
  BY <1>3, <1>5, Zenon DEF Added, w
<1>10. Len(Added(incoming[q], {b})) = Len(s \o v)
  BY ONLY <1>9, Zenon
<1>11. Len(incoming[q]) = Len(s)
  BY ONLY <1>3, Zenon
<1> QED
  BY ONLY <1>8, <1>10, <1>11, Zenon

\* A thread that starts a stream goes on unless the step is its own.
LEMMA StartingStays ==
  ASSUME Ctl, Next, NEW o \in Node, StreamStarting(o),
         \A t \in Thread : StreamStart(t) /\ ipOf[t] = o => pc'[t] \in StartPhase /\ UNCHANGED ipOf
  PROVE  StreamStarting(o)'
<1>1. PICK t \in Thread : pc[t] \in StartPhase /\ ipOf[t] = o
  BY DEF StreamStarting
<1>2. CASE StreamStart(t)
  BY <1>1, <1>2 DEF StreamStarting
<1>3. CASE ~ StreamStart(t)
  <2>1. pc'[t] = pc[t] /\ ipOf'[t] = ipOf[t]
    BY <1>1, <1>3, RunsKept DEF Undisturbed
  <2> QED
    BY <1>1, <2>1 DEF StreamStarting
<1> QED
  BY <1>2, <1>3

\* The queues get no longer, and nobody who was coming gives up.
LEMMA StallStays ==
  ASSUME BufType, BufType', NEW o \in Node, OneStall(o), Full(o)' => Full(o),
         StreamStarting(o) => StreamStarting(o)', \A q \in Node : incoming'[q] = incoming[q],
         Full(o) => Pending(o) \subseteq Pending(o)'
  PROVE  OneStall(o)'
<1> SUFFICES ASSUME Full(o)', ~ StreamStarting(o)'
             PROVE  \E q \in Node : Len(incoming'[q]) <= Cardinality(Pending(o)')
  BY DEF OneStall
<1>1. PICK q \in Node : Len(incoming[q]) <= Cardinality(Pending(o))
  BY DEF OneStall
<1>2. Cardinality(Pending(o)) <= Cardinality(Pending(o)')
  BY PendingCount, MorePending
<1>3. Len(incoming'[q]) = Len(incoming[q])
  OBVIOUS
<1> QED
  BY <1>1, <1>2, <1>3, PendingCount, Lengths

\* A queue is empty.
LEMMA StallEmpty ==
  ASSUME BufType', NEW o \in Node, NEW q \in Node, incoming'[q] = << >>
  PROVE  OneStall(o)'
<1>1. Len(incoming'[q]) = 0
  BY DEF BufType, IsList
<1> QED
  BY <1>1, PendingCount DEF OneStall

\* All nodes stream in a complete pipeline.
LEMMA FullMeans ==
  ASSUME Ctl, NEW o \in Node, Full(o)
  PROVE  /\ \A q \in Node : pipe[q] = o /\ ssc[q] /\ pc[S(q)] \notin OnPhase
         /\ ip[o].nrStreaming = N /\ ip[o].nrQueues = N
         /\ \A p \in Node : Full(p) => p = o
         /\ \A p \in Node : p # o /\ ip[p].nrStreaming = ip[p].nrQueues => ip[p].queues = {}
<1>1. OnePipeline(o) /\ ip[o].queues = Node /\ Live(o)
  BY DEF Ctl, Pipelines, Full
<1>2. \A q \in Node : pipe[q] = o
  BY <1>1 DEF OnePipeline
<1>3. \A q \in Node : ssc[q] /\ pc[S(q)] \notin OnPhase
  BY <1>1 DEF Ctl, Nodes, OneNode
<1>4. ip[o].nrStreaming = N /\ ip[o].nrQueues = N
  BY <1>1 DEF OnePipeline, N
<1>5. \A p \in Node : Live(p) => p = o
  BY <1>1 DEF OnePipeline
<1>6. \A p \in Node : p # o /\ ip[p].nrStreaming = ip[p].nrQueues => ip[p].queues = {}
  BY <1>5, Complete DEF Full
<1> QED
  BY <1>2, <1>3, <1>4, <1>5, <1>6 DEF Full

\* What is full after a step.
LEMMA FullNext ==
  ASSUME Ctl', NEW o \in Node, Full(o)'
  PROVE  /\ \A q \in Node : pipe'[q] = o /\ ssc'[q] /\ pc'[S(q)] \notin OnPhase
         /\ ip'[o].nrStreaming = N /\ ip'[o].nrQueues = N
<1>1. OnePipeline(o)' /\ ip'[o].queues = Node /\ Live(o)'
  BY DEF Ctl, Pipelines, Full
<1>2. \A q \in Node : pipe'[q] = o
  BY <1>1 DEF OnePipeline
<1>3. \A q \in Node : ssc'[q] /\ pc'[S(q)] \notin OnPhase
  BY <1>1 DEF Ctl, Nodes, OneNode
<1>4. ip'[o].nrStreaming = N /\ ip'[o].nrQueues = N
  BY <1>1 DEF OnePipeline, N
<1> QED
  BY <1>2, <1>3, <1>4

\* A step of a thread that is not about to submit, nor to take anything.
LEMMA StallMoves ==
  ASSUME Ctl, BufType, BufType', StallInv, UNCHANGED << ip, incoming, sawPipe >>,
         \/ UNCHANGED << pc, ipOf >>
         \/ \E u \in Thread :
              /\ pc[u] \notin {"relock", "submit"} \cup StartPhase
              /\ \E s : pc' = [pc EXCEPT ![u] = s]
              /\ UNCHANGED ipOf \/ \E x : ipOf' = [ipOf EXCEPT ![u] = x]
  PROVE  StallInv'
<1> SUFFICES ASSUME NEW o \in Node PROVE OneStall(o)'
  BY DEF StallInv
<1>1. \A t \in Thread : pc[t] \in {"relock", "submit"} \cup StartPhase =>
                          pc'[t] = pc[t] /\ ipOf'[t] = ipOf[t]
  <2>1. CASE ~ UNCHANGED << pc, ipOf >>
    <3>1. PICK u \in Thread :
            /\ pc[u] \notin {"relock", "submit"} \cup StartPhase
            /\ \E s : pc' = [pc EXCEPT ![u] = s]
            /\ UNCHANGED ipOf \/ \E x : ipOf' = [ipOf EXCEPT ![u] = x]
      BY <2>1
    <3>2. \A t \in Thread : t # u => pc'[t] = pc[t]
      <4>1. PICK s : pc' = [pc EXCEPT ![u] = s]
        BY <3>1
      <4> QED
        BY <4>1 DEF Ctl, CtlType
    <3>3. \A t \in Thread : t # u => ipOf'[t] = ipOf[t]
      BY <3>1 DEF Ctl, CtlType
    <3> QED
      BY <3>1, <3>2, <3>3
  <2> QED
    BY <2>1
<1>2. Pending(o) \subseteq Pending(o)'
  BY <1>1, Threads DEF Pending
<1>3. StreamStarting(o) => StreamStarting(o)'
  BY <1>1 DEF StreamStarting
<1>4. OneStall(o) /\ (Full(o)' => Full(o))
  BY DEF StallInv, Full, Live
<1> QED
  BY <1>2, <1>3, <1>4, StallStays

\* A step after which not all nodes stream.
LEMMA StallEnds ==
  ASSUME Ctl, Ctl', StallInv, NEW q \in Node,
         \/ StreamOn(q) \/ StartPrepares(q) \/ StartPrepareFails(q) \/ StartUndone(q)
         \/ StopFindsNone(q) \/ StopReturns(q) \/ StopFlushed(q) \/ StopLeaves(q)
  PROVE  StallInv'
<1>s. UNCHANGED sawPipe
  BY DEF StreamOn, StartPrepares, StartPrepareFails, StartUndone, StartFails, StopFindsNone,
         StopReturns, StopFlushed, StopLeaves, locals
<1> SUFFICES ASSUME NEW o \in Node, Full(o)' PROVE FALSE
  BY <1>s DEF StallInv, OneStall
<1>1. pipe'[q] = o /\ ssc'[q] /\ pc'[S(q)] \notin OnPhase
  BY FullNext
<1>2. S(q) \in Thread /\ NoNode # o
  BY Threads, QueueAssumption DEF QueueAssumption
<1>3. CASE StreamOn(q)
  <2>1. Full(o) /\ ~ ssc[q]
    BY <1>3 DEF StreamOn, pipeline, Full, Live
  <2> QED
    BY <2>1, FullMeans
<1>4. CASE StartPrepares(q)
  <2>1. pc' = [pc EXCEPT ![S(q)] = "onJoin"]
    BY <1>4 DEF StartPrepares, Goto
  <2>2. pc'[S(q)] = "onJoin"
    BY <1>2, <2>1 DEF Ctl, CtlType
  <2> QED
    BY <1>1, <2>2 DEF OnPhase
<1>5. CASE StartPrepareFails(q) \/ StartUndone(q) \/ StopFindsNone(q) \/ StopReturns(q)
  <2>1. ssc' = [ssc EXCEPT ![q] = FALSE]
    BY <1>5 DEF StartPrepareFails, StartUndone, StartFails, StopFindsNone, StopReturns, Cancel
  <2> QED
    BY <1>1, <2>1 DEF Ctl, CtlType
<1>6. CASE StopFlushed(q) \/ StopLeaves(q)
  <2>1. LeavePipeline(q, ipOf[S(q)])
    BY <1>6 DEF StopFlushed, StopLeaves
  <2>2. pipe'[q] = NoNode
    BY <2>1 DEF LeavePipeline, PipeAfterStop, Ctl, CtlType
  <2> QED
    BY <1>1, <1>2, <2>2
<1> QED
  BY <1>3, <1>4, <1>5, <1>6

\* A buffer is added, and its thread is on its way.
LEMMA QBufStall ==
  ASSUME Ctl, BufInv, BufInv', StallInv, NEW q \in Node, QBuf(q) PROVE StallInv'
<1>t. BufType /\ BufType' /\ B(q) \in Thread /\ pc[B(q)] = "idle"
      /\ UNCHANGED << ip, ipOf, pipe >>
  BY Threads DEF BufInv, QBuf, pipeline
<1>1. CASE ~ ssc[q]
  <2>1. UNCHANGED << pc, incoming, sawPipe >>
    BY <1>1 DEF QBuf
  <2> QED
    BY <1>t, <2>1, StallMoves
<1>2. CASE ssc[q]
  <2>1. PICK b \in BufsOf(q) :
          /\ Enqueue(q, {b}) /\ sawPipe' = [sawPipe EXCEPT ![q] = pipe[q] # NoNode]
          /\ pc' = [pc EXCEPT ![B(q)] = "relock"]
    BY <1>2 DEF QBuf, Goto
  <2>0. sawPipe \in [Node -> BOOLEAN] /\ sawPipe' \in [Node -> BOOLEAN]
    BY <2>1 DEF StallInv
  <2> SUFFICES ASSUME NEW o \in Node, Full(o)', ~ StreamStarting(o)'
               PROVE  \E r \in Node : Len(incoming'[r]) <= Cardinality(Pending(o)')
    BY <2>0 DEF StallInv, OneStall
  <2>2. Full(o) /\ pipe[q] = o /\ pipe[q] # NoNode
    BY <1>t, FullMeans, QueueAssumption DEF Full, Live, QueueAssumption
  <2>3. /\ pc'[B(q)] = "relock" /\ \A t \in Thread : t # B(q) => pc'[t] = pc[t]
        /\ sawPipe'[q] /\ \A r \in Node : r # q => sawPipe'[r] = sawPipe[r]
    BY <1>t, <2>0, <2>1, <2>2 DEF Ctl, CtlType
  <2>4. ~ StreamStarting(o)
    BY <1>t, <2>3 DEF StreamStarting, StartPhase
  <2>5. PICK r \in Node : Len(incoming[r]) <= Cardinality(Pending(o))
    BY <2>2, <2>4 DEF StallInv, OneStall
  <2>6. q \notin Pending(o)
    BY <1>t DEF Pending
  <2>7. Pending(o)' = Pending(o) \cup {q}
    <3>1. \A p \in Node : B(p) \in Thread /\ (B(p) = B(q) => p = q)
      BY Threads
    <3>2. q \in Pending(o)'
      BY <2>3 DEF Pending
    <3>3. ASSUME NEW x \in Node, x # q PROVE x \in Pending(o)' <=> x \in Pending(o)
      BY <1>t, <2>3, <3>1, <3>3 DEF Pending
    <3>4. Pending(o) \in SUBSET Node /\ Pending(o)' \in SUBSET Node
      BY PendingCount
    <3> QED
      BY <3>2, <3>3, <3>4
  <2>8. Cardinality(Pending(o)') = Cardinality(Pending(o)) + 1
    <3>1. PICK X \in SUBSET Node : X = Pending(o)
      BY PendingCount
    <3>2. Cardinality(X \cup {q}) = Cardinality(X) + 1
      BY <2>6, <3>1, SubsetFacts
    <3> QED
      BY <2>7, <3>1, <3>2
  <2>9. Len(incoming'[r]) \in {Len(incoming[r]), Len(incoming[r]) + 1}
    <3>1. incoming' = [incoming EXCEPT ![q] = Added(incoming[q], {b})]
      BY <2>1 DEF Enqueue
    <3>2. r = q => incoming'[r] = Added(incoming[q], {b})
      BY <1>t, <3>1 DEF BufType
    <3>3. r # q => incoming'[r] = incoming[r]
      BY <1>t, <3>1 DEF BufType
    <3>4. Len(Added(incoming[q], {b})) = Len(incoming[q]) + 1
      BY <1>t, AddedLength
    <3> QED
      BY <3>2, <3>3, <3>4
  <2>10. Len(incoming[r]) \in Nat /\ Cardinality(Pending(o)) \in Nat
    BY <1>t, Lengths, PendingCount
  <2>11. Len(incoming'[r]) <= Cardinality(Pending(o)')
    BY ONLY <2>5, <2>8, <2>9, <2>10
  <2> QED
    BY <2>11
<1> QED
  BY <1>1, <1>2

\* It goes on to the pipeline, or finds another thread at work or a queue empty.
LEMMA QBufRelocksStall ==
  ASSUME Ctl, BufInv, BufInv', StallInv, NEW q \in Node, QBufRelocks(q) PROVE StallInv'
<1>1. /\ B(q) \in Thread /\ pc[B(q)] = "relock" /\ UNCHANGED << ip, incoming, sawPipe >>
      /\ ipOf' = [ipOf EXCEPT ![B(q)] = pipe[q]] /\ BufType /\ BufType'
  BY Threads DEF QBufRelocks, buffers, pipeline, BufInv
<1>2. \A t \in Thread : t # B(q) => pc'[t] = pc[t] /\ ipOf'[t] = ipOf[t]
  BY <1>1 DEF QBufRelocks, Goto, Ctl, CtlType
<1> SUFFICES ASSUME NEW o \in Node PROVE OneStall(o)'
  BY <1>1 DEF StallInv
<1>3. Full(o)' => Full(o)
  BY <1>1 DEF Full, Live
<1>4. StreamStarting(o) => StreamStarting(o)'
  BY <1>1, <1>2 DEF StreamStarting, StartPhase
<1>5. ASSUME Full(o), NEW r \in Pending(o) PROVE r \in Pending(o)'
  <2>1. r \in Node /\ (B(r) = B(q) => r = q) /\ B(r) \in Thread
    BY Threads DEF Pending
  <2>2. CASE r = q
    <3>1. sawPipe[q] /\ ssc[q] /\ pipe[q] = o /\ o # NoNode
      BY <1>1, <1>5, <2>2, FullMeans, QueueAssumption DEF Pending, QueueAssumption
    <3>2. pc'[B(q)] = "submit" /\ ipOf'[B(q)] = o
      BY <1>1, <3>1 DEF QBufRelocks, Goto, Ctl, CtlType
    <3> QED
      BY <2>1, <2>2, <3>2 DEF Pending
  <2>3. CASE r # q
    BY <1>1, <1>2, <2>1, <2>3 DEF Pending
  <2> QED
    BY <2>2, <2>3
<1>6. Full(o) => Pending(o) \subseteq Pending(o)'
  BY <1>5
<1> QED
  BY <1>1, <1>3, <1>4, <1>6, StallStays DEF StallInv

\* A thread takes a frame of pipeline o: what becomes of another one.
LEMMA StallElsewhere ==
  ASSUME Ctl, BufType, BufType', StallInv, NEW o \in Node, NEW u \in Thread, ipOf[u] = o,
         pc[u] \in {"submit"} \cup StartPhase, pc' = [pc EXCEPT ![u] = pc'[u]] \/ UNCHANGED pc,
         UNCHANGED << ipOf, sawPipe >>,
         \A p \in Node : p # o => ip'[p] = ip[p],
         Full(o) \/ \A q \in Node : incoming'[q] = incoming[q],
         NEW p \in Node, p # o
  PROVE  OneStall(p)'
<1>1. Full(p)' => Full(p)
  BY DEF Full, Live
<1>2. CASE Full(o)
  <2>1. ~ Full(p)
    BY <1>2, FullMeans
  <2> QED
    BY <1>1, <2>1 DEF OneStall
<1>3. CASE \A q \in Node : incoming'[q] = incoming[q]
  <2>1. \A t \in Thread : t # u => pc'[t] = pc[t]
    BY DEF Ctl, CtlType
  <2>2. Pending(p) \subseteq Pending(p)'
    <3> SUFFICES ASSUME NEW r \in Pending(p) PROVE r \in Pending(p)'
      OBVIOUS
    <3>1. r \in Node /\ B(r) \in Thread /\ pc[B(r)] \in {"relock", "submit"}
      BY Threads DEF Pending
    <3>2. B(r) # u
      BY <3>1 DEF Pending, StartPhase
    <3> QED
      BY <2>1, <3>1, <3>2 DEF Pending
  <2>3. StreamStarting(p) => StreamStarting(p)'
    BY <2>1 DEF StreamStarting
  <2> QED
    BY <1>1, <1>3, <2>2, <2>3, StallStays DEF StallInv
<1> QED
  BY <1>2, <1>3

\* Taking a frame of no nodes takes nothing.
LEMMA NothingTakenHere ==
  ASSUME TakeList({}) PROVE \A q \in Node : incoming'[q] = incoming[q]
BY DEF TakeList

LEMMA QBufEndsStall ==
  ASSUME Ctl, BufInv, BufInv', StallInv, NEW q \in Node,
         QBufWaits(q) \/ QBufStarts(q) \/ QBufCaptures(q)
  PROVE  StallInv'
<1>1. PICK o \in Node : o = ipOf[B(q)] /\ ip[o].queues \in SUBSET Node
  BY Submitted DEF QBufWaits, QBufStarts, QBufCaptures
<1>2. /\ B(q) \in Thread /\ pc[B(q)] = "submit" /\ UNCHANGED << ip, ipOf, sawPipe >>
      /\ pc' = [pc EXCEPT ![B(q)] = pc'[B(q)]] /\ BufType /\ BufType'
  BY Threads DEF QBufWaits, QBufStarts, QBufCaptures, pipeline, locals, BufInv, Goto, Ctl, CtlType
<1>3. Full(o) \/ \A r \in Node : incoming'[r] = incoming[r]
  <2>1. CASE QBufWaits(q)
    BY <2>1 DEF QBufWaits, buffers
  <2>2. CASE QBufStarts(q) \/ QBufCaptures(q)
    <3>1. ip[o].nrStreaming = ip[o].nrQueues /\ TakeList(ip[o].queues)
      BY <1>1, <2>2 DEF QBufStarts, QBufCaptures, SubmitReady
    <3> QED
      BY <3>1, Complete, NothingTakenHere
  <2> QED
    BY <2>1, <2>2
<1> SUFFICES ASSUME NEW p \in Node PROVE OneStall(p)'
  BY <1>2 DEF StallInv
<1>4. CASE p # o
  BY <1>1, <1>2, <1>3, <1>4, StallElsewhere
<1>5. CASE p = o
  <2> SUFFICES ASSUME Full(o) PROVE OneStall(o)'
    BY <1>2, <1>5 DEF OneStall, Full, Live
  <2>1. ip[o].queues = Node /\ ip[o].nrStreaming = ip[o].nrQueues
    BY FullMeans DEF Full
  <2>2. CASE QBufWaits(q)
    <3>1. ~ ListReady(Node) /\ UNCHANGED incoming
      BY <1>1, <2>1, <2>2 DEF QBufWaits, SubmitReady, buffers
    <3>2. PICK r \in Node : incoming'[r] = << >>
      BY <3>1 DEF ListReady
    <3> QED
      BY <1>2, <3>2, StallEmpty
  <2>3. CASE QBufStarts(q)
    <3>1. pc'[B(q)] = "start"
      BY <1>2, <2>3 DEF QBufStarts, Goto, Ctl, CtlType
    <3> QED
      BY <1>1, <1>2, <3>1 DEF OneStall, StreamStarting, StartPhase
  <2>4. CASE QBufCaptures(q)
    <3> SUFFICES ASSUME ~ StreamStarting(o)'
                 PROVE  \E r \in Node : Len(incoming'[r]) <= Cardinality(Pending(o)')
      BY DEF OneStall
    <3>1. pc'[B(q)] = "idle" /\ \A t \in Thread : t # B(q) => pc'[t] = pc[t]
      BY <1>2, <2>4 DEF QBufCaptures, Goto, Ctl, CtlType
    <3>2. ~ StreamStarting(o)
      BY <1>2, <3>1 DEF StreamStarting, StartPhase
    <3>3. PICK r \in Node : Len(incoming[r]) <= Cardinality(Pending(o))
      BY <3>2 DEF StallInv, OneStall
    <3>4. ListReady(Node) /\ TakeList(Node)
      BY <1>1, <2>1, <2>4 DEF QBufCaptures, SubmitReady
    <3>5. incoming[r] # << >> /\ incoming'[r] = Tail(incoming[r])
      BY <3>4 DEF ListReady, TakeList
    <3>6. Len(incoming'[r]) = Len(incoming[r]) - 1
      BY <1>2, <3>5, Lengths
    <3>7. PICK X \in SUBSET Node : X = Pending(o)
      BY PendingCount
    <3>8. q \in X
      BY <1>1, <1>2, <3>7 DEF Pending
    <3>9. PICK Y \in SUBSET Node : Y = Pending(o)'
      BY PendingCount
    <3>10. X \ {q} \subseteq Y
      <4> SUFFICES ASSUME NEW x \in X, x # q PROVE x \in Y
        OBVIOUS
      <4>1. B(x) \in Thread /\ B(x) # B(q)
        BY Threads
      <4> QED
        BY <1>2, <3>1, <3>7, <3>9, <4>1 DEF Pending
    <3>11. Cardinality(X \ {q}) = Cardinality(X) - 1
      BY <3>8, SubsetFacts
    <3>12. Cardinality(X \ {q}) <= Cardinality(Y)
      BY <3>10, MorePending
    <3>13. Len(incoming[r]) \in Nat /\ Cardinality(X) \in Nat /\ Cardinality(Y) \in Nat
      BY <1>2, <3>7, <3>9, Lengths, PendingCount
    <3>14. Len(incoming'[r]) <= Cardinality(Y)
      <4>1. Len(incoming[r]) <= Cardinality(X)
        BY <3>3, <3>7
      <4> QED
        BY ONLY <4>1, <3>6, <3>11, <3>12, <3>13
    <3> QED
      BY <3>9, <3>14
  <2> QED
    BY <2>2, <2>3, <2>4
<1> QED
  BY <1>4, <1>5

\* The stream starts, or does not.
LEMMA StreamStartStall ==
  ASSUME "buf" \notin FailingStarts, ~ MsgMayRunOut, ~ SendMayFail,
         Ctl, Ctl', BufInv, BufInv', StallInv, NEW t \in Thread, StreamStart(t)
  PROVE  StallInv'
<1>0. pc[t] \in StartPhase /\ ~ FillNoMsg(t)
  BY DEF StreamStart, StreamStartFails, StreamStarts, StreamNotStarted, StreamNotAcknowledged,
     SensorFails, StreamStarted, FillCaptures,
         FillNoMsg, FillEnds, StartPhase, MsgRunsOut
<1>1. PICK o \in Node : o = ipOf[t] /\ OneRun(t) /\ ip[o].queues \in SUBSET Node
  BY <1>0 DEF Ctl, CtlType, Runs, OneRun
<1>2. Full(o) \/ ip[o].queues = {}
  BY <1>0, <1>1 DEF OneRun, Full, Live
<1>3. BufType /\ BufType' /\ ip \in [Node -> IpRecord]
  BY DEF BufInv, Ctl, CtlType, IpRecord
<1>4. CASE StreamStartFails(t) \/ GivenUp(t)
  <2>1. t[2] # "buf" /\ StartUnwinds(t) /\ UNCHANGED sawPipe
    BY <1>4 DEF StreamStartFails, StreamNotStarted, GivenUp, StreamNotAcknowledged, SensorFails,
       locals
  <2>2. PICK q \in Node : t = S(q) /\ t # B(q) /\ t[1] = q
    BY <2>1, Threads
  <2>3. Full(o) /\ q \in ip[o].queues
    BY <1>0, <1>1, <2>2, Running
  <2>4. ip' = [ip EXCEPT ![o] = Without(ip[o], q)]
    BY <1>1, <2>1, <2>2 DEF StartUnwinds
  <2>5. q \notin ip'[o].queues
    <3>1. ip'[o] = Without(ip[o], q) /\ ip[o] \in IpRecord
      BY <1>3, <2>4
    <3>2. Without(ip[o], q) = [ip[o] EXCEPT !.nrStreaming = ip[o].nrStreaming - 1,
                                            !.queues = ip[o].queues \ {q}]
      BY DEF Without
    <3> QED
      BY <3>1, <3>2 DEF IpRecord
  <2> SUFFICES ASSUME NEW p \in Node, Full(p)' PROVE FALSE
    BY <2>1 DEF StallInv, OneStall
  <2>6. p # o
    BY <2>5 DEF Full
  <2>7. Full(p)
    BY <2>4, <2>6 DEF Full, Live
  <2> QED
    BY <2>3, <2>6, <2>7, FullMeans
<1>5. CASE StreamStarts(t) \/ StreamStarted(t) \/ FillCaptures(t) \/ FillEnds(t)
  <2>1. /\ UNCHANGED << ipOf, sawPipe >> /\ \A p \in Node : p # o => ip'[p] = ip[p]
        /\ pc' = [pc EXCEPT ![t] = pc'[t]] \/ UNCHANGED pc
    BY <1>1, <1>3, <1>5 DEF StreamStarts, StreamStarted, FillCaptures, FillEnds, pipeline, locals,
                            Goto, Ctl, CtlType
  <2>2. Full(o) \/ \A r \in Node : incoming'[r] = incoming[r]
    <3>1. UNCHANGED incoming \/ TakeList(ip[o].queues)
      BY <1>1, <1>5 DEF StreamStarts, StreamStarted, FillCaptures, FillEnds, buffers
    <3> QED
      BY <1>2, <3>1, NothingTakenHere
  <2>3. ASSUME NEW p \in Node, p # o PROVE OneStall(p)'
    BY <1>0, <1>1, <1>3, <2>1, <2>2, <2>3, StallElsewhere
  <2>4. OneStall(o)'
    <3>1. CASE StreamStarts(t) \/ StreamStarted(t) \/ FillCaptures(t)
      <4>1. pc'[t] \in StartPhase
        BY <3>1 DEF StreamStarts, StreamStarted, FillCaptures, Goto, StartPhase, Ctl, CtlType
      <4> QED
        BY <1>1, <2>1, <4>1 DEF OneStall, StreamStarting
    <3>2. CASE FillEnds(t)
      <4>1. ~ ListReady(ip[o].queues) /\ UNCHANGED incoming
        BY <1>1, <3>2 DEF FillEnds, buffers
      <4>2. PICK r \in Node : incoming'[r] = << >>
        BY <1>1, <4>1 DEF ListReady
      <4> QED
        BY <1>3, <4>2, StallEmpty
    <3> QED
      BY <1>5, <3>1, <3>2
  <2> QED
    BY <2>1, <2>3, <2>4 DEF StallInv
<1> QED
  BY <1>0, <1>4, <1>5 DEF StreamStart, GivenUp

\* The last queue to come starts the stream, or one of them is empty.
LEMMA StartJoinsStall ==
  ASSUME Ctl, Ctl', BufInv, BufInv', StallInv, NEW q \in Node, StartJoins(q)
  PROVE  StallInv'
<1>1. /\ S(q) \in Thread /\ pc[S(q)] = "onJoin" /\ UNCHANGED << ipOf, sawPipe >>
      /\ ip \in [Node -> IpRecord] /\ BufType /\ BufType'
  BY Threads DEF StartJoins, locals, Ctl, CtlType, IpRecord, BufInv
<1>2. PICK o \in Node : o = ipOf[S(q)]
  BY <1>1 DEF Ctl, Nodes, OneNode
<1> SUFFICES ASSUME NEW p \in Node, Full(p)', ~ StreamStarting(p)' PROVE OneStall(p)'
  BY <1>1 DEF StallInv, OneStall
<1>3. PICK queues \in SUBSET Node : queues = ip[o].queues \cup {q}
  BY <1>1 DEF IpRecord
<1>4. ip' = [ip EXCEPT ![o].nrStreaming = @ + 1, ![o].queues = queues]
  BY <1>2, <1>3 DEF StartJoins
<1>5. p = o
  <2> SUFFICES ASSUME p # o PROVE FALSE
    OBVIOUS
  <2>1. Full(p)
    BY <1>1, <1>4 DEF Full, Live
  <2> QED
    BY <1>1, <2>1, FullMeans DEF OnPhase
<1>6. ip[o].nrStreaming + 1 = ip[o].nrQueues
  <2>1. ip'[o].nrStreaming = ip[o].nrStreaming + 1 /\ ip'[o].nrQueues = ip[o].nrQueues
    BY <1>1, <1>2, <1>4 DEF IpRecord
  <2> QED
    BY <1>5, <2>1, FullNext
<1>7. ~ ListReady(queues) /\ UNCHANGED incoming
  <2> SUFFICES ASSUME pc' = [pc EXCEPT ![S(q)] = "start"] PROVE FALSE
    BY <1>2, <1>3, <1>6 DEF StartJoins, Goto
  <2>1. pc'[S(q)] = "start" /\ ipOf'[S(q)] = o
    BY <1>1, <1>2 DEF Ctl, CtlType
  <2> QED
    BY <1>1, <1>5, <2>1 DEF StreamStarting, StartPhase
<1>8. PICK r \in Node : incoming'[r] = << >>
  BY <1>7 DEF ListReady
<1> QED
  BY <1>1, <1>8, StallEmpty

\* A complete frame is on somebody's mind, whatever step is taken.
LEMMA StallInvStep ==
  ASSUME "buf" \notin FailingStarts, ~ MsgMayRunOut, ~ SendMayFail,
         Ctl, Ctl', BufInv, BufInv', StallInv, [Next]_vars
  PROVE  StallInv'
<1>0. BufType /\ BufType'
  BY DEF BufInv
<1>1. CASE UNCHANGED vars
  <2>1. UNCHANGED << ip, incoming, sawPipe, pc, ipOf >>
    BY <1>1 DEF vars, buffers, pipeline, locals
  <2> QED
    BY <1>0, <2>1, StallMoves
<1>2. ASSUME NEW q \in Node, StreamOn(q) \/ QBuf(q) PROVE StallInv'
  BY <1>2, QBufStall, StallEnds
<1>3. ASSUME NEW q \in Node, StreamOff(q) PROVE StallInv'
  <2>1. S(q) \in Thread
    BY Threads
  <2>2. /\ UNCHANGED << ip, incoming, sawPipe, ipOf >> /\ pc[S(q)] = "idle"
        /\ \E s : pc' = [pc EXCEPT ![S(q)] = s]
    BY <1>3 DEF StreamOff, buffers, pipeline, locals, Goto
  <2>3. pc[S(q)] \notin {"relock", "submit"} \cup StartPhase
    BY <2>2 DEF StartPhase
  <2> QED
    BY <1>0, <2>1, <2>2, <2>3, StallMoves
<1>4. ASSUME NEW q \in Node, QueueStep(q) PROVE StallInv'
  <2>1. B(q) \in Thread
    BY Threads
  <2> QED
    BY <1>4, <2>1, QBufRelocksStall, QBufEndsStall, StreamStartStall DEF QueueStep, QBufNoMsg,
       MsgRunsOut
<1>5. ASSUME NEW q \in Node, StreamStep(q) PROVE StallInv'
  <2>1. S(q) \in Thread
    BY Threads
  <2>2. CASE StreamStart(S(q))
    BY <2>1, <2>2, StreamStartStall
  <2>3. CASE StartJoins(q)
    BY <2>3, StartJoinsStall
  <2>4. CASE \/ StartPrepares(q) \/ StartPrepareFails(q) \/ StartUndone(q)
             \/ StopFindsNone(q) \/ StopReturns(q) \/ StopFlushed(q) \/ StopLeaves(q)
    BY <2>4, StallEnds
  <2>5. CASE StartWaits(q) \/ StartFindsPipeline(q) \/ StopWaits(q) \/ StopLocks(q) \/ StopFlushes(q)
    <3>1. /\ UNCHANGED << ip, incoming, sawPipe >>
          /\ \E s : pc' = [pc EXCEPT ![S(q)] = s]
          /\ UNCHANGED ipOf \/ \E x : ipOf' = [ipOf EXCEPT ![S(q)] = x]
      BY <2>5 DEF StartWaits, StartFindsPipeline, StopWaits, StopLocks, StopFlushes, buffers,
         pipeline,
                  locals, Goto
    <3>2. pc[S(q)] \notin {"relock", "submit"} \cup StartPhase
      BY <2>5 DEF StartWaits, StartFindsPipeline, StopWaits, StopLocks, StopFlushes, StartPhase
    <3> QED
      BY <1>0, <2>1, <3>1, <3>2, StallMoves
  <2> QED
    BY <1>5, <2>2, <2>3, <2>4, <2>5 DEF StreamStep
<1>6. ASSUME NEW o \in Node, BufReady(o) \/ LateReady(o) PROVE StallInv'
  <2>1. UNCHANGED << ip, incoming, sawPipe, pc, ipOf >>
    BY <1>6 DEF BufReady, LateReady, pipeline, locals
  <2> QED
    BY <1>0, <2>1, StallMoves
<1> QED
  BY <1>1, <1>2, <1>3, <1>4, <1>5, <1>6 DEF Next

LEMMA StallInvInit == Init => StallInv
<1> SUFFICES ASSUME Init PROVE StallInv
  OBVIOUS
<1>1. sawPipe \in [Node -> BOOLEAN]
  BY DEF Init
<1>2. ASSUME NEW o \in Node PROVE ~ Full(o)
  BY DEF Init, Full, Live
<1> QED
  BY <1>1, <1>2 DEF StallInv, OneStall

\* No complete frame is left lying, as long as commands get to the firmware: see
\* NoStalledFrame.
THEOREM NothingStalled ==
  ASSUME StartsTogether, "buf" \notin FailingStarts, ~ MsgMayRunOut, ~ SendMayFail
  PROVE  Spec => []NoStalledFrame
<1>1. Init => Ctl /\ BufInv /\ StallInv
  BY CtlInit, BufInvInit, StallInvInit
<1>2. Ctl /\ BufInv /\ StallInv /\ [Next]_vars => (Ctl /\ BufInv /\ StallInv)'
  BY CtlStep, BufInvStep, StallInvStep
<1>3. Ctl /\ BufInv /\ StallInv => NoStalledFrame
  <2> SUFFICES ASSUME Ctl, BufInv, StallInv, NEW o \in Node,
                      ip[o].nrStreaming = ip[o].nrQueues, ip[o].nrQueues > 0, ListReady(ip[o].queues)
               PROVE  \E t \in Thread : pc[t] \in {"relock", "submit", "offStop"} \cup StartPhase
    BY DEF NoStalledFrame
  <2>1. Full(o)
    BY Complete
  <2>2. CASE StreamStarting(o)
    BY <2>2 DEF StreamStarting
  <2>3. CASE ~ StreamStarting(o)
    <3>1. PICK q \in Node : Len(incoming[q]) <= Cardinality(Pending(o))
      BY <2>1, <2>3 DEF StallInv, OneStall
    <3>2. incoming[q] # << >> /\ BufType
      BY <2>1 DEF Full, ListReady, BufInv
    <3>3. Len(incoming[q]) \in Nat /\ Len(incoming[q]) # 0
      <4>1. PICK s : s = incoming[q] /\ s \in Seq(BufsOf(q)) /\ s # << >>
        BY <3>2 DEF BufType, IsList
      <4> QED
        BY <4>1
    <3>4. PICK X \in SUBSET Node : X = Pending(o) /\ Cardinality(X) \in Nat
      BY PendingCount
    <3>5. X # {}
      <4>1. Cardinality(X) # 0
        BY <3>1, <3>3, <3>4
      <4> QED
        BY <4>1, SubsetFacts
    <3>6. PICK r \in Node : pc[B(r)] \in {"relock", "submit"}
      BY <3>4, <3>5 DEF Pending
    <3> QED
      BY <3>6, Threads
  <2> QED
    BY <2>2, <2>3
<1> QED
  BY <1>1, <1>2, <1>3, PTL DEF Spec
-----------------------------------------------------------------------------
(* The order of the buffers *)

LEMMA TailOrder ==
  ASSUME NEW X, NEW s, IsList(s, X), s # << >>
  PROVE  /\ InOrder(Tail(s)) \subseteq InOrder(s)
         /\ \A c \in In(Tail(s)) : << Head(s), c >> \in InOrder(s)
<1>1. /\ Len(s) \in Nat \ {0} /\ Head(s) = s[1] /\ Tail(s) \in Seq(X) /\ Len(Tail(s)) = Len(s) - 1
      /\ \A i \in 1 .. Len(s) - 1 : Tail(s)[i] = s[i + 1]
  BY DEF IsList
<1>2. \A i, j \in 1 .. Len(s) : i < j => << s[i], s[j] >> \in InOrder(s)
  BY DEF InOrder, In
<1>3. ASSUME NEW i \in 1 .. Len(s) - 1, NEW j \in 1 .. Len(s) - 1, i < j
      PROVE  << Tail(s)[i], Tail(s)[j] >> \in InOrder(s)
  <2>1. /\ Tail(s)[i] = s[i + 1] /\ Tail(s)[j] = s[j + 1]
        /\ i + 1 \in 1 .. Len(s) /\ j + 1 \in 1 .. Len(s) /\ i + 1 < j + 1
    BY <1>1, <1>3
  <2> QED
    BY <1>2, <2>1
<1>4. ASSUME NEW i \in 1 .. Len(s) - 1 PROVE << Head(s), Tail(s)[i] >> \in InOrder(s)
  <2>1. Tail(s)[i] = s[i + 1] /\ i + 1 \in 1 .. Len(s) /\ 1 \in 1 .. Len(s) /\ 1 < i + 1
    BY <1>1
  <2> QED
    BY <1>1, <1>2, <2>1
<1>5. InOrder(Tail(s)) \subseteq InOrder(s)
  <2> SUFFICES ASSUME NEW p \in InOrder(Tail(s)) PROVE p \in InOrder(s)
    OBVIOUS
  <2>1. PICK i, j \in 1 .. Len(Tail(s)) : i < j /\ p = << Tail(s)[i], Tail(s)[j] >>
    BY DEF InOrder
  <2> QED
    BY <1>1, <1>3, <2>1
<1>6. ASSUME NEW c \in In(Tail(s)) PROVE << Head(s), c >> \in InOrder(s)
  <2>1. PICK i \in 1 .. Len(Tail(s)) : c = Tail(s)[i]
    BY DEF In
  <2> QED
    BY <1>1, <1>4, <2>1
<1> QED
  BY <1>5, <1>6

LEMMA JoinedOrder ==
  ASSUME NEW X, NEW s, s \in Seq(X), NEW u, u \in Seq(X)
  PROVE  InOrder(s \o u) \subseteq InOrder(s) \cup (In(s) \X In(u)) \cup InOrder(u)
<1> DEFINE n == Len(s)
           m == Len(u)
           w == s \o u
<1>1. /\ n \in Nat /\ m \in Nat /\ Len(w) = n + m
      /\ \A i \in 1 .. n + m : w[i] = IF i <= n THEN s[i] ELSE u[i - n]
  OBVIOUS
<1> HIDE DEF w, n, m
<1> SUFFICES ASSUME NEW p \in InOrder(w)
             PROVE  p \in InOrder(s) \cup (In(s) \X In(u)) \cup InOrder(u)
  BY DEF w
<1>2. PICK i, j \in 1 .. n + m : i < j /\ p = << w[i], w[j] >>
  BY <1>1 DEF InOrder
<1>3. CASE j <= n
  <2>1. w[i] = s[i] /\ w[j] = s[j] /\ i \in 1 .. Len(s) /\ j \in 1 .. Len(s)
    BY <1>1, <1>2, <1>3 DEF n
  <2> QED
    BY <1>2, <2>1 DEF InOrder, In
<1>4. CASE i <= n /\ j > n
  <2>1. w[i] = s[i] /\ w[j] = u[j - n] /\ i \in 1 .. Len(s) /\ j - n \in 1 .. Len(u)
    BY <1>1, <1>2, <1>4 DEF n, m
  <2> QED
    BY <1>2, <2>1 DEF In
<1>5. CASE i > n
  <2>1. /\ w[i] = u[i - n] /\ w[j] = u[j - n] /\ i - n < j - n
        /\ i - n \in 1 .. Len(u) /\ j - n \in 1 .. Len(u)
    BY <1>1, <1>2, <1>5 DEF n, m
  <2> QED
    BY <1>2, <2>1 DEF InOrder, In
<1> QED
  BY <1>1, <1>2, <1>3, <1>4, <1>5

\* Buffers on their way are with the driver.
LEMMA AheadHeld ==
  ASSUME BufInv', FwInv', NEW o \in Node, NEW b \in Buf, NEW c \in Buf, NodeOf(b) = NodeOf(c),
         Ahead(o, b, c)'
  PROVE  vb'[b] = "driver" /\ vb'[c] = "driver"
<1>1. \A d \in Buf : InFw(d, o)' => Waiting(d)'
  BY DEF FwInv, Frames, OneFirmware
<1>2. \A d \in Buf : (Listed(d) \/ Waiting(d) \/ Taken(d))' => vb'[d] = "driver"
  BY DEF BufInv, Bufs, OneBuf
<1>3. \A i \in 1 .. Len(fw'[o]) : \A d \in Buf : d \in fw'[o][i] => InFw(d, o)'
  BY DEF InFw
<1>4. << b, c >> \in InOrder(incoming'[NodeOf(b)]) => Listed(b)' /\ Listed(c)'
  BY DEF InOrder, Listed
<1> QED
  BY <1>1, <1>2, <1>3, <1>4 DEF Ahead

\* Nothing gets ahead of anything in this step.
LEMMA OrderStays ==
  ASSUME FifoOrder, BufInv', FwInv',
         NEW gone, Forget(gone) \/ (gone = {} /\ UNCHANGED older),
         \A b \in Buf : b \in gone => vb'[b] # "driver",
         \A o \in Node : \A b, c \in Buf :
           NodeOf(b) = NodeOf(c) /\ Ahead(o, b, c)' => Ahead(o, b, c)
  PROVE  FifoOrder'
<1> SUFFICES ASSUME NEW o \in Node, NEW b \in Buf, NEW c \in Buf, NodeOf(b) = NodeOf(c), Ahead(o, b, c)'
             PROVE  << b, c >> \in older'
  BY DEF FifoOrder
<1>1. << b, c >> \in older
  BY DEF FifoOrder
<1>2. b \notin gone /\ c \notin gone
  BY AheadHeld
<1> QED
  BY <1>1, <1>2 DEF Forget

LEMMA OrderStands ==
  ASSUME FifoOrder, BufInv', FwInv', UNCHANGED older,
         \A o \in Node : \A b, c \in Buf :
           NodeOf(b) = NodeOf(c) /\ Ahead(o, b, c)' => Ahead(o, b, c)
  PROVE  FifoOrder'
<1>1. PICK gone : gone = {}
  OBVIOUS
<1> QED
  BY <1>1, OrderStays

\* Lists are emptied, or frames, and buffers go back.
LEMMA OrderLessens ==
  ASSUME FifoOrder, BufInv', FwInv',
         NEW gone, Forget(gone) \/ (gone = {} /\ UNCHANGED older),
         \A b \in Buf : b \in gone => vb'[b] # "driver",
         UNCHANGED bl,
         \A q \in Node : incoming'[q] = incoming[q] \/ incoming'[q] = << >>,
         \A o \in Node : fw'[o] = fw[o] \/ fw'[o] = << >>
  PROVE  FifoOrder'
<1>1. ASSUME NEW o \in Node, NEW b \in Buf, NEW c \in Buf, NodeOf(b) = NodeOf(c), Ahead(o, b, c)'
      PROVE  Ahead(o, b, c)
  <2>1. NodeOf(b) \in Node
    BY FiniteBuf
  <2>2. \A d \in Buf : (Taken(d)' <=> Taken(d)) /\ (NodeOf(d) \in Node)
    BY FiniteBuf DEF Taken
  <2>3. Len(<< >>) = 0 /\ In(<< >>) = {} /\ InOrder(<< >>) = {}
    BY DEF In, InOrder
  <2>4. \A d \in Buf : Listed(d)' => Listed(d)
    BY <2>2, <2>3 DEF Listed
  <2>5. << b, c >> \in InOrder(incoming'[NodeOf(b)]) => << b, c >> \in InOrder(incoming[NodeOf(b)])
    BY <2>1, <2>3
  <2>6. 1 .. Len(<< >>) = {}
    BY <2>3
  <2>7. CASE fw'[o] = << >>
    BY <1>1, <2>2, <2>4, <2>5, <2>6, <2>7 DEF Ahead, InFw
  <2>8. CASE fw'[o] = fw[o]
    BY <1>1, <2>2, <2>4, <2>5, <2>8 DEF Ahead, InFw
  <2> QED
    BY <2>7, <2>8
<1> QED
  BY <1>1, OrderStays

\* A buffer of every queue is taken, the oldest one.
LEMMA TakenOrder ==
  ASSUME BufType, NEW queues \in SUBSET Node, ListReady(queues), TakeList(queues)
  PROVE  /\ \A b \in Buf : Listed(b)' => Listed(b)
         /\ \A b \in BufferList(queues) : b \in Buf /\ Listed(b)
         /\ \A b, c \in Buf : /\ << b, c >> \in InOrder(incoming'[NodeOf(b)])
                                   => << b, c >> \in InOrder(incoming[NodeOf(b)])
                              /\ NodeOf(b) = NodeOf(c) /\ b \in BufferList(queues) /\ Listed(c)'
                                   => << b, c >> \in InOrder(incoming[NodeOf(b)])
                              /\ NodeOf(b) = NodeOf(c) /\ b \in BufferList(queues) /\ c \in BufferList(queues)
                                   => b = c
<1>1. /\ \A b \in Buf : (b \in In(incoming'[NodeOf(b)]) <=> Listed(b) /\ b \notin BufferList(queues))
      /\ \A b \in BufferList(queues) : b \in Buf /\ Listed(b) /\ NodeOf(b) \in queues
  BY TakenLists
<1>2. \A q \in Node : incoming'[q] = IF q \in queues THEN Tail(incoming[q]) ELSE incoming[q]
  BY DEF TakeList
<1>3. ASSUME NEW q \in queues
      PROVE  /\ InOrder(Tail(incoming[q])) \subseteq InOrder(incoming[q])
             /\ \A c \in In(Tail(incoming[q])) : << Head(incoming[q]), c >> \in InOrder(incoming[q])
             /\ NodeOf(Head(incoming[q])) = q
  <2>1. IsList(incoming[q], BufsOf(q)) /\ incoming[q] # << >>
    BY DEF BufType, ListReady
  <2>2. Head(incoming[q]) \in BufsOf(q)
    BY <2>1, TailList
  <2> QED
    BY <2>1, <2>2, TailOrder DEF BufsOf
<1>4. \A b \in BufferList(queues) : b = Head(incoming[NodeOf(b)]) /\ NodeOf(b) \in queues
  BY <1>3 DEF BufferList
<1>5. ASSUME NEW b \in Buf, NEW c \in Buf, << b, c >> \in InOrder(incoming'[NodeOf(b)])
      PROVE  << b, c >> \in InOrder(incoming[NodeOf(b)])
  <2>1. NodeOf(b) \in Node
    BY FiniteBuf
  <2> QED
    BY <1>2, <1>3, <1>5, <2>1
<1>6. ASSUME NEW b \in Buf, NEW c \in Buf, NodeOf(b) = NodeOf(c), b \in BufferList(queues), Listed(c)'
      PROVE  << b, c >> \in InOrder(incoming[NodeOf(b)])
  BY <1>2, <1>3, <1>4, <1>6 DEF Listed
<1>7. \A b \in Buf : Listed(b)' => Listed(b)
  BY <1>1 DEF Listed
<1>8. ASSUME NEW b \in Buf, NEW c \in Buf, NodeOf(b) = NodeOf(c), b \in BufferList(queues), c \in BufferList(queues)
      PROVE  b = c
  BY <1>4, <1>8
<1> QED
  BY <1>1, <1>5, <1>6, <1>7, <1>8

\* Nobody is about to start a stream while the firmware has frames.
LEMMA NothingTakenThen ==
  ASSUME Ctl', BufInv', FwInv', NEW o \in Node, NEW b \in Buf, InFw(b, o)'
  PROVE  \A c \in Buf : ~ Taken(c)'
<1> SUFFICES ASSUME NEW c \in Buf, NEW t \in Thread, c \in bl'[t] PROVE FALSE
  BY DEF Taken
<1>1. pc'[t] = "start" /\ ip'[ipOf'[t]].queues # {}
  BY DEF BufInv, Takes, OneTake
<1>2. PICK p \in Node : p = ipOf'[t] /\ Live(p)'
  BY <1>1 DEF Ctl, Runs, OneRun, StartPhase, Live
<1>3. Fed(o)'
  BY DEF FwInv, Frames, OneFirmware
<1>4. p = o
  BY <1>2, <1>3 DEF Fed, Full, Ctl, Pipelines, OnePipeline
<1> QED
  BY <1>1, <1>2, <1>3, <1>4 DEF Fed

\* buf_queue() puts buffers at the end.
LEMMA EnqueuesOrder ==
  ASSUME BufInv, BufInv', FwInv, FifoOrder, NEW q \in Node, NEW bs \in SUBSET BufsOf(q), Enqueue(q, bs),
         UNCHANGED << bl, fw >>
  PROVE  FifoOrder'
<1> SUFFICES ASSUME NEW o \in Node, NEW b \in Buf, NEW c \in Buf, NodeOf(b) = NodeOf(c), Ahead(o, b, c)'
             PROVE  << b, c >> \in older'
  BY DEF FifoOrder
<1>0. NodeOf(b) \in Node
  BY FiniteBuf
<1>1. /\ older \subseteq older' /\ InOrder(SetToSeq(bs)) \subseteq older'
      /\ \A d \in Buf : NodeOf(d) = q /\ vb[d] = "driver" => \A x \in bs : << d, x >> \in older'
  BY DEF Enqueue, BufsOf
<1>2. Ahead(o, b, c) => << b, c >> \in older'
  BY <1>1 DEF FifoOrder
<1>3. /\ \A r \in Node : r # q => incoming'[r] = incoming[r]
      /\ incoming'[q] = incoming[q] \o SetToSeq(bs)
  BY DEF Enqueue, Added, BufInv, BufType
<1>4. /\ IsList(SetToSeq(bs), BufsOf(q)) /\ In(SetToSeq(bs)) = bs
      /\ IsList(incoming[q], BufsOf(q))
  <2>1. BufsOf(q) \subseteq Buf
    BY DEF BufsOf
  <2>2. IsFiniteSet(bs)
    BY <2>1, FiniteBuf, FS_Subset
  <2> QED
    BY <2>2, SetList DEF BufInv, BufType
<1>5. InOrder(incoming'[q]) \subseteq InOrder(incoming[q]) \cup (In(incoming[q]) \X bs) \cup InOrder(SetToSeq(bs))
  BY <1>3, <1>4, JoinedOrder DEF IsList
<1>6. In(incoming'[q]) \subseteq In(incoming[q]) \cup bs
  <2>1. \A s, u \in Seq(BufsOf(q)) : In(s \o u) \subseteq In(s) \cup In(u)
    <3> SUFFICES ASSUME NEW s \in Seq(BufsOf(q)), NEW u \in Seq(BufsOf(q)), NEW i \in 1 .. Len(s \o u)
                 PROVE  (s \o u)[i] \in In(s) \cup In(u)
      BY DEF In
    <3>1. Len(s) \in Nat /\ Len(u) \in Nat /\ Len(s \o u) = Len(s) + Len(u)
      OBVIOUS
    <3>2. CASE i <= Len(s)
      BY <3>1, <3>2 DEF In
    <3>3. CASE i > Len(s)
      <4>1. (s \o u)[i] = u[i - Len(s)] /\ i - Len(s) \in 1 .. Len(u)
        BY <3>1, <3>3
      <4> QED
        BY <4>1 DEF In
    <3> QED
      BY <3>1, <3>2, <3>3
  <2> QED
    BY <1>3, <1>4, <2>1 DEF IsList
<1>7. \A d \in Buf : /\ Listed(d)' => Listed(d) \/ (d \in bs /\ NodeOf(d) = q)
                     /\ Taken(d)' = Taken(d)
                     /\ Listed(d) \/ Taken(d) \/ InFw(d, o) => vb[d] = "driver"
  <2>1. \A d \in Buf : Listed(d)' => Listed(d) \/ (d \in bs /\ NodeOf(d) = q)
    BY <1>3, <1>6, FiniteBuf DEF Listed, BufsOf
  <2>2. \A d \in Buf : InFw(d, o) => Waiting(d)
    BY DEF FwInv, Frames, OneFirmware
  <2>3. \A d \in Buf : Listed(d) \/ Taken(d) \/ Waiting(d) => vb[d] = "driver"
    BY DEF BufInv, Bufs, OneBuf
  <2> QED
    BY <2>1, <2>2, <2>3 DEF Taken
<1>8. CASE c \in bs /\ NodeOf(c) = q /\ vb[b] = "driver"
  BY <1>1, <1>8
<1>9. << b, c >> \in InOrder(incoming'[NodeOf(b)]) => << b, c >> \in older'
  <2> SUFFICES ASSUME << b, c >> \in InOrder(incoming'[NodeOf(b)]) PROVE << b, c >> \in older'
    OBVIOUS
  <2>1. CASE NodeOf(b) = q /\ b \in In(incoming[q]) /\ c \in bs
    BY <1>1, <1>7, <2>1 DEF Listed
  <2>2. CASE NodeOf(b) = q /\ << b, c >> \in InOrder(SetToSeq(bs))
    BY <1>1, <2>2
  <2>3. CASE << b, c >> \in InOrder(incoming[NodeOf(b)])
    BY <1>2, <2>3 DEF Ahead
  <2> QED
    BY <1>0, <1>3, <1>5, <2>1, <2>2, <2>3
<1>f. InFw(b, o)' = InFw(b, o)
  BY DEF InFw
<1>g. (\E i, j \in 1 .. Len(fw'[o]) : b \in fw'[o][i] /\ c \in fw'[o][j] /\ (i < j \/ (i = j /\ b # c)))
        => Ahead(o, b, c)
  BY DEF Ahead
<1> QED
  BY <1>2, <1>7, <1>8, <1>9, <1>f, <1>g DEF Ahead

\* A thread takes a frame to start a stream.
LEMMA TakesOrder ==
  ASSUME Ctl, BufInv, BufInv', FwInv', FifoOrder, StreamMutexFree,
         NEW queues \in SUBSET Node, ListReady(queues), TakeList(queues),
         NEW t \in Thread, bl' = [bl EXCEPT ![t] = BufferList(queues)], UNCHANGED << fw, older >>
  PROVE  FifoOrder'
<1>1. /\ \A b \in Buf : Listed(b)' => Listed(b)
      /\ \A b \in BufferList(queues) : b \in Buf /\ Listed(b)
      /\ \A b, c \in Buf : /\ << b, c >> \in InOrder(incoming'[NodeOf(b)])
                                => << b, c >> \in InOrder(incoming[NodeOf(b)])
                           /\ NodeOf(b) = NodeOf(c) /\ b \in BufferList(queues) /\ Listed(c)'
                                => << b, c >> \in InOrder(incoming[NodeOf(b)])
                           /\ NodeOf(b) = NodeOf(c) /\ b \in BufferList(queues) /\ c \in BufferList(queues)
                                => b = c
  BY TakenOrder DEF BufInv
<1>2. \A b \in Buf : Taken(b)' => b \in BufferList(queues)
  BY NothingTaken DEF Taken
<1>3. ASSUME NEW o \in Node, NEW b \in Buf, NEW c \in Buf, NodeOf(b) = NodeOf(c), Ahead(o, b, c)'
      PROVE  Ahead(o, b, c)
  BY <1>1, <1>2, <1>3 DEF Ahead, InFw
<1> QED
  BY <1>3, OrderStands

\* The frame at the end of the firmware's.
LEMMA SentOrder ==
  ASSUME NEW s \in Seq(SUBSET Buf), NEW bs \in SUBSET Buf, NEW u, u = Append(s, bs),
         NEW b \in Buf, NEW c \in Buf,
         \E i, j \in 1 .. Len(u) : b \in u[i] /\ c \in u[j] /\ (i < j \/ (i = j /\ b # c))
  PROVE  \/ \E i, j \in 1 .. Len(s) : b \in s[i] /\ c \in s[j] /\ (i < j \/ (i = j /\ b # c))
         \/ (\E i \in 1 .. Len(s) : b \in s[i]) /\ c \in bs
         \/ b \in bs /\ c \in bs /\ b # c
<1>1. /\ Len(s) \in Nat /\ Len(u) = Len(s) + 1 /\ u[Len(s) + 1] = bs
      /\ \A i \in 1 .. Len(s) : u[i] = s[i]
  OBVIOUS
<1>2. PICK i, j \in 1 .. Len(u) : b \in u[i] /\ c \in u[j] /\ (i < j \/ (i = j /\ b # c))
  OBVIOUS
<1>3. CASE j \in 1 .. Len(s)
  <2>1. i \in 1 .. Len(s)
    BY <1>1, <1>2, <1>3
  <2> QED
    BY <1>1, <1>2, <1>3, <2>1
<1>4. CASE j = Len(s) + 1 /\ i \in 1 .. Len(s)
  BY <1>1, <1>2, <1>4
<1>5. CASE j = Len(s) + 1 /\ i = j
  BY <1>1, <1>2, <1>5
<1> QED
  BY <1>1, <1>2, <1>3, <1>4, <1>5

\* A frame goes to the firmware, from the queues or from a thread.
LEMMA SendsOrder ==
  ASSUME Ctl', BufInv, BufInv', FwInv', FifoOrder, UNCHANGED older,
         NEW o \in Node, NEW bs \in SUBSET Buf, Send(o, bs),
         \A c \in Buf : /\ Listed(c)' => Listed(c)
                        /\ Taken(c)' => Taken(c),
         \A b, c \in Buf : NodeOf(b) = NodeOf(c) =>
           /\ << b, c >> \in InOrder(incoming'[NodeOf(b)]) => << b, c >> \in InOrder(incoming[NodeOf(b)])
           /\ c \in bs => Taken(c) \/ Listed(c)
           /\ b \in bs /\ Listed(c)' => \/ << b, c >> \in InOrder(incoming[NodeOf(b)])
                                        \/ Taken(b) /\ Listed(c)
           /\ b \in bs /\ c \in bs /\ b # c => Taken(b) /\ Taken(c)
  PROVE  FifoOrder'
<1>1. ASSUME NEW p \in Node, NEW b \in Buf, NEW c \in Buf, NodeOf(b) = NodeOf(c), Ahead(p, b, c)'
      PROVE  Ahead(p, b, c)
  <2>1. CASE p # o
    <3>1. fw'[p] = fw[p]
      BY <2>1 DEF Send, BufInv, BufType
    <3> QED
      BY <1>1, <3>1 DEF Ahead, InFw
  <2>2. CASE p = o
    <3>1. PICK s \in Seq(SUBSET Buf) : s = fw[o] /\ fw'[o] = Append(s, bs)
      BY DEF Send, BufInv, BufType
    <3>2. PICK u : u = fw'[o] /\ u = Append(s, bs)
      BY <3>1
    <3>3. ASSUME \E i, j \in 1 .. Len(u) : b \in u[i] /\ c \in u[j] /\ (i < j \/ (i = j /\ b # c))
          PROVE  Ahead(o, b, c)
      <4>1. \/ \E i, j \in 1 .. Len(s) : b \in s[i] /\ c \in s[j] /\ (i < j \/ (i = j /\ b # c))
            \/ (\E i \in 1 .. Len(s) : b \in s[i]) /\ c \in bs
            \/ b \in bs /\ c \in bs /\ b # c
        BY <3>2, <3>3, SentOrder
      <4> QED
        BY <1>1, <3>1, <4>1 DEF Ahead, InFw
    <3>4. InFw(b, o)' => InFw(b, o) \/ b \in bs
      <4>1. (\E i \in 1 .. Len(u) : b \in u[i]) => (\E i \in 1 .. Len(s) : b \in s[i]) \/ b \in bs
        BY <3>2, AppendedFrame
      <4> QED
        BY <3>1, <3>2, <4>1 DEF InFw
    <3>5. InFw(b, o)' => ~ Taken(c)'
      BY NothingTakenThen
    <3> QED
      BY <1>1, <2>2, <3>2, <3>3, <3>4, <3>5 DEF Ahead
  <2> QED
    BY <2>1, <2>2
<1> QED
  BY <1>1, OrderStands

LEMMA StartsOrder ==
  ASSUME Ctl, Ctl', BufInv, BufInv', FwInv', FifoOrder, NEW t \in Thread, StreamStarts(t)
  PROVE  FifoOrder'
<1>1. /\ Send(ipOf[t], bl[t]) /\ bl' = [bl EXCEPT ![t] = {}] /\ UNCHANGED << incoming, older >>
  BY DEF StreamStarts
<1>2. PICK o \in Node : o = ipOf[t]
  BY DEF StreamStarts, Ctl, Runs, OneRun, StartPhase
<1>3. PICK bs \in SUBSET Buf : bs = bl[t]
  BY DEF BufInv, BufType
<1>4. /\ \A c \in Buf : (Taken(c)' => Taken(c)) /\ (c \in bs => Taken(c))
      /\ \A c \in Buf : Listed(c)' = Listed(c)
  BY <1>1, <1>3 DEF Taken, Listed, BufInv, BufType
<1> QED
  BY <1>1, <1>2, <1>3, <1>4, SendsOrder

LEMMA CapturesOrder ==
  ASSUME Ctl, Ctl', BufInv, BufInv', FwInv', FifoOrder,
         \/ \E q \in Node : QBufCaptures(q)
         \/ \E t \in Thread : FillCaptures(t)
  PROVE  FifoOrder'
<1>1. PICK o \in Node, queues \in SUBSET Node :
        /\ ListReady(queues) /\ TakeList(queues) /\ UNCHANGED << bl, older >>
        /\ Send(o, BufferList(queues)) \/ UNCHANGED fw
  <2>1. ASSUME NEW q \in Node, QBufCaptures(q)
        PROVE  \E o \in Node, queues \in SUBSET Node :
                 /\ ListReady(queues) /\ TakeList(queues) /\ UNCHANGED << bl, older >>
                 /\ Send(o, BufferList(queues)) \/ UNCHANGED fw
    BY <2>1, Submitted DEF QBufCaptures, SubmitReady
  <2>2. ASSUME NEW t \in Thread, FillCaptures(t)
        PROVE  \E o \in Node, queues \in SUBSET Node :
                 /\ ListReady(queues) /\ TakeList(queues) /\ UNCHANGED << bl, older >>
                 /\ Send(o, BufferList(queues)) \/ UNCHANGED fw
    <3>1. PICK o \in Node : o = ipOf[t] /\ ip[o].queues \in SUBSET Node
      BY <2>2 DEF FillCaptures, Ctl, CtlType, Runs, OneRun, StartPhase
    <3> QED
      BY <2>2, <3>1 DEF FillCaptures
  <2> QED
    BY <2>1, <2>2
<1>2. /\ \A b \in Buf : Listed(b)' => Listed(b)
      /\ \A b \in BufferList(queues) : b \in Buf /\ Listed(b)
      /\ \A b, c \in Buf : /\ << b, c >> \in InOrder(incoming'[NodeOf(b)])
                                => << b, c >> \in InOrder(incoming[NodeOf(b)])
                           /\ NodeOf(b) = NodeOf(c) /\ b \in BufferList(queues) /\ Listed(c)'
                                => << b, c >> \in InOrder(incoming[NodeOf(b)])
                           /\ NodeOf(b) = NodeOf(c) /\ b \in BufferList(queues) /\ c \in BufferList(queues)
                                => b = c
  BY <1>1, TakenOrder DEF BufInv
<1>3. \A c \in Buf : Taken(c)' = Taken(c)
  BY <1>1 DEF Taken
<1>4. PICK bs \in SUBSET Buf : bs = BufferList(queues)
  BY <1>2
<1>5. CASE Send(o, bs)
  BY <1>1, <1>2, <1>3, <1>4, <1>5, SendsOrder
<1>6. CASE UNCHANGED fw
  <2>1. ASSUME NEW p \in Node, NEW b \in Buf, NEW c \in Buf, NodeOf(b) = NodeOf(c), Ahead(p, b, c)'
        PROVE  Ahead(p, b, c)
    BY <1>2, <1>3, <1>6, <2>1 DEF Ahead, InFw
  <2> QED
    BY <1>1, <2>1, OrderStands
<1> QED
  BY <1>1, <1>4, <1>5, <1>6

LEMMA ReadyOrder ==
  ASSUME BufInv, BufInv', FwInv', FifoOrder, NEW o \in Node, BufReady(o) PROVE FifoOrder'
<1>1. PICK s \in Seq(SUBSET Buf) : s = fw[o] /\ s # << >>
  BY DEF BufReady, BufInv, BufType
<1>2. PICK b \in Head(s) :
        /\ LET rest == Head(s) \ {b} IN
             fw' = [fw EXCEPT ![o] = IF rest = {} THEN Tail(s) ELSE << rest >> \o Tail(s)]
        /\ IF b \in active[NodeOf(b)]
           THEN /\ vb' = [c \in Buf |-> IF c \in {b} THEN "user" ELSE vb[c]]
                /\ Forget({b})
           ELSE UNCHANGED older
  BY <1>1 DEF BufReady, BuffersDone
<1>3. b \in Buf /\ Head(s) \in SUBSET Buf
  BY <1>1
<1>4. PICK rest \in SUBSET Buf : rest = Head(s) \ {b}
  BY <1>3
<1>5. PICK u : u = IF rest = {} THEN Tail(s) ELSE << rest >> \o Tail(s)
  OBVIOUS
<1>6. PICK d \in {0, 1} : \A i \in 1 .. Len(u) : /\ i + d \in 1 .. Len(s)
                                                 /\ u[i] \subseteq s[i + d]
                                                 /\ i + d = 1 => u[i] = rest
  BY ONLY <1>1, <1>4, <1>5, FinishedPin
<1>7. fw'[o] = u /\ \A p \in Node : p # o => fw'[p] = fw[p]
  BY <1>2, <1>4, <1>5 DEF BufInv, BufType
<1>8. UNCHANGED << incoming, bl >>
  BY DEF BufReady
<1>9. ASSUME NEW p \in Node, NEW x \in Buf, NEW y \in Buf, NodeOf(x) = NodeOf(y), Ahead(p, x, y)'
      PROVE  Ahead(p, x, y)
  <2>1. /\ \A c \in Buf : Taken(c)' = Taken(c) /\ Listed(c)' = Listed(c)
        /\ incoming'[NodeOf(x)] = incoming[NodeOf(x)]
    BY <1>8 DEF Taken, Listed
  <2>2. CASE p # o
    BY <1>7, <1>9, <2>1, <2>2 DEF Ahead, InFw
  <2>3. CASE p = o
    <3>1. InFw(x, o)' => InFw(x, o)
      <4> SUFFICES ASSUME NEW i \in 1 .. Len(u), x \in u[i] PROVE InFw(x, o)
        BY <1>7 DEF InFw
      <4> QED
        BY <1>1, <1>6 DEF InFw
    <3>2. ASSUME NEW i \in 1 .. Len(u), NEW j \in 1 .. Len(u), x \in u[i], y \in u[j],
                 i < j \/ (i = j /\ x # y)
          PROVE  Ahead(o, x, y)
      <4>1. i + d \in 1 .. Len(s) /\ j + d \in 1 .. Len(s) /\ x \in s[i + d] /\ y \in s[j + d]
        BY <1>6, <3>2
      <4>2. i + d < j + d \/ (i + d = j + d /\ x # y)
        BY <3>2
      <4> QED
        BY <1>1, <4>1, <4>2 DEF Ahead
    <3> QED
      BY <1>7, <1>9, <2>1, <2>3, <3>1, <3>2 DEF Ahead
  <2> QED
    BY <2>2, <2>3
<1>10. CASE b \in active[NodeOf(b)]
  <2>1. PICK gone : gone = {b}
    OBVIOUS
  <2>2. Forget(gone) /\ \A c \in Buf : c \in gone => vb'[c] # "driver"
    BY <1>2, <1>10, <2>1
  <2> QED
    BY <1>9, <2>2, OrderStays
<1>11. CASE b \notin active[NodeOf(b)]
  BY <1>2, <1>9, <1>11, OrderStands
<1> QED
  BY <1>10, <1>11

\* The buffers of a node go back.
LEMMA ReturnsOrder ==
  ASSUME BufInv, BufInv', FwInv', FifoOrder, NEW q \in Node,
         StartPrepareFails(q) \/ StartUndone(q) \/ StopFindsNone(q) \/ StopReturns(q)
  PROVE  FifoOrder'
<1>1. /\ UNCHANGED << bl, fw >> /\ ReturnBuffers(q)
      /\ \E gone \in SUBSET Buf : \E to \in {"user", "vb2"} : BuffersDone(gone, to)
  BY DEF StartPrepareFails, StartUndone, StopFindsNone, StopReturns, StartFails, Cancel, BufsOf
<1>2. PICK gone \in SUBSET Buf, to \in {"user", "vb2"} : BuffersDone(gone, to)
  BY <1>1
<1>3. Forget(gone) /\ \A b \in Buf : b \in gone => vb'[b] # "driver"
  BY <1>2 DEF BuffersDone
<1>4. \A r \in Node : incoming'[r] = incoming[r] \/ incoming'[r] = << >>
  BY <1>1 DEF ReturnBuffers, BufInv, BufType
<1> QED
  BY <1>1, <1>3, <1>4, OrderLessens

\* No step, whichever ioctl or frame it is of, lets a buffer overtake another one
\* of its node.
THEOREM OrderStep ==
  ASSUME StartsTogether, FailingStarts = {}, ~ MsgMayRunOut,
         Ctl, Ctl', BufInv, BufInv', FwInv, FwInv', FifoOrder, [Next]_vars
  PROVE  FifoOrder'
<1>1. ASSUME UNCHANGED << bl, incoming, fw, older >> PROVE FifoOrder'
  BY <1>1, OrderStands DEF Ahead, InFw, Taken, Listed
<1>2. CASE UNCHANGED vars
  BY <1>1, <1>2 DEF vars, buffers
<1> SUFFICES ASSUME Next PROVE FifoOrder'
  BY <1>2
<1>t. \A q \in Node : S(q) \in Thread /\ B(q) \in Thread
  BY Threads
<1>3. ASSUME NEW t \in Thread, StreamStart(t) PROVE FifoOrder'
  <2>1. CASE StreamStarts(t)
    BY <2>1, StartsOrder
  <2>2. CASE FillCaptures(t)
    BY <2>2, CapturesOrder
  <2>3. CASE StreamStarted(t) \/ FillEnds(t)
    BY <1>1, <2>3 DEF StreamStarted, FillEnds, buffers
  <2> QED
    BY <1>3, <2>1, <2>2, <2>3 DEF StreamStart, StreamStartFails, StreamNotStarted,
       StreamNotAcknowledged, SensorFails, FillNoMsg, MsgRunsOut
<1>4. ASSUME NEW q \in Node, QBuf(q) \/ StreamOn(q) \/ StreamOff(q) PROVE FifoOrder'
  <2>1. CASE UNCHANGED << bl, incoming, fw, older >>
    BY <1>1, <2>1
  <2>2. CASE \E bs \in SUBSET BufsOf(q) : Enqueue(q, bs) /\ UNCHANGED << bl, fw >>
    BY <2>2, EnqueuesOrder
  <2>3. CASE QBuf(q)
    BY <2>1, <2>2, <2>3 DEF QBuf
  <2>4. CASE StreamOn(q)
    BY <2>2, <2>4 DEF StreamOn
  <2>5. CASE StreamOff(q)
    BY <2>1, <2>5 DEF StreamOff, buffers
  <2> QED
    BY <1>4, <2>3, <2>4, <2>5
<1>5. ASSUME NEW q \in Node, QBufStarts(q) \/ StartJoins(q) PROVE FifoOrder'
  <2>1. CASE QBufStarts(q)
    <3>1. PICK o \in Node : o = ipOf[B(q)] /\ ip[o].queues \in SUBSET Node
      BY <2>1, Submitted DEF QBufStarts
    <3>2. /\ ListReady(ip[o].queues) /\ TakeList(ip[o].queues) /\ StreamMutexFree
          /\ bl' = [bl EXCEPT ![B(q)] = BufferList(ip[o].queues)] /\ UNCHANGED << fw, older >>
      BY <2>1, <3>1 DEF QBufStarts, SubmitReady
    <3> QED
      BY <1>t, <3>1, <3>2, TakesOrder
  <2>2. CASE StartJoins(q)
    <3>1. PICK o \in Node : o = ipOf[S(q)]
      BY <2>2 DEF StartJoins, Ctl, Nodes, OneNode
    <3>2. PICK queues \in SUBSET Node : queues = ip[o].queues \cup {q}
      BY DEF Ctl, CtlType
    <3>3. /\ UNCHANGED << fw, older >>
          /\ \/ UNCHANGED << incoming, bl >>
             \/ /\ ListReady(queues) /\ TakeList(queues) /\ StreamMutexFree
                /\ bl' = [bl EXCEPT ![S(q)] = BufferList(queues)]
      BY <2>2, <3>1, <3>2 DEF StartJoins
    <3> QED
      BY <1>1, <1>t, <3>3, TakesOrder
  <2> QED
    BY <1>5, <2>1, <2>2
<1>6. ASSUME NEW q \in Node, QueueStep(q) PROVE FifoOrder'
  <2>1. CASE QBufRelocks(q) \/ QBufWaits(q)
    BY <1>1, <2>1 DEF QBufRelocks, QBufWaits, buffers
  <2>2. CASE QBufCaptures(q)
    BY <2>2, CapturesOrder
  <2> QED
    BY <1>3, <1>5, <1>6, <1>t, <2>1, <2>2 DEF QueueStep, QBufNoMsg, MsgRunsOut
<1>7. ASSUME NEW q \in Node, StreamStep(q) PROVE FifoOrder'
  <2>1. CASE \/ StartWaits(q) \/ StartPrepares(q) \/ StartFindsPipeline(q)
             \/ StopWaits(q) \/ StopLocks(q) \/ StopFlushes(q) \/ StopLeaves(q)
    BY <1>1, <2>1 DEF StartWaits, StartPrepares, StartFindsPipeline, StopWaits, StopLocks,
                      StopFlushes, StopLeaves, buffers
  <2>2. CASE StopFlushed(q)
    <3>1. /\ UNCHANGED << bl, incoming, older >>
          /\ \A o \in Node : fw'[o] = fw[o] \/ fw'[o] = << >>
      BY <2>2 DEF StopFlushed, Close, Keeps, BufInv, BufType
    <3>2. PICK gone : gone = {}
      OBVIOUS
    <3> QED
      BY <3>1, <3>2, OrderLessens
  <2>3. CASE StartPrepareFails(q) \/ StartUndone(q) \/ StopFindsNone(q) \/ StopReturns(q)
    BY <2>3, ReturnsOrder
  <2> QED
    BY <1>3, <1>5, <1>7, <1>t, <2>1, <2>2, <2>3 DEF StreamStep
<1>8. ASSUME NEW o \in Node, BufReady(o) PROVE FifoOrder'
  BY <1>8, ReadyOrder
<1>9. ASSUME NEW o \in Node, LateReady(o) PROVE FifoOrder'
  BY <1>1, <1>9 DEF LateReady
<1> QED
  BY <1>4, <1>6, <1>7, <1>8, <1>9 DEF Next

\* A node's buffers go to the firmware, and come back from it, in the order in
\* which the application queued them, as long as no start fails: see FifoOrder.
THEOREM TakenInOrder ==
  ASSUME StartsTogether, FailingStarts = {}, ~ MsgMayRunOut
  PROVE  Spec => []FifoOrder
<1>1. Init => Ctl /\ BufInv /\ FwInv /\ FifoOrder
  <2>1. ASSUME Init PROVE FifoOrder
    <3>1. Len(<< >>) = 0 /\ In(<< >>) = {} /\ InOrder(<< >>) = {} /\ 1 .. Len(<< >>) = {}
      BY DEF In, InOrder
    <3>2. /\ \A o \in Node : fw[o] = << >> /\ incoming[o] = << >>
          /\ \A b \in Buf : ~ Taken(b)
      BY <2>1 DEF Init, Taken
    <3> QED
      BY <3>1, <3>2, FiniteBuf DEF FifoOrder, Ahead, InFw, Listed
  <2> QED
    BY <2>1, CtlInit, BufInvInit, FwInvInit
<1>2. Ctl /\ BufInv /\ FwInv /\ FifoOrder /\ [Next]_vars
        => (Ctl /\ BufInv /\ FwInv /\ FifoOrder)'
  <2> SUFFICES ASSUME Ctl, BufInv, FwInv, FifoOrder, [Next]_vars
               PROVE  (Ctl /\ BufInv /\ FwInv /\ FifoOrder)'
    OBVIOUS
  <2>1. "buf" \notin FailingStarts
    OBVIOUS
  <2>2. Ctl'
    BY CtlStep
  <2>3. BufInv'
    BY <2>1, BufInvStep
  <2>4. FwInv'
    BY <2>1, <2>2, <2>3, FwInvStep
  <2> QED
    BY <2>2, <2>3, <2>4, OrderStep
<1> QED
  BY <1>1, <1>2, PTL DEF Spec
-----------------------------------------------------------------------------
(* Types *)

\* What Ctl and BufInv do not say of the types.
FlagType ==
  /\ avStreaming \in [Node -> BOOLEAN] /\ sawPipe \in [Node -> BOOLEAN]
  /\ inStop \in BOOLEAN /\ resetNeeded \in BOOLEAN
OlderType == \A p \in older : \E q \in Node : p \in BufsOf(q) \X BufsOf(q)
StreamingBound == \A o \in Node : ip[o].nrStreaming <= MaxCount
StrayType == stray \subseteq Buf
TypeRest == FlagType /\ OlderType /\ StreamingBound /\ StrayType

LEMMA EnqueueTypes ==
  ASSUME OlderType, NEW q \in Node, NEW bs \in SUBSET BufsOf(q), Enqueue(q, bs) PROVE OlderType'
<1>1. IsFiniteSet(bs)
  <2>1. bs \subseteq Buf
    BY DEF BufsOf
  <2> QED
    BY <2>1, FiniteBuf, FS_Subset
<1>2. In(SetToSeq(bs)) = bs
  BY <1>1, SetList
<1>3. InOrder(SetToSeq(bs)) \subseteq BufsOf(q) \X BufsOf(q)
  BY <1>2 DEF InOrder
<1> QED
  BY <1>3 DEF Enqueue, OlderType

LEMMA ForgetTypes == ASSUME OlderType, NEW gone, Forget(gone) PROVE OlderType'
BY DEF OlderType, Forget

LEMMA BoundStep ==
  ASSUME Ctl, StreamingBound, Next PROVE StreamingBound'
<1>t. /\ \A q \in Node : S(q) \in Thread /\ B(q) \in Thread
      /\ \A t \in Thread : t = S(t[1]) \/ t = B(t[1])
  BY Threads DEF Thread, S, B
<1>0. /\ ip \in [Node -> IpRecord] /\ MaxCount \in Int
      /\ \A o \in Node : ip[o].nrStreaming \in Int /\ ip[o].nrStreaming <= MaxCount
  BY QueueAssumption DEF Ctl, CtlType, StreamingBound, IpRecord, QueueAssumption
<1>1. ASSUME UNCHANGED ip PROVE StreamingBound'
  BY <1>1 DEF StreamingBound
<1>2. ASSUME NEW q, NEW o, ip' = [ip EXCEPT ![o] = Without(@, q)] PROVE StreamingBound'
  BY <1>0, <1>2 DEF StreamingBound, Without, IpRecord
<1>3. ASSUME NEW t \in Thread, StreamStart(t) PROVE StreamingBound'
  <2>1. CASE StreamStarts(t) \/ FillCaptures(t) \/ FillEnds(t)
    BY <1>1, <2>1 DEF StreamStarts, FillCaptures, FillEnds, pipeline
  <2>2. CASE StreamStarted(t)
    BY <1>0, <2>2 DEF StreamStarted, StreamingBound, IpRecord
  <2>3. CASE StreamStartFails(t) \/ GivenUp(t) \/ FillNoMsg(t)
    BY <1>1, <1>2, <2>3 DEF StreamStartFails, StreamNotStarted, GivenUp, StreamNotAcknowledged,
       SensorFails, FillNoMsg, StartUnwinds
  <2> QED
    BY <1>3, <2>1, <2>2, <2>3 DEF StreamStart, GivenUp
<1>4. ASSUME NEW q \in Node, QBuf(q) \/ StreamOn(q) \/ StreamOff(q) \/ BufReady(q) \/ LateReady(q) PROVE StreamingBound'
  BY <1>1, <1>4 DEF QBuf, StreamOn, StreamOff, BufReady, LateReady, pipeline
<1>5. ASSUME NEW q \in Node, QueueStep(q) PROVE StreamingBound'
  <2>1. CASE QBufRelocks(q) \/ QBufWaits(q) \/ QBufNoMsg(q) \/ QBufStarts(q) \/ QBufCaptures(q)
    BY <1>1, <2>1 DEF QBufRelocks, QBufWaits, QBufNoMsg, QBufStarts, QBufCaptures, pipeline
  <2> QED
    BY <1>3, <1>5, <1>t, <2>1 DEF QueueStep
<1>6. ASSUME NEW q \in Node, StreamStep(q) PROVE StreamingBound'
  <2>1. CASE \/ StartWaits(q) \/ StartFindsPipeline(q) \/ StopWaits(q) \/ StopFindsNone(q)
             \/ StopLocks(q) \/ StopFlushes(q) \/ StopReturns(q)
    BY <1>1, <2>1 DEF StartWaits, StartFindsPipeline, StopWaits, StopFindsNone, StopLocks,
                      StopFlushes, StopReturns, pipeline
  <2>2. CASE StartPrepares(q) \/ StartPrepareFails(q)
    BY <1>0, <2>2 DEF StartPrepares, StartPrepareFails, StreamingBound, IpRecord
  <2>3. CASE StartJoins(q)
    BY <1>0, <2>3 DEF StartJoins, StreamingBound, IpRecord
  <2>4. CASE StartUndone(q)
    BY <1>0, <1>1, <2>4 DEF StartUndone, StreamingBound, IpRecord
  <2>5. CASE StopFlushed(q) \/ StopLeaves(q)
    <3>1. PICK o, n : ip' = [ip EXCEPT ![o] = [Without(ip[o], q) EXCEPT !.streaming = FALSE,
                                                                        !.startCount = n]]
      BY <2>5 DEF StopFlushed, StopLeaves, LeavePipeline
    <3>2. PICK r : r = [Without(ip[o], q) EXCEPT !.streaming = FALSE, !.startCount = n]
      OBVIOUS
    <3>o. o \in Node => r.nrStreaming = ip[o].nrStreaming - 1
      <4> SUFFICES ASSUME o \in Node PROVE r.nrStreaming = ip[o].nrStreaming - 1
        OBVIOUS
      <4>1. ip[o] \in IpRecord
        BY <1>0
      <4> QED
        BY <3>2, <4>1 DEF Without, IpRecord
    <3>3. ip' = [ip EXCEPT ![o] = r]
      BY <3>1, <3>2
    <3> QED
      BY <1>0, <3>o, <3>3 DEF StreamingBound, IpRecord
  <2> QED
    BY <1>3, <1>6, <1>t, <2>1, <2>2, <2>3, <2>4, <2>5 DEF StreamStep
<1> QED
  BY <1>4, <1>5, <1>6 DEF Next

LEMMA FlagStep ==
  ASSUME Ctl, FlagType, Next PROVE FlagType'
<1>t. \A q \in Node : S(q) \in Thread /\ B(q) \in Thread
  BY Threads
<1>1. ASSUME UNCHANGED << avStreaming, sawPipe, inStop, resetNeeded >> PROVE FlagType'
  BY <1>1 DEF FlagType
<1>3. ASSUME NEW t \in Thread, StreamStart(t) PROVE FlagType'
  <2>1. CASE StreamStarted(t)
    BY <2>1 DEF StreamStarted, FlagType, locals, flags
  <2> QED
    BY <1>1, <1>3, <2>1 DEF StreamStart, StreamStartFails, StreamStarts, StreamNotStarted,
       StreamNotAcknowledged, SensorFails,
       FillCaptures, FillNoMsg, FillEnds, pipeline, locals, flags
<1>4. ASSUME NEW q \in Node, QBuf(q) PROVE FlagType'
  BY <1>4 DEF QBuf, FlagType, pipeline, flags
<1>5. ASSUME NEW q \in Node, StreamOn(q) \/ StreamOff(q) \/ BufReady(q) \/ LateReady(q) PROVE FlagType'
  BY <1>1, <1>5 DEF StreamOn, StreamOff, BufReady, LateReady, pipeline, locals, flags
<1>6. ASSUME NEW q \in Node, QueueStep(q) PROVE FlagType'
  BY <1>1, <1>3, <1>6, <1>t DEF QueueStep, QBufRelocks, QBufWaits, QBufNoMsg, QBufStarts,
     QBufCaptures, pipeline, locals, flags
<1>7. ASSUME NEW q \in Node, StreamStep(q) PROVE FlagType'
  <2>1. CASE \/ StartWaits(q) \/ StartPrepares(q) \/ StartFindsPipeline(q) \/ StartJoins(q)
             \/ StopLocks(q) \/ StopFlushes(q) \/ StopLeaves(q)
    BY <1>1, <2>1 DEF StartWaits, StartPrepares, StartFindsPipeline, StartJoins, StopLocks,
       StopFlushes, StopLeaves, pipeline, locals, flags
  <2>2. CASE StartPrepareFails(q) \/ StartUndone(q)
    BY <2>2 DEF StartPrepareFails, StartUndone, StartFails, FlagType, locals
  <2>3. CASE StopWaits(q) \/ StopFindsNone(q) \/ StopReturns(q)
    BY <2>3 DEF StopWaits, StopFindsNone, StopReturns, FlagType, pipeline, locals
  <2>4. CASE StopFlushed(q)
    BY <2>4 DEF StopFlushed, FlagType, locals, flags
  <2> QED
    BY <1>3, <1>7, <1>t, <2>1, <2>2, <2>3, <2>4 DEF StreamStep
<1> QED
  BY <1>4, <1>5, <1>6, <1>7 DEF Next

LEMMA OlderStep ==
  ASSUME OlderType, Next PROVE OlderType'
<1>t. \A q \in Node : S(q) \in Thread /\ B(q) \in Thread
  BY Threads
<1>1. ASSUME UNCHANGED older PROVE OlderType'
  BY <1>1 DEF OlderType
<1>2. ASSUME NEW bs, NEW to, BuffersDone(bs, to) PROVE OlderType'
  BY <1>2, ForgetTypes DEF BuffersDone
<1>3. ASSUME NEW t \in Thread, StreamStart(t) PROVE OlderType'
  BY <1>1, <1>2, <1>3, ForgetTypes DEF StreamStart, StreamStartFails, StreamStarts,
     StreamNotStarted, StreamNotAcknowledged, SensorFails,
     StreamStarted, FillCaptures, FillNoMsg, FillEnds, buffers
<1>4. ASSUME NEW q \in Node, QBuf(q) \/ StreamOn(q) \/ StreamOff(q) PROVE OlderType'
  BY <1>1, <1>4, EnqueueTypes DEF QBuf, StreamOn, StreamOff, buffers
<1>5. ASSUME NEW o \in Node, BufReady(o) \/ LateReady(o) PROVE OlderType'
  BY <1>1, <1>2, <1>5 DEF BufReady, LateReady
<1>6. ASSUME NEW q \in Node, QueueStep(q) PROVE OlderType'
  BY <1>1, <1>3, <1>6, <1>t DEF QueueStep, QBufRelocks, QBufWaits, QBufNoMsg, QBufStarts,
     QBufCaptures, buffers
<1>7. ASSUME NEW q \in Node, StreamStep(q) PROVE OlderType'
  <2>1. CASE \/ StartWaits(q) \/ StartPrepares(q) \/ StartFindsPipeline(q) \/ StartJoins(q) \/ StopWaits(q)
             \/ StopLocks(q) \/ StopFlushes(q) \/ StopFlushed(q) \/ StopLeaves(q)
    BY <1>1, <2>1 DEF StartWaits, StartPrepares, StartFindsPipeline, StartJoins, StopWaits,
       StopLocks,
       StopFlushes, StopFlushed, StopLeaves, buffers
  <2>2. CASE StartPrepareFails(q) \/ StartUndone(q) \/ StopFindsNone(q) \/ StopReturns(q)
    BY <1>2, <2>2 DEF StartPrepareFails, StartUndone, StartFails, StopFindsNone, StopReturns, Cancel
  <2> QED
    BY <1>3, <1>7, <1>t, <2>1, <2>2 DEF StreamStep
<1> QED
  BY <1>4, <1>5, <1>6, <1>7 DEF Next

LEMMA StrayStep ==
  ASSUME Ctl, BufInv, StrayType, Next PROVE StrayType'
<1>t. \A q \in Node : S(q) \in Thread /\ B(q) \in Thread
  BY Threads
<1>1. ASSUME UNCHANGED stray PROVE StrayType'
  BY <1>1 DEF StrayType
<1>2. ASSUME NEW o \in Node, Flush(o) \/ Close(o) PROVE StrayType'
  <2>1. UNION In(fw[o]) \subseteq Buf
    <3>1. fw[o] \in Seq(SUBSET Buf)
      BY DEF BufInv, BufType
    <3> QED
      BY <3>1 DEF In
  <2> QED
    BY <1>1, <1>2, <2>1 DEF Flush, Close, Keeps, StrayType
<1>3. ASSUME NEW t \in Thread, StreamStart(t) PROVE StrayType'
  <2>1. CASE GivenUp(t)
    <3>1. ipOf[t] \in Node /\ (Flush(ipOf[t]) \/ Close(ipOf[t]))
      BY <2>1, GivesUp DEF BufInv, GivenUp, StreamNotAcknowledged, SensorFails
    <3> QED
      BY <1>2, <3>1
  <2> QED
    BY <1>1, <1>3, <2>1 DEF StreamStart, GivenUp, StreamStartFails, StreamStarts, StreamStarted,
       FillCaptures, FillNoMsg, FillEnds, buffers
<1>4. ASSUME NEW q \in Node, QBuf(q) \/ StreamOn(q) \/ StreamOff(q) \/ BufReady(q) PROVE StrayType'
  BY <1>1, <1>4 DEF QBuf, StreamOn, StreamOff, BufReady, buffers
<1>5. ASSUME NEW q \in Node, LateReady(q) PROVE StrayType'
  BY <1>5 DEF LateReady, StrayType
<1>6. ASSUME NEW q \in Node, QueueStep(q) PROVE StrayType'
  BY <1>1, <1>3, <1>6, <1>t DEF QueueStep, QBufRelocks, QBufWaits, QBufNoMsg, QBufStarts,
     QBufCaptures, buffers
<1>7. ASSUME NEW q \in Node, StreamStep(q) PROVE StrayType'
  <2>1. CASE \/ StartWaits(q) \/ StartPrepares(q) \/ StartFindsPipeline(q) \/ StartJoins(q) \/ StopWaits(q)
             \/ StopLocks(q) \/ StopFlushes(q) \/ StopLeaves(q)
    BY <1>1, <2>1 DEF StartWaits, StartPrepares, StartFindsPipeline, StartJoins, StopWaits,
       StopLocks,
       StopFlushes, StopLeaves, buffers
  <2>2. CASE StartPrepareFails(q) \/ StartUndone(q) \/ StopFindsNone(q) \/ StopReturns(q)
    BY <1>1, <2>2 DEF StartPrepareFails, StartUndone, StopFindsNone, StopReturns
  <2>3. CASE StopFlushed(q)
    <3>1. ipOf[S(q)] \in Node /\ Close(ipOf[S(q)])
      BY <2>3 DEF StopFlushed, Ctl, Nodes, OneNode
    <3> QED
      BY <1>2, <3>1
  <2> QED
    BY <1>3, <1>7, <1>t, <2>1, <2>2, <2>3 DEF StreamStep
<1> QED
  BY <1>4, <1>5, <1>6, <1>7 DEF Next

\* Every variable keeps its type: no list has the buffer of another node, no count
\* leaves its range, and no thread does what is not foreseen.
THEOREM TypeCorrect ==
  ASSUME StartsTogether, "buf" \notin FailingStarts
  PROVE  Spec => []TypeOK
<1>1. ASSUME Init PROVE TypeRest
  <2>1. FlagType /\ OlderType /\ StrayType
    BY <1>1 DEF Init, FlagType, OlderType, StrayType
  <2>2. MaxCount \in Nat /\ \A o \in Node : ip[o].nrStreaming = 0
    BY <1>1, QueueAssumption DEF Init, QueueAssumption
  <2> QED
    BY <2>1, <2>2 DEF TypeRest, StreamingBound
<1>2. Ctl /\ BufInv /\ TypeRest /\ [Next]_vars => TypeRest'
  <2>1. CASE UNCHANGED vars
    BY <2>1 DEF vars, buffers, pipeline, locals, flags, TypeRest, FlagType, OlderType,
       StreamingBound,
              StrayType
  <2> QED
    BY <2>1, BoundStep, FlagStep, OlderStep, StrayStep DEF TypeRest
<1>3. Ctl /\ BufInv /\ TypeRest => TypeOK
  <2> SUFFICES ASSUME Ctl, BufInv, TypeRest PROVE TypeOK
    OBVIOUS
  <2>1. \A q \in Node : incoming[q] \in Seq(BufsOf(q))
    BY DEF BufInv, BufType, IsList
  <2>2. older \subseteq UNION {BufsOf(q) \X BufsOf(q) : q \in Node}
    BY DEF TypeRest, OlderType
  <2>3. \A q \in Node : active[q] \subseteq BufsOf(q) /\ fw[q] \in Seq(SUBSET Buf)
    BY DEF BufInv, BufType
  <2>4. ip \in [Node -> [nrQueues : 0 .. Cardinality(Node), queues : SUBSET Node,
                         nrStreaming : 0 .. MaxCount, streaming : BOOLEAN,
                         startCount : 0 .. MaxCount]]
    <3>1. Cardinality(Node) \in Nat /\ MaxCount \in Nat \ {0}
      BY FS_CardinalityType, QueueAssumption DEF QueueAssumption
    <3>2. ASSUME NEW o \in Node
          PROVE  /\ ip[o].nrQueues \in 0 .. Cardinality(Node) /\ ip[o].startCount \in 0 .. MaxCount
                 /\ ip[o].nrStreaming \in 0 .. MaxCount
      <4>1. PICK X \in SUBSET Node : X = ip[o].queues
        BY DEF Ctl, CtlType
      <4>2. Cardinality(X) \in Nat
        BY SubsetFacts
      <4>3. /\ ip[o].nrStreaming = Cardinality(X) /\ ip[o].nrStreaming <= MaxCount
            /\ ip[o].nrQueues \in {0, Cardinality(Node)} /\ ip[o].startCount \in {0, 1}
        BY <4>1 DEF Ctl, Pipelines, OnePipeline, N, TypeRest, StreamingBound
      <4> QED
        BY <3>1, <4>2, <4>3
    <3>3. ip \in [Node -> IpRecord]
      BY DEF Ctl, CtlType, IpRecord
    <3> QED
      BY <3>2, <3>3 DEF IpRecord
  <2>5. pc \in [Thread -> {"idle", "relock", "submit", "oops"} \cup OnPhase \cup OffPhase \cup StartPhase]
    BY DEF Ctl, CtlType, IoctlPhase
  <2> QED
    BY <2>1, <2>2, <2>3, <2>4, <2>5 DEF TypeOK, Ctl, CtlType, BufInv, BufType, TypeRest, FlagType,
       StrayType
<1>4. Init => Ctl /\ BufInv /\ TypeRest
  BY <1>1, CtlInit, BufInvInit
<1>5. Ctl /\ BufInv /\ TypeRest /\ [Next]_vars => (Ctl /\ BufInv /\ TypeRest)'
  BY <1>2, CtlStep, BufInvStep
<1> QED
  BY <1>3, <1>4, <1>5, PTL DEF Spec
=============================================================================
