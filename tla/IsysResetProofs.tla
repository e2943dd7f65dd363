---------------------------- MODULE IsysResetProofs ----------------------------
(***************************************************************************)
(* For every number of nodes, if starts and resets keep out of each        *)
(* other's way: no buffer is lost or listed twice, no buffer is left       *)
(* lying, and a stream that was started streams again after a reset.       *)
(***************************************************************************)
EXTENDS IsysReset, Integers, FiniteSetTheorems, SequenceTheorems, FunctionTheorems, TLAPS

\* Starts, but those of the reset, and resets keep out of each other's way.
StartsApart == "startInReset" \notin Faults

(* Types *)

RestPhase == {"idle", "wait", "relock", "submit", "oops", "onQueue", "onWait", "onLock"}
Place == RestPhase \cup StartPhase \cup StopPhase \cup ResetPhase

TypedLists ==
  /\ vb \in [Buf -> {"user", "vb2", "driver"}]
  /\ incoming \in [Node -> Seq(Buf)] /\ active \in [Node -> Seq(Buf)] /\ fw \in [Node -> Seq(Buf)]
  /\ taken \in [Thread -> Buf \cup {NoBuf}]
TypedStreams ==
  /\ open \subseteq Node /\ ssc \subseteq Node /\ pipe \subseteq Node /\ streaming \subseteq Node
  /\ started \subseteq Node /\ reset \subseteq Node /\ sawPipe \subseteq Node /\ lost \subseteq Node
  /\ nr \in [Node -> Int]
TypedFlags == fwUp \in BOOLEAN /\ inReset \in BOOLEAN /\ inStop \in BOOLEAN /\ resetNeeded \in BOOLEAN
TypedControl ==
  /\ lock \in [Node -> Thread \cup {NoThread}]
  /\ pc \in [Thread -> Place]
  /\ on \in [Thread -> 1 .. Nodes + 1]
Typed == TypedLists /\ TypedStreams /\ TypedFlags /\ TypedControl

(* Who holds which mutex, and what for *)

HoldPhase == {"flush", "offReturn", "offEnd", "reset"} \cup ResetPhase
Stopping == {"offLock", "flush", "offReturn"}

\* The thread S(q) runs a reset.
Resets(q) == pc[S(q)] \in ResetPhase \/ (pc[S(q)] \in StartPhase /\ on[S(q)] # q)

HoldsLock(t, q) ==
  \/ pc[t] \in StartPhase \cup {"flushOther"} /\ on[t] = q
  \/ t = S(q) /\ (pc[t] \in HoldPhase \/ Resets(q))

Locked == \A q \in Node : \A t \in Thread : lock[q] = t <=> HoldsLock(t, q)

VisitsOfB(q) == on[B(q)] = q /\ pc[B(q)] \in {"idle", "wait", "relock", "submit", "oops"} \cup StartPhase

VisitsOfS(q) ==
  /\ pc[S(q)] \notin {"wait", "relock", "submit", "oops"}
  /\ pc[S(q)] = "flushOther" => on[S(q)] \in Node \ {q}
  /\ pc[S(q)] \in StartPhase => on[S(q)] \in Node
  /\ pc[S(q)] \notin StartPhase \cup (ResetPhase \ {"quiesce"}) => on[S(q)] = q

Visits == \A q \in Node : VisitsOfB(q) /\ VisitsOfS(q)

Flags ==
  /\ \A q \in Node : Resets(q) => inReset
  /\ \A q, r \in Node : Resets(q) /\ Resets(r) => q = r
  /\ \A q \in Node : pc[S(q)] \in Stopping => inStop
  /\ \A q, r \in Node : pc[S(q)] \in Stopping /\ pc[S(r)] \in Stopping => q = r
  /\ inReset => \A t \in Thread : pc[t] \in StartPhase => t = S(t[1]) /\ Resets(t[1])
  /\ \A q, r \in Node : Resets(q) /\ pc[S(q)] # "quiesce" => pc[S(r)] \notin Stopping
  /\ fwUp \/ \E q \in Node : pc[S(q)] = "powerUp"

\* What the reset of q has visited.
Scan(q) ==
  /\ pc[S(q)] = "quiesce" => reset = {}
  /\ pc[S(q)] \in {"scan", "flushOther"} => \A r \in Node : r < on[S(q)] => r \notin streaming
  /\ pc[S(q)] \in {"powerDown", "powerUp"} => streaming = {}
  /\ pc[S(q)] = "restart" => \A r \in reset : r >= on[S(q)]
  /\ pc[S(q)] \in StartPhase /\ on[S(q)] # q => \A r \in reset : r > on[S(q)]
  /\ pc[S(q)] = "resetEnds" => reset = {}

Scans == (~ inReset => reset = {}) /\ \A q \in Node : Scan(q)

Control == Locked /\ Visits /\ Flags

(* The life of a node's stream *)

\* What the holder of the mutex of q does to q.
Doing(q, s) == lock[q] \in Thread /\ on[lock[q]] = q /\ pc[lock[q]] = s
Starts(q) == \E s \in StartPhase : Doing(q, s)

Down(q) == q \notin pipe \cup streaming \cup started
Stopped(q) == /\ Down(q) /\ q \notin ssc \cup reset /\ pc[S(q)] \in {"idle", "onQueue"}
              /\ pc[S(q)] = "onQueue" => q \notin lost
Opening(q) == Down(q) /\ q \notin reset \cup lost /\ q \in ssc /\ pc[S(q)] \in {"onWait", "onLock"}
Starting(q) == /\ q \in pipe \cap ssc /\ q \notin started \cup reset \cup lost
               /\ Starts(q) /\ lock[q] # B(q)
               /\ pc[S(q)] \in {"idle", "offWait"} \/ lock[q] = S(q)
Started(q) == /\ q \in pipe \cap ssc \cap started /\ q \notin lost
              /\ q \in reset <=> Doing(q, "flushOther")
              /\ pc[S(q)] \in {"idle", "offWait", "offLock", "flush"}
Leaving(q) == /\ q \in ssc \cap started /\ q \notin pipe \cup streaming \cup reset \cup lost
              /\ pc[S(q)] = "offReturn"
Ending(q) == /\ Down(q) /\ q \in ssc /\ q \notin reset \cup lost
             /\ incoming[q] = << >> /\ active[q] = << >>
             /\ pc[S(q)] \in {"offEnd", "reset"} \/ Resets(q)
Interrupted(q) == Down(q) /\ q \in ssc \cap reset /\ q \notin lost /\ pc[S(q)] \in {"idle", "offWait"}
Lost(q) == Down(q) /\ q \in ssc \cap lost /\ q \notin reset /\ pc[S(q)] \in {"idle", "offWait"}

Mode(q) ==
  /\ nr[q] = IF q \in pipe THEN 1 ELSE 0
  /\ \/ Stopped(q) \/ Opening(q) \/ Starting(q) \/ Started(q) \/ Leaving(q) \/ Ending(q)
     \/ Interrupted(q) \/ Lost(q)
  /\ pc[B(q)] \in StartPhase => Started(q)
  /\ Starts(q) => /\ q \in pipe
                  /\ q \in streaming <=> Doing(q, "fill")
                  /\ q \in started <=> lock[q] = B(q)
  /\ pc[S(q)] = "flush" \/ Doing(q, "flushOther") => q \in streaming

\* The firmware has the buffers of the active list, or none.
Frames(q) ==
  /\ fw[q] \in {<< >>, active[q]}
  /\ q \in streaming => q \in open /\ fw[q] = active[q]
  /\ q \notin streaming /\ fw[q] # << >> => Doing(q, "await")
  /\ q \notin streaming /\ active[q] # << >> =>
       q \in reset \/ pc[S(q)] = "offReturn" \/ Doing(q, "await")
  /\ Doing(q, "await") =>
       /\ q \in open
       /\ IF lock[q] \in {B(q), S(q)} THEN fw[q] = active[q]
          ELSE fw[q] = << >> /\ active[q] = << taken[lock[q]] >>

\* The buffer of q that a start has in hand.
InHand(q) == IF Doing(q, "start") THEN {taken[lock[q]]} ELSE {}
Owned(q) == {b \in BufsOf(q) : vb[b] = "driver"}

Lists(q) ==
  /\ incoming[q] \in Seq(BufsOf(q)) /\ active[q] \in Seq(BufsOf(q))
  /\ Doing(q, "start") \/ Doing(q, "await") => taken[lock[q]] \in BufsOf(q)
  /\ q \in ssc \/ q \notin lost =>
       /\ IsInjective(incoming[q]) /\ IsInjective(active[q])
       /\ Range(incoming[q]) \cap Range(active[q]) = {}
       /\ InHand(q) \cap (Range(incoming[q]) \cup Range(active[q])) = {}
       /\ Owned(q) = Range(incoming[q]) \cup Range(active[q]) \cup InHand(q)

\* A buffer that waits has somebody coming for it.
Calm(q) ==
  nr[q] = 1 /\ incoming[q] # << >> /\ Free(q) =>
    /\ Tail(incoming[q]) = << >>
    /\ pc[B(q)] = "submit" \/ (pc[B(q)] \in {"wait", "relock"} /\ q \in sawPipe)

NodeInv(q) == Mode(q) /\ Frames(q) /\ Lists(q) /\ Calm(q)

IInv == Typed /\ Control /\ Scans /\ \A q \in Node : NodeInv(q)

-----------------------------------------------------------------------------
(* Lists *)

LEMMA EmptyList ==
  /\ IsInjective(<< >>) /\ Range(<< >>) = {}
  /\ \A s : << >> \in Seq(s)
BY DEF IsInjective, Range

LEMMA OneList ==
  ASSUME NEW X, NEW e \in X
  PROVE  /\ << e >> \in Seq(X) /\ << e >> # << >> /\ Head(<< e >>) = e /\ Tail(<< e >>) = << >>
         /\ IsInjective(<< e >>) /\ Range(<< e >>) = {e}
         /\ Append(<< >>, e) = << e >>
BY DEF IsInjective, Range

LEMMA ListAppend ==
  ASSUME NEW X, NEW s \in Seq(X), NEW e \in X
  PROVE  /\ Append(s, e) \in Seq(X) /\ Append(s, e) # << >>
         /\ Range(Append(s, e)) = Range(s) \cup {e}
         /\ IsInjective(s) /\ e \notin Range(s) => IsInjective(Append(s, e))
<1>1. /\ Append(s, e) \in Seq(X) /\ Append(s, e) # << >> /\ Len(Append(s, e)) = Len(s) + 1
      /\ \A i \in 1 .. Len(s) : Append(s, e)[i] = s[i]
      /\ Append(s, e)[Len(s) + 1] = e
  BY AppendProperties
<1>2. /\ Len(s) \in Nat /\ DOMAIN s = 1 .. Len(s)
      /\ DOMAIN Append(s, e) = 1 .. Len(s) + 1
  BY <1>1, LenProperties
<1>3. Range(Append(s, e)) = Range(s) \cup {e}
  <2> SUFFICES ASSUME NEW x PROVE x \in Range(Append(s, e)) <=> x \in Range(s) \cup {e}
    OBVIOUS
  <2>1. ASSUME NEW i \in 1 .. Len(s) + 1 PROVE Append(s, e)[i] \in Range(s) \cup {e}
    <3>1. i \in 1 .. Len(s) \/ i = Len(s) + 1
      BY <1>2
    <3> QED
      BY <1>1, <1>2, <3>1 DEF Range
  <2>2. ASSUME NEW i \in 1 .. Len(s) PROVE s[i] \in Range(Append(s, e))
    <3>1. i \in 1 .. Len(s) + 1
      BY <1>2
    <3> QED
      BY <1>1, <1>2, <3>1 DEF Range
  <2>3. e \in Range(Append(s, e))
    <3>1. Len(s) + 1 \in 1 .. Len(s) + 1
      BY <1>2
    <3> QED
      BY <1>1, <1>2, <3>1 DEF Range
  <2>4. x \in Range(Append(s, e)) => x \in Range(s) \cup {e}
    BY <1>2, <2>1 DEF Range
  <2>5. x \in Range(s) => x \in Range(Append(s, e))
    BY <1>2, <2>2 DEF Range
  <2> QED
    BY <2>3, <2>4, <2>5
<1>4. ASSUME IsInjective(s), e \notin Range(s) PROVE IsInjective(Append(s, e))
  <2> SUFFICES ASSUME NEW i \in 1 .. Len(s) + 1, NEW j \in 1 .. Len(s) + 1,
                      Append(s, e)[i] = Append(s, e)[j]
               PROVE  i = j
    BY <1>2 DEF IsInjective
  <2>1. /\ i \in 1 .. Len(s) \/ i = Len(s) + 1
        /\ j \in 1 .. Len(s) \/ j = Len(s) + 1
    BY <1>2
  <2>2. \A k \in 1 .. Len(s) : Append(s, e)[k] # e
    BY <1>1, <1>2, <1>4 DEF Range
  <2> QED
    BY <1>1, <1>2, <1>4, <2>1, <2>2 DEF IsInjective
<1> QED
  BY <1>1, <1>3, <1>4

LEMMA ListTail ==
  ASSUME NEW X, NEW s \in Seq(X), s # << >>
  PROVE  /\ Head(s) \in X /\ Tail(s) \in Seq(X) /\ Head(s) = s[1] /\ 1 \in DOMAIN s
         /\ Range(s) = {Head(s)} \cup Range(Tail(s))
         /\ IsInjective(s) => IsInjective(Tail(s)) /\ Head(s) \notin Range(Tail(s))
<1>1. /\ Head(s) \in X /\ Tail(s) \in Seq(X) /\ Len(Tail(s)) = Len(s) - 1
      /\ \A i \in 1 .. Len(Tail(s)) : Tail(s)[i] = s[i + 1]
  BY HeadTailProperties
<1>2. /\ Len(s) \in Nat \ {0} /\ DOMAIN s = 1 .. Len(s)
      /\ DOMAIN Tail(s) = 1 .. Len(s) - 1 /\ Head(s) = s[1]
  BY <1>1, LenProperties, EmptySeq
<1>3. 1 \in DOMAIN s
  BY <1>2
<1>4. \A i \in 1 .. Len(s) - 1 : i + 1 \in 1 .. Len(s) /\ Tail(s)[i] = s[i + 1]
  BY <1>1, <1>2
<1>5. \A i \in 1 .. Len(s) : i = 1 \/ (i - 1 \in 1 .. Len(s) - 1 /\ s[i] = Tail(s)[i - 1])
  <2> SUFFICES ASSUME NEW i \in 1 .. Len(s), i # 1
               PROVE  i - 1 \in 1 .. Len(s) - 1 /\ s[i] = Tail(s)[i - 1]
    OBVIOUS
  <2>1. i - 1 \in 1 .. Len(s) - 1 /\ (i - 1) + 1 = i
    BY <1>2
  <2> QED
    BY <1>4, <2>1
<1>6. Range(s) = {Head(s)} \cup Range(Tail(s))
  <2>1. ASSUME NEW i \in 1 .. Len(s) PROVE s[i] \in {Head(s)} \cup Range(Tail(s))
    BY <1>2, <1>5 DEF Range
  <2>2. ASSUME NEW i \in 1 .. Len(s) - 1 PROVE Tail(s)[i] \in Range(s)
    BY <1>2, <1>4 DEF Range
  <2>3. Range(s) \subseteq {Head(s)} \cup Range(Tail(s))
    BY <1>2, <2>1 DEF Range
  <2>4. Range(Tail(s)) \subseteq Range(s)
    BY <1>2, <2>2 DEF Range
  <2>5. Head(s) \in Range(s)
    BY <1>2, <1>3 DEF Range
  <2> QED
    BY <2>3, <2>4, <2>5
<1>7. ASSUME IsInjective(s)
      PROVE  IsInjective(Tail(s)) /\ Head(s) \notin Range(Tail(s))
  <2>1. ASSUME NEW i \in 1 .. Len(s) - 1, NEW j \in 1 .. Len(s) - 1, Tail(s)[i] = Tail(s)[j]
        PROVE  i = j
    <3>1. i + 1 = j + 1
      BY <1>2, <1>4, <1>7, <2>1 DEF IsInjective
    <3> QED
      BY <3>1
  <2>2. ASSUME NEW i \in 1 .. Len(s) - 1, Tail(s)[i] = s[1]
        PROVE  FALSE
    <3>1. i + 1 = 1
      BY <1>2, <1>3, <1>4, <1>7, <2>2 DEF IsInjective
    <3> QED
      BY <3>1
  <2>3. IsInjective(Tail(s))
    BY <1>2, <2>1 DEF IsInjective
  <2>4. Head(s) \notin Range(Tail(s))
    BY <1>2, <2>2 DEF Range
  <2> QED
    BY <2>3, <2>4
<1> QED
  BY <1>1, <1>2, <1>3, <1>6, <1>7

LEMMA ListConcat ==
  ASSUME NEW X, NEW s \in Seq(X), NEW u \in Seq(X)
  PROVE  /\ s \o u \in Seq(X)
         /\ Range(s \o u) = Range(s) \cup Range(u)
         /\ IsInjective(s) /\ IsInjective(u) /\ Range(s) \cap Range(u) = {} =>
              IsInjective(s \o u)
<1>1. /\ s \o u \in Seq(X) /\ Len(s \o u) = Len(s) + Len(u)
      /\ \A i \in 1 .. Len(s) + Len(u) :
           (s \o u)[i] = IF i <= Len(s) THEN s[i] ELSE u[i - Len(s)]
  BY ConcatProperties
<1>2. /\ Len(s) \in Nat /\ Len(u) \in Nat /\ DOMAIN s = 1 .. Len(s) /\ DOMAIN u = 1 .. Len(u)
      /\ DOMAIN (s \o u) = 1 .. Len(s) + Len(u)
  BY <1>1, LenProperties
<1>3. ASSUME NEW i \in 1 .. Len(s) + Len(u)
      PROVE  \/ i \in DOMAIN s /\ (s \o u)[i] = s[i]
             \/ i - Len(s) \in DOMAIN u /\ i > Len(s) /\ (s \o u)[i] = u[i - Len(s)]
  BY <1>1, <1>2
<1>4. ASSUME IsInjective(s), IsInjective(u), Range(s) \cap Range(u) = {}
      PROVE  IsInjective(s \o u)
  <2> SUFFICES ASSUME NEW i \in 1 .. Len(s) + Len(u), NEW j \in 1 .. Len(s) + Len(u),
                      (s \o u)[i] = (s \o u)[j]
               PROVE  i = j
    BY <1>2 DEF IsInjective
  <2>1. \A k \in DOMAIN s, l \in DOMAIN u : s[k] # u[l]
    BY <1>4 DEF Range
  <2>2. CASE i \in DOMAIN s /\ (s \o u)[i] = s[i]
    <3>1. j \in DOMAIN s /\ (s \o u)[j] = s[j]
      BY <1>3, <2>1, <2>2
    <3> QED
      BY <1>4, <2>2, <3>1 DEF IsInjective
  <2>3. CASE i - Len(s) \in DOMAIN u /\ (s \o u)[i] = u[i - Len(s)]
    <3>1. j - Len(s) \in DOMAIN u /\ (s \o u)[j] = u[j - Len(s)]
      BY <1>3, <2>1, <2>3
    <3>2. i - Len(s) = j - Len(s)
      BY <1>4, <2>3, <3>1 DEF IsInjective
    <3> QED
      BY <1>2, <3>2
  <2> QED
    BY <1>3, <2>2, <2>3
<1> QED
  BY <1>1, <1>4, RangeConcatenation

\* list_del() of the oldest entry, which is the only one of its kind.
LEMMA ListRemoveFirst ==
  ASSUME NEW X, NEW s \in Seq(X), s # << >>, IsInjective(s),
         NEW i \in DOMAIN s, s[i] = Head(s)
  PROVE  RemoveAt(s, i) = Tail(s)
<1>1. i = 1 /\ Len(s) \in Nat \ {0} /\ Head(s) = s[1]
  BY ListTail, EmptySeq DEF IsInjective
<1>2. SubSeq(s, 1, 0) = << >> /\ SubSeq(s, 2, Len(s)) = Tail(s)
  BY SubSeqEmpty, TailIsSubSeq
<1>3. << >> \o Tail(s) = Tail(s)
  BY HeadTailProperties, ConcatEmptySeq
<1> QED
  BY <1>1, <1>2, <1>3 DEF RemoveAt

LEMMA ListOfSet ==
  ASSUME NEW X, IsFiniteSet(X)
  PROVE  /\ SetToSeq(X) \in Seq(X) /\ IsInjective(SetToSeq(X)) /\ Range(SetToSeq(X)) = X
<1> DEFINE n == Cardinality(X)
<1>1. n \in Nat /\ ExistsBijection(1 .. n, X)
  BY FS_CardinalityType
<1>2. \E f \in [1 .. n -> X] : IsInjective(f)
  BY <1>1 DEF ExistsBijection, Bijection, Injection
<1>3. SetToSeq(X) \in [1 .. n -> X] /\ IsInjective(SetToSeq(X))
  BY <1>2 DEF SetToSeq
<1>4. SetToSeq(X) \in Injection(1 .. n, X)
  BY <1>3 DEF Injection
<1>5. IsFiniteSet(1 .. n) /\ Cardinality(1 .. n) = n
  BY <1>1, FS_Interval
<1>6. SetToSeq(X) \in Surjection(1 .. n, X)
  BY <1>4, <1>5, FS_Injection
<1>7. Range(SetToSeq(X)) = X
  BY <1>3, <1>6 DEF Surjection, Range
<1>8. SetToSeq(X) \in Seq(X)
  BY <1>1, <1>3
<1> QED
  BY <1>3, <1>7, <1>8

-----------------------------------------------------------------------------
(* Threads and buffers *)

LEMMA ThreadFacts ==
  /\ NoThread \notin Thread
  /\ \A q \in Node : B(q) \in Thread /\ S(q) \in Thread /\ B(q)[1] = q /\ S(q)[1] = q
  /\ \A q, r \in Node : B(q) # S(r) /\ (B(q) = B(r) => q = r) /\ (S(q) = S(r) => q = r)
  /\ \A t \in Thread : t[1] \in Node /\ (t = B(t[1]) \/ t = S(t[1]))
<1>1. "buf" # "stream" /\ "none" \notin {"buf", "stream"}
  OBVIOUS
<1> QED
  BY <1>1 DEF Thread, B, S, NoThread

LEMMA BufFacts ==
  /\ NoBuf \notin Buf
  /\ \A q \in Node : BufsOf(q) \subseteq Buf /\ IsFiniteSet(BufsOf(q))
  /\ \A q, r \in Node : q # r => BufsOf(q) \cap BufsOf(r) = {}
  /\ \A b \in Buf : b[1] \in Node /\ b \in BufsOf(b[1])
<1>1. \A q \in Node : q # 0
  BY ResetAssumption DEF Node
<1>2. ASSUME NEW q \in Node PROVE IsFiniteSet(BufsOf(q))
  <2>1. IsFiniteSet({q}) /\ IsFiniteSet({1})
    BY FS_Singleton
  <2>3. 1 .. 2 = {1} \cup {2}
    OBVIOUS
  <2>4. IsFiniteSet({2})
    BY FS_Singleton
  <2>0. IsFiniteSet(1 .. 2)
    BY <2>1, <2>3, <2>4, FS_Union
  <2>2. IsFiniteSet(IF q \in DeepNode THEN 1 .. 2 ELSE {1})
    BY <2>0, <2>1
  <2> QED
    BY <2>1, <2>2, FS_Product DEF BufsOf
<1>3. \A q \in Node : BufsOf(q) \subseteq Buf
  BY DEF Buf
<1>4. \A q \in Node : \A b \in BufsOf(q) : b[1] = q
  BY DEF BufsOf
<1>5. \A b \in Buf : \E q \in Node : b \in BufsOf(q)
  BY DEF Buf
<1>6. NoBuf \notin Buf
  BY <1>1, <1>4, <1>5 DEF NoBuf
<1> QED
  BY <1>2, <1>3, <1>4, <1>5, <1>6

\* A step of the thread t, that changes the node n only.
Moves(t) == \A u \in Thread \ {t} : pc'[u] = pc[u] /\ on'[u] = on[u] /\ taken'[u] = taken[u]
Still(n) ==
  /\ nr'[n] = nr[n]
  /\ n \in ssc' <=> n \in ssc
  /\ n \in pipe' <=> n \in pipe
  /\ n \in streaming' <=> n \in streaming
  /\ n \in started' <=> n \in started
  /\ n \in reset' <=> n \in reset
  /\ n \in lost' <=> n \in lost
Untouched(n) ==
  /\ Still(n)
  /\ incoming'[n] = incoming[n] /\ active'[n] = active[n] /\ fw'[n] = fw[n] /\ lock'[n] = lock[n]
  /\ n \in open' <=> n \in open
  /\ n \in sawPipe' <=> n \in sawPipe
  /\ \A b \in BufsOf(n) : vb'[b] = vb[b]
Touches(n) == \A r \in Node \ {n} : Untouched(r)
Works(t, n) == Moves(t) /\ Touches(n)

\* Who does not start a stream or flush another node's.
NotAtWork(t) == pc[t] \notin StartPhase \cup {"flushOther"}

LEMMA HolderDoes ==
  ASSUME Locked, Visits, NEW q \in Node, NEW t \in Thread, on[t] = q, ~ NotAtWork(t)
  PROVE  lock[q] = t /\ \A s : Doing(q, s) <=> pc[t] = s
BY DEF Locked, HoldsLock, NotAtWork, Doing

LEMMA NobodyDoes ==
  ASSUME NEW q \in Node,
         lock[q] = NoThread \/ (lock[q] \in Thread /\ NotAtWork(lock[q]))
  PROVE  \A s \in StartPhase \cup {"flushOther"} : ~ Doing(q, s)
BY ThreadFacts DEF NotAtWork, Doing

\* A node that a step does not concern stays as it was.
LEMMA OthersKept ==
  ASSUME Typed, Typed', Locked, Visits, NEW t \in Thread, NEW n \in Node, NEW r \in Node,
         Works(t, n), NodeInv(r), r # n, r # t[1], NotAtWork(t) \/ on[t] = n
  PROVE  NodeInv(r)'
<1>1. lock[r] # t
  BY ThreadFacts DEF Locked, HoldsLock, NotAtWork
<1>2. /\ pc'[S(r)] = pc[S(r)] /\ pc'[B(r)] = pc[B(r)] /\ on'[S(r)] = on[S(r)]
      /\ S(r) # t /\ B(r) # t
  BY ThreadFacts DEF Works, Moves, Touches, Untouched, Still
<1>3. lock'[r] = lock[r]
  BY DEF Works, Moves, Touches, Untouched, Still
<1>4. ASSUME NEW s PROVE Doing(r, s)' <=> Doing(r, s)
  BY <1>1, <1>3 DEF Doing, Works, Moves, Touches, Untouched, Still
<1>5. lock[r] \in Thread => taken'[lock[r]] = taken[lock[r]]
  BY <1>1 DEF Works, Moves, Touches, Untouched, Still
<1>6. (Starts(r)' <=> Starts(r)) /\ (Resets(r)' <=> Resets(r))
  BY <1>2, <1>4 DEF Starts, Resets
<1>7. Down(r)' <=> Down(r)
  BY DEF Down, Works, Moves, Touches, Untouched, Still
<1>8. Mode(r)'
  BY <1>2, <1>3, <1>4, <1>6, <1>7 DEF NodeInv, Mode, Works, Moves, Touches, Untouched, Still, Stopped, Opening, Starting, Started,
     Leaving, Ending, Interrupted, Lost
<1>9. Frames(r)'
  BY <1>2, <1>3, <1>4, <1>5 DEF NodeInv, Frames, Works, Moves, Touches, Untouched, Still, Doing
<1>10. InHand(r)' = InHand(r)
  BY <1>3, <1>4, <1>5 DEF InHand, Doing
<1>11. Owned(r)' = Owned(r)
  BY BufFacts DEF Owned, Works, Moves, Touches, Untouched, Still
<1>12. Lists(r)'
  BY <1>3, <1>4, <1>5, <1>10, <1>11 DEF NodeInv, Lists, Works, Moves, Touches, Untouched, Still, Doing
<1>13. Calm(r)'
  BY <1>2, <1>3 DEF NodeInv, Calm, Works, Moves, Touches, Untouched, Still, Free
<1> QED
  BY <1>8, <1>9, <1>12, <1>13 DEF NodeInv

\* The node that a reset has stopped for itself waits.
LEMMA ResetterMode ==
  ASSUME Typed, Locked, Visits, NEW r \in Node, NodeInv(r), Resets(r)
  PROVE  lock[r] = S(r) /\ Ending(r) /\ \A s \in StartPhase \cup {"flushOther"} : ~ Doing(r, s)
<1>1. lock[r] = S(r)
  BY ThreadFacts DEF Locked, HoldsLock
<1>2. \A s \in StartPhase \cup {"flushOther"} : ~ Doing(r, s)
  BY <1>1 DEF Doing, Visits, VisitsOfB, VisitsOfS, Resets, StartPhase, ResetPhase
<1>3. ~ Starts(r)
  BY <1>2 DEF Starts
<1>4. pc[S(r)] \notin {"idle", "onQueue", "onWait", "onLock", "offWait", "offLock", "flush", "offReturn"}
  BY DEF Resets, StartPhase, ResetPhase
<1> QED
  BY <1>1, <1>2, <1>3, <1>4 DEF NodeInv, Mode, Stopped, Opening, Starting, Started, Leaving,
     Interrupted, Lost

LEMMA ResetterKept ==
  ASSUME Typed, Typed', Locked, Locked', Visits, Visits', NEW r \in Node,
         Moves(S(r)), Untouched(r), NodeInv(r), Resets(r), Resets(r)'
  PROVE  NodeInv(r)'
<1>1. lock[r] = S(r) /\ Ending(r)
  BY ResetterMode
<1>2. /\ lock'[r] = S(r) /\ pc'[B(r)] = pc[B(r)]
  BY <1>1, ThreadFacts DEF Moves, Untouched, Still
<1>3. \A s \in StartPhase \cup {"flushOther"} : ~ Doing(r, s)'
  BY <1>2 DEF Doing, Visits, VisitsOfB, VisitsOfS, Resets, StartPhase, ResetPhase
<1>4. ~ Starts(r)'
  BY <1>3 DEF Starts
<1>5. Down(r)' <=> Down(r)
  BY DEF Down, Moves, Untouched, Still
<1>6. Ending(r)'
  BY <1>1, <1>5 DEF Ending, Moves, Untouched, Still
<1>7. ~ Started(r) /\ pc[B(r)] \notin StartPhase
  <2>1. ~ Started(r)
    BY <1>1 DEF Ending, Down, Started
  <2> QED
    BY <2>1 DEF NodeInv, Mode
<1>8. pc'[S(r)] # "flush"
  BY DEF Resets, StartPhase, ResetPhase
<1>9. Mode(r)'
  BY <1>2, <1>3, <1>4, <1>6, <1>7, <1>8 DEF Mode, NodeInv, Moves, Untouched, Still
<1>10. nr[r] = 0 /\ incoming[r] = << >> /\ active[r] = << >> /\ r \notin streaming
  BY <1>1 DEF NodeInv, Mode, Ending, Down
<1>11. ~ Doing(r, "await")' /\ ~ Doing(r, "start")' /\ InHand(r)' = {}
  BY <1>3 DEF StartPhase, InHand
<1>12. Frames(r)'
  BY <1>10, <1>11 DEF Frames, NodeInv, Moves, Untouched, Still
<1>13. Owned(r)' = Owned(r)
  BY BufFacts DEF Owned, Moves, Untouched, Still
<1>14. InHand(r) = {}
  BY ResetterMode DEF InHand, StartPhase
<1>15. Lists(r)'
  BY <1>11, <1>13, <1>14 DEF Lists, NodeInv, Moves, Untouched, Still
<1>16. Calm(r)'
  BY <1>10 DEF Calm, Moves, Untouched, Still
<1> QED
  BY <1>9, <1>12, <1>15, <1>16 DEF NodeInv
-----------------------------------------------------------------------------
(* What each action changes, and the types *)

LEMMA GotoMoves ==
  ASSUME TypedControl, NEW t \in Thread, NEW s \in Place, Goto(t, s)
  PROVE  /\ pc' \in [Thread -> Place] /\ on' \in [Thread -> 1 .. Nodes + 1]
         /\ pc'[t] = s /\ on'[t] = on[t]
         /\ \A u \in Thread \ {t} : pc'[u] = pc[u] /\ on'[u] = on[u]
BY DEF TypedControl, Goto

LEMMA VisitMoves ==
  ASSUME TypedControl, NEW t \in Thread, NEW s \in Place, NEW n \in 1 .. Nodes + 1, Visit(t, s, n)
  PROVE  /\ pc' \in [Thread -> Place] /\ on' \in [Thread -> 1 .. Nodes + 1]
         /\ pc'[t] = s /\ on'[t] = n
         /\ \A u \in Thread \ {t} : pc'[u] = pc[u] /\ on'[u] = on[u]
BY DEF TypedControl, Visit

LEMMA HandChanges ==
  ASSUME TypedLists, NEW bs, NEW to \in {"user", "vb2", "driver"}, Hand(bs, to)
  PROVE  /\ vb' \in [Buf -> {"user", "vb2", "driver"}]
         /\ \A b \in Buf : vb'[b] = IF b \in bs THEN to ELSE vb[b]
BY DEF TypedLists, Hand

LEMMA NextNode == \A n \in Node : n + 1 \in 1 .. Nodes + 1 /\ n \in 1 .. Nodes + 1 /\ 1 \in 1 .. Nodes + 1
BY ResetAssumption DEF Node

LEMMA PlaceParts ==
  /\ RestPhase \subseteq Place /\ StartPhase \subseteq Place
  /\ StopPhase \subseteq Place /\ ResetPhase \subseteq Place
BY DEF Place

LEMMA Heads ==
  ASSUME NEW X, NEW s \in Seq(X), s # << >> PROVE Head(s) \in X /\ Tail(s) \in Seq(X)
BY ListTail

\* Steps that move a thread and change nothing else of a node.
LEMMA MovesOnly ==
  ASSUME Typed, NEW t \in Thread, NEW n \in Node, UNCHANGED << lists, firmware, streams, lock, locals >>,
         TypedFlags', Moves(t), TypedControl'
  PROVE  Typed' /\ Works(t, n)
<1>1. TypedLists' /\ TypedStreams'
  BY DEF Typed, TypedLists, TypedStreams, lists, firmware, streams, locals
<1>2. Touches(n)
  BY DEF Touches, Untouched, Still, lists, firmware, streams, locals
<1> QED
  BY <1>1, <1>2 DEF Typed, Works

LEMMA QBufMoves ==
  ASSUME Typed, NEW q \in Node, QBufWaits(q) \/ QBufRelocks(q)
  PROVE  Typed' /\ Works(B(q), q) /\ UNCHANGED << lists, firmware, streams, lock, locals >>
<1> USE ThreadFacts
<1>1. TypedControl /\ TypedFlags
  BY DEF Typed
<1>2. PICK s \in RestPhase : Goto(B(q), s)
  BY DEF QBufWaits, QBufRelocks, RestPhase
<1>3. UNCHANGED << lists, firmware, streams, lock, locals >> /\ TypedFlags'
  BY <1>1 DEF QBufWaits, QBufRelocks, flags, firmware, TypedFlags
<1>4. TypedControl' /\ Moves(B(q))
  BY <1>1, <1>2, <1>3, GotoMoves, PlaceParts DEF TypedControl, Moves, lists
<1> QED
  BY <1>3, <1>4, MovesOnly

LEMMA MovingSteps ==
  ASSUME Typed, NEW q \in Node,
         \/ StartWaits(q) \/ StreamOff(q) \/ StopWaits(q)
         \/ ResetWaits(q) \/ ResetSkips(q) \/ ResetScanned(q)
         \/ RestartSkips(q) \/ Restarted(q)
  PROVE  Typed' /\ Works(S(q), q) /\ UNCHANGED << lists, firmware, streams, lock, locals >>
<1> USE ThreadFacts
<1>1. TypedControl /\ TypedFlags
  BY DEF Typed
<1>3. ASSUME StartWaits(q) \/ StreamOff(q) \/ StopWaits(q) \/ ResetScanned(q) \/ Restarted(q)
      PROVE  UNCHANGED << lists, firmware, streams, lock, locals >> /\ Typed' /\ Works(S(q), q)
  <2>1. \E s \in Place : Goto(S(q), s)
    BY <1>3, PlaceParts DEF StartWaits, StreamOff, StopWaits, ResetScanned, Restarted, RestPhase, StopPhase,
       ResetPhase
  <2>2. UNCHANGED << lists, firmware, streams, lock, locals >> /\ TypedFlags'
    BY <1>1, <1>3 DEF StartWaits, StreamOff, StopWaits, ResetScanned, Restarted, flags, firmware,
       TypedFlags
  <2>3. TypedControl' /\ Moves(S(q))
    BY <1>1, <2>1, <2>2, GotoMoves DEF TypedControl, Moves, lists
  <2> QED
    BY <2>2, <2>3, MovesOnly
<1>4. ASSUME ResetWaits(q) \/ ResetSkips(q) \/ RestartSkips(q)
      PROVE  UNCHANGED << lists, firmware, streams, lock, locals >> /\ Typed' /\ Works(S(q), q)
  <2>1. \E s \in Place, m \in 1 .. Nodes + 1 : Visit(S(q), s, m)
    <3>1. {"scan", "restart"} \subseteq Place
      BY PlaceParts DEF ResetPhase
    <3> QED
      BY <1>4, <3>1, NextNode DEF ResetWaits, ResetSkips, RestartSkips
  <2>2. UNCHANGED << lists, firmware, streams, lock, locals >> /\ TypedFlags'
    BY <1>1, <1>4 DEF ResetWaits, ResetSkips, RestartSkips, flags, firmware, TypedFlags
  <2>3. TypedControl' /\ Moves(S(q))
    BY <1>1, <2>1, <2>2, VisitMoves DEF TypedControl, Moves, lists
  <2> QED
    BY <2>2, <2>3, MovesOnly
<1> QED
  BY <1>3, <1>4
-----------------------------------------------------------------------------
(* The same for the steps that change a node.  QBUF and a start do one of   *)
(* several things.                                                          *)

LEMMA BufLists ==
  /\ << >> \in Seq(Buf)
  /\ \A s \in Seq(Buf) : s # << >> => Head(s) \in Buf /\ Tail(s) \in Seq(Buf)
  /\ \A s \in Seq(Buf) : \A b \in Buf : Append(s, b) \in Seq(Buf)
  /\ \A q \in Node : \A s \in Seq(BufsOf(q)) : Range(s) \subseteq BufsOf(q)
BY EmptyList, ListTail, ListAppend DEF Range

QBufKeeps(q, b) ==
  /\ pc[B(q)] = "idle" /\ Free(q) /\ vb[b] = "user" /\ q \notin ssc
  /\ Hand({b}, "vb2")
  /\ UNCHANGED << incoming, sawPipe, pc, on >>
  /\ UNCHANGED << active, taken, firmware, streams, flags, lock, lost >>

QBufLists(q, b) ==
  /\ pc[B(q)] = "idle" /\ Free(q) /\ vb[b] = "user" /\ q \in ssc
  /\ Hand({b}, "driver")
  /\ incoming' = [incoming EXCEPT ![q] = Append(incoming[q], b)]
  /\ sawPipe' = IF q \in pipe THEN sawPipe \cup {q} ELSE sawPipe \ {q}
  /\ \E w \in {"wait", "relock"} : Goto(B(q), w)
  /\ UNCHANGED << active, taken, firmware, streams, flags, lock, lost >>

LEMMA QBufParts ==
  ASSUME NEW q \in Node, QBuf(q)
  PROVE  \E b \in BufsOf(q) : QBufKeeps(q, b) \/ QBufLists(q, b)
<1> DEFINE has == {b \in BufsOf(q) : vb[b] = "user"}
<1> DEFINE c == CHOOSE b \in has : TRUE
<1>1. c \in has
  BY DEF QBuf
<1>2. /\ pc[B(q)] = "idle" /\ Free(q)
      /\ \/ /\ q \notin ssc
            /\ Hand({c}, "vb2")
            /\ UNCHANGED << incoming, sawPipe, pc, on >>
         \/ /\ q \in ssc
            /\ Hand({c}, "driver")
            /\ incoming' = [incoming EXCEPT ![q] = Append(@, c)]
            /\ sawPipe' = With(sawPipe, q, q \in pipe)
            /\ Goto(B(q), IF inReset THEN "wait" ELSE "relock")
      /\ UNCHANGED << active, taken, firmware, streams, flags, lock, lost >>
  BY DEF QBuf
<1> HIDE DEF c
<1>3. c \in BufsOf(q) /\ vb[c] = "user"
  BY <1>1
<1>4. QBufKeeps(q, c) \/ QBufLists(q, c)
  BY <1>2, <1>3 DEF QBufKeeps, QBufLists, With
<1> QED
  BY <1>3, <1>4

SubmitsNothing(q) ==
  /\ pc[B(q)] = "submit" /\ Free(q) /\ (nr[q] # 1 \/ incoming[q] = << >>)
  /\ Goto(B(q), "idle")
  /\ UNCHANGED << lists, firmware, lock, streams, flags, locals >>

SubmitStarts(q) ==
  /\ pc[B(q)] = "submit" /\ Free(q) /\ nr[q] = 1 /\ incoming[q] # << >> /\ q \notin streaming
  /\ MayStart
  /\ taken' = [taken EXCEPT ![B(q)] = Head(incoming[q])]
  /\ incoming' = [incoming EXCEPT ![q] = Tail(incoming[q])]
  /\ Locks(q, B(q)) /\ Goto(B(q), "start")
  /\ UNCHANGED << vb, active, firmware, streams, flags, locals >>

SubmitCaptures(q) ==
  /\ pc[B(q)] = "submit" /\ Free(q) /\ nr[q] = 1 /\ incoming[q] # << >> /\ q \in streaming
  /\ incoming' = [incoming EXCEPT ![q] = Tail(incoming[q])]
  /\ active' = [active EXCEPT ![q] = Append(active[q], Head(incoming[q]))]
  /\ fw' = [fw EXCEPT ![q] = Append(fw[q], Head(incoming[q]))]
  /\ Goto(B(q), "idle")
  /\ UNCHANGED << vb, taken, lock, open, fwUp, streams, flags, locals >>

LEMMA QBufSubmitsParts ==
  ASSUME NEW q \in Node, QBufSubmits(q), fwUp
  PROVE  SubmitsNothing(q) \/ SubmitStarts(q) \/ SubmitCaptures(q)
<1>1. CASE nr[q] # 1 \/ incoming[q] = << >>
  BY <1>1 DEF QBufSubmits, SubmitsNothing, lists, firmware
<1>2. CASE nr[q] = 1 /\ incoming[q] # << >> /\ q \notin streaming
  BY <1>2 DEF QBufSubmits, SubmitStarts, TakeFor, firmware
<1>3. CASE nr[q] = 1 /\ incoming[q] # << >> /\ q \in streaming
  BY <1>3 DEF QBufSubmits, SubmitCaptures
<1> QED
  BY <1>1, <1>2, <1>3

\* The pipeline of n is prepared by t, and nothing is there to be captured into,
BeginsIdle(t, n, bs) ==
  /\ StreamMutexFree /\ bs = << >>
  /\ pipe' = pipe \cup {n} /\ nr' = [nr EXCEPT ![n] = nr[n] + 1]
  /\ started' = started \cup {n}
  /\ incoming' = [incoming EXCEPT ![n] = << >>]
  /\ UNCHANGED << taken, lock >>

\* or a buffer is.
BeginsWith(t, n, bs) ==
  /\ StreamMutexFree /\ bs # << >>
  /\ pipe' = pipe \cup {n} /\ nr' = [nr EXCEPT ![n] = nr[n] + 1]
  /\ taken' = [taken EXCEPT ![t] = Head(bs)]
  /\ incoming' = [incoming EXCEPT ![n] = Tail(bs)]
  /\ Locks(n, t) /\ Goto(t, "start")
  /\ UNCHANGED started

StartsIdle(q) ==
  /\ pc[S(q)] = "onLock" /\ Free(q) /\ MayStart
  /\ BeginsIdle(S(q), q, incoming[q]) /\ Goto(S(q), "idle")
  /\ UNCHANGED << vb, active, firmware, ssc, streaming, reset, flags, locals >>

StartsWith(q) ==
  /\ pc[S(q)] = "onLock" /\ Free(q) /\ MayStart
  /\ BeginsWith(S(q), q, incoming[q])
  /\ UNCHANGED << vb, active, firmware, ssc, streaming, reset, flags, locals >>

LEMMA StartBeginsParts ==
  ASSUME NEW q \in Node, StartBegins(q) PROVE StartsIdle(q) \/ StartsWith(q)
BY DEF StartBegins, Begin, TakeFor, StartsIdle, StartsWith, BeginsIdle, BeginsWith

RestartsIdle(q, r) ==
  /\ pc[S(q)] = "restart" /\ r \in reset /\ Free(r)
  /\ reset' = reset \ {r} /\ active' = [active EXCEPT ![r] = << >>]
  /\ BeginsIdle(S(q), r, active[r] \o incoming[r]) /\ Visit(S(q), "restart", r + 1)
  /\ UNCHANGED << vb, firmware, ssc, streaming, flags, locals >>

RestartsWith(q, r) ==
  /\ pc[S(q)] = "restart" /\ r \in reset /\ Free(r)
  /\ reset' = reset \ {r} /\ active' = [active EXCEPT ![r] = << >>]
  /\ BeginsWith(S(q), r, active[r] \o incoming[r])
  /\ UNCHANGED << vb, firmware, ssc, streaming, flags, locals >>

LEMMA RestartsParts ==
  ASSUME NEW q \in Node, Restarts(q)
  PROVE  RestartsIdle(q, on[S(q)]) \/ RestartsWith(q, on[S(q)])
BY DEF Restarts, Begin, TakeFor, RestartsIdle, RestartsWith, BeginsIdle, BeginsWith


\* With the firmware running, the steps of a start on the node n are these.
Opens(t, n) ==
  /\ pc[t] = "start" /\ StreamMutexFree
  /\ open' = open \cup {n}
  /\ active' = [active EXCEPT ![n] = Append(active[n], taken[t])]
  /\ fw' = [fw EXCEPT ![n] = IF inReset THEN fw[n] ELSE Append(fw[n], taken[t])]
  /\ Goto(t, "await")
  /\ UNCHANGED << vb, incoming, taken, fwUp, streams, flags, lock, locals >>

LEMMA StreamOpensParts ==
  ASSUME NEW t \in Thread, NEW n \in Node, on[t] = n, fwUp, StreamOpens(t) PROVE Opens(t, n)
BY DEF StreamOpens, Opens

Captures(t, n) ==
  /\ pc[t] = "fill" /\ incoming[n] # << >>
  /\ incoming' = [incoming EXCEPT ![n] = Tail(incoming[n])]
  /\ active' = [active EXCEPT ![n] = Append(active[n], Head(incoming[n]))]
  /\ fw' = [fw EXCEPT ![n] = Append(fw[n], Head(incoming[n]))]
  /\ Goto(t, "fill")
  /\ UNCHANGED << vb, taken, open, fwUp, streams, flags, lock, locals >>

LEMMA FillCapturesParts ==
  ASSUME NEW t \in Thread, NEW n \in Node, on[t] = n, fwUp, FillCaptures(t) PROVE Captures(t, n)
BY DEF FillCaptures, Captures

LEMMA QBufKeepsEffect ==
  ASSUME Typed, NEW q \in Node, NEW b \in BufsOf(q), QBufKeeps(q, b)
  PROVE  Typed' /\ Works(B(q), q)
<1> USE ThreadFacts
<1>0. TypedLists /\ TypedStreams /\ TypedFlags /\ TypedControl
  BY DEF Typed
<1>a. b \in Buf
  BY BufFacts
<1>1. TypedLists'
  <2>1. vb' \in [Buf -> {"user", "vb2", "driver"}]
    BY <1>0, HandChanges DEF TypedLists, TypedControl, QBufKeeps, lists
  <2>2. incoming' \in [Node -> Seq(Buf)]
    BY <1>0, BufLists DEF TypedLists, TypedControl, QBufKeeps, lists
  <2>3. active' \in [Node -> Seq(Buf)]
    BY <1>0, BufLists DEF TypedLists, TypedControl, QBufKeeps, lists
  <2>4. fw' \in [Node -> Seq(Buf)]
    BY <1>0, BufLists DEF TypedLists, TypedControl, QBufKeeps, firmware
  <2>5. taken' \in [Thread -> Buf \cup {NoBuf}]
    BY <1>0 DEF TypedLists, TypedControl, QBufKeeps, lists
  <2> QED
    BY <2>1, <2>2, <2>3, <2>4, <2>5 DEF TypedLists
<1>2. TypedStreams'
  BY <1>0 DEF TypedStreams, TypedControl, QBufKeeps, streams, locals, firmware
<1>3. TypedFlags'
  BY <1>0 DEF TypedFlags, TypedControl, QBufKeeps, flags, firmware
<1>4. TypedControl' /\ Moves(B(q))
  <2>1. pc' \in [Thread -> Place] /\ on' \in [Thread -> 1 .. Nodes + 1]
    BY <1>0, PlaceParts, GotoMoves DEF TypedControl, QBufKeeps, RestPhase, StartPhase, StopPhase, ResetPhase, control
  <2>2. \A u \in Thread \ {B(q)} : pc'[u] = pc[u] /\ on'[u] = on[u]
    BY <1>0, PlaceParts, GotoMoves DEF TypedControl, QBufKeeps, RestPhase, StartPhase, StopPhase, ResetPhase, control
  <2>3. lock' \in [Node -> Thread \cup {NoThread}]
    BY <1>0 DEF TypedControl, TypedControl, QBufKeeps, Locks, Unlocks, control
  <2>4. \A u \in Thread \ {B(q)} : taken'[u] = taken[u]
    BY <1>0 DEF TypedLists, TypedControl, QBufKeeps, lists
  <2> QED
    BY <2>1, <2>2, <2>3, <2>4 DEF TypedControl, Moves
<1>5. Touches(q)
  BY <1>0, BufFacts, HandChanges DEF TypedLists, TypedStreams, TypedControl, Touches, Untouched, Still, TypedControl, QBufKeeps,
     lists, firmware, streams, control, locals, Locks, Unlocks
<1> QED
  BY <1>1, <1>2, <1>3, <1>4, <1>5 DEF Typed, Works

LEMMA QBufListsEffect ==
  ASSUME Typed, NEW q \in Node, NEW b \in BufsOf(q), QBufLists(q, b)
  PROVE  Typed' /\ Works(B(q), q)
<1> USE ThreadFacts
<1>0. TypedLists /\ TypedStreams /\ TypedFlags /\ TypedControl
  BY DEF Typed
<1>a. b \in Buf
  BY BufFacts
<1>1. TypedLists'
  <2>1. vb' \in [Buf -> {"user", "vb2", "driver"}]
    BY <1>0, HandChanges DEF TypedLists, QBufLists, lists
  <2>2. incoming' \in [Node -> Seq(Buf)]
    BY <1>0, <1>a, BufLists DEF TypedLists, QBufLists, lists
  <2>3. active' \in [Node -> Seq(Buf)]
    BY <1>0, <1>a, BufLists DEF TypedLists, QBufLists, lists
  <2>4. fw' \in [Node -> Seq(Buf)]
    BY <1>0, <1>a, BufLists DEF TypedLists, QBufLists, firmware
  <2>5. taken' \in [Thread -> Buf \cup {NoBuf}]
    BY <1>0, <1>a DEF TypedLists, QBufLists, lists
  <2> QED
    BY <2>1, <2>2, <2>3, <2>4, <2>5 DEF TypedLists
<1>2. TypedStreams'
  BY <1>0 DEF TypedStreams, QBufLists, streams, locals, firmware
<1>3. TypedFlags'
  BY <1>0 DEF TypedFlags, QBufLists, flags, firmware
<1>4. TypedControl' /\ Moves(B(q))
  <2>1. pc' \in [Thread -> Place] /\ on' \in [Thread -> 1 .. Nodes + 1]
    BY <1>0, PlaceParts, GotoMoves DEF QBufLists, RestPhase, StartPhase, StopPhase, ResetPhase, control
  <2>2. \A u \in Thread \ {B(q)} : pc'[u] = pc[u] /\ on'[u] = on[u]
    BY <1>0, PlaceParts, GotoMoves DEF QBufLists, RestPhase, StartPhase, StopPhase, ResetPhase, control
  <2>3. lock' \in [Node -> Thread \cup {NoThread}]
    BY <1>0 DEF TypedControl, QBufLists, Locks, Unlocks, control
  <2>4. \A u \in Thread \ {B(q)} : taken'[u] = taken[u]
    BY <1>0 DEF TypedLists, QBufLists, lists
  <2> QED
    BY <2>1, <2>2, <2>3, <2>4 DEF TypedControl, Moves
<1>5. Touches(q)
  BY <1>0, BufFacts, HandChanges DEF TypedLists, TypedStreams, TypedControl, Touches, Untouched, Still, QBufLists,
     lists, firmware, streams, control, locals, Locks, Unlocks
<1> QED
  BY <1>1, <1>2, <1>3, <1>4, <1>5 DEF Typed, Works

LEMMA SubmitsNothingEffect ==
  ASSUME Typed, NEW q \in Node, SubmitsNothing(q)
  PROVE  Typed' /\ Works(B(q), q)
<1> USE ThreadFacts
<1>0. TypedLists /\ TypedStreams /\ TypedFlags /\ TypedControl
  BY DEF Typed
<1>1. TypedLists'
  <2>1. vb' \in [Buf -> {"user", "vb2", "driver"}]
    BY <1>0, HandChanges DEF TypedLists, SubmitsNothing, lists
  <2>2. incoming' \in [Node -> Seq(Buf)]
    BY <1>0, BufLists DEF TypedLists, SubmitsNothing, lists
  <2>3. active' \in [Node -> Seq(Buf)]
    BY <1>0, BufLists DEF TypedLists, SubmitsNothing, lists
  <2>4. fw' \in [Node -> Seq(Buf)]
    BY <1>0, BufLists DEF TypedLists, SubmitsNothing, firmware
  <2>5. taken' \in [Thread -> Buf \cup {NoBuf}]
    BY <1>0 DEF TypedLists, SubmitsNothing, lists
  <2> QED
    BY <2>1, <2>2, <2>3, <2>4, <2>5 DEF TypedLists
<1>2. TypedStreams'
  BY <1>0 DEF TypedStreams, SubmitsNothing, streams, locals, firmware
<1>3. TypedFlags'
  BY <1>0 DEF TypedFlags, SubmitsNothing, flags, firmware
<1>4. TypedControl' /\ Moves(B(q))
  <2>1. pc' \in [Thread -> Place] /\ on' \in [Thread -> 1 .. Nodes + 1]
    BY <1>0, PlaceParts, GotoMoves DEF SubmitsNothing, RestPhase, StartPhase, StopPhase, ResetPhase, control
  <2>2. \A u \in Thread \ {B(q)} : pc'[u] = pc[u] /\ on'[u] = on[u]
    BY <1>0, PlaceParts, GotoMoves DEF SubmitsNothing, RestPhase, StartPhase, StopPhase, ResetPhase, control
  <2>3. lock' \in [Node -> Thread \cup {NoThread}]
    BY <1>0 DEF TypedControl, SubmitsNothing, Locks, Unlocks, control
  <2>4. \A u \in Thread \ {B(q)} : taken'[u] = taken[u]
    BY <1>0 DEF TypedLists, SubmitsNothing, lists
  <2> QED
    BY <2>1, <2>2, <2>3, <2>4 DEF TypedControl, Moves
<1>5. Touches(q)
  BY <1>0, BufFacts, HandChanges DEF TypedLists, TypedStreams, TypedControl, Touches, Untouched, Still, SubmitsNothing,
     lists, firmware, streams, control, locals, Locks, Unlocks
<1> QED
  BY <1>1, <1>2, <1>3, <1>4, <1>5 DEF Typed, Works

LEMMA SubmitStartsEffect ==
  ASSUME Typed, NEW q \in Node, SubmitStarts(q)
  PROVE  Typed' /\ Works(B(q), q)
<1> USE ThreadFacts
<1>0. TypedLists /\ TypedStreams /\ TypedFlags /\ TypedControl
  BY DEF Typed
<1>a. Head(incoming[q]) \in Buf /\ Tail(incoming[q]) \in Seq(Buf)
  BY <1>0, BufLists DEF TypedLists, SubmitStarts
<1>1. TypedLists'
  <2>1. vb' \in [Buf -> {"user", "vb2", "driver"}]
    BY <1>0, HandChanges DEF TypedLists, SubmitStarts, lists
  <2>2. incoming' \in [Node -> Seq(Buf)]
    BY <1>0, <1>a, BufLists DEF TypedLists, SubmitStarts, lists
  <2>3. active' \in [Node -> Seq(Buf)]
    BY <1>0, <1>a, BufLists DEF TypedLists, SubmitStarts, lists
  <2>4. fw' \in [Node -> Seq(Buf)]
    BY <1>0, <1>a, BufLists DEF TypedLists, SubmitStarts, firmware
  <2>5. taken' \in [Thread -> Buf \cup {NoBuf}]
    BY <1>0, <1>a DEF TypedLists, SubmitStarts, lists
  <2> QED
    BY <2>1, <2>2, <2>3, <2>4, <2>5 DEF TypedLists
<1>2. TypedStreams'
  BY <1>0 DEF TypedStreams, SubmitStarts, streams, locals, firmware
<1>3. TypedFlags'
  BY <1>0 DEF TypedFlags, SubmitStarts, flags, firmware
<1>4. TypedControl' /\ Moves(B(q))
  <2>1. pc' \in [Thread -> Place] /\ on' \in [Thread -> 1 .. Nodes + 1]
    BY <1>0, PlaceParts, GotoMoves DEF SubmitStarts, RestPhase, StartPhase, StopPhase, ResetPhase, control
  <2>2. \A u \in Thread \ {B(q)} : pc'[u] = pc[u] /\ on'[u] = on[u]
    BY <1>0, PlaceParts, GotoMoves DEF SubmitStarts, RestPhase, StartPhase, StopPhase, ResetPhase, control
  <2>3. lock' \in [Node -> Thread \cup {NoThread}]
    BY <1>0 DEF TypedControl, SubmitStarts, Locks, Unlocks, control
  <2>4. \A u \in Thread \ {B(q)} : taken'[u] = taken[u]
    BY <1>0 DEF TypedLists, SubmitStarts, lists
  <2> QED
    BY <2>1, <2>2, <2>3, <2>4 DEF TypedControl, Moves
<1>5. Touches(q)
  BY <1>0, BufFacts, HandChanges DEF TypedLists, TypedStreams, TypedControl, Touches, Untouched, Still, SubmitStarts,
     lists, firmware, streams, control, locals, Locks, Unlocks
<1> QED
  BY <1>1, <1>2, <1>3, <1>4, <1>5 DEF Typed, Works

LEMMA SubmitCapturesEffect ==
  ASSUME Typed, NEW q \in Node, SubmitCaptures(q)
  PROVE  Typed' /\ Works(B(q), q)
<1> USE ThreadFacts
<1>0. TypedLists /\ TypedStreams /\ TypedFlags /\ TypedControl
  BY DEF Typed
<1>a. Head(incoming[q]) \in Buf /\ Tail(incoming[q]) \in Seq(Buf)
  BY <1>0, BufLists DEF TypedLists, SubmitCaptures
<1>1. TypedLists'
  <2>1. vb' \in [Buf -> {"user", "vb2", "driver"}]
    BY <1>0, HandChanges DEF TypedLists, SubmitCaptures, lists
  <2>2. incoming' \in [Node -> Seq(Buf)]
    BY <1>0, <1>a, BufLists DEF TypedLists, SubmitCaptures, lists
  <2>3. active' \in [Node -> Seq(Buf)]
    BY <1>0, <1>a, BufLists DEF TypedLists, SubmitCaptures, lists
  <2>4. fw' \in [Node -> Seq(Buf)]
    BY <1>0, <1>a, BufLists DEF TypedLists, SubmitCaptures, firmware
  <2>5. taken' \in [Thread -> Buf \cup {NoBuf}]
    BY <1>0, <1>a DEF TypedLists, SubmitCaptures, lists
  <2> QED
    BY <2>1, <2>2, <2>3, <2>4, <2>5 DEF TypedLists
<1>2. TypedStreams'
  BY <1>0 DEF TypedStreams, SubmitCaptures, streams, locals, firmware
<1>3. TypedFlags'
  BY <1>0 DEF TypedFlags, SubmitCaptures, flags, firmware
<1>4. TypedControl' /\ Moves(B(q))
  <2>1. pc' \in [Thread -> Place] /\ on' \in [Thread -> 1 .. Nodes + 1]
    BY <1>0, PlaceParts, GotoMoves DEF SubmitCaptures, RestPhase, StartPhase, StopPhase, ResetPhase, control
  <2>2. \A u \in Thread \ {B(q)} : pc'[u] = pc[u] /\ on'[u] = on[u]
    BY <1>0, PlaceParts, GotoMoves DEF SubmitCaptures, RestPhase, StartPhase, StopPhase, ResetPhase, control
  <2>3. lock' \in [Node -> Thread \cup {NoThread}]
    BY <1>0 DEF TypedControl, SubmitCaptures, Locks, Unlocks, control
  <2>4. \A u \in Thread \ {B(q)} : taken'[u] = taken[u]
    BY <1>0 DEF TypedLists, SubmitCaptures, lists
  <2> QED
    BY <2>1, <2>2, <2>3, <2>4 DEF TypedControl, Moves
<1>5. Touches(q)
  BY <1>0, BufFacts, HandChanges DEF TypedLists, TypedStreams, TypedControl, Touches, Untouched, Still, SubmitCaptures,
     lists, firmware, streams, control, locals, Locks, Unlocks
<1> QED
  BY <1>1, <1>2, <1>3, <1>4, <1>5 DEF Typed, Works

LEMMA EnqueueEffect ==
  ASSUME Typed, NEW q \in Node, Enqueue(q)
  PROVE  Typed' /\ Works(S(q), q)
<1> USE ThreadFacts
<1>0. TypedLists /\ TypedStreams /\ TypedFlags /\ TypedControl
  BY DEF Typed
<1>a. Queued(q) \subseteq BufsOf(q) /\ IsFiniteSet(Queued(q))
  BY BufFacts, FS_Subset DEF Queued
<1>b. incoming[q] \o SetToSeq(Queued(q)) \in Seq(Buf)
  <2>1. SetToSeq(Queued(q)) \in Seq(Queued(q))
    BY <1>a, ListOfSet
  <2>2. SetToSeq(Queued(q)) \in Seq(Buf)
    BY <1>a, <2>1, BufFacts
  <2> QED
    BY <1>0, <2>2, ListConcat DEF TypedLists
<1>1. TypedLists'
  <2>1. vb' \in [Buf -> {"user", "vb2", "driver"}]
    BY <1>0, HandChanges DEF TypedLists, Enqueue, lists
  <2>2. incoming' \in [Node -> Seq(Buf)]
    BY <1>0, <1>b, BufLists DEF TypedLists, Enqueue, lists
  <2>3. active' \in [Node -> Seq(Buf)]
    BY <1>0, <1>b, BufLists DEF TypedLists, Enqueue, lists
  <2>4. fw' \in [Node -> Seq(Buf)]
    BY <1>0, <1>b, BufLists DEF TypedLists, Enqueue, firmware
  <2>5. taken' \in [Thread -> Buf \cup {NoBuf}]
    BY <1>0, <1>b DEF TypedLists, Enqueue, lists
  <2> QED
    BY <2>1, <2>2, <2>3, <2>4, <2>5 DEF TypedLists
<1>2. TypedStreams'
  BY <1>0 DEF TypedStreams, Enqueue, streams, locals, firmware
<1>3. TypedFlags'
  BY <1>0 DEF TypedFlags, Enqueue, flags, firmware
<1>4. TypedControl' /\ Moves(S(q))
  <2>1. pc' \in [Thread -> Place] /\ on' \in [Thread -> 1 .. Nodes + 1]
    BY <1>0, PlaceParts, GotoMoves DEF Enqueue, RestPhase, StartPhase, StopPhase, ResetPhase, control
  <2>2. \A u \in Thread \ {S(q)} : pc'[u] = pc[u] /\ on'[u] = on[u]
    BY <1>0, PlaceParts, GotoMoves DEF Enqueue, RestPhase, StartPhase, StopPhase, ResetPhase, control
  <2>3. lock' \in [Node -> Thread \cup {NoThread}]
    BY <1>0 DEF TypedControl, Enqueue, Locks, Unlocks, control
  <2>4. \A u \in Thread \ {S(q)} : taken'[u] = taken[u]
    BY <1>0 DEF TypedLists, Enqueue, lists
  <2> QED
    BY <2>1, <2>2, <2>3, <2>4 DEF TypedControl, Moves
<1>5. Touches(q)
  BY <1>0, BufFacts, <1>a, HandChanges DEF TypedLists, TypedStreams, TypedControl, Touches, Untouched, Still, Enqueue,
     lists, firmware, streams, control, locals, Locks, Unlocks
<1> QED
  BY <1>1, <1>2, <1>3, <1>4, <1>5 DEF Typed, Works

LEMMA StartsIdleEffect ==
  ASSUME Typed, NEW q \in Node, StartsIdle(q)
  PROVE  Typed' /\ Works(S(q), q)
<1> USE ThreadFacts
<1>0. TypedLists /\ TypedStreams /\ TypedFlags /\ TypedControl
  BY DEF Typed
<1>1. TypedLists'
  <2>1. vb' \in [Buf -> {"user", "vb2", "driver"}]
    BY <1>0, HandChanges DEF TypedLists, StartsIdle, BeginsIdle, lists
  <2>2. incoming' \in [Node -> Seq(Buf)]
    BY <1>0, BufLists DEF TypedLists, StartsIdle, BeginsIdle, lists
  <2>3. active' \in [Node -> Seq(Buf)]
    BY <1>0, BufLists DEF TypedLists, StartsIdle, BeginsIdle, lists
  <2>4. fw' \in [Node -> Seq(Buf)]
    BY <1>0, BufLists DEF TypedLists, StartsIdle, BeginsIdle, firmware
  <2>5. taken' \in [Thread -> Buf \cup {NoBuf}]
    BY <1>0 DEF TypedLists, StartsIdle, BeginsIdle, lists
  <2> QED
    BY <2>1, <2>2, <2>3, <2>4, <2>5 DEF TypedLists
<1>2. TypedStreams'
  BY <1>0 DEF TypedStreams, StartsIdle, BeginsIdle, streams, locals, firmware
<1>3. TypedFlags'
  BY <1>0 DEF TypedFlags, StartsIdle, BeginsIdle, flags, firmware
<1>4. TypedControl' /\ Moves(S(q))
  <2>1. pc' \in [Thread -> Place] /\ on' \in [Thread -> 1 .. Nodes + 1]
    BY <1>0, PlaceParts, GotoMoves DEF StartsIdle, BeginsIdle, RestPhase, StartPhase, StopPhase, ResetPhase, control
  <2>2. \A u \in Thread \ {S(q)} : pc'[u] = pc[u] /\ on'[u] = on[u]
    BY <1>0, PlaceParts, GotoMoves DEF StartsIdle, BeginsIdle, RestPhase, StartPhase, StopPhase, ResetPhase, control
  <2>3. lock' \in [Node -> Thread \cup {NoThread}]
    BY <1>0 DEF TypedControl, StartsIdle, BeginsIdle, Locks, Unlocks, control
  <2>4. \A u \in Thread \ {S(q)} : taken'[u] = taken[u]
    BY <1>0 DEF TypedLists, StartsIdle, BeginsIdle, lists
  <2> QED
    BY <2>1, <2>2, <2>3, <2>4 DEF TypedControl, Moves
<1>5. Touches(q)
  BY <1>0, BufFacts, HandChanges DEF TypedLists, TypedStreams, TypedControl, Touches, Untouched, Still, StartsIdle, BeginsIdle,
     lists, firmware, streams, control, locals, Locks, Unlocks
<1> QED
  BY <1>1, <1>2, <1>3, <1>4, <1>5 DEF Typed, Works

LEMMA StartsWithEffect ==
  ASSUME Typed, NEW q \in Node, StartsWith(q)
  PROVE  Typed' /\ Works(S(q), q)
<1> USE ThreadFacts
<1>0. TypedLists /\ TypedStreams /\ TypedFlags /\ TypedControl
  BY DEF Typed
<1>a. Head(incoming[q]) \in Buf /\ Tail(incoming[q]) \in Seq(Buf)
  BY <1>0, BufLists DEF TypedLists, StartsWith, BeginsWith
<1>1. TypedLists'
  <2>1. vb' \in [Buf -> {"user", "vb2", "driver"}]
    BY <1>0, HandChanges DEF TypedLists, StartsWith, BeginsWith, lists
  <2>2. incoming' \in [Node -> Seq(Buf)]
    BY <1>0, <1>a, BufLists DEF TypedLists, StartsWith, BeginsWith, lists
  <2>3. active' \in [Node -> Seq(Buf)]
    BY <1>0, <1>a, BufLists DEF TypedLists, StartsWith, BeginsWith, lists
  <2>4. fw' \in [Node -> Seq(Buf)]
    BY <1>0, <1>a, BufLists DEF TypedLists, StartsWith, BeginsWith, firmware
  <2>5. taken' \in [Thread -> Buf \cup {NoBuf}]
    BY <1>0, <1>a DEF TypedLists, StartsWith, BeginsWith, lists
  <2> QED
    BY <2>1, <2>2, <2>3, <2>4, <2>5 DEF TypedLists
<1>2. TypedStreams'
  BY <1>0 DEF TypedStreams, StartsWith, BeginsWith, streams, locals, firmware
<1>3. TypedFlags'
  BY <1>0 DEF TypedFlags, StartsWith, BeginsWith, flags, firmware
<1>4. TypedControl' /\ Moves(S(q))
  <2>1. pc' \in [Thread -> Place] /\ on' \in [Thread -> 1 .. Nodes + 1]
    BY <1>0, PlaceParts, GotoMoves DEF StartsWith, BeginsWith, RestPhase, StartPhase, StopPhase, ResetPhase, control
  <2>2. \A u \in Thread \ {S(q)} : pc'[u] = pc[u] /\ on'[u] = on[u]
    BY <1>0, PlaceParts, GotoMoves DEF StartsWith, BeginsWith, RestPhase, StartPhase, StopPhase, ResetPhase, control
  <2>3. lock' \in [Node -> Thread \cup {NoThread}]
    BY <1>0 DEF TypedControl, StartsWith, BeginsWith, Locks, Unlocks, control
  <2>4. \A u \in Thread \ {S(q)} : taken'[u] = taken[u]
    BY <1>0 DEF TypedLists, StartsWith, BeginsWith, lists
  <2> QED
    BY <2>1, <2>2, <2>3, <2>4 DEF TypedControl, Moves
<1>5. Touches(q)
  BY <1>0, BufFacts, HandChanges DEF TypedLists, TypedStreams, TypedControl, Touches, Untouched, Still, StartsWith, BeginsWith,
     lists, firmware, streams, control, locals, Locks, Unlocks
<1> QED
  BY <1>1, <1>2, <1>3, <1>4, <1>5 DEF Typed, Works

LEMMA StreamOpensEffect ==
  ASSUME Typed, NEW t \in Thread, NEW n \in Node,
         taken[t] \in Buf, Opens(t, n)
  PROVE  Typed' /\ Works(t, n)
<1> USE ThreadFacts
<1>0. TypedLists /\ TypedStreams /\ TypedFlags /\ TypedControl
  BY DEF Typed
<1>a. Append(active[n], taken[t]) \in Seq(Buf) /\ Append(fw[n], taken[t]) \in Seq(Buf)
  BY <1>0, BufLists DEF TypedLists
<1>1. TypedLists'
  <2>1. vb' \in [Buf -> {"user", "vb2", "driver"}]
    BY <1>0, HandChanges DEF TypedLists, Opens, lists
  <2>2. incoming' \in [Node -> Seq(Buf)]
    BY <1>0, <1>a, BufLists DEF TypedLists, Opens, lists
  <2>3. active' \in [Node -> Seq(Buf)]
    BY <1>0, <1>a, BufLists DEF TypedLists, Opens, lists
  <2>4. fw' \in [Node -> Seq(Buf)]
    BY <1>0, <1>a, BufLists DEF TypedLists, Opens, firmware
  <2>5. taken' \in [Thread -> Buf \cup {NoBuf}]
    BY <1>0, <1>a DEF TypedLists, Opens, lists
  <2> QED
    BY <2>1, <2>2, <2>3, <2>4, <2>5 DEF TypedLists
<1>2. TypedStreams'
  BY <1>0 DEF TypedStreams, Opens, streams, locals, firmware
<1>3. TypedFlags'
  BY <1>0 DEF TypedFlags, Opens, flags, firmware
<1>4. TypedControl' /\ Moves(t)
  <2>1. pc' \in [Thread -> Place] /\ on' \in [Thread -> 1 .. Nodes + 1]
    BY <1>0, PlaceParts, GotoMoves DEF Opens, RestPhase, StartPhase, StopPhase, ResetPhase, control
  <2>2. \A u \in Thread \ {t} : pc'[u] = pc[u] /\ on'[u] = on[u]
    BY <1>0, PlaceParts, GotoMoves DEF Opens, RestPhase, StartPhase, StopPhase, ResetPhase, control
  <2>3. lock' \in [Node -> Thread \cup {NoThread}]
    BY <1>0 DEF TypedControl, Opens, Locks, Unlocks, control
  <2>4. \A u \in Thread \ {t} : taken'[u] = taken[u]
    BY <1>0 DEF TypedLists, Opens, lists
  <2> QED
    BY <2>1, <2>2, <2>3, <2>4 DEF TypedControl, Moves
<1>5. Touches(n)
  BY <1>0, BufFacts, HandChanges DEF TypedLists, TypedStreams, TypedControl, Touches, Untouched, Still, Opens,
     lists, firmware, streams, control, locals, Locks, Unlocks
<1> QED
  BY <1>1, <1>2, <1>3, <1>4, <1>5 DEF Typed, Works

LEMMA StreamStartedEffect ==
  ASSUME Typed, NEW t \in Thread, NEW n \in Node, on[t] = n,
         taken[t] \in Buf, StreamStarted(t)
  PROVE  Typed' /\ Works(t, n)
<1> USE ThreadFacts
<1>0. TypedLists /\ TypedStreams /\ TypedFlags /\ TypedControl
  BY DEF Typed
<1>1. TypedLists'
  <2>1. vb' \in [Buf -> {"user", "vb2", "driver"}]
    BY <1>0, HandChanges DEF TypedLists, StreamStarted, lists
  <2>2. incoming' \in [Node -> Seq(Buf)]
    BY <1>0, BufLists DEF TypedLists, StreamStarted, lists
  <2>3. active' \in [Node -> Seq(Buf)]
    BY <1>0, BufLists DEF TypedLists, StreamStarted, lists
  <2>4. fw' \in [Node -> Seq(Buf)]
    BY <1>0, BufLists DEF TypedLists, StreamStarted, firmware
  <2>5. taken' \in [Thread -> Buf \cup {NoBuf}]
    BY <1>0 DEF TypedLists, StreamStarted, lists
  <2> QED
    BY <2>1, <2>2, <2>3, <2>4, <2>5 DEF TypedLists
<1>2. TypedStreams'
  BY <1>0 DEF TypedStreams, StreamStarted, streams, locals, firmware
<1>3. TypedFlags'
  BY <1>0 DEF TypedFlags, StreamStarted, flags, firmware
<1>4. TypedControl' /\ Moves(t)
  <2>1. pc' \in [Thread -> Place] /\ on' \in [Thread -> 1 .. Nodes + 1]
    BY <1>0, PlaceParts, GotoMoves DEF StreamStarted, RestPhase, StartPhase, StopPhase, ResetPhase, control
  <2>2. \A u \in Thread \ {t} : pc'[u] = pc[u] /\ on'[u] = on[u]
    BY <1>0, PlaceParts, GotoMoves DEF StreamStarted, RestPhase, StartPhase, StopPhase, ResetPhase, control
  <2>3. lock' \in [Node -> Thread \cup {NoThread}]
    BY <1>0 DEF TypedControl, StreamStarted, Locks, Unlocks, control
  <2>4. \A u \in Thread \ {t} : taken'[u] = taken[u]
    BY <1>0 DEF TypedLists, StreamStarted, lists
  <2> QED
    BY <2>1, <2>2, <2>3, <2>4 DEF TypedControl, Moves
<1>5. Touches(n)
  BY <1>0, BufFacts, HandChanges DEF TypedLists, TypedStreams, TypedControl, Touches, Untouched, Still, StreamStarted,
     lists, firmware, streams, control, locals, Locks, Unlocks
<1> QED
  BY <1>1, <1>2, <1>3, <1>4, <1>5 DEF Typed, Works

LEMMA StreamNotStartedEffect ==
  ASSUME Typed, NEW t \in Thread, NEW n \in Node, on[t] = n,
         incoming[n] \in Seq(BufsOf(n)), active[n] \in Seq(BufsOf(n)), t # B(n), StreamNotStarted(t)
  PROVE  Typed' /\ Works(t, n)
<1> USE ThreadFacts
<1>0. TypedLists /\ TypedStreams /\ TypedFlags /\ TypedControl
  BY DEF Typed
<1>a. Range(incoming[n]) \cup Range(active[n]) \subseteq BufsOf(n)
  BY BufLists
<1>1. TypedLists'
  <2>1. vb' \in [Buf -> {"user", "vb2", "driver"}]
    BY <1>0, HandChanges DEF TypedLists, StreamNotStarted, ReturnBuffers, lists
  <2>2. incoming' \in [Node -> Seq(Buf)]
    BY <1>0, BufLists DEF TypedLists, StreamNotStarted, ReturnBuffers, lists
  <2>3. active' \in [Node -> Seq(Buf)]
    BY <1>0, BufLists DEF TypedLists, StreamNotStarted, ReturnBuffers, lists
  <2>4. fw' \in [Node -> Seq(Buf)]
    BY <1>0, BufLists DEF TypedLists, StreamNotStarted, ReturnBuffers, firmware
  <2>5. taken' \in [Thread -> Buf \cup {NoBuf}]
    BY <1>0 DEF TypedLists, StreamNotStarted, ReturnBuffers, lists
  <2> QED
    BY <2>1, <2>2, <2>3, <2>4, <2>5 DEF TypedLists
<1>2. TypedStreams'
  BY <1>0 DEF TypedStreams, StreamNotStarted, ReturnBuffers, streams, locals, firmware
<1>3. TypedFlags'
  BY <1>0 DEF TypedFlags, StreamNotStarted, ReturnBuffers, flags, firmware
<1>4. TypedControl' /\ Moves(t)
  <2>1. pc' \in [Thread -> Place] /\ on' \in [Thread -> 1 .. Nodes + 1]
    BY <1>0, PlaceParts, GotoMoves, VisitMoves, NextNode DEF StreamNotStarted, ReturnBuffers, RestPhase, StartPhase, StopPhase, ResetPhase, control
  <2>2. \A u \in Thread \ {t} : pc'[u] = pc[u] /\ on'[u] = on[u]
    BY <1>0, PlaceParts, GotoMoves, VisitMoves, NextNode DEF StreamNotStarted, ReturnBuffers, RestPhase, StartPhase, StopPhase, ResetPhase, control
  <2>3. lock' \in [Node -> Thread \cup {NoThread}]
    BY <1>0 DEF TypedControl, StreamNotStarted, ReturnBuffers, Locks, Unlocks, control
  <2>4. \A u \in Thread \ {t} : taken'[u] = taken[u]
    BY <1>0 DEF TypedLists, StreamNotStarted, ReturnBuffers, lists
  <2> QED
    BY <2>1, <2>2, <2>3, <2>4 DEF TypedControl, Moves
<1>5. Touches(n)
  BY <1>0, BufFacts, <1>a, HandChanges DEF TypedLists, TypedStreams, TypedControl, Touches, Untouched, Still, StreamNotStarted, ReturnBuffers,
     lists, firmware, streams, control, locals, Locks, Unlocks
<1> QED
  BY <1>1, <1>2, <1>3, <1>4, <1>5 DEF Typed, Works

LEMMA FillCapturesEffect ==
  ASSUME Typed, NEW t \in Thread, NEW n \in Node, Captures(t, n)
  PROVE  Typed' /\ Works(t, n)
<1> USE ThreadFacts
<1>0. TypedLists /\ TypedStreams /\ TypedFlags /\ TypedControl
  BY DEF Typed
<1>a. /\ Tail(incoming[n]) \in Seq(Buf)
      /\ Append(active[n], Head(incoming[n])) \in Seq(Buf) /\ Append(fw[n], Head(incoming[n])) \in Seq(Buf)
  BY <1>0, BufLists DEF TypedLists, Captures
<1>1. TypedLists'
  <2>1. vb' \in [Buf -> {"user", "vb2", "driver"}]
    BY <1>0, HandChanges DEF TypedLists, Captures, lists
  <2>2. incoming' \in [Node -> Seq(Buf)]
    BY <1>0, <1>a, BufLists DEF TypedLists, Captures, lists
  <2>3. active' \in [Node -> Seq(Buf)]
    BY <1>0, <1>a, BufLists DEF TypedLists, Captures, lists
  <2>4. fw' \in [Node -> Seq(Buf)]
    BY <1>0, <1>a, BufLists DEF TypedLists, Captures, firmware
  <2>5. taken' \in [Thread -> Buf \cup {NoBuf}]
    BY <1>0, <1>a DEF TypedLists, Captures, lists
  <2> QED
    BY <2>1, <2>2, <2>3, <2>4, <2>5 DEF TypedLists
<1>2. TypedStreams'
  BY <1>0 DEF TypedStreams, Captures, streams, locals, firmware
<1>3. TypedFlags'
  BY <1>0 DEF TypedFlags, Captures, flags, firmware
<1>4. TypedControl' /\ Moves(t)
  <2>1. pc' \in [Thread -> Place] /\ on' \in [Thread -> 1 .. Nodes + 1]
    BY <1>0, PlaceParts, GotoMoves DEF Captures, RestPhase, StartPhase, StopPhase, ResetPhase, control
  <2>2. \A u \in Thread \ {t} : pc'[u] = pc[u] /\ on'[u] = on[u]
    BY <1>0, PlaceParts, GotoMoves DEF Captures, RestPhase, StartPhase, StopPhase, ResetPhase, control
  <2>3. lock' \in [Node -> Thread \cup {NoThread}]
    BY <1>0 DEF TypedControl, Captures, Locks, Unlocks, control
  <2>4. \A u \in Thread \ {t} : taken'[u] = taken[u]
    BY <1>0 DEF TypedLists, Captures, lists
  <2> QED
    BY <2>1, <2>2, <2>3, <2>4 DEF TypedControl, Moves
<1>5. Touches(n)
  BY <1>0, BufFacts, HandChanges DEF TypedLists, TypedStreams, TypedControl, Touches, Untouched, Still, Captures,
     lists, firmware, streams, control, locals, Locks, Unlocks
<1> QED
  BY <1>1, <1>2, <1>3, <1>4, <1>5 DEF Typed, Works

LEMMA FillEndsEffect ==
  ASSUME Typed, NEW t \in Thread, NEW n \in Node, on[t] = n, FillEnds(t)
  PROVE  Typed' /\ Works(t, n)
<1> USE ThreadFacts
<1>0. TypedLists /\ TypedStreams /\ TypedFlags /\ TypedControl
  BY DEF Typed
<1>1. TypedLists'
  <2>1. vb' \in [Buf -> {"user", "vb2", "driver"}]
    BY <1>0, HandChanges DEF TypedLists, FillEnds, lists
  <2>2. incoming' \in [Node -> Seq(Buf)]
    BY <1>0, BufLists DEF TypedLists, FillEnds, lists
  <2>3. active' \in [Node -> Seq(Buf)]
    BY <1>0, BufLists DEF TypedLists, FillEnds, lists
  <2>4. fw' \in [Node -> Seq(Buf)]
    BY <1>0, BufLists DEF TypedLists, FillEnds, firmware
  <2>5. taken' \in [Thread -> Buf \cup {NoBuf}]
    BY <1>0 DEF TypedLists, FillEnds, lists
  <2> QED
    BY <2>1, <2>2, <2>3, <2>4, <2>5 DEF TypedLists
<1>2. TypedStreams'
  BY <1>0 DEF TypedStreams, FillEnds, streams, locals, firmware
<1>3. TypedFlags'
  BY <1>0 DEF TypedFlags, FillEnds, flags, firmware
<1>4. TypedControl' /\ Moves(t)
  <2>1. pc' \in [Thread -> Place] /\ on' \in [Thread -> 1 .. Nodes + 1]
    BY <1>0, PlaceParts, GotoMoves, VisitMoves, NextNode DEF FillEnds, RestPhase, StartPhase, StopPhase, ResetPhase, control
  <2>2. \A u \in Thread \ {t} : pc'[u] = pc[u] /\ on'[u] = on[u]
    BY <1>0, PlaceParts, GotoMoves, VisitMoves, NextNode DEF FillEnds, RestPhase, StartPhase, StopPhase, ResetPhase, control
  <2>3. lock' \in [Node -> Thread \cup {NoThread}]
    BY <1>0 DEF TypedControl, FillEnds, Locks, Unlocks, control
  <2>4. \A u \in Thread \ {t} : taken'[u] = taken[u]
    BY <1>0 DEF TypedLists, FillEnds, lists
  <2> QED
    BY <2>1, <2>2, <2>3, <2>4 DEF TypedControl, Moves
<1>5. Touches(n)
  BY <1>0, BufFacts, HandChanges DEF TypedLists, TypedStreams, TypedControl, Touches, Untouched, Still, FillEnds,
     lists, firmware, streams, control, locals, Locks, Unlocks
<1> QED
  BY <1>1, <1>2, <1>3, <1>4, <1>5 DEF Typed, Works

-----------------------------------------------------------------------------
(* Stops and resets *)

\* A stop ends, with or without a reset in between.
EndsStop(q) ==
  /\ StopEnds(q)
  /\ UNCHANGED << incoming, active, taken, firmware, pipe, nr, streaming, started, reset, flags,
                  locals >>

StopsRunning(q) ==
  /\ pc[S(q)] = "offLock" /\ Free(q) /\ StreamMutexFree /\ nr[q] = 1 /\ q \in streaming
  /\ Locks(q, S(q)) /\ Goto(S(q), "flush")
  /\ UNCHANGED << lists, firmware, streams, flags, locals >>

StopsIdle(q) ==
  /\ pc[S(q)] = "offLock" /\ Free(q) /\ StreamMutexFree /\ (nr[q] # 1 \/ q \notin streaming)
  /\ Locks(q, S(q)) /\ Goto(S(q), "offReturn")
  /\ pipe' = pipe \ {q} /\ nr' = [nr EXCEPT ![q] = nr[q] - 1] /\ streaming' = streaming \ {q}
  /\ UNCHANGED << lists, firmware, ssc, started, reset, flags, locals >>

LEMMA StopLocksParts ==
  ASSUME NEW q \in Node, StopLocks(q) PROVE StopsRunning(q) \/ StopsIdle(q)
BY DEF StopLocks, StopsRunning, StopsIdle, Running, LeavePipeline, streams

StopResets(q) ==
  /\ pc[S(q)] = "offEnd" /\ Goto(S(q), "reset")
  /\ UNCHANGED << lists, firmware, streams, flags, lock, locals >>

LEMMA StopReturnsParts ==
  ASSUME NEW q \in Node, StopReturns(q)
  PROVE  pc[S(q)] = "offEnd" /\ (StopResets(q) \/ EndsStop(q))
BY DEF StopReturns, StopResets, EndsStop, lists, streams

ResetsFirst(q) ==
  /\ pc[S(q)] = "reset" /\ ~ inReset /\ MayReset
  /\ inReset' = TRUE /\ Goto(S(q), "quiesce")
  /\ UNCHANGED << lists, firmware, streams, inStop, resetNeeded, lock, locals >>

LEMMA ResetBeginsParts ==
  ASSUME NEW q \in Node, ResetBegins(q)
  PROVE  pc[S(q)] = "reset" /\ (ResetsFirst(q) \/ EndsStop(q))
BY DEF ResetBegins, ResetsFirst, EndsStop, lists, streams, flags

\* The reset of q stops r.
StopsOther(q, r) ==
  /\ pc[S(q)] = "scan" /\ on[S(q)] = r /\ r # q /\ r \in pipe \cap started
  /\ Free(r) /\ StreamMutexFree /\ nr[r] = 1 /\ r \in streaming
  /\ reset' = reset \cup {r}
  /\ Locks(r, S(q)) /\ Goto(S(q), "flushOther")
  /\ UNCHANGED << lists, firmware, ssc, pipe, nr, streaming, started, flags, locals >>

PassesOther(q, r) ==
  /\ pc[S(q)] = "scan" /\ on[S(q)] = r /\ r # q /\ r \in pipe \cap started
  /\ Free(r) /\ StreamMutexFree /\ (nr[r] # 1 \/ r \notin streaming)
  /\ reset' = reset \cup {r}
  /\ pipe' = pipe \ {r} /\ nr' = [nr EXCEPT ![r] = nr[r] - 1] /\ streaming' = streaming \ {r}
  /\ started' = started \ {r}
  /\ Visit(S(q), "scan", r + 1)
  /\ UNCHANGED << lists, firmware, ssc, lock, flags, locals >>

LEMMA ResetStopsParts ==
  ASSUME NEW q \in Node, ResetStops(q)
  PROVE  \E r \in Node : StopsOther(q, r) \/ PassesOther(q, r)
BY DEF ResetStops, StopsOther, PassesOther, Running, LeavePipeline

OtherFlushed(q, r) ==
  /\ pc[S(q)] = "flushOther" /\ on[S(q)] = r
  /\ fw' = [fw EXCEPT ![r] = << >>] /\ open' = open \ {r}
  /\ pipe' = pipe \ {r} /\ nr' = [nr EXCEPT ![r] = nr[r] - 1] /\ streaming' = streaming \ {r}
  /\ started' = started \ {r}
  /\ Unlocks(r) /\ Visit(S(q), "scan", r + 1)
  /\ UNCHANGED << lists, fwUp, ssc, reset, flags, locals >>

LEMMA ResetFlushesParts ==
  ASSUME NEW q \in Node, ResetFlushes(q) PROVE OtherFlushed(q, on[S(q)])
BY DEF ResetFlushes, Flush, LeavePipeline, OtherFlushed

\* The firmware is done with the oldest frame of q.
FrameDone(q) ==
  /\ fw[q] # << >> /\ active[q] # << >>
  /\ fw' = [fw EXCEPT ![q] = Tail(fw[q])]
  /\ active' = [active EXCEPT ![q] = Tail(active[q])]
  /\ Hand({Head(active[q])}, "user")
  /\ UNCHANGED << incoming, taken, open, fwUp, streams, flags, control, locals >>

LEMMA BufReadyParts ==
  ASSUME NEW q \in Node, TypedLists, BufReady(q), fw[q] = active[q], IsInjective(active[q])
  PROVE  FrameDone(q)
<1> DEFINE a == active[q]
<1>1. a # << >> /\ a \in Seq(Buf) /\ fw[q] = a /\ IsInjective(a)
  BY DEF BufReady, TypedLists
<1>2. Head(a) \in Range(a)
  BY <1>1, ListTail
<1>3. PICK i \in DOMAIN a :
        a[i] = Head(a) /\ active' = [active EXCEPT ![q] = RemoveAt(a, i)] /\ Hand({Head(a)}, "user")
  BY <1>1, <1>2 DEF BufReady
<1>4. RemoveAt(a, i) = Tail(a)
  BY <1>1, <1>3, ListRemoveFirst
<1>5. fw' = [fw EXCEPT ![q] = Tail(fw[q])]
      /\ UNCHANGED << incoming, taken, open, fwUp, streams, flags, control, locals >>
  BY DEF BufReady
<1> QED
  BY <1>1, <1>3, <1>4, <1>5 DEF FrameDone

LEMMA EndsStopEffect ==
  ASSUME Typed, NEW q \in Node, EndsStop(q)
  PROVE  Typed' /\ Works(S(q), q)
<1> USE ThreadFacts
<1>0. TypedLists /\ TypedStreams /\ TypedFlags /\ TypedControl
  BY DEF Typed
<1>1. TypedLists'
  <2>1. vb' \in [Buf -> {"user", "vb2", "driver"}]
    BY <1>0, HandChanges DEF TypedLists, EndsStop, StopEnds, lists
  <2>2. incoming' \in [Node -> Seq(Buf)]
    BY <1>0, BufLists DEF TypedLists, EndsStop, StopEnds, lists
  <2>3. active' \in [Node -> Seq(Buf)]
    BY <1>0, BufLists DEF TypedLists, EndsStop, StopEnds, lists
  <2>4. fw' \in [Node -> Seq(Buf)]
    BY <1>0, BufLists DEF TypedLists, EndsStop, StopEnds, firmware
  <2>5. taken' \in [Thread -> Buf \cup {NoBuf}]
    BY <1>0 DEF TypedLists, EndsStop, StopEnds, lists
  <2> QED
    BY <2>1, <2>2, <2>3, <2>4, <2>5 DEF TypedLists
<1>2. TypedStreams'
  BY <1>0 DEF TypedStreams, EndsStop, StopEnds, streams, locals, firmware
<1>3. TypedFlags'
  BY <1>0 DEF TypedFlags, EndsStop, StopEnds, flags, firmware
<1>4. TypedControl' /\ Moves(S(q))
  <2>1. pc' \in [Thread -> Place] /\ on' \in [Thread -> 1 .. Nodes + 1]
    BY <1>0, PlaceParts, GotoMoves DEF EndsStop, StopEnds, RestPhase, StartPhase, StopPhase, ResetPhase, control
  <2>2. \A u \in Thread \ {S(q)} : pc'[u] = pc[u] /\ on'[u] = on[u]
    BY <1>0, PlaceParts, GotoMoves DEF EndsStop, StopEnds, RestPhase, StartPhase, StopPhase, ResetPhase, control
  <2>3. lock' \in [Node -> Thread \cup {NoThread}]
    BY <1>0 DEF TypedControl, EndsStop, StopEnds, Locks, Unlocks, control
  <2>4. \A u \in Thread \ {S(q)} : taken'[u] = taken[u]
    BY <1>0 DEF TypedLists, EndsStop, StopEnds, lists
  <2> QED
    BY <2>1, <2>2, <2>3, <2>4 DEF TypedControl, Moves
<1>5. Touches(q)
  BY <1>0, BufFacts, HandChanges DEF TypedLists, TypedStreams, TypedControl, Touches, Untouched, Still, EndsStop, StopEnds,
     lists, firmware, streams, control, locals, Locks, Unlocks
<1> QED
  BY <1>1, <1>2, <1>3, <1>4, <1>5 DEF Typed, Works

LEMMA StopsRunningEffect ==
  ASSUME Typed, NEW q \in Node, StopsRunning(q)
  PROVE  Typed' /\ Works(S(q), q)
<1> USE ThreadFacts
<1>0. TypedLists /\ TypedStreams /\ TypedFlags /\ TypedControl
  BY DEF Typed
<1>1. TypedLists'
  <2>1. vb' \in [Buf -> {"user", "vb2", "driver"}]
    BY <1>0, HandChanges DEF TypedLists, StopsRunning, lists
  <2>2. incoming' \in [Node -> Seq(Buf)]
    BY <1>0, BufLists DEF TypedLists, StopsRunning, lists
  <2>3. active' \in [Node -> Seq(Buf)]
    BY <1>0, BufLists DEF TypedLists, StopsRunning, lists
  <2>4. fw' \in [Node -> Seq(Buf)]
    BY <1>0, BufLists DEF TypedLists, StopsRunning, firmware
  <2>5. taken' \in [Thread -> Buf \cup {NoBuf}]
    BY <1>0 DEF TypedLists, StopsRunning, lists
  <2> QED
    BY <2>1, <2>2, <2>3, <2>4, <2>5 DEF TypedLists
<1>2. TypedStreams'
  BY <1>0 DEF TypedStreams, StopsRunning, streams, locals, firmware
<1>3. TypedFlags'
  BY <1>0 DEF TypedFlags, StopsRunning, flags, firmware
<1>4. TypedControl' /\ Moves(S(q))
  <2>1. pc' \in [Thread -> Place] /\ on' \in [Thread -> 1 .. Nodes + 1]
    BY <1>0, PlaceParts, GotoMoves DEF StopsRunning, RestPhase, StartPhase, StopPhase, ResetPhase, control
  <2>2. \A u \in Thread \ {S(q)} : pc'[u] = pc[u] /\ on'[u] = on[u]
    BY <1>0, PlaceParts, GotoMoves DEF StopsRunning, RestPhase, StartPhase, StopPhase, ResetPhase, control
  <2>3. lock' \in [Node -> Thread \cup {NoThread}]
    BY <1>0 DEF TypedControl, StopsRunning, Locks, Unlocks, control
  <2>4. \A u \in Thread \ {S(q)} : taken'[u] = taken[u]
    BY <1>0 DEF TypedLists, StopsRunning, lists
  <2> QED
    BY <2>1, <2>2, <2>3, <2>4 DEF TypedControl, Moves
<1>5. Touches(q)
  BY <1>0, BufFacts, HandChanges DEF TypedLists, TypedStreams, TypedControl, Touches, Untouched, Still, StopsRunning,
     lists, firmware, streams, control, locals, Locks, Unlocks
<1> QED
  BY <1>1, <1>2, <1>3, <1>4, <1>5 DEF Typed, Works

LEMMA StopsIdleEffect ==
  ASSUME Typed, NEW q \in Node, StopsIdle(q)
  PROVE  Typed' /\ Works(S(q), q)
<1> USE ThreadFacts
<1>0. TypedLists /\ TypedStreams /\ TypedFlags /\ TypedControl
  BY DEF Typed
<1>1. TypedLists'
  <2>1. vb' \in [Buf -> {"user", "vb2", "driver"}]
    BY <1>0, HandChanges DEF TypedLists, StopsIdle, lists
  <2>2. incoming' \in [Node -> Seq(Buf)]
    BY <1>0, BufLists DEF TypedLists, StopsIdle, lists
  <2>3. active' \in [Node -> Seq(Buf)]
    BY <1>0, BufLists DEF TypedLists, StopsIdle, lists
  <2>4. fw' \in [Node -> Seq(Buf)]
    BY <1>0, BufLists DEF TypedLists, StopsIdle, firmware
  <2>5. taken' \in [Thread -> Buf \cup {NoBuf}]
    BY <1>0 DEF TypedLists, StopsIdle, lists
  <2> QED
    BY <2>1, <2>2, <2>3, <2>4, <2>5 DEF TypedLists
<1>2. TypedStreams'
  BY <1>0 DEF TypedStreams, StopsIdle, streams, locals, firmware
<1>3. TypedFlags'
  BY <1>0 DEF TypedFlags, StopsIdle, flags, firmware
<1>4. TypedControl' /\ Moves(S(q))
  <2>1. pc' \in [Thread -> Place] /\ on' \in [Thread -> 1 .. Nodes + 1]
    BY <1>0, PlaceParts, GotoMoves DEF StopsIdle, RestPhase, StartPhase, StopPhase, ResetPhase, control
  <2>2. \A u \in Thread \ {S(q)} : pc'[u] = pc[u] /\ on'[u] = on[u]
    BY <1>0, PlaceParts, GotoMoves DEF StopsIdle, RestPhase, StartPhase, StopPhase, ResetPhase, control
  <2>3. lock' \in [Node -> Thread \cup {NoThread}]
    BY <1>0 DEF TypedControl, StopsIdle, Locks, Unlocks, control
  <2>4. \A u \in Thread \ {S(q)} : taken'[u] = taken[u]
    BY <1>0 DEF TypedLists, StopsIdle, lists
  <2> QED
    BY <2>1, <2>2, <2>3, <2>4 DEF TypedControl, Moves
<1>5. Touches(q)
  BY <1>0, BufFacts, HandChanges DEF TypedLists, TypedStreams, TypedControl, Touches, Untouched, Still, StopsIdle,
     lists, firmware, streams, control, locals, Locks, Unlocks
<1> QED
  BY <1>1, <1>2, <1>3, <1>4, <1>5 DEF Typed, Works

LEMMA StopResetsEffect ==
  ASSUME Typed, NEW q \in Node, StopResets(q)
  PROVE  Typed' /\ Works(S(q), q)
<1> USE ThreadFacts
<1>0. TypedLists /\ TypedStreams /\ TypedFlags /\ TypedControl
  BY DEF Typed
<1>1. TypedLists'
  <2>1. vb' \in [Buf -> {"user", "vb2", "driver"}]
    BY <1>0, HandChanges DEF TypedLists, StopResets, lists
  <2>2. incoming' \in [Node -> Seq(Buf)]
    BY <1>0, BufLists DEF TypedLists, StopResets, lists
  <2>3. active' \in [Node -> Seq(Buf)]
    BY <1>0, BufLists DEF TypedLists, StopResets, lists
  <2>4. fw' \in [Node -> Seq(Buf)]
    BY <1>0, BufLists DEF TypedLists, StopResets, firmware
  <2>5. taken' \in [Thread -> Buf \cup {NoBuf}]
    BY <1>0 DEF TypedLists, StopResets, lists
  <2> QED
    BY <2>1, <2>2, <2>3, <2>4, <2>5 DEF TypedLists
<1>2. TypedStreams'
  BY <1>0 DEF TypedStreams, StopResets, streams, locals, firmware
<1>3. TypedFlags'
  BY <1>0 DEF TypedFlags, StopResets, flags, firmware
<1>4. TypedControl' /\ Moves(S(q))
  <2>1. pc' \in [Thread -> Place] /\ on' \in [Thread -> 1 .. Nodes + 1]
    BY <1>0, PlaceParts, GotoMoves DEF StopResets, RestPhase, StartPhase, StopPhase, ResetPhase, control
  <2>2. \A u \in Thread \ {S(q)} : pc'[u] = pc[u] /\ on'[u] = on[u]
    BY <1>0, PlaceParts, GotoMoves DEF StopResets, RestPhase, StartPhase, StopPhase, ResetPhase, control
  <2>3. lock' \in [Node -> Thread \cup {NoThread}]
    BY <1>0 DEF TypedControl, StopResets, Locks, Unlocks, control
  <2>4. \A u \in Thread \ {S(q)} : taken'[u] = taken[u]
    BY <1>0 DEF TypedLists, StopResets, lists
  <2> QED
    BY <2>1, <2>2, <2>3, <2>4 DEF TypedControl, Moves
<1>5. Touches(q)
  BY <1>0, BufFacts, HandChanges DEF TypedLists, TypedStreams, TypedControl, Touches, Untouched, Still, StopResets,
     lists, firmware, streams, control, locals, Locks, Unlocks
<1> QED
  BY <1>1, <1>2, <1>3, <1>4, <1>5 DEF Typed, Works

LEMMA ResetsFirstEffect ==
  ASSUME Typed, NEW q \in Node, ResetsFirst(q)
  PROVE  Typed' /\ Works(S(q), q)
<1> USE ThreadFacts
<1>0. TypedLists /\ TypedStreams /\ TypedFlags /\ TypedControl
  BY DEF Typed
<1>1. TypedLists'
  <2>1. vb' \in [Buf -> {"user", "vb2", "driver"}]
    BY <1>0, HandChanges DEF TypedLists, ResetsFirst, lists
  <2>2. incoming' \in [Node -> Seq(Buf)]
    BY <1>0, BufLists DEF TypedLists, ResetsFirst, lists
  <2>3. active' \in [Node -> Seq(Buf)]
    BY <1>0, BufLists DEF TypedLists, ResetsFirst, lists
  <2>4. fw' \in [Node -> Seq(Buf)]
    BY <1>0, BufLists DEF TypedLists, ResetsFirst, firmware
  <2>5. taken' \in [Thread -> Buf \cup {NoBuf}]
    BY <1>0 DEF TypedLists, ResetsFirst, lists
  <2> QED
    BY <2>1, <2>2, <2>3, <2>4, <2>5 DEF TypedLists
<1>2. TypedStreams'
  BY <1>0 DEF TypedStreams, ResetsFirst, streams, locals, firmware
<1>3. TypedFlags'
  BY <1>0 DEF TypedFlags, ResetsFirst, flags, firmware
<1>4. TypedControl' /\ Moves(S(q))
  <2>1. pc' \in [Thread -> Place] /\ on' \in [Thread -> 1 .. Nodes + 1]
    BY <1>0, PlaceParts, GotoMoves DEF ResetsFirst, RestPhase, StartPhase, StopPhase, ResetPhase, control
  <2>2. \A u \in Thread \ {S(q)} : pc'[u] = pc[u] /\ on'[u] = on[u]
    BY <1>0, PlaceParts, GotoMoves DEF ResetsFirst, RestPhase, StartPhase, StopPhase, ResetPhase, control
  <2>3. lock' \in [Node -> Thread \cup {NoThread}]
    BY <1>0 DEF TypedControl, ResetsFirst, Locks, Unlocks, control
  <2>4. \A u \in Thread \ {S(q)} : taken'[u] = taken[u]
    BY <1>0 DEF TypedLists, ResetsFirst, lists
  <2> QED
    BY <2>1, <2>2, <2>3, <2>4 DEF TypedControl, Moves
<1>5. Touches(q)
  BY <1>0, BufFacts, HandChanges DEF TypedLists, TypedStreams, TypedControl, Touches, Untouched, Still, ResetsFirst,
     lists, firmware, streams, control, locals, Locks, Unlocks
<1> QED
  BY <1>1, <1>2, <1>3, <1>4, <1>5 DEF Typed, Works

LEMMA StopFlushesEffect ==
  ASSUME Typed, NEW q \in Node, StopFlushes(q)
  PROVE  Typed' /\ Works(S(q), q)
<1> USE ThreadFacts
<1>0. TypedLists /\ TypedStreams /\ TypedFlags /\ TypedControl
  BY DEF Typed
<1>1. TypedLists'
  <2>1. vb' \in [Buf -> {"user", "vb2", "driver"}]
    BY <1>0, HandChanges DEF TypedLists, StopFlushes, Flush, LeavePipeline, lists
  <2>2. incoming' \in [Node -> Seq(Buf)]
    BY <1>0, BufLists DEF TypedLists, StopFlushes, Flush, LeavePipeline, lists
  <2>3. active' \in [Node -> Seq(Buf)]
    BY <1>0, BufLists DEF TypedLists, StopFlushes, Flush, LeavePipeline, lists
  <2>4. fw' \in [Node -> Seq(Buf)]
    BY <1>0, BufLists DEF TypedLists, StopFlushes, Flush, LeavePipeline, firmware
  <2>5. taken' \in [Thread -> Buf \cup {NoBuf}]
    BY <1>0 DEF TypedLists, StopFlushes, Flush, LeavePipeline, lists
  <2> QED
    BY <2>1, <2>2, <2>3, <2>4, <2>5 DEF TypedLists
<1>2. TypedStreams'
  BY <1>0 DEF TypedStreams, StopFlushes, Flush, LeavePipeline, streams, locals, firmware
<1>3. TypedFlags'
  BY <1>0 DEF TypedFlags, StopFlushes, Flush, LeavePipeline, flags, firmware
<1>4. TypedControl' /\ Moves(S(q))
  <2>1. pc' \in [Thread -> Place] /\ on' \in [Thread -> 1 .. Nodes + 1]
    BY <1>0, PlaceParts, GotoMoves DEF StopFlushes, Flush, LeavePipeline, RestPhase, StartPhase, StopPhase, ResetPhase, control
  <2>2. \A u \in Thread \ {S(q)} : pc'[u] = pc[u] /\ on'[u] = on[u]
    BY <1>0, PlaceParts, GotoMoves DEF StopFlushes, Flush, LeavePipeline, RestPhase, StartPhase, StopPhase, ResetPhase, control
  <2>3. lock' \in [Node -> Thread \cup {NoThread}]
    BY <1>0 DEF TypedControl, StopFlushes, Flush, LeavePipeline, Locks, Unlocks, control
  <2>4. \A u \in Thread \ {S(q)} : taken'[u] = taken[u]
    BY <1>0 DEF TypedLists, StopFlushes, Flush, LeavePipeline, lists
  <2> QED
    BY <2>1, <2>2, <2>3, <2>4 DEF TypedControl, Moves
<1>5. Touches(q)
  BY <1>0, BufFacts, HandChanges DEF TypedLists, TypedStreams, TypedControl, Touches, Untouched, Still, StopFlushes, Flush, LeavePipeline,
     lists, firmware, streams, control, locals, Locks, Unlocks
<1> QED
  BY <1>1, <1>2, <1>3, <1>4, <1>5 DEF Typed, Works

LEMMA StopReturnsBuffersEffect ==
  ASSUME Typed, NEW q \in Node,
         incoming[q] \in Seq(BufsOf(q)), active[q] \in Seq(BufsOf(q)), StopReturnsBuffers(q)
  PROVE  Typed' /\ Works(S(q), q)
<1> USE ThreadFacts
<1>0. TypedLists /\ TypedStreams /\ TypedFlags /\ TypedControl
  BY DEF Typed
<1>a. Range(incoming[q]) \cup Range(active[q]) \subseteq BufsOf(q)
  BY BufLists
<1>1. TypedLists'
  <2>1. vb' \in [Buf -> {"user", "vb2", "driver"}]
    BY <1>0, HandChanges DEF TypedLists, StopReturnsBuffers, ReturnBuffers, lists
  <2>2. incoming' \in [Node -> Seq(Buf)]
    BY <1>0, BufLists DEF TypedLists, StopReturnsBuffers, ReturnBuffers, lists
  <2>3. active' \in [Node -> Seq(Buf)]
    BY <1>0, BufLists DEF TypedLists, StopReturnsBuffers, ReturnBuffers, lists
  <2>4. fw' \in [Node -> Seq(Buf)]
    BY <1>0, BufLists DEF TypedLists, StopReturnsBuffers, ReturnBuffers, firmware
  <2>5. taken' \in [Thread -> Buf \cup {NoBuf}]
    BY <1>0 DEF TypedLists, StopReturnsBuffers, ReturnBuffers, lists
  <2> QED
    BY <2>1, <2>2, <2>3, <2>4, <2>5 DEF TypedLists
<1>2. TypedStreams'
  BY <1>0 DEF TypedStreams, StopReturnsBuffers, ReturnBuffers, streams, locals, firmware
<1>3. TypedFlags'
  BY <1>0 DEF TypedFlags, StopReturnsBuffers, ReturnBuffers, flags, firmware
<1>4. TypedControl' /\ Moves(S(q))
  <2>1. pc' \in [Thread -> Place] /\ on' \in [Thread -> 1 .. Nodes + 1]
    BY <1>0, PlaceParts, GotoMoves DEF StopReturnsBuffers, ReturnBuffers, RestPhase, StartPhase, StopPhase, ResetPhase, control
  <2>2. \A u \in Thread \ {S(q)} : pc'[u] = pc[u] /\ on'[u] = on[u]
    BY <1>0, PlaceParts, GotoMoves DEF StopReturnsBuffers, ReturnBuffers, RestPhase, StartPhase, StopPhase, ResetPhase, control
  <2>3. lock' \in [Node -> Thread \cup {NoThread}]
    BY <1>0 DEF TypedControl, StopReturnsBuffers, ReturnBuffers, Locks, Unlocks, control
  <2>4. \A u \in Thread \ {S(q)} : taken'[u] = taken[u]
    BY <1>0 DEF TypedLists, StopReturnsBuffers, ReturnBuffers, lists
  <2> QED
    BY <2>1, <2>2, <2>3, <2>4 DEF TypedControl, Moves
<1>5. Touches(q)
  BY <1>0, BufFacts, <1>a, HandChanges DEF TypedLists, TypedStreams, TypedControl, Touches, Untouched, Still, StopReturnsBuffers, ReturnBuffers,
     lists, firmware, streams, control, locals, Locks, Unlocks
<1> QED
  BY <1>1, <1>2, <1>3, <1>4, <1>5 DEF Typed, Works

LEMMA ResetEndsEffect ==
  ASSUME Typed, NEW q \in Node, ResetEnds(q)
  PROVE  Typed' /\ Works(S(q), q)
<1> USE ThreadFacts
<1>0. TypedLists /\ TypedStreams /\ TypedFlags /\ TypedControl
  BY DEF Typed
<1>1. TypedLists'
  <2>1. vb' \in [Buf -> {"user", "vb2", "driver"}]
    BY <1>0, HandChanges DEF TypedLists, ResetEnds, lists
  <2>2. incoming' \in [Node -> Seq(Buf)]
    BY <1>0, BufLists DEF TypedLists, ResetEnds, lists
  <2>3. active' \in [Node -> Seq(Buf)]
    BY <1>0, BufLists DEF TypedLists, ResetEnds, lists
  <2>4. fw' \in [Node -> Seq(Buf)]
    BY <1>0, BufLists DEF TypedLists, ResetEnds, firmware
  <2>5. taken' \in [Thread -> Buf \cup {NoBuf}]
    BY <1>0 DEF TypedLists, ResetEnds, lists
  <2> QED
    BY <2>1, <2>2, <2>3, <2>4, <2>5 DEF TypedLists
<1>2. TypedStreams'
  BY <1>0 DEF TypedStreams, ResetEnds, streams, locals, firmware
<1>3. TypedFlags'
  BY <1>0 DEF TypedFlags, ResetEnds, flags, firmware
<1>4. TypedControl' /\ Moves(S(q))
  <2>1. pc' \in [Thread -> Place] /\ on' \in [Thread -> 1 .. Nodes + 1]
    BY <1>0, PlaceParts, VisitMoves, NextNode DEF ResetEnds, RestPhase, StartPhase, StopPhase, ResetPhase, control
  <2>2. \A u \in Thread \ {S(q)} : pc'[u] = pc[u] /\ on'[u] = on[u]
    BY <1>0, PlaceParts, VisitMoves, NextNode DEF ResetEnds, RestPhase, StartPhase, StopPhase, ResetPhase, control
  <2>3. lock' \in [Node -> Thread \cup {NoThread}]
    BY <1>0 DEF TypedControl, ResetEnds, Locks, Unlocks, control
  <2>4. \A u \in Thread \ {S(q)} : taken'[u] = taken[u]
    BY <1>0 DEF TypedLists, ResetEnds, lists
  <2> QED
    BY <2>1, <2>2, <2>3, <2>4 DEF TypedControl, Moves
<1>5. Touches(q)
  BY <1>0, BufFacts, HandChanges DEF TypedLists, TypedStreams, TypedControl, Touches, Untouched, Still, ResetEnds,
     lists, firmware, streams, control, locals, Locks, Unlocks
<1> QED
  BY <1>1, <1>2, <1>3, <1>4, <1>5 DEF Typed, Works

LEMMA PowerUpEffect ==
  ASSUME Typed, NEW q \in Node, PowerUp(q)
  PROVE  Typed' /\ Works(S(q), q)
<1> USE ThreadFacts
<1>0. TypedLists /\ TypedStreams /\ TypedFlags /\ TypedControl
  BY DEF Typed
<1>1. TypedLists'
  <2>1. vb' \in [Buf -> {"user", "vb2", "driver"}]
    BY <1>0, HandChanges DEF TypedLists, PowerUp, lists
  <2>2. incoming' \in [Node -> Seq(Buf)]
    BY <1>0, BufLists DEF TypedLists, PowerUp, lists
  <2>3. active' \in [Node -> Seq(Buf)]
    BY <1>0, BufLists DEF TypedLists, PowerUp, lists
  <2>4. fw' \in [Node -> Seq(Buf)]
    BY <1>0, BufLists DEF TypedLists, PowerUp, firmware
  <2>5. taken' \in [Thread -> Buf \cup {NoBuf}]
    BY <1>0 DEF TypedLists, PowerUp, lists
  <2> QED
    BY <2>1, <2>2, <2>3, <2>4, <2>5 DEF TypedLists
<1>2. TypedStreams'
  BY <1>0 DEF TypedStreams, PowerUp, streams, locals, firmware
<1>3. TypedFlags'
  BY <1>0 DEF TypedFlags, PowerUp, flags, firmware
<1>4. TypedControl' /\ Moves(S(q))
  <2>1. pc' \in [Thread -> Place] /\ on' \in [Thread -> 1 .. Nodes + 1]
    BY <1>0, PlaceParts, VisitMoves, NextNode DEF PowerUp, RestPhase, StartPhase, StopPhase, ResetPhase, control
  <2>2. \A u \in Thread \ {S(q)} : pc'[u] = pc[u] /\ on'[u] = on[u]
    BY <1>0, PlaceParts, VisitMoves, NextNode DEF PowerUp, RestPhase, StartPhase, StopPhase, ResetPhase, control
  <2>3. lock' \in [Node -> Thread \cup {NoThread}]
    BY <1>0 DEF TypedControl, PowerUp, Locks, Unlocks, control
  <2>4. \A u \in Thread \ {S(q)} : taken'[u] = taken[u]
    BY <1>0 DEF TypedLists, PowerUp, lists
  <2> QED
    BY <2>1, <2>2, <2>3, <2>4 DEF TypedControl, Moves
<1>5. Touches(q)
  BY <1>0, BufFacts, HandChanges DEF TypedLists, TypedStreams, TypedControl, Touches, Untouched, Still, PowerUp,
     lists, firmware, streams, control, locals, Locks, Unlocks
<1> QED
  BY <1>1, <1>2, <1>3, <1>4, <1>5 DEF Typed, Works

LEMMA StopsOtherEffect ==
  ASSUME Typed, NEW q \in Node, NEW r \in Node, StopsOther(q, r)
  PROVE  Typed' /\ Works(S(q), r)
<1> USE ThreadFacts
<1>0. TypedLists /\ TypedStreams /\ TypedFlags /\ TypedControl
  BY DEF Typed
<1>1. TypedLists'
  <2>1. vb' \in [Buf -> {"user", "vb2", "driver"}]
    BY <1>0, HandChanges DEF TypedLists, StopsOther, lists
  <2>2. incoming' \in [Node -> Seq(Buf)]
    BY <1>0, BufLists DEF TypedLists, StopsOther, lists
  <2>3. active' \in [Node -> Seq(Buf)]
    BY <1>0, BufLists DEF TypedLists, StopsOther, lists
  <2>4. fw' \in [Node -> Seq(Buf)]
    BY <1>0, BufLists DEF TypedLists, StopsOther, firmware
  <2>5. taken' \in [Thread -> Buf \cup {NoBuf}]
    BY <1>0 DEF TypedLists, StopsOther, lists
  <2> QED
    BY <2>1, <2>2, <2>3, <2>4, <2>5 DEF TypedLists
<1>2. TypedStreams'
  BY <1>0 DEF TypedStreams, StopsOther, streams, locals, firmware
<1>3. TypedFlags'
  BY <1>0 DEF TypedFlags, StopsOther, flags, firmware
<1>4. TypedControl' /\ Moves(S(q))
  <2>1. pc' \in [Thread -> Place] /\ on' \in [Thread -> 1 .. Nodes + 1]
    BY <1>0, PlaceParts, GotoMoves, VisitMoves, NextNode DEF StopsOther, RestPhase, StartPhase, StopPhase, ResetPhase, control
  <2>2. \A u \in Thread \ {S(q)} : pc'[u] = pc[u] /\ on'[u] = on[u]
    BY <1>0, PlaceParts, GotoMoves, VisitMoves, NextNode DEF StopsOther, RestPhase, StartPhase, StopPhase, ResetPhase, control
  <2>3. lock' \in [Node -> Thread \cup {NoThread}]
    BY <1>0 DEF TypedControl, StopsOther, Locks, Unlocks, control
  <2>4. \A u \in Thread \ {S(q)} : taken'[u] = taken[u]
    BY <1>0 DEF TypedLists, StopsOther, lists
  <2> QED
    BY <2>1, <2>2, <2>3, <2>4 DEF TypedControl, Moves
<1>5. Touches(r)
  BY <1>0, BufFacts, HandChanges DEF TypedLists, TypedStreams, TypedControl, Touches, Untouched, Still, StopsOther,
     lists, firmware, streams, control, locals, Locks, Unlocks
<1> QED
  BY <1>1, <1>2, <1>3, <1>4, <1>5 DEF Typed, Works

LEMMA PassesOtherEffect ==
  ASSUME Typed, NEW q \in Node, NEW r \in Node, PassesOther(q, r)
  PROVE  Typed' /\ Works(S(q), r)
<1> USE ThreadFacts
<1>0. TypedLists /\ TypedStreams /\ TypedFlags /\ TypedControl
  BY DEF Typed
<1>1. TypedLists'
  <2>1. vb' \in [Buf -> {"user", "vb2", "driver"}]
    BY <1>0, HandChanges DEF TypedLists, PassesOther, lists
  <2>2. incoming' \in [Node -> Seq(Buf)]
    BY <1>0, BufLists DEF TypedLists, PassesOther, lists
  <2>3. active' \in [Node -> Seq(Buf)]
    BY <1>0, BufLists DEF TypedLists, PassesOther, lists
  <2>4. fw' \in [Node -> Seq(Buf)]
    BY <1>0, BufLists DEF TypedLists, PassesOther, firmware
  <2>5. taken' \in [Thread -> Buf \cup {NoBuf}]
    BY <1>0 DEF TypedLists, PassesOther, lists
  <2> QED
    BY <2>1, <2>2, <2>3, <2>4, <2>5 DEF TypedLists
<1>2. TypedStreams'
  BY <1>0 DEF TypedStreams, PassesOther, streams, locals, firmware
<1>3. TypedFlags'
  BY <1>0 DEF TypedFlags, PassesOther, flags, firmware
<1>4. TypedControl' /\ Moves(S(q))
  <2>1. pc' \in [Thread -> Place] /\ on' \in [Thread -> 1 .. Nodes + 1]
    BY <1>0, PlaceParts, GotoMoves, VisitMoves, NextNode DEF PassesOther, RestPhase, StartPhase, StopPhase, ResetPhase, control
  <2>2. \A u \in Thread \ {S(q)} : pc'[u] = pc[u] /\ on'[u] = on[u]
    BY <1>0, PlaceParts, GotoMoves, VisitMoves, NextNode DEF PassesOther, RestPhase, StartPhase, StopPhase, ResetPhase, control
  <2>3. lock' \in [Node -> Thread \cup {NoThread}]
    BY <1>0 DEF TypedControl, PassesOther, Locks, Unlocks, control
  <2>4. \A u \in Thread \ {S(q)} : taken'[u] = taken[u]
    BY <1>0 DEF TypedLists, PassesOther, lists
  <2> QED
    BY <2>1, <2>2, <2>3, <2>4 DEF TypedControl, Moves
<1>5. Touches(r)
  BY <1>0, BufFacts, HandChanges DEF TypedLists, TypedStreams, TypedControl, Touches, Untouched, Still, PassesOther,
     lists, firmware, streams, control, locals, Locks, Unlocks
<1> QED
  BY <1>1, <1>2, <1>3, <1>4, <1>5 DEF Typed, Works

LEMMA OtherFlushedEffect ==
  ASSUME Typed, NEW q \in Node, NEW r \in Node, OtherFlushed(q, r)
  PROVE  Typed' /\ Works(S(q), r)
<1> USE ThreadFacts
<1>0. TypedLists /\ TypedStreams /\ TypedFlags /\ TypedControl
  BY DEF Typed
<1>1. TypedLists'
  <2>1. vb' \in [Buf -> {"user", "vb2", "driver"}]
    BY <1>0, HandChanges DEF TypedLists, OtherFlushed, lists
  <2>2. incoming' \in [Node -> Seq(Buf)]
    BY <1>0, BufLists DEF TypedLists, OtherFlushed, lists
  <2>3. active' \in [Node -> Seq(Buf)]
    BY <1>0, BufLists DEF TypedLists, OtherFlushed, lists
  <2>4. fw' \in [Node -> Seq(Buf)]
    BY <1>0, BufLists DEF TypedLists, OtherFlushed, firmware
  <2>5. taken' \in [Thread -> Buf \cup {NoBuf}]
    BY <1>0 DEF TypedLists, OtherFlushed, lists
  <2> QED
    BY <2>1, <2>2, <2>3, <2>4, <2>5 DEF TypedLists
<1>2. TypedStreams'
  BY <1>0 DEF TypedStreams, OtherFlushed, streams, locals, firmware
<1>3. TypedFlags'
  BY <1>0 DEF TypedFlags, OtherFlushed, flags, firmware
<1>4. TypedControl' /\ Moves(S(q))
  <2>1. pc' \in [Thread -> Place] /\ on' \in [Thread -> 1 .. Nodes + 1]
    BY <1>0, PlaceParts, GotoMoves, VisitMoves, NextNode DEF OtherFlushed, RestPhase, StartPhase, StopPhase, ResetPhase, control
  <2>2. \A u \in Thread \ {S(q)} : pc'[u] = pc[u] /\ on'[u] = on[u]
    BY <1>0, PlaceParts, GotoMoves, VisitMoves, NextNode DEF OtherFlushed, RestPhase, StartPhase, StopPhase, ResetPhase, control
  <2>3. lock' \in [Node -> Thread \cup {NoThread}]
    BY <1>0 DEF TypedControl, OtherFlushed, Locks, Unlocks, control
  <2>4. \A u \in Thread \ {S(q)} : taken'[u] = taken[u]
    BY <1>0 DEF TypedLists, OtherFlushed, lists
  <2> QED
    BY <2>1, <2>2, <2>3, <2>4 DEF TypedControl, Moves
<1>5. Touches(r)
  BY <1>0, BufFacts, HandChanges DEF TypedLists, TypedStreams, TypedControl, Touches, Untouched, Still, OtherFlushed,
     lists, firmware, streams, control, locals, Locks, Unlocks
<1> QED
  BY <1>1, <1>2, <1>3, <1>4, <1>5 DEF Typed, Works

LEMMA RestartsIdleEffect ==
  ASSUME Typed, NEW q \in Node, NEW r \in Node, RestartsIdle(q, r)
  PROVE  Typed' /\ Works(S(q), r)
<1> USE ThreadFacts
<1>0. TypedLists /\ TypedStreams /\ TypedFlags /\ TypedControl
  BY DEF Typed
<1>a. active[r] \o incoming[r] \in Seq(Buf)
  BY <1>0, ListConcat DEF TypedLists
<1>1. TypedLists'
  <2>1. vb' \in [Buf -> {"user", "vb2", "driver"}]
    BY <1>0, HandChanges DEF TypedLists, RestartsIdle, BeginsIdle, lists
  <2>2. incoming' \in [Node -> Seq(Buf)]
    BY <1>0, <1>a, BufLists DEF TypedLists, RestartsIdle, BeginsIdle, lists
  <2>3. active' \in [Node -> Seq(Buf)]
    BY <1>0, <1>a, BufLists DEF TypedLists, RestartsIdle, BeginsIdle, lists
  <2>4. fw' \in [Node -> Seq(Buf)]
    BY <1>0, <1>a, BufLists DEF TypedLists, RestartsIdle, BeginsIdle, firmware
  <2>5. taken' \in [Thread -> Buf \cup {NoBuf}]
    BY <1>0, <1>a DEF TypedLists, RestartsIdle, BeginsIdle, lists
  <2> QED
    BY <2>1, <2>2, <2>3, <2>4, <2>5 DEF TypedLists
<1>2. TypedStreams'
  BY <1>0 DEF TypedStreams, RestartsIdle, BeginsIdle, streams, locals, firmware
<1>3. TypedFlags'
  BY <1>0 DEF TypedFlags, RestartsIdle, BeginsIdle, flags, firmware
<1>4. TypedControl' /\ Moves(S(q))
  <2>1. pc' \in [Thread -> Place] /\ on' \in [Thread -> 1 .. Nodes + 1]
    BY <1>0, PlaceParts, VisitMoves, NextNode DEF RestartsIdle, BeginsIdle, RestPhase, StartPhase, StopPhase, ResetPhase, control
  <2>2. \A u \in Thread \ {S(q)} : pc'[u] = pc[u] /\ on'[u] = on[u]
    BY <1>0, PlaceParts, VisitMoves, NextNode DEF RestartsIdle, BeginsIdle, RestPhase, StartPhase, StopPhase, ResetPhase, control
  <2>3. lock' \in [Node -> Thread \cup {NoThread}]
    BY <1>0 DEF TypedControl, RestartsIdle, BeginsIdle, Locks, Unlocks, control
  <2>4. \A u \in Thread \ {S(q)} : taken'[u] = taken[u]
    BY <1>0 DEF TypedLists, RestartsIdle, BeginsIdle, lists
  <2> QED
    BY <2>1, <2>2, <2>3, <2>4 DEF TypedControl, Moves
<1>5. Touches(r)
  BY <1>0, BufFacts, HandChanges DEF TypedLists, TypedStreams, TypedControl, Touches, Untouched, Still, RestartsIdle, BeginsIdle,
     lists, firmware, streams, control, locals, Locks, Unlocks
<1> QED
  BY <1>1, <1>2, <1>3, <1>4, <1>5 DEF Typed, Works

LEMMA RestartsWithEffect ==
  ASSUME Typed, NEW q \in Node, NEW r \in Node, RestartsWith(q, r)
  PROVE  Typed' /\ Works(S(q), r)
<1> USE ThreadFacts
<1>0. TypedLists /\ TypedStreams /\ TypedFlags /\ TypedControl
  BY DEF Typed
<1>a. active[r] \o incoming[r] \in Seq(Buf)
  BY <1>0, ListConcat DEF TypedLists
<1>b. Head(active[r] \o incoming[r]) \in Buf /\ Tail(active[r] \o incoming[r]) \in Seq(Buf)
  BY <1>a, BufLists DEF RestartsWith, BeginsWith
<1>1. TypedLists'
  <2>1. vb' \in [Buf -> {"user", "vb2", "driver"}]
    BY <1>0, HandChanges DEF TypedLists, RestartsWith, BeginsWith, lists
  <2>2. incoming' \in [Node -> Seq(Buf)]
    BY <1>0, <1>b, BufLists DEF TypedLists, RestartsWith, BeginsWith, lists
  <2>3. active' \in [Node -> Seq(Buf)]
    BY <1>0, <1>b, BufLists DEF TypedLists, RestartsWith, BeginsWith, lists
  <2>4. fw' \in [Node -> Seq(Buf)]
    BY <1>0, <1>b, BufLists DEF TypedLists, RestartsWith, BeginsWith, firmware
  <2>5. taken' \in [Thread -> Buf \cup {NoBuf}]
    BY <1>0, <1>b DEF TypedLists, RestartsWith, BeginsWith, lists
  <2> QED
    BY <2>1, <2>2, <2>3, <2>4, <2>5 DEF TypedLists
<1>2. TypedStreams'
  BY <1>0 DEF TypedStreams, RestartsWith, BeginsWith, streams, locals, firmware
<1>3. TypedFlags'
  BY <1>0 DEF TypedFlags, RestartsWith, BeginsWith, flags, firmware
<1>4. TypedControl' /\ Moves(S(q))
  <2>1. pc' \in [Thread -> Place] /\ on' \in [Thread -> 1 .. Nodes + 1]
    BY <1>0, PlaceParts, GotoMoves DEF RestartsWith, BeginsWith, RestPhase, StartPhase, StopPhase, ResetPhase, control
  <2>2. \A u \in Thread \ {S(q)} : pc'[u] = pc[u] /\ on'[u] = on[u]
    BY <1>0, PlaceParts, GotoMoves DEF RestartsWith, BeginsWith, RestPhase, StartPhase, StopPhase, ResetPhase, control
  <2>3. lock' \in [Node -> Thread \cup {NoThread}]
    BY <1>0 DEF TypedControl, RestartsWith, BeginsWith, Locks, Unlocks, control
  <2>4. \A u \in Thread \ {S(q)} : taken'[u] = taken[u]
    BY <1>0 DEF TypedLists, RestartsWith, BeginsWith, lists
  <2> QED
    BY <2>1, <2>2, <2>3, <2>4 DEF TypedControl, Moves
<1>5. Touches(r)
  <2>1. PICK h, l : taken' = [taken EXCEPT ![S(q)] = h] /\ incoming' = [incoming EXCEPT ![r] = l]
    BY DEF RestartsWith, BeginsWith
  <2>2. /\ reset' = reset \ {r} /\ active' = [active EXCEPT ![r] = << >>]
        /\ pipe' = pipe \cup {r} /\ nr' = [nr EXCEPT ![r] = nr[r] + 1] /\ lock' = [lock EXCEPT ![r] = S(q)]
        /\ UNCHANGED << vb, firmware, ssc, streaming, started, locals >>
    BY DEF RestartsWith, BeginsWith, Locks
  <2> QED
    BY <1>0, <2>1, <2>2 DEF TypedLists, TypedStreams, TypedControl, Touches, Untouched, Still, firmware, locals
<1> QED
  BY <1>1, <1>2, <1>3, <1>4, <1>5 DEF Typed, Works

LEMMA FrameDoneEffect ==
  ASSUME Typed, NEW q \in Node, active[q] \in Seq(BufsOf(q)), FrameDone(q)
  PROVE  Typed' /\ Works(S(q), q)
<1> USE ThreadFacts
<1>0. TypedLists /\ TypedStreams /\ TypedFlags /\ TypedControl
  BY DEF Typed
<1>a. Tail(active[q]) \in Seq(Buf) /\ Tail(fw[q]) \in Seq(Buf) /\ Head(active[q]) \in Range(active[q])
      /\ Range(active[q]) \subseteq BufsOf(q)
  BY <1>0, BufLists, ListTail DEF TypedLists, FrameDone
<1>1. TypedLists'
  <2>1. vb' \in [Buf -> {"user", "vb2", "driver"}]
    BY <1>0, HandChanges DEF TypedLists, TypedControl, FrameDone, lists
  <2>2. incoming' \in [Node -> Seq(Buf)]
    BY <1>0, <1>a, BufLists DEF TypedLists, TypedControl, FrameDone, lists
  <2>3. active' \in [Node -> Seq(Buf)]
    BY <1>0, <1>a, BufLists DEF TypedLists, TypedControl, FrameDone, lists
  <2>4. fw' \in [Node -> Seq(Buf)]
    BY <1>0, <1>a, BufLists DEF TypedLists, TypedControl, FrameDone, firmware
  <2>5. taken' \in [Thread -> Buf \cup {NoBuf}]
    BY <1>0, <1>a DEF TypedLists, TypedControl, FrameDone, lists
  <2> QED
    BY <2>1, <2>2, <2>3, <2>4, <2>5 DEF TypedLists
<1>2. TypedStreams'
  BY <1>0 DEF TypedStreams, TypedControl, FrameDone, streams, locals, firmware
<1>3. TypedFlags'
  BY <1>0 DEF TypedFlags, TypedControl, FrameDone, flags, firmware
<1>4. TypedControl' /\ Moves(S(q))
  <2>1. pc' \in [Thread -> Place] /\ on' \in [Thread -> 1 .. Nodes + 1]
    BY <1>0, PlaceParts, GotoMoves DEF TypedControl, FrameDone, RestPhase, StartPhase, StopPhase, ResetPhase, control
  <2>2. \A u \in Thread \ {S(q)} : pc'[u] = pc[u] /\ on'[u] = on[u]
    BY <1>0, PlaceParts, GotoMoves DEF TypedControl, FrameDone, RestPhase, StartPhase, StopPhase, ResetPhase, control
  <2>3. lock' \in [Node -> Thread \cup {NoThread}]
    BY <1>0 DEF TypedControl, TypedControl, FrameDone, Locks, Unlocks, control
  <2>4. \A u \in Thread \ {S(q)} : taken'[u] = taken[u]
    BY <1>0 DEF TypedLists, TypedControl, FrameDone, lists
  <2> QED
    BY <2>1, <2>2, <2>3, <2>4 DEF TypedControl, Moves
<1>5. Touches(q)
  BY <1>0, BufFacts, <1>a, HandChanges DEF TypedLists, TypedStreams, TypedControl, Touches, Untouched, Still, TypedControl, FrameDone,
     lists, firmware, streams, control, locals, Locks, Unlocks
<1> QED
  BY <1>1, <1>2, <1>3, <1>4, <1>5 DEF Typed, Works

-----------------------------------------------------------------------------
(* Mutexes and flags, by what a step does to them *)

\* The thread t goes on at s, with the node m.
Moved(t, s, m) == pc'[t] = s /\ on'[t] = m

Quiet == {"idle", "wait", "relock", "submit", "oops", "onQueue", "onWait", "onLock", "offWait"}

LEMMA LockedKept ==
  ASSUME Typed, Typed', Locked, NEW t \in Thread, NEW n \in Node, Moves(t),
         \A q \in Node \ {n} : lock'[q] = lock[q],
         lock'[n] = lock[n] \/ {lock[n], lock'[n]} \subseteq {t, NoThread},
         \A q \in Node : lock'[q] = t <=> HoldsLock(t, q)'
  PROVE  Locked'
<1> SUFFICES ASSUME NEW q \in Node, NEW u \in Thread, u # t PROVE lock'[q] = u <=> HoldsLock(u, q)'
  BY DEF Locked
<1>1. HoldsLock(u, q)' <=> HoldsLock(u, q)
  BY DEF HoldsLock, Resets, Moves
<1>2. lock'[q] = u <=> lock[q] = u
  BY ThreadFacts
<1> QED
  BY <1>1, <1>2 DEF Locked

LEMMA VisitsKept ==
  ASSUME Visits, NEW t \in Thread, Moves(t),
         IF t = B(t[1]) THEN VisitsOfB(t[1])' ELSE VisitsOfS(t[1])'
  PROVE  Visits'
<1> SUFFICES ASSUME NEW q \in Node PROVE VisitsOfB(q)' /\ VisitsOfS(q)'
  BY DEF Visits
<1>1. VisitsOfB(q)'
  BY ThreadFacts DEF Visits, VisitsOfB, Moves
<1>2. VisitsOfS(q)'
  BY ThreadFacts DEF Visits, VisitsOfS, Moves
<1> QED
  BY <1>1, <1>2

\* The flags, when a step begins nothing that they are about.
LEMMA FlagsKept ==
  ASSUME Flags, NEW t \in Thread, Moves(t), inReset' = inReset, inStop' = inStop, fwUp' = fwUp,
         t = S(t[1]) /\ Resets(t[1])' => Resets(t[1]) /\ (pc'[t] = "quiesce" <=> pc[t] = "quiesce"),
         pc'[t] \in Stopping => pc[t] \in Stopping,
         pc[t] = "powerUp" => pc'[t] = "powerUp",
         inReset /\ pc'[t] \in StartPhase => t = S(t[1]) /\ Resets(t[1])'
  PROVE  Flags'
<1> USE ThreadFacts
<1>1. \A q \in Node : Resets(q)' => Resets(q) /\ (pc'[S(q)] = "quiesce" <=> pc[S(q)] = "quiesce")
  BY DEF Resets, Moves
<1>2. \A q \in Node : pc'[S(q)] \in Stopping => pc[S(q)] \in Stopping
  BY DEF Moves
<1>3. \A q \in Node : pc[S(q)] = "powerUp" => pc'[S(q)] = "powerUp"
  BY DEF Moves
<1>4. ASSUME inReset', NEW u \in Thread, pc'[u] \in StartPhase
      PROVE  u = S(u[1]) /\ Resets(u[1])'
  <2>1. CASE u = t
    BY <1>4, <2>1
  <2>2. CASE u # t
    <3>1. u = S(u[1]) /\ Resets(u[1])
      BY <1>4, <2>2 DEF Flags, Moves
    <3> QED
      BY <2>2, <3>1 DEF Resets, Moves
  <2> QED
    BY <2>1, <2>2
<1> QED
  BY <1>1, <1>2, <1>3, <1>4 DEF Flags

\* The control of a thread that holds no mutex and runs no reset.
LEMMA QuietControl ==
  ASSUME Typed, Typed', Control, NEW t \in Thread, NEW n \in Node, Works(t, n),
         pc[t] \in Quiet, on[t] = t[1], NEW s, Moved(t, s, t[1]), s \in Quiet,
         IF t = B(t[1]) THEN s \in {"idle", "wait", "relock", "submit", "oops"}
                        ELSE s \notin {"wait", "relock", "submit", "oops"},
         lock'[n] = lock[n], inReset' = inReset, inStop' = inStop, fwUp' = fwUp
  PROVE  Control'
<1> USE ThreadFacts
<1>1. pc'[t] = s /\ on'[t] = t[1]
  BY DEF Moved
<1>2. \A q \in Node : ~ HoldsLock(t, q) /\ ~ HoldsLock(t, q)'
  BY <1>1 DEF HoldsLock, Resets, Quiet, HoldPhase, StartPhase, ResetPhase
<1>3. \A q \in Node : lock'[q] = lock[q]
  BY DEF Works, Touches, Untouched, Still
<1>4. Locked'
  BY <1>2, <1>3, LockedKept DEF Control, Locked, Works
<1>5. Visits'
  <2>1. IF t = B(t[1]) THEN VisitsOfB(t[1])' ELSE VisitsOfS(t[1])'
    BY <1>1 DEF VisitsOfB, VisitsOfS, Quiet, StartPhase, ResetPhase
  <2> QED
    BY <2>1, VisitsKept DEF Control, Works
<1>6. Flags'
  <2>1. ~ (t = S(t[1]) /\ Resets(t[1])') /\ pc'[t] \notin Stopping \cup StartPhase
    BY <1>1 DEF Resets, Quiet, Stopping, StartPhase, ResetPhase
  <2>2. pc[t] # "powerUp"
    BY DEF Quiet
  <2> QED
    BY <2>1, <2>2, FlagsKept DEF Control, Works
<1> QED
  BY <1>4, <1>5, <1>6 DEF Control

\* A start begins, by a thread for its own node or by a reset for another.
LEMMA StartControl ==
  ASSUME Typed, Typed', Control, NEW t \in Thread, NEW n \in Node, Works(t, n), Moved(t, "start", n),
         \/ t[1] = n /\ on[t] = n /\ pc[t] \in Quiet /\ ~ inReset
         \/ t = S(t[1]) /\ t[1] # n /\ pc[t] = "restart",
         lock[n] = NoThread, lock'[n] = t, inReset' = inReset, inStop' = inStop, fwUp' = fwUp
  PROVE  Control'
<1> USE ThreadFacts
<1>1. pc'[t] = "start" /\ on'[t] = n
  BY DEF Moved
<1>2. ASSUME NEW q \in Node PROVE lock'[q] = t <=> HoldsLock(t, q)'
  <2>1. CASE q = n
    BY <1>1, <2>1 DEF HoldsLock, StartPhase
  <2>2. CASE q # n /\ t[1] = n
    <3>1. ~ HoldsLock(t, q) /\ ~ HoldsLock(t, q)'
      BY <1>1, <2>2 DEF HoldsLock, StartPhase, Quiet
    <3> QED
      BY <2>2, <3>1 DEF Control, Locked, Works, Touches, Untouched, Still
  <2>3. CASE q # n /\ t[1] # n
    <3>1. HoldsLock(t, q) <=> q = t[1]
      BY <2>3 DEF HoldsLock, Resets, StartPhase, ResetPhase
    <3>2. HoldsLock(t, q)' <=> q = t[1]
      BY <1>1, <2>3 DEF HoldsLock, Resets, StartPhase, ResetPhase, HoldPhase
    <3> QED
      BY <2>3, <3>1, <3>2 DEF Control, Locked, Works, Touches, Untouched, Still
  <2> QED
    BY <2>1, <2>2, <2>3
<1>3. Locked'
  BY <1>2, LockedKept DEF Control, Works, Touches, Untouched, Still
<1>4. Visits'
  <2>1. IF t = B(t[1]) THEN VisitsOfB(t[1])' ELSE VisitsOfS(t[1])'
    BY <1>1 DEF VisitsOfB, VisitsOfS, StartPhase, ResetPhase
  <2> QED
    BY <2>1, VisitsKept DEF Control, Works
<1>5. Flags'
  <2>1. t = S(t[1]) /\ Resets(t[1])' => pc[t] = "restart"
    BY <1>1 DEF Resets, Quiet, StartPhase, ResetPhase
  <2>2. pc[t] = "restart" => Resets(t[1])
    BY DEF Resets, ResetPhase, Quiet
  <2>3. pc'[t] \notin Stopping \cup {"quiesce"} /\ pc[t] \notin {"powerUp", "quiesce"}
    BY <1>1 DEF Stopping, Quiet
  <2>4. inReset => t = S(t[1]) /\ Resets(t[1])'
    BY <1>1 DEF Resets, StartPhase, ResetPhase
  <2> QED
    BY <2>1, <2>2, <2>3, <2>4, FlagsKept DEF Control, Works
<1> QED
  BY <1>3, <1>4, <1>5 DEF Control

\* It goes on,
LEMMA StartingControl ==
  ASSUME Typed, Typed', Control, NEW t \in Thread, NEW n \in Node, Works(t, n), on[t] = n,
         pc[t] \in StartPhase, NEW s \in StartPhase, Moved(t, s, n),
         lock'[n] = lock[n], inReset' = inReset, inStop' = inStop, fwUp' = fwUp
  PROVE  Control'
<1> USE ThreadFacts
<1>1. pc'[t] = s /\ on'[t] = n
  BY DEF Moved
<1>2. ASSUME NEW q \in Node PROVE lock'[q] = t <=> HoldsLock(t, q)'
  <2>1. lock'[q] = lock[q]
    BY DEF Works, Touches, Untouched, Still
  <2>2. HoldsLock(t, q)' <=> HoldsLock(t, q)
    BY <1>1 DEF HoldsLock, Resets, StartPhase, HoldPhase, ResetPhase
  <2> QED
    BY <2>1, <2>2 DEF Control, Locked
<1>3. Locked'
  BY <1>2, LockedKept DEF Control, Works, Touches, Untouched, Still
<1>4. Visits'
  <2>1. IF t = B(t[1]) THEN VisitsOfB(t[1])' ELSE VisitsOfS(t[1])'
    BY <1>1 DEF Control, Visits, VisitsOfB, VisitsOfS, StartPhase, ResetPhase
  <2> QED
    BY <2>1, VisitsKept DEF Control, Works
<1>5. Flags'
  <2>1. t = S(t[1]) => (Resets(t[1])' <=> Resets(t[1]))
    BY <1>1 DEF Resets, StartPhase, ResetPhase
  <2>2. {pc[t], pc'[t]} \cap (Stopping \cup {"quiesce", "powerUp"}) = {}
    BY <1>1 DEF Stopping, StartPhase
  <2>3. inReset => t = S(t[1]) /\ Resets(t[1])
    BY DEF Control, Flags
  <2> QED
    BY <2>1, <2>2, <2>3, FlagsKept DEF Control, Works
<1> QED
  BY <1>3, <1>4, <1>5 DEF Control

\* and it ends.
LEMMA StartedControl ==
  ASSUME Typed, Typed', Control, NEW t \in Thread, NEW n \in Node, Works(t, n), on[t] = n,
         pc[t] \in StartPhase,
         IF t[1] = n THEN Moved(t, "idle", n) ELSE Moved(t, "restart", n + 1),
         lock'[n] = NoThread, inReset' = inReset, inStop' = inStop, fwUp' = fwUp
  PROVE  Control'
<1> USE ThreadFacts
<1>0. lock[n] = t /\ (t = B(t[1]) => t[1] = n)
  BY DEF Control, Locked, HoldsLock, Visits, VisitsOfB
<1>1. IF t[1] = n THEN pc'[t] = "idle" /\ on'[t] = n ELSE pc'[t] = "restart"
  BY DEF Moved
<1>2. ASSUME NEW q \in Node PROVE lock'[q] = t <=> HoldsLock(t, q)'
  <2>1. CASE t[1] = n
    <3>1. ~ HoldsLock(t, q)'
      BY <1>1, <2>1 DEF HoldsLock, Resets, StartPhase, HoldPhase, ResetPhase
    <3>2. q # n => ~ HoldsLock(t, q)
      BY <2>1 DEF HoldsLock, StartPhase
    <3> QED
      BY <3>1, <3>2 DEF Control, Locked, Works, Touches, Untouched, Still
  <2>2. CASE t[1] # n
    <3>1. HoldsLock(t, q)' <=> q = t[1]
      BY <1>0, <1>1, <2>2 DEF HoldsLock, Resets, StartPhase, HoldPhase, ResetPhase
    <3>2. HoldsLock(t, q) <=> q \in {n, t[1]}
      BY <1>0, <2>2 DEF HoldsLock, Resets, StartPhase, HoldPhase, ResetPhase
    <3> QED
      BY <2>2, <3>1, <3>2 DEF Control, Locked, Works, Touches, Untouched, Still
  <2> QED
    BY <2>1, <2>2
<1>3. Locked'
  BY <1>0, <1>2, LockedKept DEF Control, Works, Touches, Untouched, Still
<1>4. Visits'
  <2>1. IF t = B(t[1]) THEN VisitsOfB(t[1])' ELSE VisitsOfS(t[1])'
    BY <1>0, <1>1 DEF VisitsOfB, VisitsOfS, StartPhase, ResetPhase
  <2> QED
    BY <2>1, VisitsKept DEF Control, Works
<1>5. Flags'
  <2>1. t = S(t[1]) /\ Resets(t[1])' => Resets(t[1])
    BY <1>1 DEF Resets, StartPhase, ResetPhase
  <2>2. {pc[t], pc'[t]} \cap (Stopping \cup {"quiesce", "powerUp"}) = {} /\ pc'[t] \notin StartPhase
    BY <1>1 DEF Stopping, StartPhase
  <2> QED
    BY <2>1, <2>2, FlagsKept DEF Control, Works
<1> QED
  BY <1>3, <1>4, <1>5 DEF Control

LEMMA StopControl ==
  ASSUME Typed, Typed', Control, NEW q \in Node, Works(S(q), q),
         pc[S(q)] \in {"offLock", "flush", "offReturn", "offEnd", "reset"},
         NEW s \in {"flush", "offReturn", "offEnd", "reset", "idle"}, Moved(S(q), s, q),
         pc[S(q)] = "offLock" => lock[q] = NoThread,
         lock'[q] = IF s = "idle" THEN NoThread ELSE S(q),
         s \in Stopping => pc[S(q)] \in Stopping /\ inStop' = inStop,
         pc[S(q)] \notin Stopping => inStop' = inStop,
         inReset' = inReset, fwUp' = fwUp
  PROVE  Control'
<1> USE ThreadFacts
<1>1. pc'[S(q)] = s /\ on'[S(q)] = q
  BY DEF Moved
<1>2. ASSUME NEW r \in Node PROVE lock'[r] = S(q) <=> HoldsLock(S(q), r)'
  <2>1. HoldsLock(S(q), r)' <=> r = q /\ s # "idle"
    BY <1>1 DEF HoldsLock, Resets, StartPhase, HoldPhase, ResetPhase
  <2>2. r # q => ~ HoldsLock(S(q), r)
    BY DEF HoldsLock, StartPhase
  <2> QED
    BY <2>1, <2>2 DEF Control, Locked, Works, Touches, Untouched, Still
<1>3. Locked'
  <2>1. lock[q] \in {S(q), NoThread}
    BY DEF Control, Locked, HoldsLock, HoldPhase
  <2> QED
    BY <1>2, <2>1, LockedKept DEF Control, Works, Touches, Untouched, Still
<1>4. Visits'
  <2>1. VisitsOfS(q)'
    BY <1>1 DEF VisitsOfS, StartPhase, ResetPhase
  <2> QED
    BY <2>1, VisitsKept DEF Control, Works
<1>5. Flags'
  <2>1. ~ Resets(q) /\ ~ Resets(q)' /\ pc[S(q)] # "powerUp" /\ s \notin StartPhase
    BY <1>1 DEF Resets, StartPhase, ResetPhase
  <2>2. \A r \in Node \ {q} : pc'[S(r)] = pc[S(r)] /\ (Resets(r)' <=> Resets(r))
    BY DEF Works, Moves, Resets
  <2>3. \A r \in Node : pc'[S(r)] \in Stopping => pc[S(r)] \in Stopping /\ inStop'
    <3>1. CASE pc[S(q)] \in Stopping
      BY <1>1, <2>2, <3>1 DEF Control, Flags
    <3>2. CASE pc[S(q)] \notin Stopping
      BY <1>1, <2>2, <3>2 DEF Control, Flags
    <3> QED
      BY <3>1, <3>2
  <2>4. ASSUME inReset', NEW u \in Thread, pc'[u] \in StartPhase
        PROVE  u = S(u[1]) /\ Resets(u[1])'
    <3>1. u # S(q) /\ pc[u] \in StartPhase
      BY <1>1, <2>1, <2>4 DEF Works, Moves
    <3>2. u = S(u[1]) /\ Resets(u[1])
      BY <2>4, <3>1 DEF Control, Flags
    <3> QED
      BY <2>2, <3>1, <3>2
  <2> QED
    BY <1>1, <2>1, <2>2, <2>3, <2>4 DEF Control, Flags
<1> QED
  BY <1>3, <1>4, <1>5 DEF Control

LEMMA StopWaitsControl ==
  ASSUME Typed, Typed', Control, NEW q \in Node, Works(S(q), q),
         pc[S(q)] = "offWait", Moved(S(q), "offLock", q), ~ inReset, ~ inStop, inStop',
         lock'[q] = lock[q], inReset' = inReset, fwUp' = fwUp
  PROVE  Control'
<1> USE ThreadFacts
<1>1. pc'[S(q)] = "offLock" /\ on'[S(q)] = q
  BY DEF Moved
<1>2. \A r \in Node : ~ HoldsLock(S(q), r) /\ ~ HoldsLock(S(q), r)'
  BY <1>1 DEF HoldsLock, Resets, HoldPhase, StartPhase, ResetPhase
<1>3. Locked'
  BY <1>2, LockedKept DEF Control, Locked, Works, Touches, Untouched, Still
<1>4. Visits'
  <2>1. VisitsOfS(q)'
    BY <1>1 DEF VisitsOfS, StartPhase, ResetPhase
  <2> QED
    BY <2>1, VisitsKept DEF Control, Works
<1>5. Flags'
  <2>1. \A r \in Node : ~ Resets(r) /\ (r # q => pc[S(r)] \notin Stopping)
    BY DEF Control, Flags
  <2>2. \A r \in Node : ~ Resets(r)' /\ (r # q => pc'[S(r)] \notin Stopping)
    BY <1>1, <2>1 DEF Works, Moves, Resets, ResetPhase, StartPhase
  <2>3. fwUp
    BY <2>1 DEF Control, Flags, Resets, ResetPhase
  <2> QED
    BY <2>2, <2>3 DEF Control, Flags
<1> QED
  BY <1>3, <1>4, <1>5 DEF Control

LEMMA ResetsFirstControl ==
  ASSUME Typed, Typed', Control, NEW q \in Node, Works(S(q), q),
         pc[S(q)] = "reset", Moved(S(q), "quiesce", q), ~ inReset, inReset',
         \A t \in Thread : pc[t] \notin StartPhase,
         lock'[q] = lock[q], inStop' = inStop, fwUp' = fwUp
  PROVE  Control'
<1> USE ThreadFacts
<1>1. pc'[S(q)] = "quiesce" /\ on'[S(q)] = q
  BY DEF Moved
<1>2. \A r \in Node : HoldsLock(S(q), r)' <=> HoldsLock(S(q), r)
  BY <1>1 DEF HoldsLock, Resets, HoldPhase, StartPhase, ResetPhase
<1>3. Locked'
  BY <1>2, LockedKept DEF Control, Locked, Works, Touches, Untouched, Still
<1>4. Visits'
  <2>1. VisitsOfS(q)'
    BY <1>1 DEF VisitsOfS, StartPhase, ResetPhase
  <2> QED
    BY <2>1, VisitsKept DEF Control, Works
<1>5. Flags'
  <2>1. \A r \in Node : ~ Resets(r)
    BY DEF Control, Flags
  <2>2. \A r \in Node \ {q} : pc'[S(r)] = pc[S(r)] /\ ~ Resets(r)'
    BY <2>1 DEF Works, Moves, Resets
  <2>3. fwUp
    BY <2>1 DEF Control, Flags, Resets, ResetPhase
  <2>4. \A t \in Thread : pc'[t] \notin StartPhase
    BY <1>1 DEF Works, Moves, StartPhase
  <2> QED
    BY <1>1, <2>2, <2>3, <2>4 DEF Control, Flags, Stopping
<1> QED
  BY <1>3, <1>4, <1>5 DEF Control

\* The steps of a reset.
LEMMA ResetControl ==
  ASSUME Typed, Typed', Control, NEW q \in Node, NEW n \in Node, Moves(S(q)),
         \A r \in Node \ {n} : lock'[r] = lock[r],
         pc[S(q)] \in ResetPhase \ {"resetEnds"}, NEW s \in ResetPhase \ {"quiesce"}, NEW m,
         Moved(S(q), s, m),
         \/ pc[S(q)] # "flushOther" /\ s # "flushOther" /\ lock'[n] = lock[n]
         \/ s = "flushOther" /\ pc[S(q)] = "scan" /\ m = n /\ n # q /\ lock[n] = NoThread /\ lock'[n] = S(q)
         \/ pc[S(q)] = "flushOther" /\ s = "scan" /\ on[S(q)] = n /\ lock'[n] = NoThread,
         pc[S(q)] = "quiesce" => ~ inStop,
         fwUp' \/ s = "powerUp", inReset' = inReset, inStop' = inStop
  PROVE  Control'
<1> USE ThreadFacts
<1>1. pc'[S(q)] = s /\ on'[S(q)] = m
  BY DEF Moved
<1>2. Resets(q) /\ Resets(q)' /\ s \notin Stopping \cup StartPhase
  BY <1>1 DEF Resets, ResetPhase, Stopping, StartPhase
<1>3. pc[S(q)] = "flushOther" => on[S(q)] # q
  BY DEF Control, Visits, VisitsOfS
<1>4. ASSUME NEW r \in Node PROVE lock'[r] = S(q) <=> HoldsLock(S(q), r)'
  <2>1. HoldsLock(S(q), r) <=> r = q \/ (pc[S(q)] = "flushOther" /\ r = on[S(q)])
    BY <1>2 DEF HoldsLock, ResetPhase, StartPhase
  <2>2. HoldsLock(S(q), r)' <=> r = q \/ (s = "flushOther" /\ r = m)
    BY <1>1, <1>2 DEF HoldsLock, ResetPhase, StartPhase
  <2>3. lock[r] = S(q) <=> HoldsLock(S(q), r)
    BY DEF Control, Locked
  <2> QED
    BY <1>3, <2>1, <2>2, <2>3
<1>5. Locked'
  <2>1. lock'[n] = lock[n] \/ {lock[n], lock'[n]} \subseteq {S(q), NoThread}
    BY DEF Control, Locked, HoldsLock
  <2> QED
    BY <1>4, <2>1, LockedKept DEF Control
<1>6. Visits'
  <2>1. VisitsOfS(q)'
    BY <1>1 DEF VisitsOfS, StartPhase, ResetPhase
  <2> QED
    BY <2>1, VisitsKept DEF Control
<1>7. Flags'
  <2>1. \A r \in Node \ {q} : pc'[S(r)] = pc[S(r)] /\ (Resets(r)' <=> Resets(r))
    BY DEF Moves, Resets
  <2>2. \A r \in Node : ~ (pc[S(r)] \in Stopping)
    BY <1>2 DEF Control, Flags
  <2>3. ASSUME inReset', NEW u \in Thread, pc'[u] \in StartPhase
        PROVE  u = S(u[1]) /\ Resets(u[1])'
    <3>1. u # S(q) /\ pc[u] \in StartPhase
      BY <1>1, <1>2, <2>3 DEF Moves
    <3>2. u = S(u[1]) /\ Resets(u[1])
      BY <2>3, <3>1 DEF Control, Flags
    <3> QED
      BY <2>1, <3>1, <3>2
  <2>4. \A r \in Node : ~ (pc'[S(r)] \in Stopping)
    BY <1>1, <1>2, <2>1, <2>2
  <2> QED
    BY <1>1, <1>2, <2>1, <2>3, <2>4 DEF Control, Flags
<1> QED
  BY <1>5, <1>6, <1>7 DEF Control

LEMMA ResetEndsControl ==
  ASSUME Typed, Typed', Control, NEW q \in Node, Works(S(q), q),
         pc[S(q)] = "resetEnds", Moved(S(q), "idle", q), lock'[q] = NoThread,
         ~ inReset', inStop' = inStop, fwUp' = fwUp
  PROVE  Control'
<1> USE ThreadFacts
<1>1. pc'[S(q)] = "idle" /\ on'[S(q)] = q
  BY DEF Moved
<1>2. Resets(q) /\ ~ Resets(q)'
  BY <1>1 DEF Resets, ResetPhase, StartPhase
<1>3. \A r \in Node : ~ HoldsLock(S(q), r)' /\ (r # q => ~ HoldsLock(S(q), r))
  BY <1>1, <1>2 DEF HoldsLock, HoldPhase, StartPhase, ResetPhase
<1>4. Locked'
  <2>1. lock[q] = S(q)
    BY <1>2 DEF Control, Locked, HoldsLock
  <2> QED
    BY <1>3, <2>1, LockedKept DEF Control, Locked, Works, Touches, Untouched, Still
<1>5. Visits'
  <2>1. VisitsOfS(q)'
    BY <1>1 DEF VisitsOfS, StartPhase, ResetPhase
  <2> QED
    BY <2>1, VisitsKept DEF Control, Works
<1>6. Flags'
  <2>1. \A r \in Node \ {q} : pc'[S(r)] = pc[S(r)] /\ ~ Resets(r)'
    BY <1>2 DEF Control, Flags, Works, Moves, Resets
  <2>2. fwUp
    <3>1. \A r \in Node : pc[S(r)] = "powerUp" => Resets(r)
      BY DEF Resets, ResetPhase
    <3> QED
      BY <1>2, <3>1 DEF Control, Flags
  <2> QED
    BY <1>1, <1>2, <2>1, <2>2 DEF Control, Flags, Stopping
<1> QED
  BY <1>4, <1>5, <1>6 DEF Control

\* What a reset has visited, without a reset, while others work, and in its steps.
LEMMA ScansIdle ==
  ASSUME Flags', ~ inReset', reset' = {} PROVE Scans'
<1>1. \A q \in Node : ~ Resets(q)'
  BY DEF Flags
<1> QED
  BY <1>1 DEF Scans, Scan, Resets, ResetPhase

LEMMA ScansOthers ==
  ASSUME Flags, Scans, NEW t \in Thread, Moves(t), t = S(t[1]) => ~ Resets(t[1])',
         reset' = reset, streaming' \subseteq streaming \/ ~ inReset, inReset' = inReset
  PROVE  Scans'
<1> SUFFICES ASSUME NEW q \in Node, Resets(q)' PROVE Scan(q)'
  BY DEF Scans, Scan, Resets, ResetPhase
<1>1. Resets(q) /\ pc'[S(q)] = pc[S(q)] /\ on'[S(q)] = on[S(q)]
  BY ThreadFacts DEF Moves, Resets
<1>2. streaming' \subseteq streaming
  BY <1>1 DEF Flags
<1> QED
  BY <1>1, <1>2 DEF Scans, Scan

LEMMA ScansOwn ==
  ASSUME Flags', NEW q \in Node, Resets(q)', Scan(q)' PROVE Scans'
<1>1. inReset' /\ \A r \in Node \ {q} : ~ Resets(r)'
  BY DEF Flags
<1>2. \A r \in Node \ {q} : Scan(r)'
  BY <1>1 DEF Scan, Resets, ResetPhase
<1> QED
  BY <1>1, <1>2 DEF Scans

-----------------------------------------------------------------------------
(* A step of one thread on one node *)

LEMMA ListTypes ==
  ASSUME NEW q \in Node, incoming[q] \in Seq(BufsOf(q)), active[q] \in Seq(BufsOf(q)),
         fw[q] \in {<< >>, active[q]}
  PROVE  {incoming[q], active[q], fw[q]} \subseteq Seq(BufsOf(q))
BY EmptyList

LEMMA TypesHold ==
  ASSUME Typed, \A q \in Node : NodeInv(q) PROVE TypeOK
<1>1. \A q \in Node : {incoming[q], active[q], fw[q]} \subseteq Seq(BufsOf(q))
  BY ListTypes DEF NodeInv, Lists, Frames
<1>2. nr \in [Node -> 0 .. 1]
  <2>1. \A q \in Node : nr[q] \in 0 .. 1
    BY DEF NodeInv, Mode
  <2> QED
    BY <2>1 DEF Typed, TypedStreams
<1>3. pc \in [Thread -> {"idle", "wait", "relock", "submit", "oops", "onQueue", "onWait", "onLock"}
                        \cup StartPhase \cup StopPhase \cup ResetPhase]
  BY DEF Typed, TypedControl, Place, RestPhase
<1>4. vb \in [Buf -> {"user", "vb2", "driver"}] /\ taken \in [Thread -> Buf \cup {NoBuf}]
  BY DEF Typed, TypedLists
<1>5. \A s \in {open, ssc, pipe, streaming, started, reset, sawPipe, lost} : s \subseteq Node
  BY DEF Typed, TypedStreams
<1>6. {fwUp, inReset, inStop, resetNeeded} \subseteq BOOLEAN
  BY DEF Typed, TypedFlags
<1>7. lock \in [Node -> Thread \cup {NoThread}] /\ on \in [Thread -> 1 .. Nodes + 1]
  BY DEF Typed, TypedControl
<1> QED
  BY <1>1, <1>2, <1>3, <1>4, <1>5, <1>6, <1>7 DEF TypeOK

LEMMA StepKeeps ==
  ASSUME IInv, NEW t \in Thread, NEW n \in Node, Works(t, n), NotAtWork(t) \/ on[t] = n,
         t[1] # n => t = S(t[1]) /\ Resets(t[1]) /\ Resets(t[1])',
         Typed', Control', Scans', NodeInv(n)'
  PROVE  IInv'
<1> SUFFICES ASSUME NEW r \in Node, r # n PROVE NodeInv(r)'
  BY DEF IInv
<1>1. CASE r # t[1]
  BY <1>1, OthersKept DEF IInv, Control
<1>2. CASE r = t[1]
  BY <1>2, ResetterKept DEF IInv, Control, Works, Touches
<1> QED
  BY <1>1, <1>2

LEMMA InitHolds == Init => IInv
<1> SUFFICES ASSUME Init PROVE IInv
  OBVIOUS
<1> USE ThreadFacts
<1>1. Typed
  <2>1. TypedLists
    BY BufLists DEF Init, TypedLists
  <2>2. TypedControl
    BY NextNode DEF Init, TypedControl, Place, RestPhase
  <2>3. TypedStreams
    BY DEF Init, TypedStreams
  <2>4. TypedFlags
    BY DEF Init, TypedFlags
  <2> QED
    BY <2>1, <2>2, <2>3, <2>4 DEF Typed
<1>2. \A t \in Thread : pc[t] = "idle" /\ on[t] = t[1]
  BY DEF Init
<1>3. \A q \in Node : lock[q] = NoThread /\ nr[q] = 0 /\ incoming[q] = << >> /\ active[q] = << >>
                      /\ fw[q] = << >>
  BY DEF Init
<1>4. Control
  BY <1>2, <1>3 DEF Init, Control, Locked, HoldsLock, Visits, VisitsOfB, VisitsOfS, Flags, Resets,
     StartPhase, HoldPhase, ResetPhase, Stopping
<1>5. Scans
  BY <1>2 DEF Init, Scans, Scan, StartPhase
<1>6. ASSUME NEW q \in Node PROVE NodeInv(q)
  <2>1. \A s : ~ Doing(q, s)
    BY <1>3 DEF Doing
  <2>2. Stopped(q) /\ q \notin pipe
    BY <1>2 DEF Init, Stopped, Down
  <2>3. Mode(q)
    BY <1>2, <1>3, <2>1, <2>2 DEF Mode, Starts, StartPhase
  <2>4. Frames(q)
    BY <1>3, <2>1 DEF Frames, Init
  <2>5. Lists(q)
    <3>0. \A b \in BufsOf(q) : vb[b] = "user"
      BY BufFacts DEF Init
    <3>1. Owned(q) = {}
      <4>1. \A b \in BufsOf(q) : vb[b] # "driver"
        BY <3>0
      <4> QED
        BY <4>1, Zenon DEF Owned
    <3>4. InHand(q) = {}
      BY <2>1 DEF InHand
    <3>2. incoming[q] \in Seq(BufsOf(q)) /\ active[q] \in Seq(BufsOf(q))
      <4>1. incoming[q] = << >> /\ active[q] = << >>
        BY <1>3
      <4>2. << >> \in Seq(BufsOf(q))
        BY EmptyList, Zenon
      <4> QED
        BY <4>1, <4>2, Zenon
    <3>3. /\ IsInjective(incoming[q]) /\ IsInjective(active[q])
          /\ Range(incoming[q]) = {} /\ Range(active[q]) = {}
      BY <1>3, EmptyList
    <3> QED
      BY <2>1, <3>1, <3>2, <3>3, <3>4 DEF Lists
  <2>6. Calm(q)
    BY <1>3 DEF Calm
  <2> QED
    BY <2>3, <2>4, <2>5, <2>6 DEF NodeInv
<1> QED
  BY <1>1, <1>4, <1>5, <1>6 DEF IInv

-----------------------------------------------------------------------------
(* The node that a step works on: who has its mutex then *)

LEMMA HolderThen ==
  ASSUME NEW n \in Node, NEW t \in Thread, lock'[n] = t, NEW s, Moved(t, s, n)
  PROVE  (\A x : Doing(n, x)' <=> x = s) /\ (Starts(n)' <=> s \in StartPhase)
BY DEF Doing, Starts, Moved

LEMMA NobodyThen ==
  ASSUME NEW n \in Node, lock'[n] = NoThread
  PROVE  (\A x : ~ Doing(n, x)') /\ ~ Starts(n)'
BY ThreadFacts DEF Doing, Starts

LEMMA NobodyNow ==
  ASSUME NEW n \in Node, lock[n] = NoThread
  PROVE  (\A x : ~ Doing(n, x)) /\ ~ Starts(n)
BY ThreadFacts DEF Doing, Starts

LEMMA HolderNow ==
  ASSUME Locked, NEW n \in Node, NEW t \in Thread, on[t] = n, pc[t] \in StartPhase \cup {"flushOther"}
  PROVE  /\ lock[n] = t /\ (\A x : Doing(n, x) <=> x = pc[t])
         /\ Starts(n) <=> pc[t] \in StartPhase
BY DEF Locked, HoldsLock, Doing, Starts

\* Who may be at a node whose mutex is free.
LEMMA FreeModes ==
  ASSUME Control, NEW n \in Node, NodeInv(n), lock[n] = NoThread
  PROVE  /\ Stopped(n) \/ Opening(n) \/ Started(n) \/ Interrupted(n) \/ Lost(n)
         /\ pc[S(n)] \in Quiet \cup {"offLock"} /\ pc[B(n)] \notin StartPhase
         /\ n \notin streaming => fw[n] = << >>
         /\ Started(n) => n \notin reset
         /\ Started(n) /\ n \notin streaming => active[n] = << >>
<1> USE ThreadFacts
<1>1. (\A x : ~ Doing(n, x)) /\ ~ Starts(n)
  BY NobodyNow
<1>2. ~ HoldsLock(S(n), n) /\ ~ HoldsLock(B(n), n)
  BY DEF Control, Locked
<1>3. pc[B(n)] \notin StartPhase
  BY <1>2 DEF HoldsLock, Control, Visits, VisitsOfB
<1>4. pc[S(n)] \notin HoldPhase /\ ~ Resets(n)
  BY <1>2 DEF HoldsLock
<1>5. Stopped(n) \/ Opening(n) \/ Started(n) \/ Interrupted(n) \/ Lost(n)
  BY <1>1, <1>4 DEF NodeInv, Mode, Starting, Leaving, Ending, HoldPhase
<1>6. pc[S(n)] \in Quiet \cup {"offLock"}
  BY <1>4, <1>5 DEF Stopped, Opening, Started, Interrupted, Lost, HoldPhase, Quiet
<1>7. Started(n) => n \notin reset /\ pc[S(n)] # "offReturn"
  BY <1>1 DEF Started
<1> QED
  BY <1>1, <1>3, <1>5, <1>6, <1>7 DEF NodeInv, Frames

\* A node that a start works on.
LEMMA StartingModes ==
  ASSUME Control, NEW n \in Node, NodeInv(n), NEW t \in Thread, on[t] = n, pc[t] \in StartPhase
  PROVE  /\ n \in pipe \cap ssc /\ n \notin reset \cup lost /\ nr[n] = 1
         /\ IF t = B(n) THEN Started(n) ELSE Starting(n)
         /\ n \in streaming <=> pc[t] = "fill"
         /\ t # B(n) /\ t # S(n) => t = S(t[1]) /\ t[1] # n /\ Resets(t[1]) /\ inReset
         /\ t \in {B(n), S(n)} => ~ inReset
         /\ pc[t] = "start" => active[n] = << >> /\ fw[n] = << >>
         /\ t # S(n) => pc[S(n)] \in {"idle", "offWait", "offLock", "flush"}
         /\ t # S(n) /\ t # B(n) => pc[S(n)] \in {"idle", "offWait"}
<1> USE ThreadFacts
<1>1. lock[n] = t /\ (\A x : Doing(n, x) <=> x = pc[t]) /\ Starts(n)
  BY HolderNow DEF Control
<1>2. n \in pipe /\ (n \in streaming <=> pc[t] = "fill") /\ (n \in started <=> t = B(n)) /\ nr[n] = 1
  BY <1>1 DEF NodeInv, Mode
<1>3. IF t = B(n) THEN Started(n) ELSE Starting(n)
  BY <1>1, <1>2 DEF NodeInv, Mode, Stopped, Opening, Starting, Started, Leaving, Ending, Interrupted,
     Lost, Down
<1>4. n \in ssc /\ n \notin reset \cup lost
  BY <1>1, <1>3 DEF Started, Starting, StartPhase
<1>5. t # B(n) /\ t # S(n) => t = S(t[1]) /\ t[1] # n /\ Resets(t[1]) /\ inReset
  BY DEF Control, Visits, VisitsOfB, Resets, Flags
<1>6. t \in {B(n), S(n)} => ~ inReset
  <2>1. t = S(n) => ~ Resets(n)
    BY DEF Resets, StartPhase, ResetPhase
  <2> QED
    BY <2>1 DEF Control, Flags
<1>7. pc[t] = "start" => active[n] = << >> /\ fw[n] = << >>
  <2>1. pc[t] = "start" => n \notin streaming /\ ~ Doing(n, "await")
    BY <1>1, <1>2
  <2>2. pc[t] = "start" => pc[S(n)] # "offReturn"
    BY <1>1, <1>3 DEF Started, Starting
  <2> QED
    BY <1>4, <2>1, <2>2 DEF NodeInv, Frames
<1>8. t # S(n) => pc[S(n)] \in {"idle", "offWait", "offLock", "flush"}
  BY <1>1, <1>3 DEF Started, Starting
<1>9. t # S(n) /\ t # B(n) => pc[S(n)] \in {"idle", "offWait"}
  BY <1>1, <1>3 DEF Starting
<1> QED
  BY <1>2, <1>3, <1>4, <1>5, <1>6, <1>7, <1>8, <1>9

\* A step that leaves the state of the stream alone.
LEMMA ModeKept ==
  ASSUME NEW n \in Node, Mode(n), Still(n), lock'[n] = lock[n], pc'[S(n)] = pc[S(n)],
         Resets(n)' <=> Resets(n), \A x \in {"fill", "flushOther"} : Doing(n, x)' <=> Doing(n, x),
         Starts(n)' <=> Starts(n), pc'[B(n)] \in StartPhase => pc[B(n)] \in StartPhase,
         incoming[n] = << >> /\ active[n] = << >> /\ Ending(n) => incoming'[n] = << >> /\ active'[n] = << >>
  PROVE  Mode(n)'
<1>1. Down(n)' <=> Down(n)
  BY DEF Down, Still
<1>2. Starting(n)' <=> Starting(n)
  BY DEF Starting, Still
<1>3. Started(n)' <=> Started(n)
  BY DEF Started, Still
<1>4. Ending(n) => Ending(n)'
  BY <1>1 DEF Ending, Still
<1>5. (Stopped(n)' <=> Stopped(n)) /\ (Opening(n)' <=> Opening(n)) /\ (Leaving(n)' <=> Leaving(n))
      /\ (Interrupted(n)' <=> Interrupted(n)) /\ (Lost(n)' <=> Lost(n))
  BY <1>1 DEF Stopped, Opening, Leaving, Interrupted, Lost, Still
<1> QED
  BY <1>2, <1>3, <1>4, <1>5 DEF Mode, Still

-----------------------------------------------------------------------------
(* QBUF *)

LEMMA NoOverlap == ASSUME StartsApart, MayStart PROVE ~ inReset
BY DEF StartsApart, MayStart, Overlap

\* Without a firmware nothing streams, and nothing is started.
LEMMA FirmwareUp ==
  ASSUME Flags, Scans,
         \/ ~ inReset \/ streaming # {}
         \/ \E t \in Thread : pc[t] \in StartPhase
  PROVE  fwUp
<1> SUFFICES ASSUME NEW q \in Node, pc[S(q)] = "powerUp" PROVE FALSE
  BY DEF Flags
<1>1. Resets(q) /\ inReset
  BY DEF Flags, Resets, ResetPhase
<1>2. streaming = {}
  BY DEF Scans, Scan
<1>3. PICK t \in Thread : pc[t] \in StartPhase
  BY <1>1, <1>2
<1>4. t = S(t[1]) /\ Resets(t[1])
  BY <1>1, <1>3 DEF Flags
<1>5. t[1] = q
  BY <1>1, <1>4, ThreadFacts DEF Flags
<1> QED
  BY <1>3, <1>4, <1>5 DEF StartPhase

LEMMA QBufKeepsHolds ==
  ASSUME IInv, NEW q \in Node, NEW b \in BufsOf(q), QBufKeeps(q, b) PROVE IInv'
<1> USE ThreadFacts
<1>0. Typed /\ Control /\ Scans /\ NodeInv(q)
  BY DEF IInv
<1>1. Typed' /\ Works(B(q), q)
  BY <1>0, QBufKeepsEffect
<1>2. /\ pc[B(q)] = "idle" /\ on[B(q)] = q
      /\ UNCHANGED << incoming, sawPipe, pc, on, active, taken, fw, open, lock, nr >>
      /\ UNCHANGED << streams, flags, fwUp, lost >>
  BY <1>0 DEF QBufKeeps, firmware, streams, flags, Control, Visits, VisitsOfB
<1>3. Control'
  <2>1. Moved(B(q), "idle", q)
    BY <1>2 DEF Moved
  <2> QED
    BY <1>0, <1>1, <1>2, <2>1, QuietControl DEF Quiet, flags
<1>4. Scans'
  BY <1>0, <1>1, <1>2, ScansOthers DEF Works, Control, streams, flags
<1>5. \A x : Doing(q, x)' <=> Doing(q, x)
  BY <1>2 DEF Doing
<1>6. Mode(q)'
  BY <1>0, <1>2, <1>5, ModeKept DEF NodeInv, Still, streams, Resets, Starts
<1>7. Frames(q)'
  BY <1>0, <1>2, <1>5 DEF NodeInv, Frames, streams
<1>8. Lists(q)'
  <2>1. Owned(q)' = Owned(q)
    BY <1>0, BufFacts, HandChanges DEF Owned, QBufKeeps, Typed
  <2>2. InHand(q)' = InHand(q)
    BY <1>2, <1>5 DEF InHand
  <2> QED
    BY <1>0, <1>2, <1>5, <2>1, <2>2 DEF NodeInv, Lists, streams
<1>9. Calm(q)'
  BY <1>0, <1>2 DEF NodeInv, Calm, Free
<1> QED
  BY <1>1, <1>2, <1>3, <1>4, <1>6, <1>7, <1>8, <1>9, StepKeeps DEF NodeInv, NotAtWork

LEMMA QBufListsHolds ==
  ASSUME IInv, NEW q \in Node, NEW b \in BufsOf(q), QBufLists(q, b) PROVE IInv'
<1> USE ThreadFacts
<1>0. Typed /\ Control /\ Scans /\ NodeInv(q)
  BY DEF IInv
<1>1. Typed' /\ Works(B(q), q)
  BY <1>0, QBufListsEffect
<1>2. /\ pc[B(q)] = "idle" /\ on[B(q)] = q /\ lock[q] = NoThread /\ vb[b] = "user" /\ q \in ssc
      /\ q \in sawPipe' <=> q \in pipe
      /\ UNCHANGED << active, taken, fw, open, lock, nr >>
      /\ UNCHANGED << streams, flags, fwUp, lost >>
  BY <1>0 DEF QBufLists, firmware, streams, flags, Control, Visits, VisitsOfB, Free, Typed, TypedStreams
<1>a. PICK w \in {"wait", "relock"} : Goto(B(q), w)
  BY DEF QBufLists
<1>3. Moved(B(q), w, q) /\ pc'[S(q)] = pc[S(q)] /\ on'[S(q)] = on[S(q)]
  BY <1>0, <1>1, <1>2, <1>a, GotoMoves, PlaceParts DEF RestPhase, Moved, Works, Moves, Typed
<1>4. Control'
  BY <1>0, <1>1, <1>2, <1>3, QuietControl DEF Quiet, flags
<1>5. Scans'
  BY <1>0, <1>1, <1>2, ScansOthers DEF Works, Control, streams, flags
<1>6. (\A x : ~ Doing(q, x)) /\ ~ Starts(q) /\ (\A x : ~ Doing(q, x)') /\ ~ Starts(q)'
  BY <1>2, NobodyNow, NobodyThen
<1>7. Mode(q)'
  <2>1. ~ Ending(q)
    <3>1. ~ HoldsLock(S(q), q)
      BY <1>0, <1>2 DEF Control, Locked
    <3> QED
      BY <3>1 DEF HoldsLock, HoldPhase, Ending
  <2> QED
    BY <1>0, <1>2, <1>3, <1>6, <2>1, ModeKept DEF NodeInv, Still, streams, Resets, Moved, StartPhase
<1>8. Frames(q)'
  BY <1>0, <1>2, <1>3, <1>6 DEF NodeInv, Frames, streams
<1> DEFINE s == incoming[q]
<1>9. incoming'[q] = Append(s, b) /\ s \in Seq(BufsOf(q))
  BY <1>0 DEF QBufLists, Typed, TypedLists, NodeInv, Lists
<1>10. b \notin Owned(q) /\ Owned(q)' = Owned(q) \cup {b}
  BY <1>0, <1>2, BufFacts, HandChanges DEF Owned, QBufLists, Typed
<1>11. Range(Append(s, b)) = Range(s) \cup {b} /\ Append(s, b) \in Seq(BufsOf(q))
       /\ (IsInjective(s) /\ b \notin Range(s) => IsInjective(Append(s, b)))
  BY <1>9, ListAppend
<1>12. Lists(q)'
  <2>1. InHand(q)' = {} /\ InHand(q) = {}
    BY <1>6 DEF InHand
  <2> HIDE DEF s
  <2>2. /\ s \in Seq(BufsOf(q)) /\ active[q] \in Seq(BufsOf(q))
        /\ IsInjective(s) /\ IsInjective(active[q]) /\ Range(s) \cap Range(active[q]) = {}
        /\ Owned(q) = Range(s) \cup Range(active[q])
    BY <1>0, <1>2, <2>1 DEF NodeInv, Lists, s
  <2> QED
    BY <1>2, <1>6, <1>9, <1>10, <1>11, <2>1, <2>2 DEF Lists
<1>13. Calm(q)'
  <2>1. ASSUME nr[q] = 1 PROVE incoming[q] = << >> /\ q \in sawPipe'
    BY <1>0, <1>2, <2>1 DEF NodeInv, Calm, Free, Mode
  <2>2. Tail(Append(<< >>, b)) = << >>
    BY BufFacts
  <2> QED
    BY <1>2, <1>3, <1>9, <2>1, <2>2 DEF Calm, Moved
<1> QED
  BY <1>1, <1>2, <1>4, <1>5, <1>7, <1>8, <1>12, <1>13, StepKeeps DEF NodeInv, NotAtWork, StartPhase

LEMMA QBufWaitsHolds == ASSUME IInv, NEW q \in Node, QBufWaits(q) PROVE IInv'
<1> USE ThreadFacts
<1>0. Typed /\ Control /\ Scans /\ NodeInv(q)
  BY DEF IInv
<1>1. Typed' /\ Works(B(q), q) /\ UNCHANGED << lists, firmware, streams, lock, locals >>
  BY <1>0, QBufMoves
<1>2. /\ pc[B(q)] = "wait" /\ on[B(q)] = q /\ UNCHANGED flags
      /\ UNCHANGED << incoming, active, vb, taken, fw, open, fwUp, nr, lost, sawPipe >>
  BY <1>0, <1>1 DEF QBufWaits, Control, Visits, VisitsOfB, lists, firmware, streams, locals
<1>3. Moved(B(q), "relock", q) /\ pc'[S(q)] = pc[S(q)] /\ on'[S(q)] = on[S(q)]
  BY <1>0, <1>1, <1>2, GotoMoves, PlaceParts DEF QBufWaits, RestPhase, Moved, Works, Moves, Typed
<1>4. Control'
  BY <1>0, <1>1, <1>2, <1>3, QuietControl DEF Quiet, flags
<1>5. Scans'
  BY <1>0, <1>1, <1>2, ScansOthers DEF Works, Control, streams, flags
<1>6. lock[q] # B(q)
  BY <1>0, <1>2 DEF Control, Locked, HoldsLock, StartPhase
<1>7. \A x : Doing(q, x)' <=> Doing(q, x)
  BY <1>1, <1>6 DEF Doing, Works, Moves
<1>8. (Starts(q)' <=> Starts(q)) /\ (Resets(q)' <=> Resets(q)) /\ (Down(q)' <=> Down(q))
  BY <1>1, <1>3, <1>7 DEF Starts, Resets, Down, streams
<1>9. Mode(q)'
  BY <1>0, <1>1, <1>2, <1>3, <1>6, <1>7, <1>8
  DEF NodeInv, Mode, Moved, StartPhase, streams, Stopped, Opening, Starting, Started, Leaving, Ending,
      Interrupted, Lost
<1>10. Frames(q)'
  BY <1>0, <1>1, <1>2, <1>3, <1>7 DEF NodeInv, Frames, streams
<1>11. Lists(q)'
  <2>1. Owned(q)' = Owned(q) /\ InHand(q)' = InHand(q)
    BY <1>1, <1>2, <1>7 DEF Owned, InHand
  <2> QED
    BY <1>0, <1>1, <1>2, <1>7, <2>1 DEF NodeInv, Lists, streams
<1>12. Calm(q)'
  BY <1>0, <1>1, <1>2, <1>3 DEF NodeInv, Calm, Free, Moved
<1> QED
  BY <1>1, <1>2, <1>4, <1>5, <1>9, <1>10, <1>11, <1>12, StepKeeps DEF NodeInv, NotAtWork, StartPhase

LEMMA QBufRelocksHolds == ASSUME IInv, NEW q \in Node, QBufRelocks(q) PROVE IInv'
<1> USE ThreadFacts
<1>0. Typed /\ Control /\ Scans /\ NodeInv(q)
  BY DEF IInv
<1>1. Typed' /\ Works(B(q), q) /\ UNCHANGED << lists, firmware, streams, lock, locals >>
  BY <1>0, QBufMoves
<1>2. /\ pc[B(q)] = "relock" /\ on[B(q)] = q /\ lock[q] = NoThread /\ UNCHANGED flags
      /\ UNCHANGED << incoming, active, vb, taken, fw, open, fwUp, nr, lost, sawPipe >>
  BY <1>0, <1>1 DEF QBufRelocks, Control, Visits, VisitsOfB, Free, lists, firmware, streams, locals
<1>3. PICK s \in {"idle", "submit", "oops"} :
        /\ Goto(B(q), s)
        /\ q \in sawPipe \cap ssc \cap pipe => s = "submit"
  BY DEF QBufRelocks
<1>4. Moved(B(q), s, q) /\ pc'[S(q)] = pc[S(q)] /\ on'[S(q)] = on[S(q)]
  BY <1>0, <1>1, <1>2, <1>3, GotoMoves, PlaceParts DEF RestPhase, Moved, Works, Moves, Typed
<1>5. Control'
  BY <1>0, <1>1, <1>2, <1>4, QuietControl DEF Quiet, flags
<1>6. Scans'
  BY <1>0, <1>1, <1>2, ScansOthers DEF Works, Control, streams, flags
<1>7. (\A x : ~ Doing(q, x)) /\ ~ Starts(q) /\ (\A x : ~ Doing(q, x)') /\ ~ Starts(q)'
  BY <1>1, <1>2, NobodyNow, NobodyThen
<1>8. Mode(q)'
  BY <1>0, <1>1, <1>2, <1>4, <1>7, ModeKept DEF NodeInv, Still, streams, Resets, Moved, StartPhase
<1>9. Frames(q)'
  BY <1>0, <1>1, <1>2, <1>4, <1>7 DEF NodeInv, Frames, streams
<1>10. Lists(q)'
  <2>1. Owned(q)' = Owned(q) /\ InHand(q)' = {} /\ InHand(q) = {}
    BY <1>2, <1>7 DEF Owned, InHand
  <2> QED
    BY <1>0, <1>1, <1>2, <1>7, <2>1 DEF NodeInv, Lists, streams
<1>11. Calm(q)'
  <2>1. nr[q] = 1 /\ incoming[q] # << >> => Tail(incoming[q]) = << >> /\ q \in sawPipe /\ q \in pipe
    BY <1>0, <1>2 DEF NodeInv, Calm, Free, Mode
  <2>2. q \in pipe => q \in ssc
    BY <1>0, <1>2, FreeModes DEF Stopped, Opening, Started, Interrupted, Lost, Down
  <2> QED
    BY <1>2, <1>3, <1>4, <2>1, <2>2 DEF Calm, Moved
<1> QED
  BY <1>1, <1>2, <1>5, <1>6, <1>8, <1>9, <1>10, <1>11, StepKeeps DEF NodeInv, NotAtWork, StartPhase

LEMMA SubmitsNothingHolds == ASSUME IInv, NEW q \in Node, SubmitsNothing(q) PROVE IInv'
<1> USE ThreadFacts
<1>0. Typed /\ Control /\ Scans /\ NodeInv(q)
  BY DEF IInv
<1>1. Typed' /\ Works(B(q), q)
  BY <1>0, SubmitsNothingEffect
<1>2. /\ pc[B(q)] = "submit" /\ on[B(q)] = q /\ lock[q] = NoThread
      /\ nr[q] # 1 \/ incoming[q] = << >>
      /\ UNCHANGED << streams, flags, lock >>
      /\ UNCHANGED << incoming, active, vb, taken, fw, open, fwUp, nr, lost, sawPipe >>
  BY <1>0 DEF SubmitsNothing, Control, Visits, VisitsOfB, Free, lists, firmware, streams, locals
<1>3. Moved(B(q), "idle", q) /\ pc'[S(q)] = pc[S(q)] /\ on'[S(q)] = on[S(q)]
  BY <1>0, <1>1, <1>2, GotoMoves, PlaceParts DEF SubmitsNothing, RestPhase, Moved, Works, Moves, Typed
<1>4. Control'
  <2>1. /\ pc[B(q)] \in Quiet /\ "idle" \in Quiet /\ on[B(q)] = B(q)[1] /\ Moved(B(q), "idle", B(q)[1])
        /\ lock'[q] = lock[q] /\ inReset' = inReset /\ inStop' = inStop /\ fwUp' = fwUp
    BY <1>2, <1>3 DEF Quiet, flags
  <2> QED
    BY <1>0, <1>1, <2>1, QuietControl
<1>5. Scans'
  BY <1>0, <1>1, <1>2, ScansOthers DEF Works, Control, streams, flags
<1>6. (\A x : ~ Doing(q, x)) /\ ~ Starts(q) /\ (\A x : ~ Doing(q, x)') /\ ~ Starts(q)'
  BY <1>1, <1>2, NobodyNow, NobodyThen
<1>7. Mode(q)'
  BY <1>0, <1>1, <1>2, <1>3, <1>6, ModeKept DEF NodeInv, Still, streams, Resets, Moved, StartPhase
<1>8. Frames(q)'
  BY <1>0, <1>1, <1>2, <1>3, <1>6 DEF NodeInv, Frames, streams
<1>9. Lists(q)'
  <2>1. Owned(q)' = Owned(q) /\ InHand(q)' = {} /\ InHand(q) = {}
    BY <1>2, <1>6 DEF Owned, InHand
  <2> QED
    BY <1>0, <1>1, <1>2, <1>6, <2>1 DEF NodeInv, Lists, streams
<1>10. Calm(q)'
  BY <1>2 DEF Calm
<1> QED
  BY <1>1, <1>2, <1>4, <1>5, <1>7, <1>8, <1>9, <1>10, StepKeeps DEF NodeInv, NotAtWork, StartPhase

LEMMA SubmitStartsHolds == ASSUME IInv, StartsApart, NEW q \in Node, SubmitStarts(q) PROVE IInv'
<1> USE ThreadFacts
<1>0. Typed /\ Control /\ Scans /\ NodeInv(q)
  BY DEF IInv
<1>1. Typed' /\ Works(B(q), q)
  BY <1>0, SubmitStartsEffect
<1> DEFINE s == incoming[q]
<1>2. /\ pc[B(q)] = "submit" /\ on[B(q)] = q /\ lock[q] = NoThread /\ ~ inReset
      /\ nr[q] = 1 /\ q \notin streaming
      /\ UNCHANGED << streams, flags >>
      /\ UNCHANGED << active, vb, fw, open, fwUp, nr, lost, sawPipe >>
  BY <1>0, NoOverlap DEF SubmitStarts, Control, Visits, VisitsOfB, Free, lists, firmware, streams, locals
<1>3. Moved(B(q), "start", q) /\ pc'[S(q)] = pc[S(q)] /\ on'[S(q)] = on[S(q)]
  BY <1>0, <1>1, <1>2, GotoMoves, PlaceParts DEF SubmitStarts, StartPhase, Moved, Works, Moves, Typed
<1>4. lock'[q] = B(q) /\ taken'[B(q)] = Head(s) /\ incoming'[q] = Tail(s) /\ s # << >>
      /\ s \in Seq(BufsOf(q)) /\ active[q] \in Seq(BufsOf(q))
  BY <1>0 DEF SubmitStarts, Locks, Typed, TypedControl, TypedLists, NodeInv, Lists
<1>5. Control'
  BY <1>0, <1>1, <1>2, <1>3, <1>4, StartControl DEF Quiet, flags
<1>6. Scans'
  BY <1>0, <1>1, <1>2, ScansOthers DEF Works, Control, streams, flags
<1>7. (\A x : ~ Doing(q, x)) /\ ~ Starts(q)
  BY <1>2, NobodyNow
<1>8. (\A x : Doing(q, x)' <=> x = "start") /\ Starts(q)'
  BY <1>3, <1>4, HolderThen DEF StartPhase
<1>9. Started(q) /\ q \in pipe /\ pc[S(q)] # "flush"
  <2>1. q \in pipe
    BY <1>0, <1>2 DEF NodeInv, Mode
  <2>2. Started(q)
    BY <1>0, <1>2, <2>1, FreeModes DEF Stopped, Opening, Interrupted, Lost, Down
  <2>3. pc[S(q)] # "flush"
    BY <1>0, <1>2 DEF NodeInv, Mode
  <2> QED
    BY <2>1, <2>2, <2>3
<1>10. Mode(q)'
  <2>1. Started(q)'
    BY <1>2, <1>3, <1>7, <1>8, <1>9 DEF Started, streams
  <2> QED
    BY <1>0, <1>2, <1>3, <1>4, <1>8, <1>9, <2>1 DEF NodeInv, Mode, Started, streams
<1>11. active[q] = << >> /\ fw[q] = << >>
  BY <1>0, <1>2, <1>9, FreeModes
<1>12. Frames(q)'
  BY <1>2, <1>8, <1>11 DEF Frames, streams
<1>13. Lists(q)'
  <2>1. Head(s) \in BufsOf(q) /\ Tail(s) \in Seq(BufsOf(q)) /\ Range(s) = {Head(s)} \cup Range(Tail(s))
        /\ (IsInjective(s) => IsInjective(Tail(s)) /\ Head(s) \notin Range(Tail(s)))
    BY <1>4, ListTail
  <2>2. Range(active[q]) = {} /\ IsInjective(active[q])
    BY <1>11, EmptyList
  <2>3. Owned(q)' = Owned(q) /\ InHand(q)' = {Head(s)} /\ InHand(q) = {}
    BY <1>2, <1>4, <1>7, <1>8 DEF Owned, InHand
  <2>4. IsInjective(s) /\ Owned(q) = Range(s)
    BY <1>0, <1>9, <2>2, <2>3 DEF NodeInv, Lists, Started
  <2> HIDE DEF s
  <2> QED
    BY <1>2, <1>4, <1>8, <2>1, <2>2, <2>3, <2>4 DEF Lists
<1>14. Calm(q)'
  <2>1. lock'[q] # NoThread
    BY <1>4
  <2> QED
    BY <2>1 DEF Calm, Free
<1> QED
  BY <1>1, <1>2, <1>5, <1>6, <1>10, <1>12, <1>13, <1>14, StepKeeps DEF NodeInv, NotAtWork, StartPhase

LEMMA SubmitCapturesHolds == ASSUME IInv, NEW q \in Node, SubmitCaptures(q) PROVE IInv'
<1> USE ThreadFacts
<1>0. Typed /\ Control /\ Scans /\ NodeInv(q)
  BY DEF IInv
<1>1. Typed' /\ Works(B(q), q)
  BY <1>0, SubmitCapturesEffect
<1> DEFINE s == incoming[q]
<1> DEFINE a == active[q]
<1>2. /\ pc[B(q)] = "submit" /\ on[B(q)] = q /\ lock[q] = NoThread
      /\ nr[q] = 1 /\ q \in streaming
      /\ UNCHANGED << streams, flags, lock >>
      /\ UNCHANGED << vb, taken, open, fwUp, nr, lost, sawPipe >>
  BY <1>0 DEF SubmitCaptures, Control, Visits, VisitsOfB, Free, lists, firmware, streams, locals
<1>3. Moved(B(q), "idle", q) /\ pc'[S(q)] = pc[S(q)] /\ on'[S(q)] = on[S(q)]
  BY <1>0, <1>1, <1>2, GotoMoves, PlaceParts DEF SubmitCaptures, RestPhase, Moved, Works, Moves, Typed
<1>4. /\ incoming'[q] = Tail(s) /\ s # << >> /\ active'[q] = Append(a, Head(s))
      /\ fw'[q] = Append(fw[q], Head(s)) /\ s \in Seq(BufsOf(q)) /\ a \in Seq(BufsOf(q))
  BY <1>0 DEF SubmitCaptures, Typed, TypedLists, NodeInv, Lists
<1>5. Control'
  BY <1>0, <1>1, <1>2, <1>3, QuietControl DEF Quiet, flags
<1>6. Scans'
  BY <1>0, <1>1, <1>2, ScansOthers DEF Works, Control, streams, flags
<1>7. (\A x : ~ Doing(q, x)) /\ ~ Starts(q) /\ (\A x : ~ Doing(q, x)') /\ ~ Starts(q)'
  BY <1>2, NobodyNow, NobodyThen
<1>8. Started(q)
  BY <1>0, <1>2, FreeModes DEF Stopped, Opening, Interrupted, Lost, Down
<1>9. Mode(q)'
  BY <1>0, <1>2, <1>3, <1>7, <1>8, ModeKept DEF NodeInv, Still, streams, Resets, Moved, StartPhase,
     Started, Ending, Down
<1>10. fw[q] = a /\ q \in open
  BY <1>0, <1>2 DEF NodeInv, Frames
<1>11. Frames(q)'
  BY <1>2, <1>4, <1>7, <1>10 DEF Frames, streams
<1>12. Head(s) \in BufsOf(q) /\ Tail(s) \in Seq(BufsOf(q)) /\ Range(s) = {Head(s)} \cup Range(Tail(s))
       /\ (IsInjective(s) => IsInjective(Tail(s)) /\ Head(s) \notin Range(Tail(s)))
  BY <1>4, ListTail
<1>13. Append(a, Head(s)) \in Seq(BufsOf(q)) /\ Range(Append(a, Head(s))) = Range(a) \cup {Head(s)}
       /\ (IsInjective(a) /\ Head(s) \notin Range(a) => IsInjective(Append(a, Head(s))))
  BY <1>4, <1>12, ListAppend
<1>14. Lists(q)'
  <2>1. Owned(q)' = Owned(q) /\ InHand(q)' = {} /\ InHand(q) = {}
    BY <1>2, <1>7 DEF Owned, InHand
  <2>2. IsInjective(s) /\ IsInjective(a) /\ Range(s) \cap Range(a) = {} /\ Owned(q) = Range(s) \cup Range(a)
    BY <1>0, <1>8, <2>1 DEF NodeInv, Lists, Started
  <2> HIDE DEF s, a
  <2> QED
    BY <1>2, <1>4, <1>7, <1>12, <1>13, <2>1, <2>2 DEF Lists
<1>15. Calm(q)'
  BY <1>0, <1>2, <1>4 DEF NodeInv, Calm, Free
<1> QED
  BY <1>1, <1>2, <1>5, <1>6, <1>9, <1>11, <1>14, <1>15, StepKeeps DEF NodeInv, NotAtWork, StartPhase

LEMMA QBufSubmitsHolds == ASSUME IInv, StartsApart, NEW q \in Node, QBufSubmits(q) PROVE IInv'
<1>1. CASE q \in streaming \/ ~ inReset
  <2>1. fwUp
    BY <1>1, FirmwareUp DEF IInv, Control
  <2> QED
    BY <2>1, QBufSubmitsParts, SubmitsNothingHolds, SubmitStartsHolds, SubmitCapturesHolds
<1>2. CASE q \notin streaming /\ inReset
  <2>1. SubmitsNothing(q)
    BY <1>2, NoOverlap DEF QBufSubmits, SubmitsNothing, lists, firmware
  <2> QED
    BY <2>1, SubmitsNothingHolds
<1> QED
  BY <1>1, <1>2

-----------------------------------------------------------------------------
(* STREAMON *)

LEMMA EnqueueHolds ==
  ASSUME IInv, NEW q \in Node, Enqueue(q), q \notin ssc \cup lost, pc[S(q)] \in {"idle", "onQueue"},
         lock[q] = NoThread
  PROVE  IInv'
<1> USE ThreadFacts
<1>0. Typed /\ Control /\ Scans /\ NodeInv(q)
  BY DEF IInv
<1>1. Typed' /\ Works(S(q), q)
  BY <1>0, EnqueueEffect
<1> DEFINE s == incoming[q]
<1> DEFINE bs == Queued(q)
<1> DEFINE u == SetToSeq(bs)
<1>2. /\ on[S(q)] = q
      /\ UNCHANGED << flags, lock, locals, pipe, nr, streaming, started, reset >>
      /\ UNCHANGED << active, taken, fw, open, fwUp, lost, sawPipe >>
  BY <1>0 DEF Enqueue, Control, Visits, VisitsOfS, StartPhase, ResetPhase, firmware, locals
<1>3. incoming'[q] = s \o u /\ s \in Seq(BufsOf(q))
  BY <1>0 DEF Enqueue, Typed, TypedLists, NodeInv, Lists
<1>4. PICK p \in {"onWait", "onQueue"} :
        /\ Goto(S(q), p)
        /\ IF p = "onWait" THEN ssc' = ssc \cup {q} ELSE ssc' = ssc
  BY DEF Enqueue
<1>5. Moved(S(q), p, q) /\ pc'[B(q)] = pc[B(q)] /\ on'[B(q)] = on[B(q)]
  BY <1>0, <1>1, <1>2, <1>4, GotoMoves, PlaceParts DEF RestPhase, Moved, Works, Moves, Typed
<1>6. Control'
  BY <1>0, <1>1, <1>2, <1>5, QuietControl DEF Quiet, flags
<1>7. Scans'
  <2>1. ~ Resets(q)'
    BY <1>5 DEF Moved, Resets, StartPhase, ResetPhase
  <2> QED
    BY <1>0, <1>1, <1>2, <2>1, ScansOthers DEF Works, Control, flags
<1>8. (\A x : ~ Doing(q, x)) /\ ~ Starts(q) /\ (\A x : ~ Doing(q, x)') /\ ~ Starts(q)'
  BY <1>2, NobodyNow, NobodyThen
<1>9. Stopped(q) /\ pc[B(q)] \notin StartPhase
  BY <1>0, FreeModes DEF Opening, Started, Interrupted, Lost
<1>10. nr[q] = 0 /\ Down(q) /\ q \notin reset
  BY <1>0, <1>9 DEF NodeInv, Mode, Stopped, Down
<1>11. Mode(q)'
  <2>1. Down(q)'
    BY <1>2, <1>10 DEF Down
  <2>2. Stopped(q)' \/ Opening(q)'
    <3>1. CASE p = "onWait"
      BY <1>2, <1>4, <1>5, <1>10, <2>1, <3>1 DEF Opening, Moved
    <3>2. CASE p = "onQueue"
      BY <1>2, <1>4, <1>5, <1>10, <2>1, <3>2 DEF Stopped, Moved
    <3> QED
      BY <3>1, <3>2
  <2> QED
    BY <1>2, <1>5, <1>8, <1>9, <1>10, <2>1, <2>2 DEF Mode, Down, Moved
<1>12. Frames(q)'
  <2>1. fw[q] = << >> /\ active[q] = << >>
    BY <1>0, <1>8, <1>9, <1>10 DEF NodeInv, Frames, Down, Stopped
  <2> QED
    BY <1>2, <1>8, <1>10, <2>1 DEF Frames, Down
<1>13. bs \subseteq BufsOf(q) /\ IsFiniteSet(bs) /\ bs \cap Owned(q) = {} /\ Owned(q)' = Owned(q) \cup bs
  <2>1. bs \subseteq BufsOf(q) /\ IsFiniteSet(bs)
    BY BufFacts, FS_Subset DEF Queued
  <2>2. bs \cap Owned(q) = {}
    BY DEF Owned, Queued
  <2>3. \A b \in Buf : vb'[b] = IF b \in bs THEN "driver" ELSE vb[b]
    BY <1>0, HandChanges DEF Enqueue, Typed
  <2> QED
    BY <2>1, <2>2, <2>3, BufFacts DEF Owned
<1>14. u \in Seq(BufsOf(q)) /\ IsInjective(u) /\ Range(u) = bs
  BY <1>13, ListOfSet
<1>15. /\ s \o u \in Seq(BufsOf(q)) /\ Range(s \o u) = Range(s) \cup bs
       /\ (IsInjective(s) /\ Range(s) \cap bs = {} => IsInjective(s \o u))
  BY <1>3, <1>14, ListConcat
<1>16. Lists(q)'
  <2>1. InHand(q)' = {} /\ InHand(q) = {}
    BY <1>8 DEF InHand
  <2>2. /\ IsInjective(s) /\ IsInjective(active[q]) /\ Range(s) \cap Range(active[q]) = {}
        /\ Owned(q) = Range(s) \cup Range(active[q]) /\ active[q] \in Seq(BufsOf(q))
    BY <1>0, <2>1 DEF NodeInv, Lists
  <2> HIDE DEF s, bs, u
  <2>3. IsInjective(s \o u) /\ Range(s \o u) \cap Range(active[q]) = {}
    BY <1>13, <1>15, <2>2
  <2>4. Owned(q)' = Range(s \o u) \cup Range(active[q])
    BY <1>13, <1>15, <2>2
  <2> QED
    BY <1>2, <1>3, <1>8, <1>15, <2>1, <2>2, <2>3, <2>4 DEF Lists
<1>17. Calm(q)'
  BY <1>2, <1>10 DEF Calm
<1> QED
  BY <1>1, <1>2, <1>6, <1>7, <1>11, <1>12, <1>16, <1>17, StepKeeps DEF NodeInv, NotAtWork, StartPhase

LEMMA StreamOnHolds ==
  ASSUME IInv, NEW q \in Node, StreamOn(q) \/ StreamOnQueued(q) PROVE IInv'
<1>1. CASE StreamOn(q)
  BY <1>1, EnqueueHolds DEF StreamOn, Free
<1>2. CASE StreamOnQueued(q)
  <2>1. lock[q] = NoThread /\ pc[S(q)] = "onQueue" /\ NodeInv(q) /\ Control /\ Enqueue(q)
    BY <1>2 DEF StreamOnQueued, Free, IInv
  <2>2. q \notin ssc \cup lost
    BY <2>1, FreeModes DEF Stopped, Opening, Started, Interrupted, Lost
  <2> QED
    BY <2>1, <2>2, EnqueueHolds
<1> QED
  BY <1>1, <1>2

\* A step that only moves S(q), which holds nothing, along.
LEMMA QuietMove ==
  ASSUME IInv, NEW q \in Node, Typed', Works(S(q), q), UNCHANGED << lists, firmware, streams, lock, locals >>,
         Control', ~ Resets(q)', reset' = reset, inReset' = inReset,
         on[S(q)] = q, pc[S(q)] \in Quiet,
         NEW s \in {"onLock", "offWait", "offLock"}, Moved(S(q), s, q),
         IF s = "onLock" THEN Opening(q) ELSE Started(q) \/ (s = "offWait" /\ (Interrupted(q) \/ Lost(q) \/ Starting(q)))
  PROVE  IInv'
<1> USE ThreadFacts
<1>0. Typed /\ Control /\ Scans /\ NodeInv(q)
  BY DEF IInv
<1>1. UNCHANGED << incoming, active, vb, taken, fw, open, fwUp, nr, lost, sawPipe, lock >>
  BY DEF lists, firmware, streams, locals
<1>2. pc'[S(q)] = s /\ on'[S(q)] = q /\ pc'[B(q)] = pc[B(q)] /\ on'[B(q)] = on[B(q)]
  BY DEF Moved, Works, Moves
<1>3. Scans'
  BY <1>0, ScansOthers DEF Works, Control, streams
<1>4. lock[q] # S(q)
  BY <1>0 DEF Control, Locked, HoldsLock, Quiet, HoldPhase, Resets, StartPhase, ResetPhase
<1>5. \A x : Doing(q, x)' <=> Doing(q, x)
  BY <1>1, <1>4 DEF Doing, Works, Moves
<1>6. (Starts(q)' <=> Starts(q)) /\ (lock[q] \in Thread => taken'[lock[q]] = taken[lock[q]])
  BY <1>1, <1>5 DEF Starts
<1>7. Mode(q)'
  <2>1. Down(q)' <=> Down(q)
    BY DEF Down, streams
  <2>2. CASE s = "onLock"
    <3>1. Opening(q)'
      BY <1>1, <1>2, <2>1, <2>2 DEF Opening, streams
    <3>2. pc[B(q)] \notin StartPhase
      BY <1>0, <2>2 DEF NodeInv, Mode, Opening, Started, Down
    <3> QED
      BY <1>0, <1>1, <1>2, <1>5, <1>6, <2>1, <2>2, <3>1, <3>2 DEF NodeInv, Mode, streams
  <2>3. CASE s # "onLock"
    <3>1. Started(q) => Started(q)'
      BY <1>1, <1>2, <1>5, <2>3 DEF Started, streams
    <3>2. s = "offWait" => (Interrupted(q) => Interrupted(q)') /\ (Lost(q) => Lost(q)')
                           /\ (Starting(q) => Starting(q)')
      BY <1>1, <1>2, <1>6, <2>1 DEF Interrupted, Lost, Starting, streams
    <3> QED
      BY <1>0, <1>1, <1>2, <1>5, <1>6, <2>1, <2>3, <3>1, <3>2 DEF NodeInv, Mode, streams
  <2> QED
    BY <2>2, <2>3
<1>8. Frames(q)'
  BY <1>0, <1>1, <1>2, <1>5, <1>6 DEF NodeInv, Frames, streams, Quiet, Doing
<1>9. Lists(q)'
  <2>1. Owned(q)' = Owned(q) /\ InHand(q)' = InHand(q)
    BY <1>1, <1>5, <1>6 DEF Owned, InHand
  <2> QED
    BY <1>0, <1>1, <1>5, <1>6, <2>1 DEF NodeInv, Lists, streams, Doing
<1>10. Calm(q)'
  BY <1>0, <1>1, <1>2 DEF NodeInv, Calm, Free
<1> QED
  BY <1>0, <1>3, <1>7, <1>8, <1>9, <1>10, StepKeeps DEF NodeInv, NotAtWork, StartPhase, Quiet

LEMMA StartWaitsHolds == ASSUME IInv, NEW q \in Node, StartWaits(q) PROVE IInv'
<1> USE ThreadFacts
<1>0. Typed /\ Control /\ Scans /\ NodeInv(q)
  BY DEF IInv
<1>1. Typed' /\ Works(S(q), q) /\ UNCHANGED << lists, firmware, streams, lock, locals >>
  BY <1>0, MovingSteps
<1>2. pc[S(q)] = "onWait" /\ on[S(q)] = q /\ UNCHANGED << flags, fwUp, lock >> /\ reset' = reset
  BY <1>0, <1>1 DEF StartWaits, Control, Visits, VisitsOfS, StartPhase, ResetPhase, firmware, streams
<1>3. Moved(S(q), "onLock", q)
  BY <1>0, <1>2, GotoMoves, PlaceParts DEF StartWaits, RestPhase, Moved, Typed
<1>4. Control'
  BY <1>0, <1>1, <1>2, <1>3, QuietControl DEF Quiet, flags
<1>5. ~ Resets(q)'
  BY <1>3 DEF Moved, Resets, StartPhase, ResetPhase
<1>6. Opening(q)
  <2>1. ~ Resets(q) /\ lock[q] # S(q)
    BY <1>0, <1>2 DEF Resets, StartPhase, ResetPhase, HoldPhase, Control, Locked, HoldsLock
  <2> QED
    BY <1>0, <1>2, <2>1 DEF NodeInv, Mode, Stopped, Starting, Started, Leaving, Ending, Interrupted, Lost
<1> QED
  BY <1>1, <1>2, <1>3, <1>4, <1>5, <1>6, QuietMove DEF Quiet, flags

LEMMA StartsIdleHolds == ASSUME IInv, NEW q \in Node, StartsIdle(q) PROVE IInv'
<1> USE ThreadFacts
<1>0. Typed /\ Control /\ Scans /\ NodeInv(q)
  BY DEF IInv
<1>1. Typed' /\ Works(S(q), q)
  BY <1>0, StartsIdleEffect
<1>2. /\ pc[S(q)] = "onLock" /\ on[S(q)] = q /\ lock[q] = NoThread
      /\ incoming[q] = << >> /\ incoming'[q] = << >> /\ nr'[q] = nr[q] + 1
      /\ pipe' = pipe \cup {q} /\ started' = started \cup {q}
      /\ UNCHANGED << flags, lock, locals, ssc, streaming, reset >>
      /\ UNCHANGED << active, vb, taken, fw, open, fwUp, lost, sawPipe >>
  BY <1>0 DEF StartsIdle, BeginsIdle, Control, Visits, VisitsOfS, StartPhase, ResetPhase, Free, firmware,
     locals, Typed, TypedLists, TypedStreams
<1>3. Moved(S(q), "idle", q) /\ pc'[B(q)] = pc[B(q)] /\ on'[B(q)] = on[B(q)]
  BY <1>0, <1>1, <1>2, GotoMoves, PlaceParts DEF StartsIdle, RestPhase, Moved, Works, Moves, Typed
<1>4. Control'
  <2>1. /\ inReset' = inReset /\ inStop' = inStop /\ fwUp' = fwUp /\ lock'[q] = lock[q]
        /\ pc[S(q)] = "onLock" /\ on[S(q)] = q /\ Moved(S(q), "idle", q)
    BY <1>2, <1>3 DEF flags
  <2> QED
    BY <1>0, <1>1, <2>1, QuietControl DEF Quiet
<1>5. Scans'
  <2>1. ~ Resets(q)'
    BY <1>3 DEF Moved, Resets, StartPhase, ResetPhase
  <2> QED
    BY <1>0, <1>1, <1>2, <2>1, ScansOthers DEF Works, Control, flags
<1>6. (\A x : ~ Doing(q, x)) /\ ~ Starts(q) /\ (\A x : ~ Doing(q, x)') /\ ~ Starts(q)'
  BY <1>2, NobodyNow, NobodyThen
<1>7. Opening(q) /\ pc[B(q)] \notin StartPhase
  BY <1>0, <1>2, FreeModes DEF Stopped, Started, Interrupted, Lost
<1>8. nr[q] = 0
  BY <1>0, <1>7 DEF NodeInv, Mode, Opening, Down
<1>9. Mode(q)'
  <2>1. Started(q)'
    BY <1>2, <1>3, <1>6, <1>7 DEF Opening, Started, Moved
  <2>2. nr'[q] = 1
    BY <1>2, <1>8
  <2> QED
    BY <1>2, <1>3, <1>6, <1>7, <2>1, <2>2 DEF Mode, Moved
<1>10. Frames(q)'
  BY <1>0, <1>2, <1>3, <1>6, <1>7 DEF NodeInv, Frames, Opening
<1>11. Lists(q)'
  <2>1. Owned(q)' = Owned(q) /\ InHand(q)' = {} /\ InHand(q) = {}
    BY <1>2, <1>6 DEF Owned, InHand
  <2> QED
    BY <1>0, <1>2, <1>6, <1>7, <2>1 DEF NodeInv, Lists
<1>12. Calm(q)'
  BY <1>2 DEF Calm
<1> QED
  BY <1>1, <1>2, <1>4, <1>5, <1>9, <1>10, <1>11, <1>12, StepKeeps DEF NodeInv, NotAtWork, StartPhase

LEMMA StartsWithHolds == ASSUME IInv, StartsApart, NEW q \in Node, StartsWith(q) PROVE IInv'
<1> USE ThreadFacts
<1>0. Typed /\ Control /\ Scans /\ NodeInv(q)
  BY DEF IInv
<1>1. Typed' /\ Works(S(q), q)
  BY <1>0, StartsWithEffect
<1> DEFINE s == incoming[q]
<1>2. /\ pc[S(q)] = "onLock" /\ on[S(q)] = q /\ lock[q] = NoThread /\ ~ inReset
      /\ nr'[q] = nr[q] + 1 /\ pipe' = pipe \cup {q}
      /\ UNCHANGED << flags, locals, ssc, started, streaming, reset >>
      /\ UNCHANGED << active, vb, fw, open, fwUp, lost, sawPipe >>
  BY <1>0, NoOverlap DEF StartsWith, BeginsWith, Control, Visits, VisitsOfS, StartPhase, ResetPhase, Free,
     firmware, locals, Typed, TypedStreams
<1>3. Moved(S(q), "start", q) /\ pc'[B(q)] = pc[B(q)] /\ on'[B(q)] = on[B(q)]
  BY <1>0, <1>1, <1>2, GotoMoves, PlaceParts DEF StartsWith, BeginsWith, StartPhase, Moved, Works, Moves, Typed
<1>4. lock'[q] = S(q) /\ taken'[S(q)] = Head(s) /\ incoming'[q] = Tail(s) /\ s # << >>
      /\ s \in Seq(BufsOf(q)) /\ active[q] \in Seq(BufsOf(q))
  BY <1>0 DEF StartsWith, BeginsWith, Locks, Typed, TypedControl, TypedLists, NodeInv, Lists
<1>5. Control'
  BY <1>0, <1>1, <1>2, <1>3, <1>4, StartControl DEF Quiet, flags
<1>6. Scans'
  <2>1. ~ Resets(q)'
    BY <1>3 DEF Moved, Resets, StartPhase, ResetPhase
  <2> QED
    BY <1>0, <1>1, <1>2, <2>1, ScansOthers DEF Works, Control, flags
<1>7. (\A x : ~ Doing(q, x)) /\ ~ Starts(q)
  BY <1>2, NobodyNow
<1>8. (\A x : Doing(q, x)' <=> x = "start") /\ Starts(q)'
  BY <1>3, <1>4, HolderThen DEF StartPhase
<1>9. Opening(q) /\ pc[B(q)] \notin StartPhase
  BY <1>0, <1>2, FreeModes DEF Stopped, Started, Interrupted, Lost
<1>10. nr[q] = 0 /\ Down(q)
  BY <1>0, <1>9 DEF NodeInv, Mode, Opening, Down
<1>11. Mode(q)'
  <2>1. Starting(q)'
    BY <1>2, <1>3, <1>4, <1>8, <1>9, <1>10 DEF Opening, Starting, Moved, Down
  <2>2. nr'[q] = 1
    BY <1>2, <1>10
  <2> QED
    BY <1>2, <1>3, <1>4, <1>8, <1>9, <1>10, <2>1, <2>2 DEF Mode, Moved, Down
<1>12. active[q] = << >> /\ fw[q] = << >>
  BY <1>0, <1>7, <1>9, <1>10 DEF NodeInv, Frames, Opening, Down
<1>13. Frames(q)'
  BY <1>2, <1>8, <1>10, <1>12 DEF Frames, Down
<1>14. Lists(q)'
  <2>1. Head(s) \in BufsOf(q) /\ Tail(s) \in Seq(BufsOf(q)) /\ Range(s) = {Head(s)} \cup Range(Tail(s))
        /\ (IsInjective(s) => IsInjective(Tail(s)) /\ Head(s) \notin Range(Tail(s)))
    BY <1>4, ListTail
  <2>2. Range(active[q]) = {} /\ IsInjective(active[q])
    BY <1>12, EmptyList
  <2>3. Owned(q)' = Owned(q) /\ InHand(q)' = {Head(s)} /\ InHand(q) = {}
    BY <1>2, <1>4, <1>7, <1>8 DEF Owned, InHand
  <2>4. IsInjective(s) /\ Owned(q) = Range(s)
    BY <1>0, <1>9, <2>2, <2>3 DEF NodeInv, Lists, Opening
  <2> HIDE DEF s
  <2> QED
    BY <1>2, <1>4, <1>8, <2>1, <2>2, <2>3, <2>4 DEF Lists
<1>15. Calm(q)'
  <2>1. lock'[q] # NoThread
    BY <1>4
  <2> QED
    BY <2>1 DEF Calm, Free
<1> QED
  BY <1>1, <1>2, <1>5, <1>6, <1>11, <1>13, <1>14, <1>15, StepKeeps DEF NodeInv, NotAtWork, StartPhase

-----------------------------------------------------------------------------
(* STREAMOFF *)

LEMMA StreamOffHolds == ASSUME IInv, NEW q \in Node, StreamOff(q) PROVE IInv'
<1> USE ThreadFacts
<1>0. Typed /\ Control /\ Scans /\ NodeInv(q)
  BY DEF IInv
<1>1. Typed' /\ Works(S(q), q) /\ UNCHANGED << lists, firmware, streams, lock, locals >>
  BY <1>0, MovingSteps
<1>2. /\ pc[S(q)] = "idle" /\ on[S(q)] = q /\ lock[q] = NoThread /\ q \in ssc
      /\ UNCHANGED << flags, fwUp, lock >> /\ reset' = reset
  BY <1>0, <1>1 DEF StreamOff, Control, Visits, VisitsOfS, StartPhase, ResetPhase, firmware, streams, Free
<1>3. Moved(S(q), "offWait", q)
  BY <1>0, <1>2, GotoMoves, PlaceParts DEF StreamOff, StopPhase, Moved, Typed
<1>4. Control'
  BY <1>0, <1>1, <1>2, <1>3, QuietControl DEF Quiet, flags
<1>5. ~ Resets(q)'
  BY <1>3 DEF Moved, Resets, StartPhase, ResetPhase
<1>6. Started(q) \/ Interrupted(q) \/ Lost(q)
  BY <1>0, <1>2, FreeModes DEF Stopped, Opening
<1> QED
  BY <1>1, <1>2, <1>3, <1>4, <1>5, <1>6, QuietMove DEF Quiet, flags

LEMMA StopWaitsHolds == ASSUME IInv, NEW q \in Node, StopWaits(q) PROVE IInv'
<1> USE ThreadFacts
<1>0. Typed /\ Control /\ Scans /\ NodeInv(q)
  BY DEF IInv
<1>1. Typed' /\ Works(S(q), q) /\ UNCHANGED << lists, firmware, streams, lock, locals >>
  BY <1>0, MovingSteps
<1>2. /\ pc[S(q)] = "offWait" /\ on[S(q)] = q /\ q \in started /\ ~ inReset /\ ~ inStop /\ inStop'
      /\ UNCHANGED << inReset, fwUp, lock >> /\ reset' = reset
  BY <1>0, <1>1 DEF StopWaits, Control, Visits, VisitsOfS, StartPhase, ResetPhase, firmware, streams
<1>3. Moved(S(q), "offLock", q)
  BY <1>0, <1>2, GotoMoves, PlaceParts DEF StopWaits, StopPhase, Moved, Typed
<1>4. Control'
  BY <1>0, <1>1, <1>2, <1>3, StopWaitsControl
<1>5. ~ Resets(q)'
  BY <1>3 DEF Moved, Resets, StartPhase, ResetPhase
<1>6. Started(q)
  BY <1>0, <1>2 DEF NodeInv, Mode, Stopped, Opening, Starting, Leaving, Ending, Interrupted, Lost, Down,
     Resets, StartPhase, ResetPhase
<1> QED
  BY <1>1, <1>2, <1>3, <1>4, <1>5, <1>6, QuietMove DEF Quiet

\* The lists are empty, but of a node that a reset has lost.
LEMMA StopEndsHolds ==
  ASSUME IInv, NEW q \in Node, Typed', Works(S(q), q), Control', Scans',
         NotAtWork(S(q)), Moved(S(q), "idle", q), lock'[q] = NoThread,
         \A b \in BufsOf(q) : vb'[b] = "user", q \notin ssc',
         UNCHANGED << incoming, active, fw, open, pipe, nr, streaming, started, reset, lost >>,
         Ending(q) \/ Lost(q), pc[B(q)] \notin StartPhase
  PROVE  IInv'
<1> USE ThreadFacts
<1>0. Typed /\ Control /\ Scans /\ NodeInv(q)
  BY DEF IInv
<1>1. pc'[S(q)] = "idle" /\ pc'[B(q)] = pc[B(q)] /\ on'[B(q)] = on[B(q)]
  BY DEF Moved, Works, Moves
<1>2. (\A x : ~ Doing(q, x)') /\ ~ Starts(q)'
  BY NobodyThen
<1>3. Down(q) /\ q \notin reset /\ (q \notin lost => incoming[q] = << >> /\ active[q] = << >>)
  BY DEF Ending, Lost
<1>4. Mode(q)'
  <2>1. Stopped(q)'
    BY <1>1, <1>3 DEF Stopped, Down
  <2> QED
    BY <1>0, <1>1, <1>2, <1>3, <2>1 DEF NodeInv, Mode, Down
<1>5. active[q] = << >> /\ fw[q] = << >>
  <2>1. ~ Doing(q, "await")
    <3>1. ~ Starts(q)
      BY <1>0, <1>3 DEF NodeInv, Mode, Down
    <3> QED
      BY <3>1 DEF Starts, StartPhase
  <2> QED
    BY <1>0, <1>3, <2>1 DEF NodeInv, Frames, Down, Lost, Ending
<1>6. Frames(q)'
  BY <1>2, <1>3, <1>5 DEF Frames, Down
<1>7. Lists(q)'
  <2>1. Owned(q)' = {} /\ InHand(q)' = {}
    BY <1>2 DEF Owned, InHand
  <2>2. incoming[q] \in Seq(BufsOf(q)) /\ active[q] \in Seq(BufsOf(q))
    BY <1>0 DEF NodeInv, Lists
  <2> QED
    BY <1>2, <1>3, <2>1, <2>2, EmptyList DEF Lists
<1>8. Calm(q)'
  BY <1>0, <1>3 DEF NodeInv, Mode, Down, Calm
<1> QED
  BY <1>0, <1>4, <1>6, <1>7, <1>8, StepKeeps DEF NodeInv

LEMMA EndsStopFacts ==
  ASSUME IInv, NEW q \in Node, EndsStop(q), pc[S(q)] \in {"offWait", "offEnd", "reset"}
  PROVE  /\ Typed' /\ Works(S(q), q) /\ on[S(q)] = q /\ Moved(S(q), "idle", q) /\ lock'[q] = NoThread
         /\ \A b \in BufsOf(q) : vb'[b] = "user"
         /\ q \notin ssc'
         /\ UNCHANGED << incoming, active, fw, open, fwUp, pipe, nr, streaming, started, reset, lost, flags >>
         /\ Scans'
<1> USE ThreadFacts
<1>0. Typed /\ Control /\ Scans
  BY DEF IInv
<1>1. Typed' /\ Works(S(q), q)
  BY <1>0, EndsStopEffect
<1>2. /\ on[S(q)] = q /\ lock'[q] = NoThread /\ q \notin ssc'
      /\ UNCHANGED << incoming, active, fw, open, fwUp, pipe, nr, streaming, started, reset, lost, flags >>
  BY <1>0 DEF EndsStop, StopEnds, Unlocks, Locks, Control, Visits, VisitsOfS, StartPhase, ResetPhase, firmware,
     locals, Typed, TypedControl
<1>3. Moved(S(q), "idle", q)
  BY <1>0, <1>2, GotoMoves, PlaceParts DEF EndsStop, StopEnds, RestPhase, Moved, Typed
<1>4. \A b \in BufsOf(q) : vb'[b] = "user"
  BY <1>0, BufFacts, HandChanges DEF EndsStop, StopEnds, Typed
<1>5. ~ Resets(q)'
  BY <1>3 DEF Moved, Resets, StartPhase, ResetPhase
<1>6. Scans'
  BY <1>0, <1>1, <1>2, <1>5, ScansOthers DEF Works, Control, flags
<1> QED
  BY <1>1, <1>2, <1>3, <1>4, <1>6

\* No stream waits for a reset when none is under way.
LEMMA StopReturnsUnlockedHolds == ASSUME IInv, NEW q \in Node, StopReturnsUnlocked(q) PROVE IInv'
<1> USE ThreadFacts
<1>0. Typed /\ Control /\ Scans /\ NodeInv(q)
  BY DEF IInv
<1>1. EndsStop(q) /\ pc[S(q)] = "offWait" /\ ~ inReset /\ q \notin started
  BY DEF StopReturnsUnlocked, EndsStop
<1>2. /\ Typed' /\ Works(S(q), q) /\ on[S(q)] = q /\ Moved(S(q), "idle", q) /\ lock'[q] = NoThread
      /\ \A b \in BufsOf(q) : vb'[b] = "user"
      /\ q \notin ssc'
      /\ UNCHANGED << incoming, active, fw, open, fwUp, pipe, nr, streaming, started, reset, lost, flags >>
      /\ Scans'
  BY <1>1, EndsStopFacts
<1>3. \A r \in Node : ~ Resets(r)
  BY <1>0, <1>1 DEF Control, Flags
<1>4. pc[B(q)] \notin StartPhase
  BY <1>0, <1>1 DEF NodeInv, Mode, Started
<1>5. ~ HoldsLock(S(q), q) /\ ~ HoldsLock(B(q), q)
  BY <1>0, <1>1, <1>3, <1>4 DEF HoldsLock, HoldPhase, StartPhase, ResetPhase, Control, Visits, VisitsOfB
<1>6. lock[q] = NoThread
  <2> SUFFICES ASSUME NEW t \in Thread, HoldsLock(t, q) PROVE FALSE
    BY <1>0 DEF Control, Locked, Typed, TypedControl
  <2>1. t = S(t[1]) /\ t[1] # q /\ on[t] = q /\ pc[t] \in StartPhase \cup {"flushOther"}
    BY <1>0, <1>5 DEF HoldsLock, Control, Visits, VisitsOfB
  <2>2. Resets(t[1])
    BY <2>1 DEF Resets, ResetPhase
  <2> QED
    BY <1>3, <2>2
<1>7. Lost(q)
  BY <1>0, <1>1, <1>6, FreeModes DEF Stopped, Opening, Started, Interrupted, Scans
<1>8. Control'
  BY <1>0, <1>1, <1>2, <1>6, QuietControl DEF Quiet, flags
<1> QED
  BY <1>1, <1>2, <1>4, <1>7, <1>8, StopEndsHolds DEF NotAtWork, StartPhase

\* A stop that has the mutex ends.
LEMMA EndsStopHolds ==
  ASSUME IInv, NEW q \in Node, EndsStop(q), pc[S(q)] \in {"offEnd", "reset"} PROVE IInv'
<1> USE ThreadFacts
<1>0. Typed /\ Control /\ Scans /\ NodeInv(q)
  BY DEF IInv
<1>1. /\ Typed' /\ Works(S(q), q) /\ on[S(q)] = q /\ Moved(S(q), "idle", q) /\ lock'[q] = NoThread
      /\ \A b \in BufsOf(q) : vb'[b] = "user"
      /\ q \notin ssc'
      /\ UNCHANGED << incoming, active, fw, open, fwUp, pipe, nr, streaming, started, reset, lost, flags >>
      /\ Scans'
  BY EndsStopFacts
<1>2. ~ Starting(q) /\ pc[B(q)] \notin StartPhase
  <2>1. lock[q] = S(q)
    BY <1>0 DEF Control, Locked, HoldsLock, HoldPhase
  <2>2. ~ Starts(q)
    BY <2>1 DEF Starts, Doing, StartPhase
  <2> QED
    BY <1>0, <2>2 DEF Starting, NodeInv, Mode, Started
<1>3. Ending(q)
  BY <1>0, <1>2 DEF NodeInv, Mode, Stopped, Opening, Started, Leaving, Interrupted, Lost
<1>4. Control'
  BY <1>0, <1>1, StopControl DEF Stopping, flags
<1> QED
  BY <1>1, <1>2, <1>3, <1>4, StopEndsHolds DEF NotAtWork, StartPhase

\* A step of S(q), which has the mutex or takes it, towards the end of a stop.
LEMMA StopMoves ==
  ASSUME IInv, NEW q \in Node, Typed', Works(S(q), q), Control', NotAtWork(S(q)),
         NEW s \in {"flush", "offReturn", "offEnd", "reset", "quiesce"}, Moved(S(q), s, q), lock'[q] = S(q),
         IF s = "quiesce" THEN ~ inReset /\ reset' = reset ELSE inReset' = inReset /\ reset' = reset,
         streaming' \subseteq streaming,
         Mode(q)', Frames(q)', Lists(q)'
  PROVE  IInv'
<1> USE ThreadFacts
<1>0. Typed /\ Control /\ Scans
  BY DEF IInv
<1>1. Scans'
  <2>1. CASE s = "quiesce"
    <3>1. reset' = {}
      BY <1>0, <2>1 DEF Scans
    <3>2. Resets(q)' /\ Scan(q)'
      BY <2>1, <3>1 DEF Scan, Moved, Resets, StartPhase, ResetPhase
    <3> QED
      BY <3>2, ScansOwn DEF Control
  <2>2. CASE s # "quiesce"
    <3>1. ~ Resets(q)'
      BY <2>2 DEF Moved, Resets, StartPhase, ResetPhase
    <3> QED
      BY <1>0, <2>2, <3>1, ScansOthers DEF Works, Control
  <2> QED
    BY <2>1, <2>2
<1>2. Calm(q)'
  <2>1. lock'[q] # NoThread
    OBVIOUS
  <2> QED
    BY <2>1 DEF Calm, Free
<1> QED
  BY <1>0, <1>1, <1>2, StepKeeps DEF NodeInv

LEMMA StopsRunningHolds == ASSUME IInv, NEW q \in Node, StopsRunning(q) PROVE IInv'
<1> USE ThreadFacts
<1>0. Typed /\ Control /\ Scans /\ NodeInv(q)
  BY DEF IInv
<1>1. Typed' /\ Works(S(q), q)
  BY <1>0, StopsRunningEffect
<1>2. /\ pc[S(q)] = "offLock" /\ on[S(q)] = q /\ lock[q] = NoThread /\ lock'[q] = S(q)
      /\ q \in streaming
      /\ UNCHANGED << flags, streams, locals, lists, firmware >>
      /\ UNCHANGED << inReset, inStop, incoming, active, vb, taken, fw, open, fwUp, lost, streaming, reset, nr >>
  BY <1>0 DEF StopsRunning, Control, Visits, VisitsOfS, StartPhase, ResetPhase, Free, Locks, firmware, lists,
     locals, streams, flags, Typed, TypedControl
<1>3. Moved(S(q), "flush", q) /\ pc'[B(q)] = pc[B(q)] /\ on'[B(q)] = on[B(q)]
  BY <1>0, <1>1, <1>2, GotoMoves, PlaceParts DEF StopsRunning, StopPhase, Moved, Works, Moves, Typed
<1>4. Control'
  BY <1>0, <1>1, <1>2, <1>3, StopControl DEF Stopping
<1>5. (\A x : ~ Doing(q, x)) /\ ~ Starts(q)
  BY <1>2, NobodyNow
<1>6. (\A x : Doing(q, x)' <=> x = "flush") /\ ~ Starts(q)'
  BY <1>2, <1>3, HolderThen DEF StartPhase
<1>7. Started(q) /\ pc[B(q)] \notin StartPhase /\ q \notin reset
  BY <1>0, <1>2, FreeModes DEF Stopped, Opening, Interrupted, Lost
<1>8. Mode(q)'
  <2>1. Started(q)'
    BY <1>2, <1>3, <1>6, <1>7 DEF Started, Moved, streams
  <2> QED
    BY <1>0, <1>2, <1>3, <1>6, <1>7, <2>1 DEF NodeInv, Mode, Moved, streams
<1>9. Frames(q)'
  BY <1>0, <1>2, <1>5, <1>6 DEF NodeInv, Frames
<1>10. Lists(q)'
  <2>1. Owned(q)' = Owned(q) /\ InHand(q)' = {} /\ InHand(q) = {}
    BY <1>2, <1>5, <1>6 DEF Owned, InHand
  <2> QED
    BY <1>0, <1>2, <1>6, <2>1 DEF NodeInv, Lists, streams
<1> QED
  BY <1>1, <1>2, <1>3, <1>4, <1>8, <1>9, <1>10, StopMoves DEF NotAtWork, StartPhase

LEMMA StopsIdleHolds == ASSUME IInv, NEW q \in Node, StopsIdle(q) PROVE IInv'
<1> USE ThreadFacts
<1>0. Typed /\ Control /\ Scans /\ NodeInv(q)
  BY DEF IInv
<1>1. Typed' /\ Works(S(q), q)
  BY <1>0, StopsIdleEffect
<1>2. /\ pc[S(q)] = "offLock" /\ on[S(q)] = q /\ lock[q] = NoThread /\ lock'[q] = S(q)
      /\ nr[q] # 1 \/ q \notin streaming
      /\ pipe' = pipe \ {q} /\ nr'[q] = nr[q] - 1 /\ streaming' = streaming \ {q}
      /\ UNCHANGED << inReset, inStop, incoming, active, vb, taken, fw, open, fwUp, lost, reset, ssc, started >>
  BY <1>0 DEF StopsIdle, Control, Visits, VisitsOfS, StartPhase, ResetPhase, Free, Locks, firmware, lists,
     locals, flags, Typed, TypedControl, TypedStreams
<1>3. Moved(S(q), "offReturn", q) /\ pc'[B(q)] = pc[B(q)] /\ on'[B(q)] = on[B(q)]
  BY <1>0, <1>1, <1>2, GotoMoves, PlaceParts DEF StopsIdle, StopPhase, Moved, Works, Moves, Typed
<1>4. Control'
  BY <1>0, <1>1, <1>2, <1>3, StopControl DEF Stopping
<1>5. (\A x : ~ Doing(q, x)) /\ ~ Starts(q)
  BY <1>2, NobodyNow
<1>6. (\A x : Doing(q, x)' <=> x = "offReturn") /\ ~ Starts(q)'
  BY <1>2, <1>3, HolderThen DEF StartPhase
<1>7. Started(q) /\ pc[B(q)] \notin StartPhase /\ q \notin reset
  BY <1>0, <1>2, FreeModes DEF Stopped, Opening, Interrupted, Lost
<1>8. nr[q] = 1 /\ q \notin streaming
  BY <1>0, <1>2, <1>7 DEF NodeInv, Mode, Started
<1>9. Mode(q)'
  <2>1. Leaving(q)'
    BY <1>2, <1>3, <1>7 DEF Started, Leaving, Moved
  <2>2. nr'[q] = 0
    BY <1>2, <1>8
  <2> QED
    BY <1>2, <1>3, <1>6, <1>7, <1>8, <2>1, <2>2 DEF Mode, Moved
<1>10. Frames(q)'
  <2>1. fw[q] = << >>
    BY <1>0, <1>2, <1>8, FreeModes
  <2> QED
    BY <1>2, <1>3, <1>6, <1>8, <2>1 DEF Frames, Moved
<1>11. Lists(q)'
  <2>1. Owned(q)' = Owned(q) /\ InHand(q)' = {} /\ InHand(q) = {}
    BY <1>2, <1>5, <1>6 DEF Owned, InHand
  <2> QED
    BY <1>0, <1>2, <1>6, <2>1 DEF NodeInv, Lists
<1> QED
  BY <1>1, <1>2, <1>3, <1>4, <1>9, <1>10, <1>11, StopMoves DEF NotAtWork, StartPhase

LEMMA StopFlushesHolds == ASSUME IInv, NEW q \in Node, StopFlushes(q) PROVE IInv'
<1> USE ThreadFacts
<1>0. Typed /\ Control /\ Scans /\ NodeInv(q)
  BY DEF IInv
<1>1. Typed' /\ Works(S(q), q)
  BY <1>0, StopFlushesEffect
<1>2. /\ pc[S(q)] = "flush" /\ on[S(q)] = q /\ lock[q] = S(q) /\ lock'[q] = S(q)
      /\ pipe' = pipe \ {q} /\ nr'[q] = nr[q] - 1 /\ streaming' = streaming \ {q} /\ fw'[q] = << >>
      /\ UNCHANGED << inReset, inStop, incoming, active, vb, taken, fwUp, lost, reset, ssc, started >>
  <2>1. lock[q] = S(q)
    BY <1>0 DEF StopFlushes, Control, Locked, HoldsLock, HoldPhase
  <2>2. pc[S(q)] = "flush" /\ on[S(q)] = q
    BY <1>0 DEF StopFlushes, Control, Visits, VisitsOfS, StartPhase, ResetPhase
  <2>3. /\ pipe' = pipe \ {q} /\ streaming' = streaming \ {q} /\ nr'[q] = nr[q] - 1
        /\ UNCHANGED << inReset, inStop, incoming, active, vb, taken, fwUp, lock, lost, reset, ssc, started >>
    BY <1>0 DEF StopFlushes, Flush, LeavePipeline, lists, locals, flags, Typed, TypedStreams
  <2>4. fw'[q] = << >>
    BY <1>0 DEF StopFlushes, Flush, Typed, TypedLists
  <2> QED
    BY <2>1, <2>2, <2>3, <2>4
<1>3. Moved(S(q), "offReturn", q) /\ pc'[B(q)] = pc[B(q)] /\ on'[B(q)] = on[B(q)]
  BY <1>0, <1>1, <1>2, GotoMoves, PlaceParts DEF StopFlushes, StopPhase, Moved, Works, Moves, Typed
<1>4. Control'
  BY <1>0, <1>1, <1>2, <1>3, StopControl DEF Stopping
<1>5. (\A x : Doing(q, x) => x = "flush") /\ ~ Starts(q)
  BY <1>2 DEF Doing, Starts, StartPhase
<1>6. (\A x : Doing(q, x)' <=> x = "offReturn") /\ ~ Starts(q)'
  BY <1>2, <1>3, HolderThen DEF StartPhase
<1>7. q \in streaming /\ Started(q) /\ q \notin reset
  <2>1. q \in streaming
    BY <1>0, <1>2 DEF NodeInv, Mode
  <2>2. Started(q)
    BY <1>0, <1>2, <1>5, <2>1 DEF NodeInv, Mode, Stopped, Opening, Starting, Leaving, Ending, Interrupted,
       Lost, Down
  <2> QED
    BY <1>5, <2>1, <2>2 DEF Started
<1>8. nr[q] = 1 /\ pc[B(q)] \notin StartPhase
  <2>1. nr[q] = 1
    BY <1>0, <1>7 DEF NodeInv, Mode, Started
  <2>2. ~ HoldsLock(B(q), q)
    BY <1>0, <1>2 DEF Control, Locked
  <2> QED
    BY <1>0, <2>1, <2>2 DEF HoldsLock, Control, Visits, VisitsOfB
<1>9. Mode(q)'
  <2>1. Leaving(q)'
    BY <1>2, <1>3, <1>7 DEF Started, Leaving, Moved
  <2>2. nr'[q] = 0
    BY <1>2, <1>8
  <2> QED
    BY <1>2, <1>3, <1>6, <1>8, <2>1, <2>2 DEF Mode, Moved
<1>10. Frames(q)'
  BY <1>2, <1>3, <1>6 DEF Frames, Moved
<1>11. Lists(q)'
  <2>1. Owned(q)' = Owned(q) /\ InHand(q)' = {} /\ InHand(q) = {}
    BY <1>2, <1>5, <1>6 DEF Owned, InHand
  <2> QED
    BY <1>0, <1>2, <1>6, <2>1 DEF NodeInv, Lists
<1> QED
  BY <1>1, <1>2, <1>3, <1>4, <1>9, <1>10, <1>11, StopMoves DEF NotAtWork, StartPhase

LEMMA StopReturnsBuffersHolds == ASSUME IInv, NEW q \in Node, StopReturnsBuffers(q) PROVE IInv'
<1> USE ThreadFacts
<1>0. Typed /\ Control /\ Scans /\ NodeInv(q)
  BY DEF IInv
<1>a. incoming[q] \in Seq(BufsOf(q)) /\ active[q] \in Seq(BufsOf(q))
  BY <1>0 DEF NodeInv, Lists
<1>1. Typed' /\ Works(S(q), q)
  BY <1>0, <1>a, StopReturnsBuffersEffect
<1>2. /\ pc[S(q)] = "offReturn" /\ on[S(q)] = q /\ lock[q] = S(q) /\ lock'[q] = S(q)
      /\ incoming'[q] = << >> /\ active'[q] = << >> /\ started' = started \ {q}
      /\ UNCHANGED << inReset, pipe, nr, streaming, taken, fw, open, fwUp, lost, reset, ssc >>
  <2>1. lock[q] = S(q)
    BY <1>0 DEF StopReturnsBuffers, Control, Locked, HoldsLock, HoldPhase
  <2> QED
    BY <1>0, <2>1 DEF StopReturnsBuffers, ReturnBuffers, Control, Visits, VisitsOfS, StartPhase, ResetPhase,
       firmware, locals, Typed, TypedLists
<1>3. Moved(S(q), "offEnd", q) /\ pc'[B(q)] = pc[B(q)] /\ on'[B(q)] = on[B(q)]
  BY <1>0, <1>1, <1>2, GotoMoves, PlaceParts DEF StopReturnsBuffers, StopPhase, Moved, Works, Moves, Typed
<1>4. Control'
  BY <1>0, <1>1, <1>2, <1>3, StopControl DEF Stopping
<1>5. (\A x : Doing(q, x) => x = "offReturn") /\ ~ Starts(q)
  BY <1>2 DEF Doing, Starts, StartPhase
<1>6. (\A x : Doing(q, x)' <=> x = "offEnd") /\ ~ Starts(q)'
  BY <1>2, <1>3, HolderThen DEF StartPhase
<1>7. Leaving(q)
  BY <1>0, <1>2, <1>5 DEF NodeInv, Mode, Stopped, Opening, Starting, Started, Ending, Interrupted, Lost, Resets,
     StartPhase, ResetPhase
<1>8. nr[q] = 0 /\ pc[B(q)] \notin StartPhase
  BY <1>0, <1>2, <1>7 DEF NodeInv, Mode, Leaving, Started
<1>9. Mode(q)'
  <2>1. Ending(q)'
    BY <1>2, <1>3, <1>7 DEF Leaving, Ending, Down, Moved
  <2> QED
    BY <1>2, <1>3, <1>6, <1>7, <1>8, <2>1 DEF Mode, Moved, Leaving
<1>10. Frames(q)'
  <2>1. fw[q] = << >> /\ q \notin streaming
    BY <1>0, <1>5, <1>7 DEF NodeInv, Frames, Leaving
  <2> QED
    BY <1>2, <1>6, <2>1 DEF Frames
<1>11. Lists(q)'
  <2>1. InHand(q)' = {} /\ InHand(q) = {}
    BY <1>5, <1>6 DEF InHand
  <2>2. Owned(q) = Range(incoming[q]) \cup Range(active[q])
    BY <1>0, <1>7, <2>1 DEF NodeInv, Lists, Leaving
  <2>3. \A b \in Buf : vb'[b] = IF b \in Range(incoming[q]) \cup Range(active[q]) THEN "vb2" ELSE vb[b]
    BY <1>0, HandChanges DEF StopReturnsBuffers, ReturnBuffers, Typed
  <2>4. Owned(q)' = {}
    BY <2>2, <2>3, BufFacts DEF Owned
  <2> QED
    BY <1>2, <1>6, <2>1, <2>4, EmptyList DEF Lists
<1> QED
  BY <1>1, <1>2, <1>3, <1>4, <1>9, <1>10, <1>11, StopMoves DEF NotAtWork, StartPhase

LEMMA EndingMoves ==
  ASSUME IInv, NEW q \in Node, StopResets(q) \/ (ResetsFirst(q) /\ \A t \in Thread : pc[t] \notin StartPhase)
  PROVE  IInv'
<1> USE ThreadFacts
<1>0. Typed /\ Control /\ Scans /\ NodeInv(q)
  BY DEF IInv
<1>1. Typed' /\ Works(S(q), q)
  BY <1>0, StopResetsEffect, ResetsFirstEffect
<1>2. PICK s \in {"reset", "quiesce"} :
        /\ Goto(S(q), s)
        /\ IF s = "quiesce" THEN ResetsFirst(q) /\ \A t \in Thread : pc[t] \notin StartPhase
                            ELSE StopResets(q)
  BY DEF StopResets, ResetsFirst
<1>3. /\ pc[S(q)] = IF s = "quiesce" THEN "reset" ELSE "offEnd"
      /\ on[S(q)] = q /\ lock[q] = S(q)
      /\ UNCHANGED << inStop, lock, streams >>
      /\ UNCHANGED << pipe, nr, streaming, taken, vb, incoming, active, fw, open, fwUp, lost, reset, ssc, started >>
      /\ IF s = "quiesce" THEN ~ inReset /\ inReset' ELSE inReset' = inReset
  <2>1. pc[S(q)] = IF s = "quiesce" THEN "reset" ELSE "offEnd"
    BY <1>2 DEF StopResets, ResetsFirst
  <2>2. lock[q] = S(q) /\ on[S(q)] = q
    BY <1>0, <2>1 DEF Control, Locked, HoldsLock, HoldPhase, Visits, VisitsOfS, StartPhase, ResetPhase
  <2>3. UNCHANGED << inStop, lock, streams, lists, firmware, locals >>
    BY <1>2 DEF StopResets, ResetsFirst, flags
  <2>4. IF s = "quiesce" THEN ~ inReset /\ inReset' ELSE inReset' = inReset
    BY <1>2 DEF StopResets, ResetsFirst, flags
  <2> QED
    BY <2>1, <2>2, <2>3, <2>4 DEF lists, firmware, locals, streams
<1>4. Moved(S(q), s, q) /\ pc'[B(q)] = pc[B(q)] /\ on'[B(q)] = on[B(q)]
  BY <1>0, <1>1, <1>2, <1>3, GotoMoves, PlaceParts DEF StopPhase, ResetPhase, Moved, Works, Moves, Typed
<1>5. Control'
  <2>1. CASE s = "quiesce"
    BY <1>0, <1>1, <1>2, <1>3, <1>4, <2>1, ResetsFirstControl
  <2>2. CASE s = "reset"
    BY <1>0, <1>1, <1>3, <1>4, <2>2, StopControl DEF Stopping
  <2> QED
    BY <2>1, <2>2
<1>6. (\A x \in StartPhase \cup {"flushOther"} : ~ Doing(q, x)) /\ ~ Starts(q)
  BY <1>3 DEF Doing, Starts, StartPhase
<1>7. (\A x : Doing(q, x)' <=> x = s) /\ ~ Starts(q)'
  BY <1>3, <1>4, HolderThen DEF StartPhase
<1>8. Ending(q)
  BY <1>0, <1>3, <1>6 DEF NodeInv, Mode, Stopped, Opening, Starting, Started, Leaving, Interrupted, Lost
<1>9. nr[q] = 0 /\ pc[B(q)] \notin StartPhase
  BY <1>0, <1>8 DEF NodeInv, Mode, Ending, Started, Down
<1>10. Mode(q)'
  <2>1. Ending(q)'
    BY <1>3, <1>4, <1>8 DEF Ending, Down, Moved, Resets, ResetPhase
  <2> QED
    BY <1>3, <1>4, <1>7, <1>8, <1>9, <2>1 DEF Mode, Moved, Ending, Down
<1>11. Frames(q)'
  BY <1>0, <1>3, <1>4, <1>6, <1>7, <1>8 DEF NodeInv, Frames, Ending, Down, StartPhase
<1>12. Lists(q)'
  <2>1. Owned(q)' = Owned(q) /\ InHand(q)' = {} /\ InHand(q) = {}
    BY <1>3, <1>6, <1>7 DEF Owned, InHand, StartPhase
  <2> QED
    BY <1>0, <1>3, <1>7, <2>1 DEF NodeInv, Lists
<1> QED
  BY <1>1, <1>3, <1>4, <1>5, <1>10, <1>11, <1>12, StopMoves DEF NotAtWork, StartPhase

LEMMA ResetsApart == ASSUME StartsApart, MayReset PROVE \A t \in Thread : pc[t] \notin StartPhase
BY DEF StartsApart, MayReset, Overlap

LEMMA StopReturnsHolds ==
  ASSUME IInv, StartsApart, NEW q \in Node, StopReturns(q) \/ ResetBegins(q) PROVE IInv'
BY StopReturnsParts, ResetBeginsParts, EndsStopHolds, EndingMoves, ResetsApart DEF ResetsFirst

-----------------------------------------------------------------------------
(* The reset *)

\* A step that leaves all nodes as they are.
LEMMA ResetMoves ==
  ASSUME IInv, NEW q \in Node, Typed', Works(S(q), q), UNCHANGED << lists, fw, open, streams, lock, locals >>,
         pc[S(q)] \in ResetPhase \ {"resetEnds", "flushOther"},
         NEW s \in ResetPhase \ {"quiesce", "flushOther"}, NEW m, Moved(S(q), s, m),
         pc[S(q)] = "quiesce" => ~ inStop, fwUp' \/ s = "powerUp",
         inReset' = inReset, inStop' = inStop, Scan(q)'
  PROVE  IInv'
<1> USE ThreadFacts
<1>0. Typed /\ Control /\ Scans /\ NodeInv(q)
  BY DEF IInv
<1>1. Resets(q) /\ Resets(q)'
  BY DEF Resets, Moved
<1>2. lock' = lock /\ Moves(S(q)) /\ Untouched(q)
  BY DEF lists, streams, locals, Works, Untouched, Still
<1>3. Control'
  BY <1>0, <1>2, ResetControl
<1>4. Scans'
  BY <1>1, <1>3, ScansOwn DEF Control
<1>5. NodeInv(q)'
  BY <1>0, <1>1, <1>2, <1>3, ResetterKept DEF Control
<1>6. NotAtWork(S(q))
  BY DEF NotAtWork, ResetPhase, StartPhase
<1> QED
  BY <1>3, <1>4, <1>5, <1>6, StepKeeps

LEMMA OnNode ==
  ASSUME Typed, NEW t \in Thread
  PROVE  /\ on[t] \in Int /\ 1 <= on[t] /\ on[t] <= Nodes + 1
         /\ on[t] \notin Node => on[t] = Nodes + 1
         /\ Nodes \in Nat /\ \A r \in Node : r \in Int /\ 1 <= r /\ r <= Nodes
<1>1. on[t] \in 1 .. Nodes + 1 /\ Nodes \in Nat
  BY ResetAssumption DEF Typed, TypedControl
<1> QED
  BY <1>1 DEF Node

LEMMA ResetMovingFacts ==
  ASSUME IInv, NEW q \in Node,
         ResetWaits(q) \/ ResetSkips(q) \/ ResetScanned(q) \/ RestartSkips(q) \/ Restarted(q)
  PROVE  /\ Typed' /\ Works(S(q), q) /\ UNCHANGED << lists, firmware, streams, lock, locals, flags >>
         /\ UNCHANGED << fw, open, fwUp, streaming, reset, inReset, inStop >>
<1>1. Typed
  BY DEF IInv
<1>2. Typed' /\ Works(S(q), q) /\ UNCHANGED << lists, firmware, streams, lock, locals >>
  BY <1>1, MovingSteps
<1>3. UNCHANGED flags
  BY DEF ResetWaits, ResetSkips, ResetScanned, RestartSkips, Restarted
<1> QED
  BY <1>2, <1>3 DEF firmware, streams, flags

LEMMA ResetWaitsHolds == ASSUME IInv, NEW q \in Node, ResetWaits(q) PROVE IInv'
<1> USE ThreadFacts
<1>0. Typed /\ Control /\ Scans /\ NodeInv(q)
  BY DEF IInv
<1>1. /\ Typed' /\ Works(S(q), q) /\ UNCHANGED << lists, firmware, streams, lock, locals, flags >>
      /\ UNCHANGED << fw, open, fwUp, streaming, reset, inReset, inStop >>
  BY ResetMovingFacts
<1>2. pc[S(q)] = "quiesce" /\ ~ inStop
  BY DEF ResetWaits
<1>3. Moved(S(q), "scan", 1)
  BY <1>0, <1>1, VisitMoves, NextNode, PlaceParts DEF ResetWaits, ResetPhase, Moved, Typed
<1>4. fwUp'
  <2>1. \A r \in Node : pc[S(r)] # "powerUp"
    BY <1>0, <1>2 DEF Control, Flags, Resets, ResetPhase
  <2> QED
    BY <1>0, <1>1, <2>1 DEF Control, Flags
<1>5. Scan(q)'
  <2>1. \A r \in Node : ~ (r < 1)
    BY <1>0, OnNode
  <2> QED
    BY <1>3, <2>1 DEF Scan, Moved, StartPhase
<1> QED
  BY <1>1, <1>2, <1>3, <1>4, <1>5, ResetMoves DEF ResetPhase

\* While the firmware is up for its reset.
LEMMA ResetHasFirmware ==
  ASSUME Control, NEW q \in Node, Resets(q), pc[S(q)] # "powerUp" PROVE fwUp
<1>1. \A r \in Node : pc[S(r)] = "powerUp" => Resets(r)
  BY DEF Resets, ResetPhase
<1> QED
  BY <1>1 DEF Control, Flags

LEMMA ResetSkipsHolds == ASSUME IInv, NEW q \in Node, ResetSkips(q) PROVE IInv'
<1> USE ThreadFacts
<1>0. Typed /\ Control /\ Scans /\ NodeInv(q)
  BY DEF IInv
<1>1. /\ Typed' /\ Works(S(q), q) /\ UNCHANGED << lists, firmware, streams, lock, locals, flags >>
      /\ UNCHANGED << fw, open, fwUp, streaming, reset, inReset, inStop >>
  BY ResetMovingFacts
<1>2. PICK r \in Node : /\ r = on[S(q)] /\ pc[S(q)] = "scan"
                        /\ r = q \/ r \notin pipe \/ (Free(r) /\ r \notin started)
                        /\ Visit(S(q), "scan", r + 1)
  BY DEF ResetSkips
<1>3. Moved(S(q), "scan", r + 1)
  BY <1>0, <1>1, <1>2, VisitMoves, NextNode, PlaceParts DEF ResetPhase, Moved, Typed
<1>4. Resets(q)
  BY <1>2 DEF Resets, ResetPhase
<1>5. fwUp'
  BY <1>0, <1>1, <1>2, <1>4, ResetHasFirmware
<1>6. r \notin streaming
  <2>0. NodeInv(r)
    BY DEF IInv
  <2>1. CASE r = q
    BY <1>0, <1>4, <2>1, ResetterMode DEF Control, Ending, Down
  <2>2. CASE r \notin pipe
    BY <2>0, <2>2 DEF NodeInv, Mode, Stopped, Opening, Starting, Started, Leaving, Ending, Interrupted, Lost, Down
  <2>3. CASE Free(r) /\ r \notin started
    BY <1>0, <2>0, <2>3, FreeModes DEF Free, Stopped, Opening, Started, Interrupted, Lost, Down
  <2> QED
    BY <1>2, <2>1, <2>2, <2>3
<1>7. Scan(q)'
  <2>1. ASSUME NEW x \in Node, x < r + 1 PROVE x \notin streaming
    <3>1. x < r \/ x = r
      BY <1>0, <2>1, OnNode
    <3> QED
      BY <1>0, <1>2, <1>6, <3>1 DEF Scans, Scan
  <2> QED
    BY <1>1, <1>3, <2>1 DEF Scan, Moved, StartPhase
<1>8. pc[S(q)] \in ResetPhase \ {"resetEnds", "flushOther"} /\ pc[S(q)] # "quiesce"
      /\ "scan" \in ResetPhase \ {"quiesce", "flushOther"}
  BY <1>2 DEF ResetPhase
<1> QED
  BY <1>1, <1>3, <1>5, <1>7, <1>8, ResetMoves

LEMMA ResetScannedHolds == ASSUME IInv, NEW q \in Node, ResetScanned(q) PROVE IInv'
<1> USE ThreadFacts
<1>0. Typed /\ Control /\ Scans /\ NodeInv(q)
  BY DEF IInv
<1>1. /\ Typed' /\ Works(S(q), q) /\ UNCHANGED << lists, firmware, streams, lock, locals, flags >>
      /\ UNCHANGED << fw, open, fwUp, streaming, reset, inReset, inStop >>
  BY ResetMovingFacts
<1>2. PICK s \in {"resetEnds", "powerDown"} :
        /\ pc[S(q)] = "scan" /\ on[S(q)] \notin Node
        /\ s = "resetEnds" => reset = {}
        /\ Goto(S(q), s)
  BY DEF ResetScanned
<1>3. Moved(S(q), s, on[S(q)])
  BY <1>0, <1>1, <1>2, GotoMoves, PlaceParts DEF ResetPhase, Moved, Typed
<1>4. Resets(q)
  BY <1>2 DEF Resets, ResetPhase
<1>5. fwUp'
  BY <1>0, <1>1, <1>2, <1>4, ResetHasFirmware
<1>6. streaming = {}
  <2>1. \A r \in Node : r < on[S(q)]
    BY <1>0, <1>2, OnNode
  <2> QED
    BY <1>0, <1>2, <2>1 DEF Scans, Scan, Typed, TypedStreams
<1>7. Scan(q)'
  BY <1>1, <1>2, <1>3, <1>6 DEF Scan, Moved, StartPhase
<1>8. pc[S(q)] \in ResetPhase \ {"resetEnds", "flushOther"} /\ pc[S(q)] # "quiesce"
      /\ s \in ResetPhase \ {"quiesce", "flushOther"}
  BY <1>2 DEF ResetPhase
<1> QED
  BY <1>1, <1>3, <1>5, <1>7, <1>8, ResetMoves

LEMMA RestartSkipsHolds == ASSUME IInv, NEW q \in Node, RestartSkips(q) PROVE IInv'
<1> USE ThreadFacts
<1>0. Typed /\ Control /\ Scans /\ NodeInv(q)
  BY DEF IInv
<1>1. /\ Typed' /\ Works(S(q), q) /\ UNCHANGED << lists, firmware, streams, lock, locals, flags >>
      /\ UNCHANGED << fw, open, fwUp, streaming, reset, inReset, inStop >>
  BY ResetMovingFacts
<1>2. PICK r \in Node : /\ r = on[S(q)] /\ pc[S(q)] = "restart" /\ r \notin reset
                        /\ Visit(S(q), "restart", r + 1)
  BY DEF RestartSkips
<1>3. Moved(S(q), "restart", r + 1)
  BY <1>0, <1>1, <1>2, VisitMoves, NextNode, PlaceParts DEF ResetPhase, Moved, Typed
<1>4. Resets(q)
  BY <1>2 DEF Resets, ResetPhase
<1>5. fwUp'
  BY <1>0, <1>1, <1>2, <1>4, ResetHasFirmware
<1>6. Scan(q)'
  <2>1. ASSUME NEW x \in reset PROVE x >= r + 1
    <3>1. x >= r /\ x # r /\ x \in Node
      BY <1>0, <1>2 DEF Scans, Scan, Typed, TypedStreams
    <3> QED
      BY <1>0, <3>1, OnNode
  <2> QED
    BY <1>1, <1>3, <2>1 DEF Scan, Moved, StartPhase
<1>7. pc[S(q)] \in ResetPhase \ {"resetEnds", "flushOther"} /\ pc[S(q)] # "quiesce"
      /\ "restart" \in ResetPhase \ {"quiesce", "flushOther"}
  BY <1>2 DEF ResetPhase
<1> QED
  BY <1>1, <1>3, <1>5, <1>6, <1>7, ResetMoves

LEMMA RestartedHolds == ASSUME IInv, NEW q \in Node, Restarted(q) PROVE IInv'
<1> USE ThreadFacts
<1>0. Typed /\ Control /\ Scans /\ NodeInv(q)
  BY DEF IInv
<1>1. /\ Typed' /\ Works(S(q), q) /\ UNCHANGED << lists, firmware, streams, lock, locals, flags >>
      /\ UNCHANGED << fw, open, fwUp, streaming, reset, inReset, inStop >>
  BY ResetMovingFacts
<1>2. pc[S(q)] = "restart" /\ on[S(q)] \notin Node /\ Goto(S(q), "resetEnds")
  BY DEF Restarted
<1>3. Moved(S(q), "resetEnds", on[S(q)])
  BY <1>0, <1>1, <1>2, GotoMoves, PlaceParts DEF ResetPhase, Moved, Typed
<1>4. Resets(q)
  BY <1>2 DEF Resets, ResetPhase
<1>5. fwUp'
  BY <1>0, <1>1, <1>2, <1>4, ResetHasFirmware
<1>6. reset = {}
  <2>1. ASSUME NEW x \in reset PROVE FALSE
    <3>1. x >= on[S(q)] /\ x \in Node
      BY <1>0, <1>2 DEF Scans, Scan, Typed, TypedStreams
    <3> QED
      BY <1>0, <1>2, <3>1, OnNode
  <2> QED
    BY <2>1
<1>7. Scan(q)'
  BY <1>1, <1>3, <1>6 DEF Scan, Moved, StartPhase
<1>8. pc[S(q)] \in ResetPhase \ {"resetEnds", "flushOther"} /\ pc[S(q)] # "quiesce"
      /\ "resetEnds" \in ResetPhase \ {"quiesce", "flushOther"}
  BY <1>2 DEF ResetPhase
<1> QED
  BY <1>1, <1>3, <1>5, <1>7, <1>8, ResetMoves

LEMMA PowerUpHolds == ASSUME IInv, NEW q \in Node, PowerUp(q) PROVE IInv'
<1> USE ThreadFacts
<1>0. Typed /\ Control /\ Scans /\ NodeInv(q)
  BY DEF IInv
<1>1. Typed' /\ Works(S(q), q)
  BY <1>0, PowerUpEffect
<1>2. /\ pc[S(q)] = "powerUp" /\ fwUp' = TRUE
      /\ UNCHANGED << lists, fw, open, streams, lock, locals >>
      /\ UNCHANGED << inReset, inStop, reset, streaming >>
  BY DEF PowerUp, flags, streams
<1>3. Moved(S(q), "restart", 1)
  BY <1>0, VisitMoves, NextNode, PlaceParts DEF PowerUp, ResetPhase, Moved, Typed
<1>4. Scan(q)'
  <2>1. \A x \in reset : x >= 1
    BY <1>0, OnNode DEF Typed, TypedStreams
  <2> QED
    BY <1>2, <1>3, <2>1 DEF Scan, Moved, StartPhase
<1>5. pc[S(q)] \in ResetPhase \ {"resetEnds", "flushOther"} /\ pc[S(q)] # "quiesce"
      /\ "restart" \in ResetPhase \ {"quiesce", "flushOther"}
  BY <1>2 DEF ResetPhase
<1> QED
  BY <1>1, <1>2, <1>3, <1>4, <1>5, ResetMoves

\* While a reset is not at a node itself, nobody starts a stream or flushes one for a reset.
LEMMA ResetAlone ==
  ASSUME Control, NEW q \in Node, Resets(q), NotAtWork(S(q))
  PROVE  \A t \in Thread : NotAtWork(t)
<1> SUFFICES ASSUME NEW t \in Thread, ~ NotAtWork(t) PROVE FALSE
  OBVIOUS
<1> USE ThreadFacts
<1>1. t = S(t[1]) /\ Resets(t[1])
  <2>1. CASE pc[t] \in StartPhase
    BY <2>1 DEF Control, Flags
  <2>2. CASE pc[t] = "flushOther"
    BY <2>2 DEF Control, Visits, VisitsOfB, StartPhase, Resets, ResetPhase
  <2> QED
    BY <2>1, <2>2 DEF NotAtWork
<1>2. t[1] = q
  BY <1>1 DEF Control, Flags
<1> QED
  BY <1>1, <1>2

LEMMA PowerDownHolds == ASSUME IInv, NEW q \in Node, PowerDown(q) PROVE IInv'
<1> USE ThreadFacts
<1>0. Typed /\ Control /\ Scans
  BY DEF IInv
<1>1. /\ pc[S(q)] = "powerDown" /\ fwUp' = FALSE /\ open' = {} /\ fw' = [r \in Node |-> << >>]
      /\ UNCHANGED << vb, incoming, active, taken, streams, inReset, inStop, lock, sawPipe, lost >>
  BY DEF PowerDown, lists, locals
<1>2. Moved(S(q), "powerUp", on[S(q)]) /\ TypedControl' /\ Moves(S(q))
  BY <1>0, <1>1, GotoMoves, PlaceParts DEF PowerDown, ResetPhase, Moved, Typed, TypedControl, Moves
<1>3. Typed'
  <2>1. TypedLists'
    BY <1>0, <1>1, BufLists DEF Typed, TypedLists
  <2>2. TypedStreams'
    BY <1>0, <1>1 DEF Typed, TypedStreams, streams
  <2>3. TypedFlags'
    BY <1>0, <1>1 DEF Typed, TypedFlags, PowerDown
  <2> QED
    BY <1>2, <2>1, <2>2, <2>3 DEF Typed
<1>4. Resets(q) /\ Resets(q)' /\ NotAtWork(S(q))
  BY <1>1, <1>2 DEF Resets, ResetPhase, Moved, NotAtWork, StartPhase
<1>5. Control'
  BY <1>0, <1>1, <1>2, <1>3, ResetControl DEF ResetPhase
<1>6. streaming = {}
  BY <1>0, <1>1 DEF Scans, Scan
<1>7. Scans'
  <2>1. Scan(q)'
    BY <1>1, <1>2, <1>6 DEF Scan, Moved, StartPhase, streams
  <2> QED
    BY <1>4, <1>5, <2>1, ScansOwn DEF Control
<1>8. ASSUME NEW r \in Node PROVE NodeInv(r)'
  <2>0. NodeInv(r)
    BY DEF IInv
  <2>1. \A x \in StartPhase \cup {"flushOther"} : ~ Doing(r, x)
    BY <1>0, <1>4, ResetAlone DEF Doing, NotAtWork
  <2>2. \A x \in StartPhase \cup {"flushOther"} : ~ Doing(r, x)'
    <3> SUFFICES ASSUME NEW x \in StartPhase \cup {"flushOther"}, Doing(r, x)' PROVE FALSE
      OBVIOUS
    <3>1. lock[r] \in Thread /\ pc'[lock[r]] = x
      BY <1>1 DEF Doing
    <3>2. lock[r] # S(q)
      BY <1>2, <3>1 DEF Moved, StartPhase
    <3>3. pc[lock[r]] = x
      BY <1>2, <3>1, <3>2 DEF Moves
    <3>4. NotAtWork(lock[r])
      BY <1>0, <1>4, <3>1, ResetAlone
    <3> QED
      BY <3>3, <3>4 DEF NotAtWork
  <2>3. ~ Starts(r) /\ ~ Starts(r)'
    BY <2>1, <2>2 DEF Starts
  <2>4. fw[r] = << >> /\ fw'[r] = << >> /\ r \notin streaming
    BY <1>1, <1>6, <2>0, <2>1 DEF NodeInv, Frames, StartPhase
  <2>5. pc'[B(r)] = pc[B(r)] /\ (r # q => pc'[S(r)] = pc[S(r)] /\ on'[S(r)] = on[S(r)])
    BY <1>2 DEF Moves
  <2>6. Mode(r)'
    <3>1. CASE r = q
      <4>1. Ending(r)
        BY <1>0, <1>4, <2>0, <3>1, ResetterMode DEF Control
      <4>2. Ending(r)'
        BY <1>1, <1>4, <3>1, <4>1 DEF Ending, Down, streams
      <4>3. pc'[S(r)] # "flush" /\ pc[B(r)] \notin StartPhase
        BY <1>2, <2>0, <3>1, <4>1 DEF Moved, NodeInv, Mode, Started, Ending, Down
      <4> QED
        BY <1>1, <2>0, <2>2, <2>3, <2>5, <4>2, <4>3 DEF NodeInv, Mode, streams
    <3>2. CASE r # q
      BY <1>1, <2>0, <2>1, <2>2, <2>3, <2>5, <3>2, ModeKept DEF NodeInv, Still, streams, Resets, StartPhase
    <3> QED
      BY <3>1, <3>2
  <2>7. Frames(r)'
    <3>1. r # q => pc'[S(r)] = pc[S(r)]
      BY <2>5
    <3>2. r = q => active[r] = << >>
      BY <1>0, <1>4, <2>0, ResetterMode DEF Control, Ending
    <3> QED
      BY <1>1, <1>6, <2>0, <2>1, <2>2, <2>4, <3>1, <3>2 DEF NodeInv, Frames, StartPhase, streams
  <2>8. Lists(r)'
    <3>1. Owned(r)' = Owned(r) /\ InHand(r)' = {} /\ InHand(r) = {}
      BY <1>1, <2>1, <2>2 DEF Owned, InHand, StartPhase
    <3> QED
      BY <1>1, <2>0, <2>2, <3>1 DEF NodeInv, Lists, StartPhase, streams
  <2>9. Calm(r)'
    BY <1>1, <2>0, <2>5 DEF NodeInv, Calm, Free, streams
  <2> QED
    BY <2>6, <2>7, <2>8, <2>9 DEF NodeInv
<1> QED
  BY <1>3, <1>5, <1>7, <1>8 DEF IInv

LEMMA ResetEndsHolds == ASSUME IInv, NEW q \in Node, ResetEnds(q) PROVE IInv'
<1> USE ThreadFacts
<1>0. Typed /\ Control /\ Scans /\ NodeInv(q)
  BY DEF IInv
<1>1. Typed' /\ Works(S(q), q)
  BY <1>0, ResetEndsEffect
<1>2. /\ pc[S(q)] = "resetEnds" /\ lock'[q] = NoThread /\ q \notin ssc' /\ ~ inReset'
      /\ UNCHANGED << incoming, active, fw, open, fwUp, pipe, nr, streaming, started, reset, lost, inStop >>
  BY <1>0 DEF ResetEnds, Unlocks, Locks, Control, Visits, VisitsOfS, StartPhase, ResetPhase, firmware,
     locals, Typed, TypedControl
<1>3. Moved(S(q), "idle", q)
  BY <1>0, VisitMoves, NextNode, PlaceParts DEF ResetEnds, RestPhase, Moved, Typed
<1>4. \A b \in BufsOf(q) : vb'[b] = "user"
  BY <1>0, BufFacts, HandChanges DEF ResetEnds, Typed
<1>5. Control'
  BY <1>0, <1>1, <1>2, <1>3, ResetEndsControl
<1>6. Scans'
  BY <1>0, <1>2, <1>5, ScansIdle DEF Scans, Scan, Control
<1>7. Resets(q)
  BY <1>2 DEF Resets, ResetPhase
<1>8. Ending(q)
  BY <1>0, <1>7, ResetterMode DEF Control
<1>9. pc[B(q)] \notin StartPhase
  BY <1>0, <1>8 DEF NodeInv, Mode, Started, Ending, Down
<1> QED
  BY <1>1, <1>2, <1>3, <1>4, <1>5, <1>6, <1>8, <1>9, StopEndsHolds DEF NotAtWork, StartPhase


\* What holds of the other node n once its mutex is free for the reset.
LEMMA OtherFree ==
  ASSUME IInv, NEW q \in Node, NEW n \in Node, Resets(q), pc[S(q)] # "quiesce", lock[n] = NoThread
  PROVE  /\ n # q /\ inReset
         /\ n \in started => Started(n) /\ n \notin reset /\ pc[S(n)] \in {"idle", "offWait"}
         /\ n \in reset => Interrupted(n)
         /\ pc[B(n)] \notin StartPhase
<1> USE ThreadFacts
<1>0. Typed /\ Control /\ NodeInv(n) /\ NodeInv(q)
  BY DEF IInv
<1>1. n # q
  BY <1>0, ResetterMode DEF Control
<1>2. /\ Stopped(n) \/ Opening(n) \/ Started(n) \/ Interrupted(n) \/ Lost(n)
      /\ pc[B(n)] \notin StartPhase /\ pc[S(n)] \in Quiet \cup {"offLock"}
      /\ Started(n) => n \notin reset
  BY <1>0, FreeModes
<1>3. inReset
  BY <1>0 DEF Control, Flags
<1>4. n \in started => Started(n) /\ n \notin reset
  BY <1>2 DEF Stopped, Opening, Interrupted, Lost, Down
<1>5. n \in reset => Interrupted(n)
  BY <1>2, <1>4 DEF Stopped, Opening, Interrupted, Lost, Started
<1>6. Started(n) => pc[S(n)] \in {"idle", "offWait"}
  BY <1>0, <1>2 DEF Control, Flags, Stopping, Started, Quiet
<1> QED
  BY <1>1, <1>2, <1>3, <1>4, <1>5, <1>6

LEMMA StopsOtherHolds == ASSUME IInv, NEW q \in Node, NEW r \in Node, StopsOther(q, r) PROVE IInv'
<1> USE ThreadFacts
<1>0. Typed /\ Control /\ Scans /\ NodeInv(r)
  BY DEF IInv
<1>1. Typed' /\ Works(S(q), r)
  BY <1>0, StopsOtherEffect
<1>2. /\ pc[S(q)] = "scan" /\ on[S(q)] = r /\ r # q /\ r \in pipe \cap started \cap streaming
      /\ lock[r] = NoThread /\ lock'[r] = S(q) /\ reset' = reset \cup {r}
      /\ UNCHANGED << incoming, active, vb, taken, fw, open, fwUp, lost >>
      /\ UNCHANGED << ssc, pipe, nr, streaming, started, inReset, inStop >>
  BY <1>0 DEF StopsOther, Free, Locks, lists, firmware, locals, flags, Typed, TypedControl
<1>3. Moved(S(q), "flushOther", r)
  BY <1>0, <1>2, GotoMoves, PlaceParts DEF StopsOther, ResetPhase, Moved, Typed
<1>4. pc'[B(r)] = pc[B(r)] /\ pc'[S(r)] = pc[S(r)]
  BY <1>1, <1>2 DEF Works, Moves
<1>5. Resets(q) /\ Resets(q)' /\ NotAtWork(S(q))
  BY <1>2, <1>3 DEF Resets, ResetPhase, Moved, NotAtWork, StartPhase
<1>6. Started(r) /\ r \notin reset /\ pc[S(r)] \in {"idle", "offWait"} /\ pc[B(r)] \notin StartPhase
  BY <1>2, <1>5, OtherFree
<1>7. Control'
  <2>1. fwUp
    BY <1>0, <1>2, <1>5, ResetHasFirmware
  <2>2. \A x \in Node \ {r} : lock'[x] = lock[x]
    BY <1>1 DEF Works, Touches, Untouched
  <2>3. pc[S(q)] \in ResetPhase \ {"resetEnds"} /\ "flushOther" \in ResetPhase \ {"quiesce"}
    BY <1>2 DEF ResetPhase
  <2> QED
    BY <1>0, <1>1, <1>2, <1>3, <2>1, <2>2, <2>3, ResetControl DEF Works
<1>8. Scans'
  <2>1. Scan(q)'
    BY <1>0, <1>2, <1>3 DEF Scans, Scan, Moved, StartPhase
  <2> QED
    BY <1>5, <1>7, <2>1, ScansOwn DEF Control
<1>9. (\A x : ~ Doing(r, x)) /\ ~ Starts(r)
  BY <1>2, NobodyNow
<1>10. (\A x : Doing(r, x)' <=> x = "flushOther") /\ ~ Starts(r)'
  BY <1>2, <1>3, HolderThen DEF StartPhase
<1>11. Mode(r)'
  <2>1. Started(r)'
    BY <1>2, <1>4, <1>6, <1>10 DEF Started
  <2> QED
    BY <1>0, <1>2, <1>4, <1>6, <1>10, <2>1 DEF NodeInv, Mode
<1>12. Frames(r)'
  BY <1>0, <1>2, <1>10 DEF NodeInv, Frames
<1>13. Lists(r)'
  <2>1. Owned(r)' = Owned(r) /\ InHand(r)' = {} /\ InHand(r) = {}
    BY <1>2, <1>9, <1>10 DEF Owned, InHand
  <2> QED
    BY <1>0, <1>2, <1>10, <2>1 DEF NodeInv, Lists
<1>14. Calm(r)'
  <2>1. lock'[r] # NoThread
    BY <1>2
  <2> QED
    BY <2>1 DEF Calm, Free
<1> QED
  BY <1>1, <1>2, <1>5, <1>7, <1>8, <1>11, <1>12, <1>13, <1>14, StepKeeps DEF NodeInv

\* A node waits for its restart: what a step of the reset that stops it leaves.
LEMMA Interrupts ==
  ASSUME IInv, NEW q \in Node, NEW r \in Node, r # q, Typed', Works(S(q), r),
         pc[S(q)] \in {"scan", "flushOther"}, on[S(q)] = r, Moved(S(q), "scan", r + 1),
         pc[S(q)] = "flushOther" \/ lock'[r] = lock[r], lock'[r] = NoThread,
         Started(r), pc[B(r)] \notin StartPhase,
         pipe' = pipe \ {r}, nr'[r] = nr[r] - 1, streaming' = streaming \ {r}, started' = started \ {r},
         r \in reset', fw'[r] = << >>, InHand(r) = {},
         UNCHANGED << incoming, active, vb, taken, fwUp, lost, ssc, inReset, inStop >>
  PROVE  IInv'
<1> USE ThreadFacts
<1>0. Typed /\ Control /\ Scans /\ NodeInv(r)
  BY DEF IInv
<1>1. pc'[B(r)] = pc[B(r)] /\ pc'[S(r)] = pc[S(r)]
  BY DEF Works, Moves
<1>2. Resets(q) /\ Resets(q)'
  BY DEF Resets, ResetPhase, Moved
<1>3. pc[S(r)] \in {"idle", "offWait"}
  BY <1>0, <1>2 DEF Control, Flags, Stopping, Started
<1>4. Control'
  <2>1. fwUp
    BY <1>0, <1>2, ResetHasFirmware
  <2>2. \A x \in Node \ {r} : lock'[x] = lock[x]
    BY DEF Works, Touches, Untouched
  <2>3. pc[S(q)] \in ResetPhase \ {"resetEnds"} /\ "scan" \in ResetPhase \ {"quiesce"}
    BY DEF ResetPhase
  <2> QED
    BY <1>0, <2>1, <2>2, <2>3, ResetControl DEF Works
<1>5. Scans'
  <2>1. ASSUME NEW x \in Node, x < r + 1 PROVE x \notin streaming'
    <3>1. x < r \/ x = r
      BY <1>0, <2>1, OnNode
    <3> QED
      BY <1>0, <3>1 DEF Scans, Scan
  <2>2. Scan(q)'
    BY <2>1 DEF Scan, Moved, StartPhase
  <2> QED
    BY <1>2, <1>4, <2>2, ScansOwn DEF Control
<1>6. (\A x : ~ Doing(r, x)') /\ ~ Starts(r)'
  BY NobodyThen
<1>7. Mode(r)'
  <2>1. Interrupted(r)'
    BY <1>1, <1>3 DEF Started, Interrupted, Down
  <2>2. nr'[r] = 0
    BY <1>0 DEF NodeInv, Mode, Started
  <2> QED
    BY <1>1, <1>3, <1>6, <2>1, <2>2 DEF Mode
<1>8. Frames(r)'
  BY <1>6 DEF Frames
<1>9. Lists(r)'
  <2>1. Owned(r)' = Owned(r) /\ InHand(r)' = {}
    BY <1>6 DEF Owned, InHand
  <2> QED
    BY <1>0, <1>6, <2>1 DEF NodeInv, Lists
<1>10. Calm(r)'
  BY <1>0 DEF NodeInv, Calm, Mode, Started
<1>11. NotAtWork(S(q)) \/ on[S(q)] = r
  OBVIOUS
<1> QED
  BY <1>2, <1>4, <1>5, <1>7, <1>8, <1>9, <1>10, <1>11, StepKeeps DEF NodeInv

LEMMA PassesOtherHolds == ASSUME IInv, NEW q \in Node, NEW r \in Node, PassesOther(q, r) PROVE IInv'
<1> USE ThreadFacts
<1>0. Typed /\ Control /\ NodeInv(r)
  BY DEF IInv
<1>1. Typed' /\ Works(S(q), r)
  BY <1>0, PassesOtherEffect
<1>2. /\ pc[S(q)] = "scan" /\ on[S(q)] = r /\ r # q /\ r \in pipe \cap started
      /\ nr[r] # 1 \/ r \notin streaming
      /\ lock[r] = NoThread /\ lock'[r] = lock[r] /\ reset' = reset \cup {r}
      /\ pipe' = pipe \ {r} /\ nr'[r] = nr[r] - 1 /\ streaming' = streaming \ {r} /\ started' = started \ {r}
      /\ UNCHANGED << incoming, active, vb, taken, fw, fwUp, lost, ssc, inReset, inStop >>
  BY <1>0 DEF PassesOther, Free, lists, firmware, locals, flags, Typed, TypedStreams
<1>3. Moved(S(q), "scan", r + 1)
  BY <1>0, VisitMoves, NextNode, PlaceParts DEF PassesOther, ResetPhase, Moved, Typed
<1>4. Started(r) /\ pc[B(r)] \notin StartPhase
  <2>1. Resets(q)
    BY <1>2 DEF Resets, ResetPhase
  <2> QED
    BY <1>2, <2>1, OtherFree
<1>5. fw'[r] = << >> /\ InHand(r) = {}
  <2>1. r \notin streaming
    BY <1>0, <1>2 DEF NodeInv, Mode
  <2> QED
    BY <1>0, <1>2, <2>1, FreeModes, NobodyNow DEF InHand
<1>6. r \in reset' /\ lock'[r] = NoThread
  BY <1>2
<1> QED
  BY <1>1, <1>2, <1>3, <1>4, <1>5, <1>6, Interrupts

LEMMA OtherFlushedHolds == ASSUME IInv, NEW q \in Node, NEW r \in Node, OtherFlushed(q, r) PROVE IInv'
<1> USE ThreadFacts
<1>0. Typed /\ Control /\ NodeInv(r)
  BY DEF IInv
<1>1. Typed' /\ Works(S(q), r)
  BY <1>0, OtherFlushedEffect
<1>2. /\ pc[S(q)] = "flushOther" /\ on[S(q)] = r /\ lock'[r] = NoThread /\ fw'[r] = << >>
      /\ pipe' = pipe \ {r} /\ nr'[r] = nr[r] - 1 /\ streaming' = streaming \ {r} /\ started' = started \ {r}
      /\ UNCHANGED << incoming, active, vb, taken, fwUp, lost, ssc, reset, inReset, inStop >>
  BY <1>0 DEF OtherFlushed, Unlocks, Locks, lists, locals, flags, Typed, TypedControl, TypedStreams, TypedLists
<1>3. Moved(S(q), "scan", r + 1)
  BY <1>0, VisitMoves, NextNode, PlaceParts DEF OtherFlushed, ResetPhase, Moved, Typed
<1>4. r # q
  BY <1>0, <1>2 DEF Control, Visits, VisitsOfS
<1>5. lock[r] = S(q) /\ (\A x : Doing(r, x) <=> x = "flushOther") /\ ~ Starts(r)
  BY <1>0, <1>2, HolderNow DEF Control, StartPhase
<1>6. r \in streaming /\ Started(r) /\ r \in reset
  <2>1. r \in streaming
    BY <1>0, <1>5 DEF NodeInv, Mode
  <2>2. Started(r)
    BY <1>0, <1>5, <2>1 DEF NodeInv, Mode, Stopped, Opening, Starting, Leaving, Ending, Interrupted, Lost, Down
  <2> QED
    BY <1>5, <2>1, <2>2 DEF Started
<1>7. pc[B(r)] \notin StartPhase
  BY <1>0, <1>5 DEF Control, Locked, HoldsLock, Visits, VisitsOfB
<1>8. InHand(r) = {}
  BY <1>5 DEF InHand
<1> QED
  BY <1>1, <1>2, <1>3, <1>4, <1>6, <1>7, <1>8, Interrupts

LEMMA ResetStopsHolds ==
  ASSUME IInv, NEW q \in Node, ResetStops(q) \/ ResetFlushes(q) PROVE IInv'
<1>1. CASE ResetStops(q)
  BY <1>1, ResetStopsParts, StopsOtherHolds, PassesOtherHolds
<1>2. CASE ResetFlushes(q)
  <2>1. OtherFlushed(q, on[S(q)])
    BY <1>2, ResetFlushesParts
  <2>2. on[S(q)] \in Node
    BY <1>2, <2>1 DEF IInv, Control, Visits, VisitsOfS, ResetFlushes
  <2> QED
    BY <2>1, <2>2, OtherFlushedHolds
<1> QED
  BY <1>1, <1>2

LEMMA RestartsIdleHolds ==
  ASSUME IInv, NEW q \in Node, NEW r \in Node, RestartsIdle(q, r), on[S(q)] = r PROVE IInv'
<1> USE ThreadFacts
<1>0. Typed /\ Control /\ Scans /\ NodeInv(r)
  BY DEF IInv
<1>1. Typed' /\ Works(S(q), r)
  BY <1>0, RestartsIdleEffect
<1> DEFINE i == incoming[r]
<1> DEFINE a == active[r]
<1>2. /\ pc[S(q)] = "restart" /\ r \in reset /\ lock[r] = NoThread /\ reset' = reset \ {r}
      /\ active'[r] = << >> /\ incoming'[r] = << >> /\ a \o i = << >>
      /\ a \in Seq(BufsOf(r)) /\ i \in Seq(BufsOf(r))
      /\ pipe' = pipe \cup {r} /\ nr'[r] = nr[r] + 1 /\ started' = started \cup {r}
      /\ UNCHANGED << vb, fw, open, fwUp, ssc, streaming, inReset, inStop, lost, taken, lock >>
  BY <1>0 DEF RestartsIdle, BeginsIdle, Free, firmware, locals, flags, Typed, TypedStreams, TypedLists,
     NodeInv, Lists
<1>3. Moved(S(q), "restart", r + 1)
  BY <1>0, VisitMoves, NextNode, PlaceParts DEF RestartsIdle, ResetPhase, Moved, Typed
<1>4. Resets(q) /\ Resets(q)' /\ NotAtWork(S(q))
  BY <1>2, <1>3 DEF Resets, ResetPhase, Moved, NotAtWork, StartPhase
<1>5. r # q /\ Interrupted(r) /\ pc[B(r)] \notin StartPhase
  BY <1>2, <1>4, OtherFree
<1>6. pc'[B(r)] = pc[B(r)] /\ pc'[S(r)] = pc[S(r)]
  BY <1>1, <1>5 DEF Works, Moves
<1>7. Control'
  <2>1. fwUp
    BY <1>0, <1>2, <1>4, ResetHasFirmware
  <2>2. \A x \in Node \ {r} : lock'[x] = lock[x]
    BY <1>2
  <2>3. pc[S(q)] \in ResetPhase \ {"resetEnds"} /\ "restart" \in ResetPhase \ {"quiesce"}
    BY <1>2 DEF ResetPhase
  <2> QED
    BY <1>0, <1>1, <1>2, <1>3, <2>1, <2>2, <2>3, ResetControl DEF Works
<1>8. Scans'
  <2>1. ASSUME NEW x \in reset' PROVE x >= r + 1
    <3>1. x >= r /\ x # r /\ x \in Node
      BY <1>0, <1>2 DEF Scans, Scan, Typed, TypedStreams
    <3> QED
      BY <1>0, <3>1, OnNode
  <2>2. Scan(q)'
    BY <1>3, <2>1 DEF Scan, Moved, StartPhase
  <2> QED
    BY <1>4, <1>7, <2>2, ScansOwn DEF Control
<1>9. (\A x : ~ Doing(r, x)) /\ (\A x : ~ Doing(r, x)') /\ ~ Starts(r)'
  BY <1>2, NobodyNow, NobodyThen
<1>10. nr[r] = 0 /\ r \notin streaming
  BY <1>0, <1>5 DEF NodeInv, Mode, Interrupted, Down
<1>11. Mode(r)'
  <2>1. Started(r)'
    BY <1>2, <1>5, <1>6, <1>9 DEF Interrupted, Started
  <2>2. nr'[r] = 1 /\ pc'[S(r)] # "flush"
    BY <1>2, <1>5, <1>6, <1>10 DEF Interrupted
  <2> QED
    BY <1>2, <1>5, <1>6, <1>9, <2>1, <2>2 DEF Mode
<1>12. Frames(r)'
  <2>1. fw[r] = << >>
    BY <1>0, <1>2, <1>10, FreeModes
  <2> QED
    BY <1>2, <1>9, <1>10, <2>1 DEF Frames
<1>13. Lists(r)'
  <2>1. InHand(r)' = {} /\ InHand(r) = {} /\ Owned(r)' = Owned(r)
    BY <1>2, <1>9 DEF InHand, Owned
  <2>2. Range(i) \cup Range(a) = {}
    BY <1>2, ListConcat, EmptyList
  <2>3. Owned(r) = Range(i) \cup Range(a)
    BY <1>0, <1>5, <2>1 DEF NodeInv, Lists, Interrupted
  <2> HIDE DEF i, a
  <2> QED
    BY <1>2, <1>9, <2>1, <2>2, <2>3, EmptyList DEF Lists
<1>14. Calm(r)'
  BY <1>2 DEF Calm
<1> QED
  BY <1>1, <1>4, <1>7, <1>8, <1>11, <1>12, <1>13, <1>14, StepKeeps DEF NodeInv

LEMMA RestartsWithHolds ==
  ASSUME IInv, NEW q \in Node, NEW r \in Node, RestartsWith(q, r), on[S(q)] = r PROVE IInv'
<1> USE ThreadFacts
<1>0. Typed /\ Control /\ Scans /\ NodeInv(r)
  BY DEF IInv
<1>1. Typed' /\ Works(S(q), r)
  BY <1>0, RestartsWithEffect
<1> DEFINE i == incoming[r]
<1> DEFINE a == active[r]
<1> DEFINE c == a \o i
<1>2. /\ pc[S(q)] = "restart" /\ r \in reset /\ lock[r] = NoThread /\ reset' = reset \ {r}
      /\ active'[r] = << >> /\ incoming'[r] = Tail(c) /\ c # << >>
      /\ a \in Seq(BufsOf(r)) /\ i \in Seq(BufsOf(r))
      /\ taken'[S(q)] = Head(c) /\ lock'[r] = S(q)
      /\ pipe' = pipe \cup {r} /\ nr'[r] = nr[r] + 1
      /\ UNCHANGED << vb, fw, open, fwUp, ssc, streaming, started, inReset, inStop, lost >>
  BY <1>0 DEF RestartsWith, BeginsWith, Locks, Free, firmware, locals, flags, Typed, TypedStreams, TypedLists,
     TypedControl, NodeInv, Lists
<1>3. Moved(S(q), "start", r)
  BY <1>0, <1>2, GotoMoves, PlaceParts DEF RestartsWith, BeginsWith, StartPhase, Moved, Typed
<1>4. Resets(q) /\ NotAtWork(S(q))
  BY <1>2 DEF Resets, ResetPhase, NotAtWork, StartPhase
<1>5. r # q /\ Interrupted(r) /\ pc[B(r)] \notin StartPhase
  BY <1>2, <1>4, OtherFree
<1>6. pc'[B(r)] = pc[B(r)] /\ pc'[S(r)] = pc[S(r)] /\ Resets(q)'
  BY <1>1, <1>3, <1>5 DEF Works, Moves, Moved, Resets, StartPhase
<1>7. Control'
  BY <1>0, <1>1, <1>2, <1>3, <1>5, StartControl
<1>8. Scans'
  <2>1. ASSUME NEW x \in reset' PROVE x > r
    <3>1. x >= r /\ x # r /\ x \in Node
      BY <1>0, <1>2 DEF Scans, Scan, Typed, TypedStreams
    <3> QED
      BY <1>0, <3>1, OnNode
  <2>2. Scan(q)'
    BY <1>3, <2>1 DEF Scan, Moved, StartPhase
  <2> QED
    BY <1>6, <1>7, <2>2, ScansOwn DEF Control
<1>9. \A x : ~ Doing(r, x)
  BY <1>2, NobodyNow
<1>10. (\A x : Doing(r, x)' <=> x = "start") /\ Starts(r)'
  BY <1>2, <1>3, HolderThen DEF StartPhase
<1>11. nr[r] = 0 /\ r \notin streaming \cup started
  BY <1>0, <1>5 DEF NodeInv, Mode, Interrupted, Down
<1>12. Mode(r)'
  <2>1. Starting(r)'
    BY <1>2, <1>5, <1>6, <1>10, <1>11 DEF Interrupted, Starting
  <2>2. nr'[r] = 1 /\ pc'[S(r)] # "flush"
    BY <1>2, <1>5, <1>6, <1>11 DEF Interrupted
  <2> QED
    BY <1>2, <1>5, <1>6, <1>10, <1>11, <2>1, <2>2 DEF Mode
<1>13. Frames(r)'
  <2>1. fw[r] = << >>
    BY <1>0, <1>2, <1>11, FreeModes
  <2> QED
    BY <1>2, <1>10, <1>11, <2>1 DEF Frames
<1>14. Lists(r)'
  <2>1. InHand(r)' = {Head(c)} /\ InHand(r) = {} /\ Owned(r)' = Owned(r)
    BY <1>2, <1>9, <1>10 DEF InHand, Owned
  <2>2. /\ IsInjective(i) /\ IsInjective(a) /\ Range(i) \cap Range(a) = {}
        /\ Owned(r) = Range(i) \cup Range(a)
    BY <1>0, <1>5, <2>1 DEF NodeInv, Lists, Interrupted
  <2>3. c \in Seq(BufsOf(r)) /\ Range(c) = Range(i) \cup Range(a) /\ IsInjective(c)
    BY <1>2, <2>2, ListConcat
  <2> HIDE DEF i, a, c
  <2>4. /\ Head(c) \in BufsOf(r) /\ Tail(c) \in Seq(BufsOf(r)) /\ Range(c) = {Head(c)} \cup Range(Tail(c))
        /\ IsInjective(Tail(c)) /\ Head(c) \notin Range(Tail(c))
    BY <1>2, <2>3, ListTail
  <2> QED
    BY <1>2, <1>10, <2>1, <2>2, <2>3, <2>4, EmptyList DEF Lists
<1>15. Calm(r)'
  <2>1. lock'[r] # NoThread
    BY <1>2
  <2> QED
    BY <2>1 DEF Calm, Free
<1> QED
  BY <1>1, <1>4, <1>6, <1>7, <1>8, <1>12, <1>13, <1>14, <1>15, StepKeeps DEF NodeInv

LEMMA RestartsHolds == ASSUME IInv, NEW q \in Node, Restarts(q) PROVE IInv'
<1>1. RestartsIdle(q, on[S(q)]) \/ RestartsWith(q, on[S(q)])
  BY RestartsParts
<1>2. on[S(q)] \in Node
  BY DEF Restarts, IInv, Typed, TypedStreams
<1> QED
  BY <1>1, <1>2, RestartsIdleHolds, RestartsWithHolds

-----------------------------------------------------------------------------
(* A start, of a call for its own node or of a reset for another *)

LEMMA StartNode ==
  ASSUME Visits, NEW t \in Thread, pc[t] \in StartPhase PROVE on[t] \in Node
BY ThreadFacts DEF Visits, VisitsOfB, VisitsOfS

\* It goes on.
LEMMA StartingKeeps ==
  ASSUME IInv, NEW t \in Thread, NEW n \in Node, on[t] = n, pc[t] \in StartPhase, Typed', Works(t, n),
         NEW s \in StartPhase, Moved(t, s, n), lock'[n] = lock[n],
         UNCHANGED << inReset, inStop, fwUp, ssc, pipe, nr, started, reset, lost >>,
         n \in streaming' <=> s = "fill", Frames(n)', Lists(n)'
  PROVE  IInv'
<1> USE ThreadFacts
<1>0. Typed /\ Control /\ Scans /\ NodeInv(n)
  BY DEF IInv
<1>1. /\ n \in pipe \cap ssc /\ n \notin reset \cup lost /\ nr[n] = 1
      /\ IF t = B(n) THEN Started(n) ELSE Starting(n)
      /\ t # B(n) /\ t # S(n) => t = S(t[1]) /\ t[1] # n /\ Resets(t[1]) /\ inReset
      /\ t \in {B(n), S(n)} => ~ inReset
      /\ t # S(n) => pc[S(n)] \in {"idle", "offWait", "offLock", "flush"}
      /\ t # S(n) /\ t # B(n) => pc[S(n)] \in {"idle", "offWait"}
  BY <1>0, StartingModes
<1>2. lock[n] = t /\ lock'[n] = t /\ Starts(n)
  BY <1>0, HolderNow DEF Control
<1>3. (\A x : Doing(n, x)' <=> x = s) /\ Starts(n)' /\ s # "flushOther" /\ s # "flush"
  BY <1>2, HolderThen DEF StartPhase
<1>4. Control'
  BY <1>0, StartingControl
<1>5. Scans'
  <2>1. CASE t \in {B(n), S(n)}
    <3>1. t = S(t[1]) => ~ Resets(t[1])'
      BY <2>1 DEF Moved, Resets, StartPhase, ResetPhase
    <3> QED
      BY <1>0, <1>1, <2>1, <3>1, ScansOthers DEF Works, Control
  <2>2. CASE t \notin {B(n), S(n)}
    <3>1. t = S(t[1]) /\ t[1] # n /\ Resets(t[1])'
      BY <1>1, <2>2 DEF Moved, Resets
    <3>2. \A x \in reset : x > n
      BY <1>0, <1>1, <2>2 DEF Scans, Scan
    <3>3. Scan(t[1])'
      BY <3>1, <3>2 DEF Scan, Moved, StartPhase
    <3> QED
      BY <1>4, <3>1, <3>3, ScansOwn DEF Control
  <2> QED
    BY <2>1, <2>2
<1>6. pc'[S(n)] # "flush" /\ (t # S(n) => pc'[S(n)] = pc[S(n)])
  <2>1. t = S(n) => pc'[S(n)] = s
    BY DEF Moved
  <2>2. t # S(n) => pc'[S(n)] = pc[S(n)]
    BY DEF Works, Moves
  <2>3. pc[S(n)] = "flush" => lock[n] = S(n)
    BY <1>0 DEF Control, Locked, HoldsLock, HoldPhase
  <2> QED
    BY <1>2, <1>3, <2>1, <2>2, <2>3
<1>7. t # B(n) => pc'[B(n)] \notin StartPhase
  <2>1. t # B(n) => pc[B(n)] \notin StartPhase
    BY <1>0, <1>2 DEF Control, Locked, HoldsLock, Visits, VisitsOfB
  <2> QED
    BY <2>1 DEF Works, Moves
<1>8. Mode(n)'
  <2>1. CASE t = B(n)
    <3>1. Started(n)'
      BY <1>1, <1>3, <1>6, <2>1 DEF Started
    <3>2. n \in started
      BY <1>1, <2>1 DEF Started
    <3> QED
      BY <1>1, <1>2, <1>3, <1>6, <2>1, <3>1, <3>2 DEF Mode
  <2>2. CASE t # B(n)
    <3>1. Starting(n)'
      BY <1>1, <1>2, <1>3, <1>6, <2>2 DEF Starting
    <3>2. n \notin started
      BY <1>1, <2>2 DEF Starting
    <3> QED
      BY <1>1, <1>2, <1>3, <1>6, <1>7, <2>2, <3>1, <3>2 DEF Mode
  <2> QED
    BY <2>1, <2>2
<1>9. Calm(n)'
  BY <1>2 DEF Calm, Free
<1>10. t[1] # n => t = S(t[1]) /\ Resets(t[1]) /\ Resets(t[1])'
  <2>1. t[1] # n => t = S(t[1]) /\ Resets(t[1])
    BY <1>1
  <2>2. t[1] # n => Resets(t[1])'
    BY <2>1 DEF Moved, Resets
  <2> QED
    BY <2>1, <2>2
<1> QED
  BY <1>4, <1>5, <1>8, <1>9, <1>10, StepKeeps DEF NodeInv

LEMMA StreamOpensHolds == ASSUME IInv, NEW t \in Thread, StreamOpens(t) PROVE IInv'
<1> USE ThreadFacts
<1>a. pc[t] = "start" /\ pc[t] \in StartPhase /\ Typed /\ Control /\ Scans
  BY DEF StreamOpens, StartPhase, IInv
<1>b. on[t] \in Node
  BY <1>a, StartNode DEF Control
<1> SUFFICES ASSUME NEW m \in Node, on[t] = m PROVE IInv'
  BY <1>b
<1>0. NodeInv(m)
  BY DEF IInv
<1>1. Opens(t, m)
  <2>1. fwUp
    BY <1>a, FirmwareUp DEF Control
  <2> QED
    BY <2>1, StreamOpensParts
<1>2. /\ m \notin streaming /\ active[m] = << >> /\ fw[m] = << >>
      /\ t \in {B(m), S(m)} <=> ~ inReset
  BY <1>0, <1>a, StartingModes DEF Control
<1>3. lock[m] = t /\ (\A x : Doing(m, x) <=> x = "start")
  BY <1>0, <1>a, HolderNow DEF Control
<1> DEFINE b == taken[t]
<1>4. b \in BufsOf(m) /\ b \in Buf
  BY <1>0, <1>3, BufFacts DEF NodeInv, Lists
<1>5. Typed' /\ Works(t, m)
  BY <1>4, <1>a, <1>1, StreamOpensEffect
<1>6. /\ open' = open \cup {m}
      /\ active'[m] = Append(<< >>, b)
      /\ fw'[m] = IF inReset THEN << >> ELSE Append(<< >>, b)
      /\ UNCHANGED << vb, incoming, taken, fwUp, lock, inReset, inStop, lost >>
      /\ UNCHANGED << ssc, pipe, nr, streaming, started, reset >>
  BY <1>2, <1>a, <1>1 DEF Opens, Typed, TypedLists, streams, flags, locals
<1>7. Moved(t, "await", m)
  BY <1>a, <1>1, GotoMoves, PlaceParts DEF Opens, StartPhase, Moved, Typed
<1>8. \A x : Doing(m, x)' <=> x = "await"
  <2>1. lock'[m] = t
    BY <1>3, <1>6
  <2> QED
    BY <1>7, <2>1, HolderThen
<1>9. /\ active'[m] \in Seq(BufsOf(m)) /\ IsInjective(active'[m]) /\ Range(active'[m]) = {b}
      /\ active'[m] = << b >>
  BY <1>4, <1>6, OneList
<1>10. Frames(m)'
  <2>1. m \in open'
    BY <1>6
  <2>2. fw'[m] = IF inReset THEN << >> ELSE active'[m]
    BY <1>6
  <2>3. lock'[m] = t /\ taken'[t] = b /\ m \notin streaming'
    BY <1>2, <1>3, <1>6
  <2> HIDE DEF b
  <2> QED
    BY <1>2, <1>8, <1>9, <2>1, <2>2, <2>3 DEF Frames
<1>11. Lists(m)'
  <2>1. Owned(m)' = Owned(m) /\ InHand(m)' = {} /\ InHand(m) = {b}
    BY <1>3, <1>6, <1>8 DEF Owned, InHand
  <2>2. lock'[m] = t /\ taken'[t] = b /\ incoming'[m] = incoming[m]
    BY <1>3, <1>6
  <2>3. Range(active[m]) = {}
    BY <1>2, EmptyList
  <2> HIDE DEF b
  <2> QED
    BY <1>0, <1>4, <1>6, <1>9, <2>1, <2>2, <2>3 DEF NodeInv, Lists
<1>12. m \in streaming' <=> "await" = "fill"
  BY <1>2, <1>6
<1>13. "await" \in StartPhase
  BY DEF StartPhase
<1> QED
  BY <1>a, <1>5, <1>6, <1>7, <1>10, <1>11, <1>12, <1>13, StartingKeeps

LEMMA StreamStartedHolds == ASSUME IInv, NEW t \in Thread, StreamStarted(t) PROVE IInv'
<1> USE ThreadFacts
<1>a. pc[t] = "await" /\ pc[t] \in StartPhase /\ Typed /\ Control /\ Scans
  BY DEF StreamStarted, StartPhase, IInv
<1>b. on[t] \in Node
  BY <1>a, StartNode DEF Control
<1> SUFFICES ASSUME NEW m \in Node, on[t] = m PROVE IInv'
  BY <1>b
<1>0. NodeInv(m)
  BY DEF IInv
<1>1. t \in {B(m), S(m)} <=> ~ inReset
  BY <1>0, <1>a, StartingModes DEF Control
<1>2. lock[m] = t /\ (\A x : Doing(m, x) <=> x = "await")
  BY <1>0, <1>a, HolderNow DEF Control
<1> DEFINE b == taken[t]
<1>3. b \in BufsOf(m) /\ b \in Buf
  BY <1>0, <1>2, BufFacts DEF NodeInv, Lists
<1>4. Typed' /\ Works(t, m)
  BY <1>3, <1>a, StreamStartedEffect
<1>5. /\ fw'[m] = IF inReset THEN Append(fw[m], b) ELSE fw[m]
      /\ streaming' = streaming \cup {m}
      /\ UNCHANGED << vb, incoming, active, open, fwUp, lock, inReset, inStop, lost >>
      /\ UNCHANGED << ssc, pipe, nr, started, reset >>
  BY <1>a DEF StreamStarted, Typed, TypedLists, flags, locals
<1>6. Moved(t, "fill", m)
  BY <1>a, GotoMoves, PlaceParts DEF StreamStarted, StartPhase, Moved, Typed
<1>7. \A x : Doing(m, x)' <=> x = "fill"
  <2>1. lock'[m] = t
    BY <1>2, <1>5
  <2> QED
    BY <1>6, <2>1, HolderThen
<1>8. /\ m \in open
      /\ IF inReset THEN fw[m] = << >> /\ active[m] = << b >> ELSE fw[m] = active[m]
  BY <1>0, <1>1, <1>2 DEF NodeInv, Frames
<1>9. fw'[m] = active'[m]
  <2>1. Append(<< >>, b) = << b >>
    BY <1>3, OneList
  <2> HIDE DEF b
  <2> QED
    BY <1>5, <1>8, <2>1
<1>10. Frames(m)'
  BY <1>5, <1>7, <1>8, <1>9 DEF Frames
<1>11. Lists(m)'
  <2>1. Owned(m)' = Owned(m) /\ InHand(m)' = {} /\ InHand(m) = {}
    BY <1>2, <1>5, <1>7 DEF Owned, InHand
  <2> QED
    BY <1>0, <1>5, <1>7, <2>1 DEF NodeInv, Lists
<1>12. m \in streaming' <=> "fill" = "fill"
  BY <1>5
<1>13. "fill" \in StartPhase
  BY DEF StartPhase
<1> QED
  BY <1>a, <1>4, <1>5, <1>6, <1>10, <1>11, <1>12, <1>13, StartingKeeps

LEMMA FillCapturesHolds == ASSUME IInv, NEW t \in Thread, FillCaptures(t) PROVE IInv'
<1> USE ThreadFacts
<1>a. pc[t] = "fill" /\ pc[t] \in StartPhase /\ Typed /\ Control /\ Scans
  BY DEF FillCaptures, StartPhase, IInv
<1>b. on[t] \in Node
  BY <1>a, StartNode DEF Control
<1> SUFFICES ASSUME NEW m \in Node, on[t] = m PROVE IInv'
  BY <1>b
<1>0. NodeInv(m)
  BY DEF IInv
<1>1. Captures(t, m)
  <2>1. fwUp
    BY <1>a, FirmwareUp DEF Control
  <2> QED
    BY <2>1, FillCapturesParts
<1>2. Typed' /\ Works(t, m)
  BY <1>a, <1>1, FillCapturesEffect
<1>3. lock[m] = t /\ (\A x : Doing(m, x) <=> x = "fill")
  BY <1>0, <1>a, HolderNow DEF Control
<1>4. m \in streaming /\ m \in ssc
  BY <1>0, <1>a, StartingModes DEF Control
<1> DEFINE i == incoming[m]
<1> DEFINE a == active[m]
<1>5. /\ incoming'[m] = Tail(i) /\ i # << >> /\ active'[m] = Append(a, Head(i))
      /\ fw'[m] = Append(fw[m], Head(i)) /\ i \in Seq(BufsOf(m)) /\ a \in Seq(BufsOf(m))
      /\ UNCHANGED << vb, taken, open, fwUp, lock, inReset, inStop, lost >>
      /\ UNCHANGED << ssc, pipe, nr, streaming, started, reset >>
  BY <1>0, <1>a, <1>1 DEF Captures, Typed, TypedLists, streams, flags, locals, NodeInv, Lists
<1>6. Moved(t, "fill", m)
  BY <1>a, <1>1, GotoMoves, PlaceParts DEF Captures, StartPhase, Moved, Typed
<1>7. \A x : Doing(m, x)' <=> x = "fill"
  <2>1. lock'[m] = t
    BY <1>3, <1>5
  <2> QED
    BY <1>6, <2>1, HolderThen
<1>8. Frames(m)'
  <2>1. m \in open /\ fw[m] = a
    BY <1>0, <1>4 DEF NodeInv, Frames
  <2> QED
    BY <1>4, <1>5, <1>7, <2>1 DEF Frames
<1>9. /\ Head(i) \in BufsOf(m) /\ Tail(i) \in Seq(BufsOf(m)) /\ Range(i) = {Head(i)} \cup Range(Tail(i))
      /\ (IsInjective(i) => IsInjective(Tail(i)) /\ Head(i) \notin Range(Tail(i)))
  BY <1>5, ListTail
<1>10. /\ Append(a, Head(i)) \in Seq(BufsOf(m)) /\ Range(Append(a, Head(i))) = Range(a) \cup {Head(i)}
       /\ (IsInjective(a) /\ Head(i) \notin Range(a) => IsInjective(Append(a, Head(i))))
  BY <1>5, <1>9, ListAppend
<1>11. Lists(m)'
  <2>1. Owned(m)' = Owned(m) /\ InHand(m)' = {} /\ InHand(m) = {}
    BY <1>3, <1>5, <1>7 DEF Owned, InHand
  <2>2. IsInjective(i) /\ IsInjective(a) /\ Range(i) \cap Range(a) = {} /\ Owned(m) = Range(i) \cup Range(a)
    BY <1>0, <1>4, <2>1 DEF NodeInv, Lists
  <2> HIDE DEF i, a
  <2> QED
    BY <1>5, <1>7, <1>9, <1>10, <2>1, <2>2 DEF Lists
<1>12. m \in streaming' <=> "fill" = "fill"
  BY <1>4, <1>5
<1>13. "fill" \in StartPhase
  BY DEF StartPhase
<1> QED
  BY <1>a, <1>2, <1>5, <1>6, <1>8, <1>11, <1>12, <1>13, StartingKeeps

\* It ends.
LEMMA StartedMoves ==
  ASSUME IInv, NEW t \in Thread, NEW n \in Node, on[t] = n, pc[t] \in StartPhase, Typed', Works(t, n),
         IF t[1] = n THEN Moved(t, "idle", n) ELSE Moved(t, "restart", n + 1),
         lock'[n] = NoThread, UNCHANGED << inReset, inStop, fwUp, reset >>,
         streaming' \subseteq streaming, Mode(n)', Frames(n)', Lists(n)', Calm(n)'
  PROVE  IInv'
<1> USE ThreadFacts
<1>0. Typed /\ Control /\ Scans /\ NodeInv(n)
  BY DEF IInv
<1>1. /\ t # B(n) /\ t # S(n) => t = S(t[1]) /\ t[1] # n /\ Resets(t[1]) /\ inReset
      /\ t \in {B(n), S(n)} => ~ inReset
  BY <1>0, StartingModes
<1>2. Control'
  BY <1>0, StartedControl
<1>3. t[1] # n => t = S(t[1]) /\ Resets(t[1]) /\ Resets(t[1])'
  BY <1>1 DEF Moved, Resets, ResetPhase
<1>4. Scans'
  <2>1. CASE t[1] = n
    <3>1. t = S(t[1]) => ~ Resets(t[1])'
      BY <2>1 DEF Moved, Resets, StartPhase, ResetPhase
    <3> QED
      BY <1>0, <3>1, ScansOthers DEF Works, Control
  <2>2. CASE t[1] # n
    <3>1. \A x \in reset : x > n
      BY <1>0, <1>3, <2>2 DEF Scans, Scan
    <3>2. \A x \in reset : x >= n + 1
      <4>1. reset \subseteq Node
        BY <1>0 DEF Typed, TypedStreams
      <4> QED
        BY <1>0, <3>1, <4>1, OnNode
    <3>3. Scan(t[1])'
      BY <1>3, <2>2, <3>2 DEF Scan, Moved, StartPhase
    <3> QED
      BY <1>2, <1>3, <2>2, <3>3, ScansOwn DEF Control
  <2> QED
    BY <2>1, <2>2
<1> QED
  BY <1>2, <1>3, <1>4, StepKeeps DEF NodeInv

LEMMA FillEndsHolds == ASSUME IInv, NEW t \in Thread, FillEnds(t) PROVE IInv'
<1> USE ThreadFacts
<1>a. pc[t] = "fill" /\ pc[t] \in StartPhase /\ Typed /\ Control
  BY DEF FillEnds, StartPhase, IInv
<1>b. on[t] \in Node
  BY <1>a, StartNode DEF Control
<1> SUFFICES ASSUME NEW m \in Node, on[t] = m PROVE IInv'
  BY <1>b
<1>0. NodeInv(m)
  BY DEF IInv
<1>1. Typed' /\ Works(t, m)
  BY <1>a, FillEndsEffect
<1>2. /\ m \in pipe \cap ssc /\ m \notin reset \cup lost /\ nr[m] = 1 /\ m \in streaming
      /\ IF t = B(m) THEN Started(m) ELSE Starting(m)
      /\ t # S(m) => pc[S(m)] \in {"idle", "offWait", "offLock", "flush"}
  BY <1>0, <1>a, StartingModes DEF Control
<1>3. lock[m] = t /\ (\A x : Doing(m, x) <=> x = "fill")
  BY <1>0, <1>a, HolderNow DEF Control
<1>4. /\ incoming[m] = << >> /\ lock'[m] = NoThread
      /\ started' = IF t = B(m) THEN started ELSE started \cup {m}
      /\ UNCHANGED << vb, taken, incoming, active, fw, open, fwUp, inReset, inStop, lost >>
      /\ UNCHANGED << ssc, pipe, nr, streaming, reset >>
  BY <1>a DEF FillEnds, Unlocks, Locks, Typed, TypedControl, lists, firmware, flags, locals
<1>5. IF t[1] = m THEN Moved(t, "idle", m) ELSE Moved(t, "restart", m + 1)
  <2>1. CASE t[1] = m
    <3>1. Goto(t, "idle")
      BY <2>1 DEF FillEnds, InOtherNode
    <3> QED
      BY <1>a, <2>1, <3>1, GotoMoves, PlaceParts DEF RestPhase, Moved, Typed
  <2>2. CASE t[1] # m
    <3>1. Visit(t, "restart", m + 1)
      BY <2>2 DEF FillEnds, InOtherNode
    <3> QED
      BY <1>a, <2>2, <3>1, VisitMoves, NextNode, PlaceParts DEF ResetPhase, Moved, Typed
  <2> QED
    BY <2>1, <2>2
<1>6. (\A x : ~ Doing(m, x)') /\ ~ Starts(m)'
  BY <1>4, NobodyThen
<1>7. pc'[S(m)] \in {"idle", "offWait", "offLock", "flush"}
  <2>1. t = S(m) => pc'[S(m)] = "idle"
    BY <1>5 DEF Moved
  <2>2. t # S(m) => pc'[S(m)] = pc[S(m)]
    BY <1>1 DEF Works, Moves
  <2> QED
    BY <1>2, <2>1, <2>2
<1>8. Mode(m)'
  <2>1. Started(m)'
    BY <1>2, <1>4, <1>6, <1>7 DEF Started
  <2> QED
    BY <1>2, <1>4, <1>6, <2>1 DEF Mode
<1>9. Frames(m)'
  BY <1>0, <1>2, <1>4, <1>6 DEF NodeInv, Frames
<1>10. Lists(m)'
  <2>1. Owned(m)' = Owned(m) /\ InHand(m)' = {} /\ InHand(m) = {}
    BY <1>3, <1>4, <1>6 DEF Owned, InHand
  <2> QED
    BY <1>0, <1>4, <1>6, <2>1 DEF NodeInv, Lists
<1>11. Calm(m)'
  BY <1>4 DEF Calm
<1> QED
  BY <1>a, <1>1, <1>4, <1>5, <1>8, <1>9, <1>10, <1>11, StartedMoves

\* Only a restart fails: the firmware keeps the stream of a start that waits.
LEMMA StreamNotStartedHolds == ASSUME IInv, NEW t \in Thread, StreamNotStarted(t) PROVE IInv'
<1> USE ThreadFacts
<1>a. pc[t] = "await" /\ pc[t] \in StartPhase /\ Typed /\ Control
  BY DEF StreamNotStarted, StartPhase, IInv
<1>b. on[t] \in Node
  BY <1>a, StartNode DEF Control
<1> SUFFICES ASSUME NEW m \in Node, on[t] = m PROVE IInv'
  BY <1>b
<1>0. NodeInv(m)
  BY DEF IInv
<1>1. lock[m] = t /\ (\A x : Doing(m, x) <=> x = "await")
  BY <1>0, <1>a, HolderNow DEF Control
<1>2. t[1] # m
  <2>1. m \in open
    BY <1>0, <1>1 DEF NodeInv, Frames
  <2> QED
    BY <2>1 DEF StreamNotStarted, InOtherNode
<1>3. /\ m \in pipe \cap ssc /\ m \notin reset \cup lost \cup streaming /\ nr[m] = 1 /\ Starting(m)
      /\ t # S(m) /\ t # B(m) /\ pc[S(m)] \in {"idle", "offWait"}
  <2>1. t # S(m) /\ t # B(m)
    BY <1>2
  <2> QED
    BY <1>0, <1>a, <2>1, StartingModes DEF Control
<1>4. incoming[m] \in Seq(BufsOf(m)) /\ active[m] \in Seq(BufsOf(m))
  BY <1>0 DEF NodeInv, Lists
<1>5. Typed' /\ Works(t, m)
  BY <1>a, <1>3, <1>4, StreamNotStartedEffect
<1>6. /\ fw'[m] = << >> /\ incoming'[m] = << >> /\ active'[m] = << >>
      /\ Hand(Range(incoming[m]) \cup Range(active[m]), "vb2")
      /\ pipe' = pipe \ {m} /\ nr'[m] = nr[m] - 1 /\ started' = started \ {m} /\ lost' = lost \cup {m}
      /\ lock'[m] = NoThread
      /\ UNCHANGED << fwUp, ssc, streaming, reset, inReset, inStop >>
  BY <1>a, <1>2, <1>3 DEF StreamNotStarted, ReturnBuffers, InOtherNode, Unlocks, Locks, flags, Typed, TypedLists,
     TypedStreams, TypedControl
<1>7. Moved(t, "restart", m + 1)
  <2>1. Visit(t, "restart", m + 1)
    BY <1>2 DEF StreamNotStarted, InOtherNode
  <2> QED
    BY <1>a, <2>1, VisitMoves, NextNode, PlaceParts DEF ResetPhase, Moved, Typed
<1>8. (\A x : ~ Doing(m, x)') /\ ~ Starts(m)'
  BY <1>6, NobodyThen
<1>9. pc'[S(m)] = pc[S(m)] /\ pc'[B(m)] = pc[B(m)]
  BY <1>3, <1>5 DEF Works, Moves
<1>10. pc[B(m)] \notin StartPhase
  BY <1>1, <1>3, <1>a DEF Control, Locked, HoldsLock, Visits, VisitsOfB
<1>11. Mode(m)'
  <2>1. Lost(m)'
    BY <1>3, <1>6, <1>9 DEF Lost, Down
  <2>2. nr'[m] = 0
    BY <1>3, <1>6
  <2> QED
    BY <1>3, <1>6, <1>8, <1>9, <1>10, <2>1, <2>2 DEF Mode
<1>12. Frames(m)'
  BY <1>3, <1>6, <1>8 DEF Frames
<1>13. Lists(m)'
  <2>1. InHand(m)' = {} /\ InHand(m) = {}
    BY <1>1, <1>8 DEF InHand
  <2>2. Owned(m) = Range(incoming[m]) \cup Range(active[m])
    BY <1>0, <1>3, <2>1 DEF NodeInv, Lists
  <2>3. \A b \in Buf : vb'[b] = IF b \in Range(incoming[m]) \cup Range(active[m]) THEN "vb2" ELSE vb[b]
    BY <1>a, <1>6, HandChanges DEF Typed
  <2>4. Owned(m)' = {}
    BY <2>2, <2>3, BufFacts DEF Owned
  <2> QED
    BY <1>6, <1>8, <2>1, <2>4, EmptyList DEF Lists
<1>14. Calm(m)'
  BY <1>6 DEF Calm
<1> QED
  BY <1>a, <1>2, <1>5, <1>6, <1>7, <1>11, <1>12, <1>13, <1>14, StartedMoves

-----------------------------------------------------------------------------
(* A frame is done *)

LEMMA BufReadyHolds == ASSUME IInv, NEW q \in Node, BufReady(q) PROVE IInv'
<1> USE ThreadFacts
<1>0. Typed /\ Control /\ Scans /\ NodeInv(q)
  BY DEF IInv
<1> DEFINE a == active[q]
<1>1. fw[q] # << >> /\ fw[q] = a /\ (q \in streaming \/ Doing(q, "await"))
  BY <1>0 DEF BufReady, NodeInv, Frames
<1>2. ~ Ending(q) /\ (q \in ssc \/ q \notin lost)
  <2>1. q \in streaming \/ q \in pipe
    BY <1>0, <1>1 DEF NodeInv, Mode, Starts, StartPhase
  <2> QED
    BY <1>0, <2>1 DEF NodeInv, Mode, Stopped, Opening, Starting, Started, Leaving, Ending, Interrupted, Lost, Down
<1>3. a \in Seq(BufsOf(q)) /\ IsInjective(a) /\ FrameDone(q)
  <2>1. a \in Seq(BufsOf(q)) /\ IsInjective(a)
    BY <1>0, <1>2 DEF NodeInv, Lists
  <2> QED
    BY <1>0, <1>1, <2>1, BufReadyParts DEF Typed
<1>4. Typed' /\ Works(S(q), q)
  BY <1>0, <1>3, FrameDoneEffect
<1>5. /\ fw'[q] = Tail(a) /\ active'[q] = Tail(a) /\ a # << >>
      /\ UNCHANGED << incoming, taken, open, fwUp, lock, pc, on, inReset, inStop, lost, sawPipe >>
      /\ UNCHANGED << ssc, pipe, nr, streaming, started, reset >>
  BY <1>0, <1>1, <1>3 DEF FrameDone, Typed, TypedLists, control, streams, flags, locals
<1>6. Control' /\ Scans'
  <2>1. \A r \in Node : Resets(r)' <=> Resets(r)
    BY <1>5 DEF Resets
  <2>2. Locked'
    BY <1>0, <1>5, <2>1 DEF Control, Locked, HoldsLock
  <2>3. Visits'
    BY <1>0, <1>5 DEF Control, Visits, VisitsOfB, VisitsOfS
  <2>4. Flags'
    BY <1>0, <1>5, <2>1 DEF Control, Flags
  <2>5. Scans'
    BY <1>0, <1>5 DEF Scans, Scan
  <2> QED
    BY <2>2, <2>3, <2>4, <2>5 DEF Control
<1>7. \A x : Doing(q, x)' <=> Doing(q, x)
  BY <1>5 DEF Doing
<1>8. NotAtWork(S(q)) \/ on[S(q)] = q
  <2>1. ~ Resets(q)
    BY <1>0, <1>2, ResetterMode DEF Control
  <2> QED
    BY <2>1 DEF Resets, NotAtWork, ResetPhase
<1>9. Mode(q)'
  BY <1>0, <1>2, <1>5, <1>7, ModeKept DEF NodeInv, Still, Resets, Starts
<1>10. Frames(q)'
  BY <1>0, <1>1, <1>5, <1>7 DEF NodeInv, Frames
<1>11. Head(a) \in BufsOf(q) /\ Tail(a) \in Seq(BufsOf(q)) /\ Range(a) = {Head(a)} \cup Range(Tail(a))
       /\ IsInjective(Tail(a)) /\ Head(a) \notin Range(Tail(a))
  BY <1>3, <1>5, ListTail
<1>12. Lists(q)'
  <2>1. InHand(q)' = InHand(q)
    BY <1>5, <1>7 DEF InHand
  <2>2. Owned(q)' = Owned(q) \ {Head(a)}
    BY <1>0, <1>3, BufFacts, HandChanges DEF FrameDone, Owned, Typed
  <2>3. /\ incoming[q] \in Seq(BufsOf(q)) /\ IsInjective(incoming[q]) /\ Range(incoming[q]) \cap Range(a) = {}
        /\ InHand(q) \cap (Range(incoming[q]) \cup Range(a)) = {}
        /\ Owned(q) = Range(incoming[q]) \cup Range(a) \cup InHand(q)
        /\ Doing(q, "start") \/ Doing(q, "await") => taken[lock[q]] \in BufsOf(q)
    BY <1>0, <1>2 DEF NodeInv, Lists
  <2> HIDE DEF a
  <2> QED
    BY <1>5, <1>7, <1>11, <2>1, <2>2, <2>3 DEF Lists
<1>13. Calm(q)'
  BY <1>0, <1>5 DEF NodeInv, Calm, Free
<1> QED
  BY <1>4, <1>6, <1>8, <1>9, <1>10, <1>12, <1>13, StepKeeps DEF NodeInv

-----------------------------------------------------------------------------
(* All steps *)

LEMMA StreamStartHolds == ASSUME IInv, NEW t \in Thread, StreamStart(t) PROVE IInv'
BY StreamOpensHolds, StreamStartedHolds, StreamNotStartedHolds, FillCapturesHolds, FillEndsHolds DEF StreamStart

LEMMA QueueStepHolds == ASSUME IInv, StartsApart, NEW q \in Node, QueueStep(q) PROVE IInv'
BY QBufWaitsHolds, QBufRelocksHolds, QBufSubmitsHolds, StreamStartHolds, ThreadFacts DEF QueueStep

LEMMA StreamStepHolds == ASSUME IInv, StartsApart, NEW q \in Node, StreamStep(q) PROVE IInv'
<1>1. CASE StreamOnQueued(q) \/ StartWaits(q) \/ StartBegins(q) \/ StreamStart(S(q))
  BY <1>1, StreamOnHolds, StartWaitsHolds, StartBeginsParts, StartsIdleHolds, StartsWithHolds,
     StreamStartHolds, ThreadFacts
<1>2. CASE StopWaits(q) \/ StopReturnsUnlocked(q) \/ StopLocks(q) \/ StopFlushes(q)
           \/ StopReturnsBuffers(q) \/ StopReturns(q)
  BY <1>2, StopWaitsHolds, StopReturnsUnlockedHolds, StopLocksParts, StopsRunningHolds, StopsIdleHolds,
     StopFlushesHolds, StopReturnsBuffersHolds, StopReturnsHolds
<1>3. CASE ResetBegins(q) \/ ResetWaits(q) \/ ResetSkips(q) \/ ResetStops(q) \/ ResetFlushes(q)
           \/ ResetScanned(q) \/ PowerDown(q) \/ PowerUp(q)
  BY <1>3, StopReturnsHolds, ResetWaitsHolds, ResetSkipsHolds, ResetStopsHolds, ResetScannedHolds,
     PowerDownHolds, PowerUpHolds
<1>4. CASE RestartSkips(q) \/ Restarts(q) \/ Restarted(q) \/ ResetEnds(q)
  BY <1>4, RestartSkipsHolds, RestartsHolds, RestartedHolds, ResetEndsHolds
<1> QED
  BY <1>1, <1>2, <1>3, <1>4 DEF StreamStep

LEMMA NextHolds == ASSUME IInv, StartsApart, Next PROVE IInv'
<1>1. PICK q \in Node : QBuf(q) \/ StreamOn(q) \/ StreamOff(q) \/ QueueStep(q) \/ StreamStep(q) \/ BufReady(q)
  BY DEF Next
<1>2. CASE QBuf(q)
  BY <1>2, QBufParts, QBufKeepsHolds, QBufListsHolds
<1>3. CASE StreamOn(q) \/ StreamOff(q) \/ BufReady(q)
  BY <1>3, StreamOnHolds, StreamOffHolds, BufReadyHolds
<1>4. CASE QueueStep(q) \/ StreamStep(q)
  BY <1>4, QueueStepHolds, StreamStepHolds
<1> QED
  BY <1>1, <1>2, <1>3, <1>4

LEMMA StutterHolds == ASSUME IInv, UNCHANGED vars PROVE IInv'
<1>1. /\ UNCHANGED << vb, incoming, active, taken, fw, open, fwUp, ssc, pipe, nr, streaming, started, reset >>
      /\ UNCHANGED << inReset, inStop, resetNeeded, lock, pc, on, sawPipe, lost >>
  BY DEF vars, lists, firmware, streams, flags, control, locals
<1>2. Typed'
  BY <1>1 DEF IInv, Typed, TypedLists, TypedStreams, TypedFlags, TypedControl
<1>3. Control'
  BY <1>1 DEF IInv, Control, Locked, HoldsLock, Resets, Visits, VisitsOfB, VisitsOfS, Flags
<1>4. Scans'
  BY <1>1 DEF IInv, Scans, Scan
<1>5. ASSUME NEW q \in Node PROVE NodeInv(q)'
  <2>0. NodeInv(q) /\ \A x : Doing(q, x)' <=> Doing(q, x)
    BY <1>1 DEF IInv, Doing
  <2>1. Mode(q)'
    BY <1>1, <2>0, ModeKept DEF NodeInv, Still, Resets, Starts
  <2>2. Frames(q)'
    BY <1>1, <2>0 DEF NodeInv, Frames
  <2>3. Lists(q)'
    BY <1>1, <2>0 DEF NodeInv, Lists, Owned, InHand
  <2>4. Calm(q)'
    BY <1>1, <2>0 DEF NodeInv, Calm, Free
  <2> QED
    BY <2>1, <2>2, <2>3, <2>4 DEF NodeInv
<1> QED
  BY <1>2, <1>3, <1>4, <1>5 DEF IInv

\* The invariant that the theorems below follow from.
THEOREM Invariant == ASSUME StartsApart PROVE Spec => []IInv
<1>1. IInv /\ [Next]_vars => IInv'
  BY NextHolds, StutterHolds
<1> QED
  BY <1>1, InitHolds, PTL DEF Spec

-----------------------------------------------------------------------------
(* What it says *)

\* The state of every node keeps its type: a buffer is only ever on lists of its own
\* node, and the pipeline of a node is counted once at most.
THEOREM TypeCorrect == ASSUME StartsApart PROVE Spec => []TypeOK
<1>1. IInv => TypeOK
  BY TypesHold DEF IInv
<1> QED
  BY <1>1, Invariant, PTL

LEMMA OccursOnce ==
  ASSUME NEW X, NEW s \in Seq(X), IsInjective(s), NEW b
  PROVE  Occurs(b, s) = IF b \in Range(s) THEN 1 ELSE 0
<1>1. CASE b \in Range(s)
  <2>1. PICK i \in DOMAIN s : s[i] = b
    BY <1>1 DEF Range
  <2>2. {j \in DOMAIN s : s[j] = b} = {i}
    BY <2>1 DEF IsInjective
  <2> QED
    BY <1>1, <2>2, FS_Singleton DEF Occurs
<1>2. CASE b \notin Range(s)
  <2>1. {j \in DOMAIN s : s[j] = b} = {}
    BY <1>2 DEF Range
  <2> QED
    BY <1>2, <2>1, FS_EmptySet DEF Occurs
<1> QED
  BY <1>1, <1>2

\* The starts that have a buffer in hand: the one of its node, if any.
LEMMA HandOnce ==
  ASSUME IInv, NEW q \in Node, NEW b \in BufsOf(q)
  PROVE  Cardinality({t \in Thread : taken[t] = b /\ pc[t] = "start"}) = IF b \in InHand(q) THEN 1 ELSE 0
<1> DEFINE hands == {t \in Thread : taken[t] = b /\ pc[t] = "start"}
<1>0. Control /\ \A n \in Node : NodeInv(n)
  BY DEF IInv
<1>1. ASSUME NEW t \in hands PROVE t = lock[q] /\ Doing(q, "start")
  <2>1. on[t] \in Node /\ pc[t] \in StartPhase
    BY <1>0, StartNode DEF Control, StartPhase
  <2>2. lock[on[t]] = t /\ Doing(on[t], "start")
    BY <1>0, <2>1, HolderNow DEF Control
  <2>3. b \in BufsOf(on[t])
    BY <1>0, <2>1, <2>2 DEF NodeInv, Lists
  <2> QED
    BY <2>1, <2>2, <2>3, BufFacts
<1>2. CASE b \in InHand(q)
  <2>1. Doing(q, "start") /\ taken[lock[q]] = b
    BY <1>2 DEF InHand
  <2>2. hands = {lock[q]}
    BY <1>1, <2>1 DEF Doing
  <2> QED
    BY <1>2, <2>2, FS_Singleton
<1>3. CASE b \notin InHand(q)
  <2>1. hands = {}
    BY <1>1, <1>3 DEF InHand
  <2> QED
    BY <1>3, <2>1, FS_EmptySet
<1> QED
  BY <1>2, <1>3

\* However starts, stops, resets and frames interleave, a buffer that the driver has is
\* on one list of its node once, or in the hands of one start, and no other buffer is:
\* a reset that moves the active buffers back does not list any twice nor drop any.
\* (reset_start_streaming, return_buffers, buf_queue)
THEOREM BuffersKept == ASSUME StartsApart PROVE Spec => []BufferInOnePlace
<1>1. ASSUME IInv PROVE BufferInOnePlace
  <2> SUFFICES ASSUME NEW q \in Node, NEW b \in BufsOf(q), q = b[1], q \in ssc \/ q \notin lost
               PROVE  Places(b) = IF vb[b] = "driver" THEN 1 ELSE 0
    BY BufFacts DEF BufferInOnePlace
  <2> DEFINE i == incoming[q]
  <2> DEFINE a == active[q]
  <2>1. /\ i \in Seq(BufsOf(q)) /\ a \in Seq(BufsOf(q)) /\ IsInjective(i) /\ IsInjective(a)
        /\ Range(i) \cap Range(a) = {} /\ InHand(q) \cap (Range(i) \cup Range(a)) = {}
        /\ Owned(q) = Range(i) \cup Range(a) \cup InHand(q)
    BY <1>1 DEF IInv, NodeInv, Lists
  <2>2. Occurs(b, i) = IF b \in Range(i) THEN 1 ELSE 0
    BY <2>1, OccursOnce
  <2>3. Occurs(b, a) = IF b \in Range(a) THEN 1 ELSE 0
    BY <2>1, OccursOnce
  <2>4. Cardinality({t \in Thread : taken[t] = b /\ pc[t] = "start"}) = IF b \in InHand(q) THEN 1 ELSE 0
    BY <1>1, HandOnce
  <2>5. vb[b] = "driver" <=> b \in Owned(q)
    BY DEF Owned
  <2>6. Places(b) = (IF b \in Range(i) THEN 1 ELSE 0) + (IF b \in Range(a) THEN 1 ELSE 0)
                    + (IF b \in InHand(q) THEN 1 ELSE 0)
    BY <2>2, <2>3, <2>4 DEF Places
  <2> HIDE DEF i, a
  <2>7. CASE b \in Range(i)
    BY <2>1, <2>5, <2>6, <2>7
  <2>8. CASE b \in Range(a)
    BY <2>1, <2>5, <2>6, <2>8
  <2>9. CASE b \in InHand(q)
    BY <2>1, <2>5, <2>6, <2>9
  <2>10. CASE b \notin Owned(q)
    BY <2>1, <2>5, <2>6, <2>10
  <2> QED
    BY <2>1, <2>7, <2>8, <2>9, <2>10
<1> QED
  BY <1>1, Invariant, PTL

\* Once no reset is under way, a node that the application has started and that no reset
\* has lost is started, whoever asked for the resets and however often, and where it
\* streams the firmware runs, has the stream open and has each active buffer once.
\* (ipu_isys_reset, reset_stop_streaming, start_stream_firmware)
THEOREM StreamsReturn == ASSUME StartsApart PROVE Spec => []StreamsComeBack
<1>1. ASSUME IInv PROVE StreamsComeBack
  <2> SUFFICES ASSUME NEW q \in Node, Settled(q)
               PROVE  /\ q \in started /\ nr[q] = 1
                      /\ q \in streaming => q \in open /\ fwUp /\ fw[q] = active[q] /\ IsInjective(fw[q])
    BY DEF StreamsComeBack
  <2>0. Control /\ Scans /\ NodeInv(q)
    BY <1>1 DEF IInv
  <2>1. q \in ssc /\ q \notin lost /\ pc[S(q)] = "idle" /\ lock[q] = NoThread /\ ~ inReset
    BY DEF Settled, Free
  <2>2. Started(q)
    BY <2>0, <2>1, FreeModes DEF Stopped, Opening, Interrupted, Lost, Scans
  <2>3. q \in started /\ nr[q] = 1
    BY <2>0, <2>2 DEF NodeInv, Mode, Started
  <2>4. fwUp
    BY <2>0, <2>1, FirmwareUp DEF Control
  <2>5. q \in streaming => q \in open /\ fw[q] = active[q]
    BY <2>0 DEF NodeInv, Frames
  <2>6. IsInjective(active[q])
    BY <2>0, <2>1 DEF NodeInv, Lists
  <2> QED
    BY <2>3, <2>4, <2>5, <2>6
<1> QED
  BY <1>1, Invariant, PTL

\* A buffer that waits on a node that streams, with the mutex free, is about to be
\* submitted by the QBUF that brought it: no interleaving of QBUF with a start or a
\* restart leaves one behind.
\* (buf_queue, ipu_isys_stream_start)
THEOREM BuffersMove == ASSUME StartsApart PROVE Spec => []NoBufferStalls
<1>1. IInv => NoBufferStalls
  BY DEF IInv, NodeInv, Calm, NoBufferStalls
<1> QED
  BY <1>1, Invariant, PTL
=============================================================================
