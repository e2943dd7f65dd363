----------------------------- MODULE FwComProofs -----------------------------
(***************************************************************************)
(* For every queue size and every set of tokens, the firmware-to-host ring *)
(* is a FIFO whose head cannot be overwritten while the handler works on   *)
(* it.  The host-to-firmware ring is one as long as the callers keep their *)
(* bound within the queue size; that is needed, because                    *)
(* ipu_send_get_token() does not detect a full ring (fwcom_overflow).      *)
(***************************************************************************)
EXTENDS FwCom, SequenceTheorems, TLAPS

\* What the callers owe: a full ring is not detected for them.
CallersKeepBound == Credits <= QueueSize

-----------------------------------------------------------------------------
(* The ring and its indexes *)

LEMMA SizeIsNat == Size \in Nat /\ Size > 1 /\ QueueSize = Size - 1
  BY QueueSizeAssumption DEF Size

LEMMA IncIndexType ==
  ASSUME NEW i \in Index PROVE IncIndex(i) \in Index
  BY SizeIsNat DEF Index, IncIndex

LEMMA NumMessagesType ==
  ASSUME NEW w \in Index, NEW r \in Index
  PROVE  /\ NumMessages(w, r) \in 0 .. QueueSize
         /\ (NumMessages(w, r) = 0) <=> (w = r)
  BY SizeIsNat DEF Index, NumMessages

LEMMA NumMessagesPut ==
  ASSUME NEW w \in Index, NEW r \in Index, NumMessages(w, r) < QueueSize
  PROVE  NumMessages(IncIndex(w), r) = NumMessages(w, r) + 1
  BY SizeIsNat DEF Index, NumMessages, IncIndex

LEMMA NumMessagesTake ==
  ASSUME NEW w \in Index, NEW r \in Index, w # r
  PROVE  NumMessages(w, IncIndex(r)) = NumMessages(w, r) - 1
  BY SizeIsNat DEF Index, NumMessages, IncIndex

\* A slot between the indexes is a slot of the ring, and not the write slot.
LEMMA SlotType ==
  ASSUME NEW w \in Index, NEW r \in Index, NEW i \in 1 .. NumMessages(w, r)
  PROVE  Slot(r, i) \in Index /\ Slot(r, i) # w
  BY SizeIsNat DEF Index, NumMessages, Slot

LEMMA RingType ==
  ASSUME NEW w \in Index, NEW r \in Index, NEW V, NEW b \in [Index -> V]
  PROVE  Ring(w, r, b) \in Seq(V) /\ Len(Ring(w, r, b)) = NumMessages(w, r)
<1>1. NumMessages(w, r) \in Nat
  BY NumMessagesType, SizeIsNat
<1>2. \A i \in 1 .. NumMessages(w, r) : b[Slot(r, i)] \in V
  BY SlotType
<1> QED
  BY <1>1, <1>2 DEF Ring

\* Writing the slot at the write index changes no token in the ring.
LEMMA RingFill ==
  ASSUME NEW w \in Index, NEW r \in Index, NEW b, NEW c,
         \A i \in Index \ {w} : c[i] = b[i]
  PROVE  Ring(w, r, c) = Ring(w, r, b)
<1>1. \A i \in 1 .. NumMessages(w, r) : c[Slot(r, i)] = b[Slot(r, i)]
  BY SlotType
<1> QED
  BY <1>1 DEF Ring

\* Moving the write index of a ring with room appends the token written there.
LEMMA RingPut ==
  ASSUME NEW w \in Index, NEW r \in Index, NEW V, NEW b \in [Index -> V],
         NumMessages(w, r) < QueueSize
  PROVE  Ring(IncIndex(w), r, b) = Append(Ring(w, r, b), b[w])
<1> DEFINE n == NumMessages(w, r)
<1>1. n \in Nat /\ NumMessages(IncIndex(w), r) = n + 1
  BY NumMessagesType, NumMessagesPut, SizeIsNat
<1>2. Ring(w, r, b) \in Seq(V) /\ Len(Ring(w, r, b)) = n
  BY RingType
<1>3. Slot(r, n + 1) = w
  BY SizeIsNat DEF Slot, NumMessages, Index
<1>4. Append(Ring(w, r, b), b[w])
        = [i \in 1 .. n + 1 |-> IF i = n + 1 THEN b[w] ELSE Ring(w, r, b)[i]]
  BY <1>1, <1>2
<1>5. \A i \in 1 .. n + 1 :
        b[Slot(r, i)] = IF i = n + 1 THEN b[w] ELSE Ring(w, r, b)[i]
  BY <1>1, <1>3 DEF Ring
<1> HIDE DEF n
<1> QED
  BY <1>1, <1>4, <1>5 DEF Ring

\* Moving the read index of a ring that is not empty drops the oldest token.
LEMMA RingTake ==
  ASSUME NEW w \in Index, NEW r \in Index, NEW V, NEW b \in [Index -> V], w # r
  PROVE  /\ Ring(w, r, b) # << >>
         /\ Ring(w, IncIndex(r), b) = Tail(Ring(w, r, b))
<1> DEFINE n == NumMessages(w, r)
<1>1. n \in Nat /\ n > 0 /\ NumMessages(w, IncIndex(r)) = n - 1
  BY NumMessagesType, NumMessagesTake, SizeIsNat
<1>2. Ring(w, r, b) \in Seq(V) /\ Len(Ring(w, r, b)) = n
  BY RingType
<1>3. \A i \in 1 .. n - 1 : Slot(IncIndex(r), i) = Slot(r, i + 1)
  <2> SUFFICES ASSUME NEW i \in 1 .. n - 1
               PROVE  Slot(IncIndex(r), i) = Slot(r, i + 1)
    OBVIOUS
  <2>1. i \in Nat /\ i >= 1 /\ i < Size
    BY <1>1, SizeIsNat, NumMessagesType
  <2>2. CASE r + 1 = Size
    BY <2>1, <2>2, SizeIsNat DEF Slot, IncIndex, Index
  <2>3. CASE r + 1 < Size
    BY <2>1, <2>3, SizeIsNat DEF Slot, IncIndex, Index
  <2> QED
    BY <2>2, <2>3, SizeIsNat DEF Index
<1>4. Ring(w, r, b) # << >>
  BY <1>1, <1>2
<1>5. /\ Tail(Ring(w, r, b)) \in Seq(V)
      /\ Len(Tail(Ring(w, r, b))) = n - 1
      /\ \A i \in 1 .. n - 1 : Tail(Ring(w, r, b))[i] = Ring(w, r, b)[i + 1]
  BY <1>2, <1>4, HeadTailProperties
<1>6. /\ Ring(w, IncIndex(r), b) \in Seq(V)
      /\ Len(Ring(w, IncIndex(r), b)) = n - 1
  BY <1>1, IncIndexType, RingType
<1>7. \A i \in 1 .. n - 1 : Ring(w, IncIndex(r), b)[i] = Ring(w, r, b)[i + 1]
  BY <1>1, <1>3 DEF Ring
<1> HIDE DEF n
<1> QED
  BY <1>4, <1>5, <1>6, <1>7, SeqEqual

-----------------------------------------------------------------------------
(* Type correctness *)

\* Indexes stay inside the ring and no slot holds anything but a token, whatever
\* the configured size and whether or not the callers keep their bound.
THEOREM TypeCorrect == Spec => []TypeOK
<1>1. Init => TypeOK
  BY SizeIsNat DEF Init, TypeOK, Index, Dir
<1>2. TypeOK /\ [Next]_vars => TypeOK'
  <2> SUFFICES ASSUME TypeOK, [Next]_vars PROVE TypeOK'
    OBVIOUS
  <2> USE DEF TypeOK
  <2>1. CASE SendGetToken
    BY <2>1 DEF SendGetToken
  <2>2. CASE SendPutToken
    BY <2>2, IncIndexType DEF SendPutToken, Dir
  <2>3. CASE FwReceive
    BY <2>3, IncIndexType DEF FwReceive, Dir
  <2>4. CASE RecvGetToken
    <3>1. RdReg("out") \in Index
      BY <2>4, SizeIsNat DEF RecvGetToken, RdReg, AllOnes, IsIndexValid, Dir
    <3> QED
      BY <2>4, <3>1 DEF RecvGetToken, Dir
  <2>5. CASE RecvPutToken
    BY <2>5, IncIndexType DEF RecvPutToken, Dir
  <2>6. CASE DeviceLost
    BY <2>6 DEF DeviceLost
  <2>7. ASSUME NEW t \in Token, FillToken(t) PROVE TypeOK'
    BY <2>7 DEF FillToken, Dir
  <2>8. ASSUME NEW t \in Token, FwRespond(t) PROVE TypeOK'
    BY <2>8, IncIndexType DEF FwRespond, Dir
  <2>9. CASE UNCHANGED vars
    BY <2>9 DEF vars
  <2> QED
    BY <2>1, <2>2, <2>3, <2>4, <2>5, <2>6, <2>7, <2>8, <2>9 DEF Next
<1> QED
  BY <1>1, <1>2, PTL DEF Spec

-----------------------------------------------------------------------------
(* The inductive invariant *)

\* A filled slot holds a real token, so publishing it puts one into the FIFO.
FilledSlotHoldsToken == sender = "filled" => buf["in"][wr["in"]] \in Token

\* What the two halves of a send rely on between them.
Inv == TypeOK /\ SlotIsFree /\ FilledSlotHoldsToken

LEMMA InvInit == Init => Inv
  BY SizeIsNat DEF Init, Inv, TypeOK, Index, Dir, SlotIsFree,
                   FilledSlotHoldsToken

\* A slot is handed out only while the callers' bound leaves one free.
LEMMA SlotIsFreeNext ==
  ASSUME CallersKeepBound, Inv, [Next]_vars PROVE SlotIsFree'
<1> USE DEF Inv
<1>1. CASE SendGetToken
  BY <1>1, CreditsAssumption, QueueSizeAssumption, NumMessagesType
  DEF SendGetToken, CallerMaySend, SlotIsFree, CallersKeepBound, TypeOK, Dir
<1>2. CASE SendPutToken
  BY <1>2 DEF SendPutToken, SlotIsFree
<1>3. CASE FwReceive
  <2>1. /\ wr["in"] \in Index /\ rd["in"] \in Index /\ wr["in"] # rd["in"]
        /\ wr' = wr /\ rd'["in"] = IncIndex(rd["in"]) /\ sender' = sender
    BY <1>3 DEF FwReceive, TypeOK, Dir
  <2> QED
    BY <2>1, NumMessagesTake, NumMessagesType, QueueSizeAssumption DEF SlotIsFree
<1>4. CASE RecvGetToken
  BY <1>4 DEF RecvGetToken, SlotIsFree
<1>5. CASE RecvPutToken
  BY <1>5 DEF RecvPutToken, SlotIsFree, TypeOK, Dir
<1>6. CASE DeviceLost
  BY <1>6 DEF DeviceLost, SlotIsFree
<1>7. ASSUME NEW t \in Token, FillToken(t) PROVE SlotIsFree'
  BY <1>7 DEF FillToken, SlotIsFree
<1>8. ASSUME NEW t \in Token, FwRespond(t) PROVE SlotIsFree'
  BY <1>8 DEF FwRespond, SlotIsFree, TypeOK, Dir
<1>9. CASE UNCHANGED vars
  BY <1>9 DEF vars, SlotIsFree
<1> QED
  BY <1>1, <1>2, <1>3, <1>4, <1>5, <1>6, <1>7, <1>8, <1>9 DEF Next

LEMMA FilledSlotNext ==
  ASSUME Inv, [Next]_vars PROVE FilledSlotHoldsToken'
<1> USE DEF Inv
<1>1. CASE SendGetToken
  BY <1>1 DEF SendGetToken, FilledSlotHoldsToken
<1>2. CASE SendPutToken
  BY <1>2 DEF SendPutToken, FilledSlotHoldsToken
<1>3. CASE FwReceive \/ RecvGetToken \/ RecvPutToken \/ DeviceLost \/ UNCHANGED vars
  BY <1>3 DEF FwReceive, RecvGetToken, RecvPutToken, DeviceLost, vars,
              FilledSlotHoldsToken
<1>4. ASSUME NEW t \in Token, FillToken(t) PROVE FilledSlotHoldsToken'
  BY <1>4 DEF FillToken, FilledSlotHoldsToken, TypeOK, Dir
<1>5. ASSUME NEW t \in Token, FwRespond(t) PROVE FilledSlotHoldsToken'
  BY <1>5 DEF FwRespond, FilledSlotHoldsToken, TypeOK, Dir
<1> QED
  BY <1>1, <1>2, <1>3, <1>4, <1>5 DEF Next

\* The firmware leaves one slot free, so it never writes the one at the head.
LEMMA HeldResponseNext ==
  ASSUME TypeOK, HeldResponseStable, [Next]_vars PROVE HeldResponseStable'
<1>1. CASE SendGetToken
  BY <1>1 DEF SendGetToken, HeldResponseStable
<1>2. CASE SendPutToken
  BY <1>2 DEF SendPutToken, HeldResponseStable, TypeOK, Dir
<1>3. CASE FwReceive
  BY <1>3 DEF FwReceive, HeldResponseStable, TypeOK, Dir
<1>4. CASE RecvGetToken
  <2>1. RdReg("out") = rd["out"] /\ WrReg("out") = wr["out"]
    BY <1>4, SizeIsNat DEF RecvGetToken, RdReg, WrReg, AllOnes, IsIndexValid
  <2> QED
    BY <1>4, <2>1, NumMessagesType DEF RecvGetToken, HeldResponseStable, TypeOK, Dir
<1>5. CASE RecvPutToken
  BY <1>5 DEF RecvPutToken, HeldResponseStable
<1>6. CASE DeviceLost
  BY <1>6 DEF DeviceLost, HeldResponseStable
<1>7. ASSUME NEW t \in Token, FillToken(t) PROVE HeldResponseStable'
  BY <1>7 DEF FillToken, HeldResponseStable, TypeOK, Dir
<1>8. ASSUME NEW t \in Token, FwRespond(t) PROVE HeldResponseStable'
  BY <1>8 DEF FwRespond, HeldResponseStable, TypeOK, Dir
<1>9. CASE UNCHANGED vars
  BY <1>9 DEF vars, HeldResponseStable
<1> QED
  BY <1>1, <1>2, <1>3, <1>4, <1>5, <1>6, <1>7, <1>8, <1>9 DEF Next

\* Inv is inductive as long as the callers keep their bound.
THEOREM InvHolds == ASSUME CallersKeepBound PROVE Spec => []Inv
<1>1. Inv /\ [Next]_vars => SlotIsFree' /\ FilledSlotHoldsToken'
  BY SlotIsFreeNext, FilledSlotNext
<1>2. Spec => []TypeOK
  BY TypeCorrect
<1>3. TypeOK' /\ SlotIsFree' /\ FilledSlotHoldsToken' => Inv'
  BY DEF Inv
<1> QED
  BY <1>1, <1>2, <1>3, InvInit, PTL DEF Spec

\* ipu_send_get_token never hands out a slot the firmware has still to read.
THEOREM SendSlotFree == ASSUME CallersKeepBound PROVE Spec => []SlotIsFree
<1>1. Inv => SlotIsFree
  BY DEF Inv
<1> QED
  BY <1>1, InvHolds, PTL

\* The response between ipu_recv_get_token and ipu_recv_put_token is never
\* overwritten, whatever the senders do.
THEOREM ResponseStable == Spec => []HeldResponseStable
<1>1. Init => HeldResponseStable
  BY DEF Init, HeldResponseStable
<1>2. TypeOK /\ HeldResponseStable /\ [Next]_vars => HeldResponseStable'
  BY HeldResponseNext
<1> QED
  BY <1>1, <1>2, TypeCorrect, PTL DEF Spec

\* While registers answer, a refused send found QueueSize unread commands: the
\* test of ipu_send_get_token errs only in the other direction.
THEOREM RefusalsAreJust == Spec => RefusedOnlyWhenFull
<1>1. ASSUME TypeOK, [Next]_vars, sender' = "refused", sender # "refused", dmem
      PROVE  NumMessages(wr["in"], rd["in"]) = QueueSize
  <2>1. SendGetToken /\ ~ SendHasRoom
    BY <1>1 DEF Next, vars, SendGetToken, SendPutToken, FwReceive, RecvGetToken,
                RecvPutToken, DeviceLost, FillToken, FwRespond
  <2>2. wr["in"] \in Index /\ rd["in"] \in Index
    BY <1>1 DEF TypeOK, Dir
  <2>3. NumFree(wr["in"] + 1, rd["in"]) = 0
    BY <1>1, <2>1, <2>2, SizeIsNat DEF SendHasRoom, IsIndexValid, WrReg, RdReg, Index
  <2>4. wr["in"] + 1 = Size /\ rd["in"] = 0
    BY <2>2, <2>3, SizeIsNat DEF NumFree, NumMessages, Index
  <2> QED
    BY <2>2, <2>4, SizeIsNat DEF NumMessages, Index
<1>2. TypeOK /\ [Next]_vars
        => [sender' = "refused" /\ sender # "refused" /\ dmem
              => NumMessages(wr["in"], rd["in"]) = QueueSize]_vars
  BY <1>1
<1> QED
  BY <1>2, TypeCorrect, PTL DEF Spec, RefusedOnlyWhenFull

-----------------------------------------------------------------------------
(* Refinement of the abstract FIFO *)

LEMMA ContentsStable ==
  ASSUME NEW d, wr'[d] = wr[d], rd'[d] = rd[d], buf'[d] = buf[d]
  PROVE  Contents(d)' = Contents(d)
  BY DEF Contents

LEMMA ContentsType ==
  ASSUME TypeOK, NEW d \in Dir PROVE Len(Contents(d)) = NumMessages(wr[d], rd[d])
  BY RingType DEF Contents, TypeOK

\* The host-to-firmware ring implements a FIFO of QueueSize tokens.
THEOREM CommandsRefineFifo == ASSUME CallersKeepBound PROVE Spec => CommandsAreFifo
<1>1. Init => Commands!FifoInit
  BY SizeIsNat DEF Init, Commands!FifoInit, Contents, Ring, NumMessages, Dir
<1>2. Inv /\ [Next]_vars => [Commands!FifoNext]_(Contents("in"))
  <2> SUFFICES ASSUME Inv, [Next]_vars
               PROVE  Commands!FifoNext \/ Contents("in")' = Contents("in")
    OBVIOUS
  <2> DEFINE w == wr["in"]
             r == rd["in"]
             b == buf["in"]
  <2>1. w \in Index /\ r \in Index /\ b \in [Index -> Token \cup {NoToken}]
    BY DEF Inv, TypeOK, Dir
  <2>2. CASE SendGetToken \/ RecvGetToken \/ DeviceLost \/ UNCHANGED vars
    BY <2>2, ContentsStable DEF SendGetToken, RecvGetToken, DeviceLost, vars
  <2>3. CASE SendPutToken
    <3>1. CASE dmem
      <4>1. NumMessages(w, r) < QueueSize /\ b[w] \in Token
        BY <2>3 DEF SendPutToken, Inv, SlotIsFree, FilledSlotHoldsToken
      <4>2. wr'["in"] = IncIndex(w) /\ rd' = rd /\ buf' = buf
        BY <2>3, <3>1 DEF SendPutToken, Inv, TypeOK, Dir
      <4>3. Contents("in")' = Append(Contents("in"), b[w])
        BY <2>1, <4>1, <4>2, RingPut DEF Contents
      <4>4. Len(Contents("in")) < QueueSize
        BY <4>1, ContentsType DEF Inv, Dir
      <4> QED
        BY <4>1, <4>3, <4>4 DEF Commands!FifoNext, Commands!Put
    <3>2. CASE ~ dmem
      BY <2>3, <3>2, ContentsStable DEF SendPutToken
    <3> QED
      BY <3>1, <3>2
  <2>4. CASE FwReceive
    <3>1. w # r /\ wr' = wr /\ buf' = buf /\ rd'["in"] = IncIndex(r)
      BY <2>4 DEF FwReceive, Inv, TypeOK, Dir
    <3>2. Contents("in") # << >> /\ Contents("in")' = Tail(Contents("in"))
      BY <2>1, <3>1, RingTake DEF Contents
    <3> QED
      BY <3>2 DEF Commands!FifoNext, Commands!Take
  <2>5. CASE RecvPutToken
    BY <2>5, ContentsStable DEF RecvPutToken, Inv, TypeOK, Dir
  <2>6. ASSUME NEW t \in Token, FillToken(t) PROVE Contents("in")' = Contents("in")
    <3>1. wr' = wr /\ rd' = rd /\ buf'["in"] = [b EXCEPT ![w] = t]
      BY <2>6 DEF FillToken, Inv, TypeOK, Dir
    <3>2. \A i \in Index \ {w} : buf'["in"][i] = b[i]
      BY <2>1, <3>1
    <3>3. Ring(w, r, buf'["in"]) = Ring(w, r, b)
      <4> HIDE DEF w, r, b
      <4> QED
        BY <2>1, <3>2, RingFill
    <3> QED
      BY <3>1, <3>3 DEF Contents
  <2>7. ASSUME NEW t \in Token, FwRespond(t) PROVE Contents("in")' = Contents("in")
    BY <2>7, ContentsStable DEF FwRespond, Inv, TypeOK, Dir
  <2> HIDE DEF w, r, b
  <2> QED
    BY <2>2, <2>3, <2>4, <2>5, <2>6, <2>7 DEF Next
<1> QED
  BY <1>1, <1>2, InvHolds, PTL DEF Spec, CommandsAreFifo, Commands!FifoSpec

\* The firmware-to-host ring implements a FIFO of QueueSize tokens.
THEOREM ResponsesRefineFifo == Spec => ResponsesAreFifo
<1>1. Init => Responses!FifoInit
  BY SizeIsNat DEF Init, Responses!FifoInit, Contents, Ring, NumMessages, Dir
<1>2. TypeOK /\ HeldResponseStable /\ [Next]_vars => [Responses!FifoNext]_(Contents("out"))
  <2> SUFFICES ASSUME TypeOK, HeldResponseStable, [Next]_vars
               PROVE  Responses!FifoNext \/ Contents("out")' = Contents("out")
    OBVIOUS
  <2> DEFINE w == wr["out"]
             r == rd["out"]
             b == buf["out"]
  <2>1. w \in Index /\ r \in Index /\ b \in [Index -> Token \cup {NoToken}]
    BY DEF TypeOK, Dir
  <2>2. CASE SendGetToken \/ RecvGetToken \/ DeviceLost \/ UNCHANGED vars
    BY <2>2, ContentsStable DEF SendGetToken, RecvGetToken, DeviceLost, vars
  <2>3. CASE SendPutToken \/ FwReceive
    BY <2>3, ContentsStable DEF SendPutToken, FwReceive, TypeOK, Dir
  <2>4. CASE RecvPutToken
    <3>1. CASE dmem
      <4>1. w # r /\ wr' = wr /\ buf' = buf /\ rd'["out"] = IncIndex(r)
        BY <2>4, <3>1 DEF RecvPutToken, HeldResponseStable, TypeOK, Dir
      <4>2. Contents("out") # << >> /\ Contents("out")' = Tail(Contents("out"))
        BY <2>1, <4>1, RingTake DEF Contents
      <4> QED
        BY <4>2 DEF Responses!FifoNext, Responses!Take
    <3>2. CASE ~ dmem
      BY <2>4, <3>2, ContentsStable DEF RecvPutToken
    <3> QED
      BY <3>1, <3>2
  <2>5. ASSUME NEW t \in Token, FillToken(t) PROVE Contents("out")' = Contents("out")
    BY <2>5, ContentsStable DEF FillToken, TypeOK, Dir
  <2>6. ASSUME NEW t \in Token, FwRespond(t) PROVE Responses!FifoNext
    <3> DEFINE c == [b EXCEPT ![w] = t]
    <3>1. /\ IncIndex(w) # r /\ rd' = rd
          /\ wr'["out"] = IncIndex(w) /\ buf'["out"] = c
      BY <2>6 DEF FwRespond, TypeOK, Dir
    <3>2. NumMessages(w, r) < QueueSize
      BY <2>1, <3>1, SizeIsNat DEF NumMessages, IncIndex, Index
    <3>3. c \in [Index -> Token \cup {NoToken}] /\ c[w] = t
      BY <2>1
    <3>4. Ring(IncIndex(w), r, c) = Append(Ring(w, r, c), t)
      BY <2>1, <3>2, <3>3, RingPut
    <3>5. Ring(w, r, c) = Ring(w, r, b)
      <4>1. \A i \in Index \ {w} : c[i] = b[i]
        BY <2>1
      <4> HIDE DEF w, r, b, c
      <4> QED
        BY <2>1, <4>1, RingFill
    <3>6. Contents("out")' = Append(Contents("out"), t)
      BY <3>1, <3>4, <3>5 DEF Contents
    <3>7. Len(Contents("out")) < QueueSize
      BY <3>2, ContentsType DEF Dir
    <3> QED
      BY <3>6, <3>7 DEF Responses!FifoNext, Responses!Put
  <2> HIDE DEF w, r, b
  <2> QED
    BY <2>2, <2>3, <2>4, <2>5, <2>6 DEF Next
<1> QED
  BY <1>1, <1>2, TypeCorrect, ResponseStable, PTL DEF Spec, ResponsesAreFifo, Responses!FifoSpec
=============================================================================
