-------------------------------- MODULE FwCom --------------------------------
(***************************************************************************)
(* The syscom layer of ipu6/ipu-fw-com.c: token rings in system memory     *)
(* whose read and write indexes live in the DMEM of the subsystem, so that *)
(* host and firmware move them independently.  "in" is a host-to-firmware  *)
(* queue (input_queue), "out" a firmware-to-host queue (output_queue).     *)
(*                                                                         *)
(* A host sender holds a pointer to the slot between ipu_send_get_token    *)
(* and ipu_send_put_token; the interrupt handler holds one between         *)
(* ipu_recv_get_token and ipu_recv_put_token.  The firmware runs between   *)
(* any two of these calls.  Callers serialise the senders of one queue.    *)
(***************************************************************************)
EXTENDS Integers, Sequences

CONSTANTS
  Token,      \* payloads that the model tells apart
  NoToken,    \* contents of a slot nobody has written
  QueueSize,  \* queue_size of the configuration (ring slots minus one)
  Credits     \* most unread tokens the callers of one send queue let pile up

ASSUME QueueSizeAssumption == QueueSize \in Nat \ {0}
ASSUME CreditsAssumption == Credits \in Nat \ {0}
ASSUME NoTokenAssumption == NoToken \notin Token

VARIABLES
  wr, rd,     \* [Dir -> index]: the FW_COM_WR_REG and FW_COM_RD_REG registers
  buf,        \* [Dir -> [index -> token]]: the shared buffer space
  dmem,       \* FALSE once register reads return all ones (device lost, FLR)
  sender,     \* what the host sender is doing
  held        \* the response the interrupt handler is processing, or NoToken

vars == << wr, rd, buf, dmem, sender, held >>

Dir == {"in", "out"}

\* q->size: ipu_sys_queue_init() adds the slot that tells full from empty.
Size == QueueSize + 1
Index == 0 .. Size - 1

\* What readl() returns from a device that is gone; never a valid index.
AllOnes == 2 * Size + 1

WrReg(d) == IF dmem THEN wr[d] ELSE AllOnes
RdReg(d) == IF dmem THEN rd[d] ELSE AllOnes

IsIndexValid(i) == i < Size

NumMessages(w, r) == IF w < r THEN w + Size - r ELSE w - r

NumFree(w, r) == Size - NumMessages(w, r)

IncIndex(i) == IF i + 1 >= Size THEN 0 ELSE i + 1

\* The slot of the i-th oldest token of a ring read from index r.
Slot(r, i) == IF r + i - 1 < Size THEN r + i - 1 ELSE r + i - 1 - Size

\* The tokens between two indexes, oldest first.
Ring(w, r, b) == [i \in 1 .. NumMessages(w, r) |-> b[Slot(r, i)]]

Contents(d) == Ring(wr[d], rd[d], buf[d])

TypeOK ==
  /\ wr \in [Dir -> Index]
  /\ rd \in [Dir -> Index]
  /\ buf \in [Dir -> [Index -> Token \cup {NoToken}]]
  /\ dmem \in BOOLEAN
  /\ sender \in {"idle", "refused", "filling", "filled"}
  /\ held \in Token \cup {NoToken}

Init ==
  /\ wr = [d \in Dir |-> 0]
  /\ rd = [d \in Dir |-> 0]
  /\ buf = [d \in Dir |-> [i \in Index |-> NoToken]]
  /\ dmem = TRUE
  /\ sender = "idle"
  /\ held = NoToken

-----------------------------------------------------------------------------
(* Host to firmware *)

\* The test with which ipu_send_get_token() decides that a slot is free.
SendHasRoom ==
  /\ IsIndexValid(WrReg("in")) /\ IsIndexValid(RdReg("in"))
  /\ NumFree(WrReg("in") + 1, RdReg("in")) # 0

\* Assumed of the callers, which nothing in ipu-fw-com.c checks: they do not let more
\* than Credits tokens pile up unread.  A call that is refused leaves nothing behind,
\* so nothing limits those.
CallerMaySend == SendHasRoom => NumMessages(wr["in"], rd["in"]) < Credits

\* Mutant: the slot is published before the caller has filled it.
SendGetTokenPublishes ==
  /\ sender \in {"idle", "refused"}
  /\ CallerMaySend
  /\ sender' = IF SendHasRoom THEN "filling" ELSE "refused"
  /\ wr' = IF SendHasRoom THEN [wr EXCEPT !["in"] = IncIndex(@)] ELSE wr
  /\ UNCHANGED << rd, buf, dmem, held >>

SendGetToken ==
  /\ sender \in {"idle", "refused"}
  /\ CallerMaySend
  /\ sender' = IF SendHasRoom THEN "filling" ELSE "refused"
  /\ UNCHANGED << wr, rd, buf, dmem, held >>

\* The caller writes the token through the pointer it got.
FillToken(t) ==
  /\ sender = "filling"
  /\ buf' = [buf EXCEPT !["in"][wr["in"]] = t]
  /\ sender' = "filled"
  /\ UNCHANGED << wr, rd, dmem, held >>

\* A register write to a lost device has no effect.
SendPutToken ==
  /\ sender = "filled"
  /\ wr' = IF dmem THEN [wr EXCEPT !["in"] = IncIndex(@)] ELSE wr
  /\ sender' = "idle"
  /\ UNCHANGED << rd, buf, dmem, held >>

\* The firmware takes the oldest command.
FwReceive ==
  /\ dmem
  /\ wr["in"] # rd["in"]
  /\ rd' = [rd EXCEPT !["in"] = IncIndex(@)]
  /\ UNCHANGED << wr, buf, dmem, sender, held >>

-----------------------------------------------------------------------------
(* Firmware to host *)

\* The firmware publishes a response; it keeps one slot free.
FwRespond(t) ==
  /\ dmem
  /\ IncIndex(wr["out"]) # rd["out"]
  /\ buf' = [buf EXCEPT !["out"][wr["out"]] = t]
  /\ wr' = [wr EXCEPT !["out"] = IncIndex(@)]
  /\ UNCHANGED << rd, dmem, sender, held >>

RecvGetToken ==
  /\ held = NoToken
  /\ IsIndexValid(WrReg("out")) /\ IsIndexValid(RdReg("out"))
  /\ NumMessages(WrReg("out"), RdReg("out")) # 0
  /\ held' = buf["out"][RdReg("out")]
  /\ UNCHANGED << wr, rd, buf, dmem, sender >>

\* Mutant: put without a token in hand.
RecvPutTokenUnpaired ==
  /\ rd' = IF dmem THEN [rd EXCEPT !["out"] = IncIndex(@)] ELSE rd
  /\ held' = NoToken
  /\ UNCHANGED << wr, buf, dmem, sender >>

RecvPutToken ==
  /\ held # NoToken
  /\ rd' = IF dmem THEN [rd EXCEPT !["out"] = IncIndex(@)] ELSE rd
  /\ held' = NoToken
  /\ UNCHANGED << wr, buf, dmem, sender >>

\* Function level reset or power loss: every later register read is garbage.
DeviceLost ==
  /\ dmem
  /\ dmem' = FALSE
  /\ UNCHANGED << wr, rd, buf, sender, held >>

Next ==
  \/ SendGetToken \/ SendPutToken \/ FwReceive
  \/ RecvGetToken \/ RecvPutToken
  \/ DeviceLost
  \/ \E t \in Token : FillToken(t) \/ FwRespond(t)

Spec == Init /\ [][Next]_vars

-----------------------------------------------------------------------------
(* Properties *)

Commands == INSTANCE TokenFifo WITH Capacity <- QueueSize, fifo <- Contents("in")
Responses == INSTANCE TokenFifo WITH Capacity <- QueueSize, fifo <- Contents("out")

\* The host-to-firmware ring is a FIFO of QueueSize tokens: ipu_send_put_token
\* never drops, duplicates or reorders what ipu_send_get_token made room for.
CommandsAreFifo == Commands!FifoSpec

\* The firmware-to-host ring is a FIFO as well, whatever the interleaving of
\* the interrupt handler's get and put with the firmware.
ResponsesAreFifo == Responses!FifoSpec

\* A slot that ipu_send_get_token handed out was free, so filling it touches no
\* token the firmware has still to read.
SlotIsFree ==
  sender \in {"filling", "filled"} => NumMessages(wr["in"], rd["in"]) < QueueSize

\* The response the interrupt handler works on stays in its slot, at the head
\* of the ring, until ipu_recv_put_token releases it: the firmware cannot
\* overwrite it under the handler.
HeldResponseStable ==
  held # NoToken => /\ wr["out"] # rd["out"]
                    /\ buf["out"][rd["out"]] = held

\* While the device answers, ipu_send_get_token refuses only when the ring
\* holds all the tokens it was configured for.
RefusedOnlyWhenFull ==
  [][ sender' = "refused" /\ sender # "refused" /\ dmem
        => NumMessages(wr["in"], rd["in"]) = QueueSize ]_vars
=============================================================================
