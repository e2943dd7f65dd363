------------------------------ MODULE TokenFifo ------------------------------
(***************************************************************************)
(* What a syscom queue promises to the two processors that share it: a     *)
(* bounded first-in first-out queue of tokens.  Nothing is lost, nothing   *)
(* is delivered twice, nothing overtakes.                                  *)
(***************************************************************************)
EXTENDS Naturals, Sequences

CONSTANTS
  Token,      \* what a queue element can carry
  Capacity    \* how many tokens the configuration asked room for

VARIABLE fifo

FifoInit == fifo = << >>

Put(t) == /\ Len(fifo) < Capacity
          /\ fifo' = Append(fifo, t)

Take == /\ fifo # << >>
        /\ fifo' = Tail(fifo)

FifoNext == Take \/ \E t \in Token : Put(t)

FifoSpec == FifoInit /\ [][FifoNext]_fifo
=============================================================================
