------------------------------ MODULE BoundedFifo ------------------------------
(***************************************************************************)
(* What a sample queue promises, whatever its implementation: samples leave *)
(* in the order in which they were accepted, each of them once, at most     *)
(* Capacity of them are stored, and closing the queue drops what it holds.  *)
(***************************************************************************)
EXTENDS Naturals, Sequences

CONSTANTS
  Sample,    \* the samples producers may offer
  Capacity   \* the largest number of stored samples

VARIABLES
  fifo,       \* the stored samples, oldest first
  accepted,   \* every sample ever stored, in order
  delivered,  \* every sample ever removed by a consumer, in order
  open        \* FALSE once the queue is closed

fifoVars == <<fifo, accepted, delivered, open>>

FifoInit ==
  /\ fifo = <<>>
  /\ accepted = <<>>
  /\ delivered = <<>>
  /\ open = TRUE

Enqueue(s) ==
  /\ open
  /\ Len(fifo) < Capacity
  /\ fifo' = Append(fifo, s)
  /\ accepted' = Append(accepted, s)
  /\ UNCHANGED <<delivered, open>>

Dequeue ==
  /\ open
  /\ fifo # <<>>
  /\ fifo' = Tail(fifo)
  /\ delivered' = Append(delivered, Head(fifo))
  /\ UNCHANGED <<accepted, open>>

Close ==
  /\ open
  /\ open' = FALSE
  /\ fifo' = <<>>
  /\ UNCHANGED <<accepted, delivered>>

FifoNext == (\E s \in Sample : Enqueue(s)) \/ Dequeue \/ Close

FifoSpec == FifoInit /\ [][FifoNext]_fifoVars

-----------------------------------------------------------------------------
(* As long as the queue is open no accepted sample is lost, duplicated or    *)
(* overtaken: the delivered samples followed by the stored ones are exactly  *)
(* the accepted ones, and never more than Capacity samples are stored.       *)
Conservation ==
  /\ open => accepted = delivered \o fifo
  /\ Len(fifo) <= Capacity

================================================================================
