------------------------------ MODULE JobQueue ------------------------------
(***************************************************************************)
(* What the worker ring promises: a bounded FIFO queue between any number  *)
(* of producers and one consumer.  A job is queued, or refused because the *)
(* queue holds Capacity jobs; a queued job is handed out once, in order.   *)
(***************************************************************************)
EXTENDS Naturals, Sequences

CONSTANTS
  Jobs,      \* the jobs
  NoJob,     \* not one of them: the consumer has no job
  Capacity   \* a natural number

VARIABLES
  queue,    \* the jobs that wait, oldest first
  refused,  \* the jobs whose producers were turned away
  hand      \* the job the consumer is working on

vars == <<queue, refused, hand>>

Put(j) ==
  /\ Len(queue) < Capacity
  /\ queue' = Append(queue, j)
  /\ UNCHANGED <<refused, hand>>

Refuse(j) ==
  /\ Len(queue) = Capacity
  /\ refused' = refused \cup {j}
  /\ UNCHANGED <<queue, hand>>

GiveUp(j) ==
  /\ j \in refused
  /\ refused' = refused \ {j}
  /\ UNCHANGED <<queue, hand>>

Take ==
  /\ hand = NoJob
  /\ queue # <<>>
  /\ hand' = Head(queue)
  /\ queue' = Tail(queue)
  /\ UNCHANGED refused

Finish ==
  /\ hand # NoJob
  /\ hand' = NoJob
  /\ UNCHANGED <<queue, refused>>

Init == queue = <<>> /\ refused = {} /\ hand = NoJob

Next ==
  \/ \E j \in Jobs : Put(j) \/ Refuse(j) \/ GiveUp(j)
  \/ Take
  \/ Finish

Spec == Init /\ [][Next]_vars
=============================================================================
