----------------------------- MODULE WorkerRing -----------------------------
(***************************************************************************)
(* The path of a received frame through the worker ring (forwarder.c): the *)
(* RX thread of each LAN, local_queue_thread_l3l4(), takes frames from the *)
(* RX ring of its AF_XDP socket and queues them for worker_thread(), which *)
(* sends each packet and gives its frame back to the fill ring; when the   *)
(* ring is full the RX thread gives the frame back itself.                 *)
(*                                                                         *)
(* The ring is locked.  The fill ring is not: it is libxdp's ring for a    *)
(* single producer (include/xdp/xsk.h), and RX thread and worker are two.  *)
(***************************************************************************)
EXTENDS Integers, Sequences, FiniteSets

CONSTANTS
  Lans,      \* local interfaces, one AF_XDP queue each
  Worker,    \* the worker thread
  Size,      \* WORKER_RING_SIZE
  RingSize,  \* ring_size: entries of a fill ring, frames for reception
  MaxBatch,  \* batch_size
  NoFrame    \* no frame

ASSUME RingAssumption ==
  /\ Size \in Nat \ {0, 1}
  /\ RingSize \in Nat \ {0}
  /\ MaxBatch \in Nat \ {0}
  /\ Worker \notin Lans
  /\ NoFrame \notin Lans \X (0..RingSize-1)

Frames    == Lans \X (0..RingSize-1)
LanOf(f)  == f[1]
Threads   == Lans \cup {Worker}

\* Producer and consumer indices of a fill ring run modulo twice its size
\* (in the code modulo 2^32), so that full and empty differ.
Wrap(i) == i % (2 * RingSize)

VARIABLES
  running,  \* forwarder.c: running
  head,     \* worker_ring.head
  tail,     \* worker_ring.tail
  jobs,     \* worker_ring.jobs, a job being its frame
  rpc,      \* where each RX thread is
  batch,    \* what an RX thread still has to queue of its batch
  wpc,      \* where the worker is
  job,      \* the worker's job
  rx,       \* RX rings: frames with a packet
  fill,     \* fill rings: the entries
  cached,   \* fill rings: cached_prod
  prod,     \* fill rings: the producer index the kernel sees
  cons,     \* fill rings: the kernel's consumer index
  relpc,    \* where a thread is in interface_recv_release_single_queue()
  relf,     \* the frame it gives back
  idx,      \* the index it holds in a register
  clash     \* history: two threads were giving frames to one fill ring

ringVars == <<head, tail, jobs>>
rxVars   == <<rpc, batch>>
wVars    == <<wpc, job>>
fillVars == <<fill, cached, prod>>
relVars  == <<relpc, relf, idx, clash>>
vars == <<running, ringVars, rxVars, wVars, rx, cons, fillVars, relVars>>

-----------------------------------------------------------------------------
(***************************************************************************)
(* The kernel and the daemon.                                              *)
(***************************************************************************)
\* A packet arrives in the next frame of the fill ring.
Arrive(l) ==
  /\ cons[l] # prod[l]
  /\ rx' = [rx EXCEPT ![l] = Append(@, fill[l][cons[l] % RingSize])]
  /\ cons' = [cons EXCEPT ![l] = Wrap(@ + 1)]
  /\ UNCHANGED <<running, ringVars, rxVars, wVars, fillVars, relVars>>

\* forwarder_stop()
Stop ==
  /\ running
  /\ running' = FALSE
  /\ UNCHANGED <<ringVars, rxVars, wVars, rx, cons, fillVars, relVars>>

-----------------------------------------------------------------------------
(***************************************************************************)
(* interface_recv_release_single_queue(), one frame, by thread t.  Every   *)
(* load and store of an index is a step.  The fill ring has an entry for   *)
(* every frame, so xsk_ring_prod__reserve() finds room.                    *)
(***************************************************************************)
\* What the caller does to start the call.
StartRelease(t, f) ==
  /\ relpc' = [relpc EXCEPT ![t] = "load"]
  /\ relf' = [relf EXCEPT ![t] = f]
  /\ clash' = (clash \/ \E u \in Threads \ {t} :
                          relpc[u] # "no" /\ LanOf(relf[u]) = LanOf(f))
  /\ UNCHANGED idx

\* xsk_ring_prod__reserve(): *idx = cached_prod ...
RelLoad(t) ==
  /\ relpc[t] = "load"
  /\ idx' = [idx EXCEPT ![t] = cached[LanOf(relf[t])]]
  /\ relpc' = [relpc EXCEPT ![t] = "bump"]
  /\ UNCHANGED <<running, ringVars, rxVars, wVars, rx, cons, fillVars, relf, clash>>

\* Fault: the entry is submitted where it is reserved.
RelBumpSubmit(t) ==
  /\ relpc[t] = "bump"
  /\ cached' = [cached EXCEPT ![LanOf(relf[t])] = Wrap(idx[t] + 1)]
  /\ prod' = [prod EXCEPT ![LanOf(relf[t])] = Wrap(idx[t] + 1)]
  /\ relpc' = [relpc EXCEPT ![t] = "write"]
  /\ UNCHANGED <<running, ringVars, rxVars, wVars, rx, cons, fill, relf, idx, clash>>

\* ... cached_prod += 1
RelBump(t) ==
  /\ relpc[t] = "bump"
  /\ cached' = [cached EXCEPT ![LanOf(relf[t])] = Wrap(idx[t] + 1)]
  /\ relpc' = [relpc EXCEPT ![t] = "write"]
  /\ UNCHANGED <<running, ringVars, rxVars, wVars, rx, cons, fill, prod, relf, idx, clash>>

\* Fault: the entry is written one place further on.
RelWriteNext(t) ==
  /\ relpc[t] = "write"
  /\ fill' = [fill EXCEPT ![LanOf(relf[t])][(idx[t] + 1) % RingSize] = relf[t]]
  /\ relpc' = [relpc EXCEPT ![t] = "count"]
  /\ UNCHANGED <<running, ringVars, rxVars, wVars, rx, cons, cached, prod, relf, idx, clash>>

\* *xsk_ring_prod__fill_addr() = addr
RelWrite(t) ==
  /\ relpc[t] = "write"
  /\ fill' = [fill EXCEPT ![LanOf(relf[t])][idx[t] % RingSize] = relf[t]]
  /\ relpc' = [relpc EXCEPT ![t] = "count"]
  /\ UNCHANGED <<running, ringVars, rxVars, wVars, rx, cons, cached, prod, relf, idx, clash>>

\* xsk_ring_prod__submit(): the producer index is loaded ...
RelCount(t) ==
  /\ relpc[t] = "count"
  /\ idx' = [idx EXCEPT ![t] = prod[LanOf(relf[t])]]
  /\ relpc' = [relpc EXCEPT ![t] = "submit"]
  /\ UNCHANGED <<running, ringVars, rxVars, wVars, rx, cons, fillVars, relf, clash>>

\* ... and stored; the frame belongs to the kernel.
RelSubmit(t) ==
  /\ relpc[t] = "submit"
  /\ prod' = [prod EXCEPT ![LanOf(relf[t])] = Wrap(idx[t] + 1)]
  /\ relpc' = [relpc EXCEPT ![t] = "no"]
  /\ relf' = [relf EXCEPT ![t] = NoFrame]
  /\ idx' = [idx EXCEPT ![t] = 0]
  /\ UNCHANGED <<running, ringVars, rxVars, wVars, rx, cons, fill, cached, clash>>

Release(t) == RelLoad(t) \/ RelBump(t) \/ RelWrite(t) \/ RelCount(t) \/ RelSubmit(t)

-----------------------------------------------------------------------------
(***************************************************************************)
(* local_queue_thread_l3l4()                                               *)
(***************************************************************************)
RxLoop(l) ==
  /\ rpc[l] = "top"
  /\ rpc' = [rpc EXCEPT ![l] = IF running THEN "recv" ELSE "done"]
  /\ UNCHANGED <<running, ringVars, batch, wVars, rx, cons, fillVars, relVars>>

\* poll() times out: nothing received.
RecvNone(l) ==
  /\ rpc[l] = "recv"
  /\ rx[l] = <<>>
  /\ rpc' = [rpc EXCEPT ![l] = "top"]
  /\ UNCHANGED <<running, ringVars, batch, wVars, rx, cons, fillVars, relVars>>

\* interface_recv_single_queue() takes what there is, up to batch_size.
Recv(l) ==
  /\ rpc[l] = "recv"
  /\ rx[l] # <<>>
  /\ LET n == IF Len(rx[l]) < MaxBatch THEN Len(rx[l]) ELSE MaxBatch
     IN  /\ batch' = [batch EXCEPT ![l] = SubSeq(rx[l], 1, n)]
         /\ rx' = [rx EXCEPT ![l] = SubSeq(@, n + 1, Len(@))]
  /\ rpc' = [rpc EXCEPT ![l] = "offer"]
  /\ UNCHANGED <<running, ringVars, wVars, cons, fillVars, relVars>>

Turn(l) == rpc[l] = "offer" /\ batch[l] # <<>> /\ relpc[l] = "no"

\* Fault: the index runs past the last slot.
NextTailUnwrapped == tail + 1

NextTail == (tail + 1) % Size

\* One slot stays empty: with it filled, full would look like empty.
Full == NextTail = head

\* Under ring->lock: the job is queued ...
Enqueue(l) ==
  /\ Turn(l)
  /\ ~ Full
  /\ jobs' = [jobs EXCEPT ![tail] = Head(batch[l])]
  /\ tail' = NextTail
  /\ batch' = [batch EXCEPT ![l] = Tail(@)]
  /\ UNCHANGED <<running, head, rpc, wVars, rx, cons, fillVars, relVars>>

\* ... or, the ring being full, dropped and its frame given back.
Drop(l) ==
  /\ Turn(l)
  /\ Full
  /\ batch' = [batch EXCEPT ![l] = Tail(@)]
  /\ StartRelease(l, Head(batch[l]))
  /\ UNCHANGED <<running, ringVars, rpc, wVars, rx, cons, fillVars>>

BatchDone(l) ==
  /\ rpc[l] = "offer"
  /\ batch[l] = <<>>
  /\ relpc[l] = "no"
  /\ rpc' = [rpc EXCEPT ![l] = "top"]
  /\ UNCHANGED <<running, ringVars, batch, wVars, rx, cons, fillVars, relVars>>

RxThread(l) ==
  RxLoop(l) \/ RecvNone(l) \/ Recv(l) \/ Enqueue(l) \/ Drop(l) \/ BatchDone(l) \/ Release(l)

(***************************************************************************)
(* worker_thread()                                                         *)
(***************************************************************************)
\* Fault: the thread looks for work before it looks at `running'.
WorkerLoopBlind ==
  /\ wpc = "top"
  /\ wpc' = "take"
  /\ UNCHANGED <<running, ringVars, rxVars, job, rx, cons, fillVars, relVars>>

WorkerLoop ==
  /\ wpc = "top"
  /\ wpc' = IF running THEN "take" ELSE "done"
  /\ UNCHANGED <<running, ringVars, rxVars, job, rx, cons, fillVars, relVars>>

\* No job: sched_yield().
TakeNone ==
  /\ wpc = "take"
  /\ head = tail
  /\ wpc' = "top"
  /\ UNCHANGED <<running, ringVars, rxVars, job, rx, cons, fillVars, relVars>>

TakeJob ==
  /\ wpc = "take"
  /\ head # tail
  /\ job' = jobs[head]
  /\ head' = (head + 1) % Size
  /\ wpc' = "work"
  /\ UNCHANGED <<running, tail, jobs, rxVars, rx, cons, fillVars, relVars>>

\* Fault: a dropped packet does not reach release_local.
ProcessLeak ==
  /\ wpc = "work"
  /\ wpc' = "release"
  /\ job' = NoFrame
  /\ UNCHANGED <<running, ringVars, rxVars, rx, cons, fillVars, relVars>>

\* The packet is sent, encrypted or not, or dropped: every path ends at
\* release_local.
Process ==
  /\ wpc = "work"
  /\ wpc' = "release"
  /\ job' = NoFrame
  /\ StartRelease(Worker, job)
  /\ UNCHANGED <<running, ringVars, rxVars, rx, cons, fillVars>>

JobDone ==
  /\ wpc = "release"
  /\ relpc[Worker] = "no"
  /\ wpc' = "top"
  /\ UNCHANGED <<running, ringVars, rxVars, job, rx, cons, fillVars, relVars>>

WorkerThread == WorkerLoop \/ TakeNone \/ TakeJob \/ Process \/ JobDone \/ Release(Worker)

-----------------------------------------------------------------------------
\* interface_init_local() hands all the frames for reception to the kernel.
Init ==
  /\ running = TRUE
  /\ head = 0 /\ tail = 0
  /\ jobs = [i \in 0..Size-1 |-> NoFrame]
  /\ rpc = [l \in Lans |-> "top"]
  /\ batch = [l \in Lans |-> <<>>]
  /\ wpc = "top" /\ job = NoFrame
  /\ rx = [l \in Lans |-> <<>>]
  /\ fill = [l \in Lans |-> [i \in 0..RingSize-1 |-> <<l, i>>]]
  /\ cached = [l \in Lans |-> RingSize]
  /\ prod = [l \in Lans |-> RingSize]
  /\ cons = [l \in Lans |-> 0]
  /\ relpc = [t \in Threads |-> "no"]
  /\ relf = [t \in Threads |-> NoFrame]
  /\ idx = [t \in Threads |-> 0]
  /\ clash = FALSE

Next ==
  \/ \E l \in Lans : Arrive(l) \/ RxThread(l)
  \/ WorkerThread
  \/ Stop

\* All threads are scheduled; packets need not arrive.
Fairness == WF_vars(WorkerThread) /\ \A l \in Lans : WF_vars(RxThread(l))

Spec == Init /\ [][Next]_vars /\ Fairness

-----------------------------------------------------------------------------
\* The slots of the worker ring that hold a job, and of fill ring l that the
\* kernel may take, from the oldest on.
Queued     == [i \in 1..((tail - head) % Size) |-> jobs[(head + i - 1) % Size]]
Visible(l) == [i \in 1..Wrap(prod[l] - cons[l]) |-> fill[l][(cons[l] + i - 1) % RingSize]]

TypeOK ==
  /\ running \in BOOLEAN /\ clash \in BOOLEAN
  /\ head \in 0..Size-1 /\ tail \in 0..Size-1
  /\ jobs \in [0..Size-1 -> Frames \cup {NoFrame}]
  /\ rpc \in [Lans -> {"top", "recv", "offer", "done"}]
  /\ wpc \in {"top", "take", "work", "release", "done"}
  /\ job \in Frames \cup {NoFrame}
  /\ \A l \in Lans : batch[l] \in Seq(Frames) /\ rx[l] \in Seq(Frames)
  /\ fill \in [Lans -> [0..RingSize-1 -> Frames]]
  /\ {cached[l] : l \in Lans} \cup {prod[l] : l \in Lans} \cup {cons[l] : l \in Lans}
       \subseteq 0..2*RingSize-1
  /\ relpc \in [Threads -> {"no", "load", "bump", "write", "count", "submit"}]
  /\ relf \in [Threads -> Frames \cup {NoFrame}]
  /\ idx \in [Threads -> 0..2*RingSize-1]

\* How often frame f of LAN l is held: by the kernel, by an RX thread, by the
\* worker ring, by the worker, or by a thread that gives it back.
Count(s, f) == Cardinality({i \in DOMAIN s : s[i] = f})
Held(l, f) ==
  Count(Visible(l), f) + Count(rx[l], f) + Count(batch[l], f) + Count(Queued, f)
    + Count(<<job>>, f) + Cardinality({t \in Threads : relf[t] = f})

(***************************************************************************)
(* A frame is in one place only, and never lost: a job that finds the ring *)
(* full is given back by its RX thread (forwarder.c:1448-1451), every      *)
(* other one by the worker on whichever path it leaves the packet          *)
(* (2265-2270).  This holds as long as an RX thread and the worker do not  *)
(* give back frames to one fill ring at the same time.                     *)
(***************************************************************************)
FrameOwned ==
  ~ clash => \A l \in Lans : \A i \in 0..RingSize-1 : Held(l, <<l, i>>) = 1

\* The worker ring is a bounded FIFO queue of Size - 1 jobs: jobs are handed
\* to the worker once and in order, and refused only by a full ring.
JQ == INSTANCE JobQueue WITH
        Jobs     <- Frames,
        NoJob    <- NoFrame,
        Capacity <- Size - 1,
        queue    <- Queued,
        refused  <- {relf[l] : l \in Lans} \ {NoFrame},
        hand     <- job

IsJobQueue == JQ!Spec

\* While the forwarder runs, a job that was queued gets its frame back to the
\* kernel, however busy the ring is.
FramesReturn ==
  \A l \in Lans : \A i \in 0..RingSize-1 :
    Count(Queued, <<l, i>>) > 0 ~>
      Count(Visible(l), <<l, i>>) > 0 \/ Count(rx[l], <<l, i>>) > 0 \/ ~ running \/ clash

\* After forwarder_stop() all packet threads end, so that forwarder_run()
\* can join them, even if the ring still holds jobs.
ThreadsEnd == ~ running ~> wpc = "done" /\ \A l \in Lans : rpc[l] = "done"

(***************************************************************************)
(* include/xdp/xsk.h:137 on the submission of entries: "Make sure          *)
(* everything has been written to the ring before indicating this to the   *)
(* kernel by writing the producer pointer."  No entry a thread has still   *)
(* to write is among those the kernel may take.  When RX thread and worker *)
(* give back frames of one LAN at once, one submits the entry that the     *)
(* other has reserved and not written: without `clash' this does not hold. *)
(***************************************************************************)
WrittenBeforeShown ==
  ~ clash => \A t \in Threads : relpc[t] = "write" =>
    LET l == LanOf(relf[t]) IN Wrap(idx[t] - cons[l]) >= Wrap(prod[l] - cons[l])

\* What lets two threads give back frames to one LAN without a lock: a frame is
\* in one place, and the kernel sees no entry before it is written, as long as
\* the two do not do it at the same time.
FramesSafe == FrameOwned /\ WrittenBeforeShown
=============================================================================
