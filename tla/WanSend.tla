------------------------------ MODULE WanSend -------------------------------
(***************************************************************************)
(* Sending to WANs: interface_send_batch_queue() and                       *)
(* interface_send_flush_queue() (interface.c).  Without encryption the RX  *)
(* threads of all LAN queues send (local_queue_thread_no_crypto(), batch   *)
(* by batch), with it worker_thread() does (forwarder.c, a packet or its   *)
(* two halves at a time); what they share is the TX ring of each WAN, its  *)
(* completion ring and its count of pending packets, under tx_lock.        *)
(*                                                                         *)
(* The sockets are bound with XDP_COPY: at sendto() or poll() the kernel   *)
(* takes queued frames, as many as the driver likes and for which there is *)
(* a place in the completion ring.  Slots of packets are handed out as in  *)
(* LanDelivery, so that only their number is kept.  A hold of tx_lock is   *)
(* one step.                                                               *)
(***************************************************************************)
EXTENDS Integers

CONSTANTS
  Senders,  \* threads that send
  Wans,     \* WAN interfaces, one AF_XDP queue each
  RingSize, \* ring_size: entries of the TX ring and of the completion ring
  KickAt,   \* a kick after so many packets: 16
  MaxBurst, \* batch_size, or the two halves of a packet
  Busy      \* WANs whose RX thread may always find packets, and never poll

ASSUME WanAssumption ==
  /\ RingSize \in Nat \ {0} /\ KickAt \in Nat \ {0} /\ MaxBurst \in Nat \ {0}
  /\ Busy \subseteq Wans

VARIABLES
  left,  \* what a sender has still to send of its batch or job
  used,  \* wan_used: the WANs a sender has queued packets for
  tx     \* the rings of each WAN

wanVars == <<left, used, tx>>

\* The state of a WAN's rings.
Rings ==
  [queued  : 0 .. RingSize,   \* frames in the TX ring
   pending : 0 .. KickAt - 1, \* pending_tx_count
   air     : 0 .. RingSize,   \* frames the kernel has taken and not completed
   done    : 0 .. RingSize,   \* entries of the completion ring
   offered : 0 .. RingSize]   \* history: how many of the queued a kick offered

-----------------------------------------------------------------------------
\* sendto() and poll(): the kernel takes some of the frames.
Offered(r) ==
  {[r EXCEPT !.queued = @ - n, !.air = @ + n, !.offered = r.queued - n] :
     n \in {m \in 0 .. r.queued : r.air + r.done + m <= RingSize}}

\* A sender's kick.
Kicked(r) == {[k EXCEPT !.pending = 0] : k \in Offered(r)}

Full(r) == r.queued = RingSize

\* Fault: completions are left in their ring.
ReadyUndrained(r) == IF Full(r) /\ r.pending > 0 THEN Kicked(r) ELSE {r}

\* Completions are drained; a full ring is kicked if there are pending packets,
\* and looked at again and again.
Ready(r) ==
  LET d == [r EXCEPT !.done = 0]
  IN  IF Full(d) /\ d.pending > 0 THEN Kicked(d) ELSE {d}

\* A packet is queued, and if enough are pending, the ring kicked.
Put(r) ==
  LET q == [r EXCEPT !.queued = @ + 1, !.pending = @ + 1]
  IN  IF q.pending >= KickAt THEN Kicked(q) ELSE {q}

-----------------------------------------------------------------------------
(***************************************************************************)
(* A sender.                                                               *)
(***************************************************************************)
\* A batch is received, or a job taken.
Begin(s) ==
  /\ left[s] = 0 /\ used[s] = {}
  /\ \E n \in 1 .. MaxBurst : left' = [left EXCEPT ![s] = n]
  /\ UNCHANGED <<used, tx>>

NextPacket(s) == left[s] > 0 /\ left' = [left EXCEPT ![s] = @ - 1]

\* Fault: only the WAN of the last packet is remembered.
SendLast(s, w) ==
  /\ NextPacket(s)
  /\ \E r \in Ready(tx[w]) : ~ Full(r) /\ \E q \in Put(r) : tx' = [tx EXCEPT ![w] = q]
  /\ used' = [used EXCEPT ![s] = {w}]

\* The next packet is for WAN w (select_wan_idx_for_packet(), of PacketChoice).
Send(s, w) ==
  /\ NextPacket(s)
  /\ \E r \in Ready(tx[w]) : ~ Full(r) /\ \E q \in Put(r) : tx' = [tx EXCEPT ![w] = q]
  /\ used' = [used EXCEPT ![s] = @ \cup {w}]

\* There is no room: the packet is dropped.
Drop(s, w) ==
  /\ NextPacket(s)
  /\ \E r \in Ready(tx[w]) : Full(r) /\ tx' = [tx EXCEPT ![w] = r]
  /\ UNCHANGED used

\* set_wan_l2_addrs() or encryption fails, or no policy is found.
Lose(s) == NextPacket(s) /\ UNCHANGED <<used, tx>>

\* interface_send_flush_queue() for the WANs used, after the last packet.
Flush(s, w) ==
  /\ left[s] = 0 /\ w \in used[s]
  /\ used' = [used EXCEPT ![s] = @ \ {w}]
  /\ \E r \in (IF tx[w].pending > 0 THEN Kicked(tx[w]) ELSE {tx[w]}) : tx' = [tx EXCEPT ![w] = r]
  /\ UNCHANGED left

Sender(s) == Begin(s) \/ Lose(s) \/ \E w \in Wans : Send(s, w) \/ Drop(s, w) \/ Flush(s, w)

-----------------------------------------------------------------------------
(***************************************************************************)
(* The kernel, and the RX thread of the WAN.                               *)
(***************************************************************************)
\* The driver has sent a frame.
Complete(w) ==
  /\ tx[w].air > 0
  /\ tx' = [tx EXCEPT ![w].air = @ - 1, ![w].done = @ + 1]
  /\ UNCHANGED <<left, used>>

\* Fault: the thread polls only when there are pending packets.
PollPending(w) ==
  /\ tx[w].pending > 0
  /\ \E r \in Offered(tx[w]) : tx' = [tx EXCEPT ![w] = r]
  /\ UNCHANGED <<left, used>>

\* interface_recv_single_queue() finds no packet and calls poll().
Poll(w) ==
  /\ \E r \in Offered(tx[w]) : tx' = [tx EXCEPT ![w] = r]
  /\ UNCHANGED <<left, used>>

-----------------------------------------------------------------------------
WanInit ==
  /\ left = [s \in Senders |-> 0]
  /\ used = [s \in Senders |-> {}]
  /\ tx = [w \in Wans |-> [queued |-> 0, pending |-> 0, air |-> 0, done |-> 0, offered |-> 0]]

WanNext == (\E s \in Senders : Sender(s)) \/ (\E w \in Wans : Complete(w) \/ Poll(w))

\* The kernel takes a frame for WAN w.
Takes(w) == tx'[w].air > tx[w].air

\* The threads run, packets for every WAN keep coming, drivers complete what
\* they took, and take frames if they are kicked again and again.
WanFairness ==
  /\ \A s \in Senders : WF_wanVars(Sender(s))
  /\ \A w \in Wans :
       /\ SF_wanVars(\E s \in Senders : Send(s, w) \/ Drop(s, w))
       /\ SF_wanVars((\E s \in Senders : Sender(s)) /\ Takes(w))
       /\ WF_wanVars(Complete(w))
       /\ w \notin Busy => SF_wanVars(Poll(w) /\ Takes(w))

WanSpec == WanInit /\ [][WanNext]_wanVars /\ WanFairness

-----------------------------------------------------------------------------
WanTypeOK ==
  /\ left \in [Senders -> 0 .. MaxBurst]
  /\ used \in [Senders -> SUBSET Wans]
  /\ tx \in [Wans -> Rings]

(***************************************************************************)
(* No queued frame is forgotten: if the kernel has not been offered it, by *)
(* whichever thread, then some sender still has to flush the WAN.  (Which  *)
(* need not be the one that queued it: the flush of one thread offers the  *)
(* frames of all and resets the count that another one looks at.)          *)
(***************************************************************************)
NothingForgotten ==
  \A w \in Wans : tx[w].offered < tx[w].queued => \E s \in Senders : w \in used[s]

\* The ring is full and nobody has packets pending: no sender kicks it
\* (interface.c:1384).
Stuck(w) == tx[w].queued = RingSize /\ tx[w].pending = 0

(***************************************************************************)
(* Frames go out on every WAN, again and again, unless the WAN's RX thread *)
(* is so busy that it never polls: then a full ring whose last kick took   *)
(* nothing may stay as it is, every further packet being dropped.          *)
(***************************************************************************)
GoesOut ==
  \A w \in Wans : []<><<Takes(w)>>_wanVars \/ (w \in Busy /\ <>[]Stuck(w))
=============================================================================
