---------------------------- MODULE LanDelivery -----------------------------
(***************************************************************************)
(* How a packet that came in on a WAN gets to its host in routed mode: the *)
(* WAN thread (forwarder.c) takes a batch of frames from the RX ring,      *)
(* finds the MAC of each destination in the ARP cache of the LAN           *)
(* (ArpCache), copies the packet to a slot of the LAN's socket and queues  *)
(* it there (interface.c), then gives the frames back.  It is              *)
(* wan_queue_thread_no_crypto() if there are no policies, or the thread    *)
(* that decrypts.  With policies, the LAN keeps the MAC of the first of    *)
(* their hosts found in the cache at the start, and a queued packet gets   *)
(* that instead of the MAC that was looked up, until a reload clears it.   *)
(*                                                                         *)
(* The sockets are bound with XDP_COPY: the kernel copies a queued frame   *)
(* when it takes it, and takes as many as it likes whenever sendto() or    *)
(* poll() is called.  There is one WAN thread, and one LAN.                *)
(***************************************************************************)
EXTENDS ArpCache

CONSTANTS
  Dests,      \* the addresses packets go to
  PolicyHosts,\* the single hosts of the policies that are on the LAN, in order
  RingSize,   \* ring_size of the WAN: its frames, fill ring and RX ring
  TxRing,     \* ring_size of the LAN
  Half,       \* frame_count / 2 of the LAN: slots for sending
  KickAt,     \* a kick after so many packets: 4
  MaxRestarts \* bound: restarts of the process

ASSUME DeliveryAssumption ==
  /\ Dests \subseteq Ips /\ PolicyHosts \in Seq(Ips) /\ RingSize \in Nat \ {0}
  /\ TxRing \in Nat \ {0} /\ KickAt \in Nat \ {0} /\ MaxRestarts \in Nat
  /\ Half \in Nat /\ Half >= TxRing  \* config_validate()

VARIABLES
  plain,    \* there are no policies: wan_queue_thread_no_crypto() runs
  ready,    \* forwarder_init() is through with the LAN
  primary,  \* local_config.dst_mac; NoMac for zeros
  fill,     \* fill ring: the frames the kernel may receive into
  rx,       \* RX ring: frame and destination
  batch,    \* the batch of the WAN thread
  pos,      \* its index into the batch; 0 between batches
  missed,   \* history: a frame was given back for want of a MAC
  queue,    \* TX ring of the LAN: the slots of the packets
  txSlot,   \* tx_slot, modulo Half
  pending,  \* pending_tx_count
  restarts

lanVars == <<plain, ready, primary>>
rxVars == <<fill, rx, batch, pos, missed>>
txVars == <<queue, txSlot, pending>>
vars == <<arpVars, lanVars, rxVars, txVars, restarts>>

Frames == 1 .. RingSize
FillRing == [i \in Frames |-> i]

-----------------------------------------------------------------------------
\* lan_arp_resolve_policy_hosts(): hosts that are not in the cache are asked for.
Resolve(ip) ==
  /\ ~ready /\ ~plain
  /\ ip \in ToSet(PolicyHosts) /\ CacheLookup(table, ip) = NoMac
  /\ Ask(ip)
  /\ UNCHANGED <<lanVars, rxVars, txVars, restarts>>

\* The MAC of the first host of the policies that is in the cache.
FirstKnown ==
  LET known == {i \in DOMAIN PolicyHosts : CacheLookup(table, PolicyHosts[i]) # NoMac}
  IN IF known = {} THEN NoMac ELSE CacheLookup(table, PolicyHosts[Min(known)])

\* local_sync_primary_peer_mac(), the end of the LAN's initialisation.
Sync ==
  /\ ~ready
  /\ ready' = TRUE
  /\ primary' = IF plain THEN NoMac ELSE FirstKnown
  /\ UNCHANGED <<arpVars, plain, rxVars, txVars, restarts>>

\* A hot reload installs a configuration as it was loaded, without the MAC.
Reload ==
  /\ ready /\ primary # NoMac
  /\ primary' = NoMac
  /\ UNCHANGED <<arpVars, plain, ready, rxVars, txVars, restarts>>

-----------------------------------------------------------------------------
\* The kernel receives a packet if both rings let it.
Receive(ip) ==
  /\ ready
  /\ fill # <<>> /\ Len(rx) < RingSize
  /\ fill' = Tail(fill)
  /\ rx' = Append(rx, [frame |-> Head(fill), ip |-> ip])
  /\ UNCHANGED <<arpVars, lanVars, batch, pos, missed, txVars, restarts>>

\* interface_recv_single_queue()
TakeBatch ==
  /\ pos = 0 /\ rx # <<>>
  /\ batch' = rx /\ rx' = <<>>
  /\ pos' = 1
  /\ UNCHANGED <<arpVars, lanVars, fill, missed, txVars, restarts>>

\* Fault: the fill ring is taken to have room.
ReleasedAll(frames) == fill \o frames

\* interface_recv_release_single_queue(): a frame for which the fill ring has no
\* room is passed over.
Released(frames) == SubSeq(fill \o frames, 1, Min({RingSize, Len(fill \o frames)}))

Current == batch[pos]
HasPacket == pos \in DOMAIN batch

\* set_local_l2_addrs() fails: the packet is dropped.  The thread that does not
\* decrypt gives its frame back, which it will be again with the batch.
Miss ==
  /\ HasPacket
  /\ CacheLookup(table, Current.ip) = NoMac
  /\ Ask(Current.ip)
  /\ fill' = IF plain THEN Released(<<Current.frame>>) ELSE fill
  /\ missed' = (missed \/ plain)
  /\ pos' = pos + 1
  /\ UNCHANGED <<lanVars, rx, batch, txVars, restarts>>

\* sendto() or poll(): the kernel takes some of the frames.
Kick(q) == queue' \in {SubSeq(q, n + 1, Len(q)) : n \in 0 .. Len(q)}

\* Fault: one slot less is used than there are.
NextSlotShort(s) == (s + 1) % (Half - 1)

NextSlot(s) == (s + 1) % Half

\* The MAC a packet for an address is queued with.
Written(ip) == IF primary # NoMac THEN primary ELSE CacheLookup(table, ip)

\* interface_send_to_local_batch_queue()
Send ==
  /\ HasPacket
  /\ CacheLookup(table, Current.ip) # NoMac
  /\ Len(queue) < TxRing
  /\ LET q == Append(queue, txSlot)
     IN IF pending + 1 >= KickAt
        THEN Kick(q) /\ pending' = 0
        ELSE queue' = q /\ pending' = pending + 1
  /\ txSlot' = NextSlot(txSlot)
  /\ pos' = pos + 1
  /\ UNCHANGED <<arpVars, lanVars, fill, rx, batch, missed, restarts>>

Blocked == HasPacket /\ CacheLookup(table, Current.ip) # NoMac /\ Len(queue) = TxRing

\* The TX ring is full: kick and look again.
SendWait ==
  /\ Blocked
  /\ Kick(queue)
  /\ pending' = 0
  /\ UNCHANGED <<arpVars, lanVars, rxVars, txSlot, restarts>>

\* Fault: its frame is given back, as it will be with the batch.
GiveUpReleasing ==
  /\ Blocked
  /\ fill' = Released(<<Current.frame>>)
  /\ pos' = pos + 1
  /\ UNCHANGED <<arpVars, lanVars, rx, batch, missed, txVars, restarts>>

\* It still is after many kicks: the packet is dropped.
GiveUp ==
  /\ Blocked
  /\ pos' = pos + 1
  /\ UNCHANGED <<arpVars, lanVars, fill, rx, batch, missed, txVars, restarts>>

FramesOf(packets) == [i \in DOMAIN packets |-> packets[i].frame]
ReleaseBatch == Released(FramesOf(batch))

\* The end of a batch: flush what is pending, give back all frames.
EndBatch ==
  /\ pos > Len(batch)
  /\ IF pending > 0 THEN Kick(queue) ELSE UNCHANGED queue
  /\ pending' = 0
  /\ fill' = ReleaseBatch
  /\ batch' = <<>> /\ pos' = 0
  /\ UNCHANGED <<arpVars, lanVars, rx, missed, txSlot, restarts>>

\* The LAN's RX thread finds nothing to receive and calls poll().
LanPoll ==
  /\ queue # <<>>
  /\ Kick(queue)
  /\ UNCHANGED <<arpVars, lanVars, rxVars, txSlot, pending, restarts>>

WanThread == TakeBatch \/ Miss \/ Send \/ SendWait \/ GiveUp \/ EndBatch

-----------------------------------------------------------------------------
\* The process ends and starts again with new sockets, and the same policies.
Restart ==
  /\ restarts < MaxRestarts
  /\ restarts' = restarts + 1
  /\ \E left \in Leavings : ArpRestart(left)
  /\ ready' = FALSE /\ primary' = NoMac /\ UNCHANGED plain
  /\ fill' = FillRing
  /\ rx' = <<>> /\ batch' = <<>> /\ pos' = 0 /\ missed' = FALSE
  /\ queue' = <<>> /\ pending' = 0 /\ txSlot' = 0

Arp ==
  /\ \/ \E ip \in Ips : Hear(ip) \/ Lose(ip)
     \/ SaveAtStop /\ restarts < MaxRestarts
     \/ SaveWrite
  /\ UNCHANGED <<lanVars, rxVars, txVars, restarts>>

Init ==
  /\ ArpInit
  /\ plain \in BOOLEAN /\ ready = FALSE /\ primary = NoMac
  /\ fill = FillRing
  /\ rx = <<>> /\ batch = <<>> /\ pos = 0 /\ missed = FALSE
  /\ queue = <<>> /\ pending = 0 /\ txSlot = 0
  /\ restarts = 0

Next ==
  \/ \E ip \in Ips : Resolve(ip)
  \/ Sync
  \/ Reload
  \/ \E ip \in Dests : Receive(ip)
  \/ WanThread
  \/ LanPoll
  \/ Arp
  \/ Restart

\* The initialisation and the threads run, a driver that is kicked again and
\* again takes frames, packets for each destination keep coming, and a request
\* sent again and again is answered and the answer heard.
Fairness ==
  /\ WF_vars(Sync) /\ WF_vars(WanThread) /\ SF_vars(SendWait /\ queue' # queue)
  /\ WF_vars(SaveWrite /\ UNCHANGED <<lanVars, rxVars, txVars, restarts>>)
  /\ \A ip \in Dests :
       /\ SF_vars(Receive(ip))
       /\ SF_vars(Answer(ip) /\ UNCHANGED <<lanVars, rxVars, txVars, restarts>>)

Spec == Init /\ [][Next]_vars /\ Fairness

-----------------------------------------------------------------------------
TypeOK ==
  /\ ArpTypeOK
  /\ plain \in BOOLEAN /\ ready \in BOOLEAN /\ primary \in Macs \cup {Torn, NoMac}
  /\ fill \in Seq(Frames) /\ Len(fill) <= RingSize
  /\ rx \in Seq([frame : Frames, ip : Dests])
  /\ batch \in Seq([frame : Frames, ip : Dests]) /\ pos \in 0 .. Len(batch) + 1
  /\ missed \in BOOLEAN
  /\ queue \in Seq(0 .. Half - 1) /\ Len(queue) <= TxRing
  /\ txSlot \in 0 .. Half - 1 /\ pending \in 0 .. KickAt - 1
  /\ restarts \in 0 .. MaxRestarts

(***************************************************************************)
(* A queued packet stays in its slot until the kernel takes it: no other   *)
(* packet is copied there, whatever the kernel leaves in the ring and      *)
(* although the loader's defaults give exactly as many slots as the ring   *)
(* has entries (interface.c:1527).                                         *)
(***************************************************************************)
SlotIntact == IsInjective(queue)

AllFrames == fill \o FramesOf(rx) \o FramesOf(batch)

(***************************************************************************)
(* A frame is in one place: the fill ring, the RX ring or the batch.  This *)
(* fails for a frame whose destination had no MAC, which is given back     *)
(* twice (forwarder.c:1205, 1227), and for those displaced by its copies:  *)
(* it holds while no packet has missed.                                    *)
(***************************************************************************)
FrameOnce == ~missed => IsInjective(AllFrames) /\ ToSet(AllFrames) = Frames

\* The cache is a map with room for Size neighbours: no collision hides or
\* replaces one, and a restart finds what was saved.
IsArpMap == Map!Spec

(***************************************************************************)
(* Packets for a neighbour get to it again and again, however often        *)
(* requests and replies are lost or the process restarts: the miss that    *)
(* drops a packet also asks, and a frame given back twice never leaves the *)
(* WAN without one to receive into.  What prevents it for good is a cache  *)
(* full of others, a MAC read wrong after a crash, which is never asked    *)
(* for again, and the MAC of another host written over that of every       *)
(* packet (interface.c:1517).                                              *)
(***************************************************************************)
Delivered ==
  \A ip \in Dests :
    \/ []<><<Send /\ Current.ip = ip /\ Written(ip) = MacOf[ip]>>_vars
    \/ <>[](Cardinality({e \in Neighbours : e.ip # ip}) = Size)
    \/ <>[](CacheLookup(table, ip) = Torn)
    \/ <>[](primary \notin {NoMac, MacOf[ip]})
=============================================================================
