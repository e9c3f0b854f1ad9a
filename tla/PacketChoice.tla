---------------------------- MODULE PacketChoice ----------------------------
(***************************************************************************)
(* The two choices worker_thread() (forwarder.c) makes for a packet from a *)
(* LAN, the WAN it leaves by and the policy it is encrypted with, and the  *)
(* state behind them: the counter of flow_table.c that deals packets out   *)
(* to the WANs of a profile by weight, and the pins that keep a TCP        *)
(* connection on the policy it began with, or on the one of the peer's     *)
(* last packet that was split at layer 3.                                  *)
(* The worker, the WAN threads and gc_thread() share the pins under one    *)
(* lock per bucket, but read the clock before they take it.                *)
(*                                                                         *)
(* Times are kept as ages.  A hot reload changes the tables while no       *)
(* packet section runs (ReloadGate).  Every loaded profile has a WAN and   *)
(* every LAN a profile, so flow_table_get_wan() is not reached.            *)
(***************************************************************************)
EXTENDS Integers, Sequences, FiniteSets

CONSTANTS
  Conns,     \* TCP connections: normalised address and port pairs
  Rxs,       \* WAN threads
  Profiles,  \* profiles that send packets
  ProfileOf, \* ProfileOf[c]: the profile of c's LAN
  WanIfs,    \* WAN interfaces
  Policies,  \* indices into the list of policies
  NoPolicy,  \* no policy matches
  Tables,    \* the configurations: see TablesAssumption
  NoPin,
  Timeout,   \* TCP_POLICY_PIN_TIMEOUT_SEC, scaled down
  Skew,      \* bound: how much a clock reading may age before it is used
  SeqWrap    \* bound: g_pkt_wrr_seq counts modulo this (2^64)

\* Of a configuration: crypt, whether encryption is on; sel, the policy that
\* crypto_select_policy_for_local() finds; bypass and ready, the policies that
\* do not encrypt and those that have a context, l3 and l4 of those by layer;
\* wans, the WANs and weights.
ASSUME TablesAssumption ==
  \A b \in Tables :
    /\ b.crypt \in BOOLEAN
    /\ b.sel \in [Conns -> Policies \cup {NoPolicy}]
    /\ b.bypass \subseteq Policies /\ b.ready \subseteq Policies \ b.bypass
    /\ b.l3 \subseteq b.ready /\ b.l4 \subseteq b.ready
    /\ b.wans \in [Profiles -> Seq([wan : WanIfs, weight : Nat])]
    /\ \A p \in Profiles : b.wans[p] # <<>>

ASSUME ProfilesAssumption == ProfileOf \in [Conns -> Profiles]

ASSUME PinAssumption == NoPin \notin [pol : Policies, age : Nat]

ASSUME TimeAssumption ==
  /\ Skew \in Nat /\ Timeout \in Nat /\ Timeout > Skew
  /\ SeqWrap \in Nat \ {0}

VARIABLES
  tables, \* what the configuration in use says
  seq,    \* g_pkt_wrr_seq
  deal,   \* history: the profile dealt for, and the WANs picked in this round
  pins,   \* g_tcp_policy_pins: policy and age of last_seen_sec, by connection
  work,   \* the worker: stage, connection, FIN or RST, policy, age of reading
  rx,     \* each WAN thread: stage, connection, policy, age of reading
  gc,     \* gc_thread(): buckets still to sweep, age of reading
  closed, \* connections that have sent their last packet
  told    \* history: the policy the peer split a packet under, and for how long no
          \* packet has come or gone

vars == <<tables, seq, deal, pins, work, rx, gc, closed, told>>

MaxAge == Timeout + Skew + 1
Ages == 0 .. MaxAge
NoWork == [at |-> "idle", conn |-> NoPin, fin |-> FALSE, pol |-> NoPolicy, read |-> 0]
NoRx == [at |-> "idle", conn |-> NoPin, pol |-> NoPolicy, read |-> 0]
NoTold == [pol |-> NoPolicy, idle |-> 0]

-----------------------------------------------------------------------------
(***************************************************************************)
(* select_wan_idx_for_packet() and flow_table_pick_wan_per_packet().       *)
(***************************************************************************)
\* acc of wrr_slot_to_wan(): the weights of the first WANs added up.
Acc(u) ==
  LET acc[i \in 0 .. Len(u)] == IF i = 0 THEN 0 ELSE acc[i - 1] + u[i].weight
  IN acc

Total(u) == Acc(u)[Len(u)]

\* The WANs of p with the weights that count: without weights every WAN gets
\* the same.
Shares(p) ==
  LET all == tables.wans[p]
  IN IF Total(all) = 0
     THEN [i \in DOMAIN all |-> [all[i] EXCEPT !.weight = 1]]
     ELSE all

\* A WAN without weight is left out.
Allowed(u) == {i \in DOMAIN u : u[i].weight > 0}

\* Fault: a slot on the border goes to the WAN before it.
WrrSlotToWanBorder(s, u) ==
  u[CHOOSE i \in DOMAIN u : s <= Acc(u)[i] /\ \A j \in 1 .. i - 1 : s > Acc(u)[j]].wan

WrrSlotToWan(s, u) ==
  u[CHOOSE i \in DOMAIN u : s < Acc(u)[i] /\ \A j \in 1 .. i - 1 : s >= Acc(u)[j]].wan

\* The counter is one for all profiles; a profile with one WAN does not draw.
\* The history of a round starts anew when the counter has wrapped round.
SelectWan(p) ==
  LET u == Shares(p)
      w == WrrSlotToWan(seq % Total(u), u)
      before == IF deal.profile = p /\ Len(deal.picks) < Total(u) /\ seq # 0
                THEN deal.picks ELSE <<>>
  IN IF Cardinality(Allowed(u)) = 1
     THEN UNCHANGED <<seq, deal>>
     ELSE /\ seq' = (seq + 1) % SeqWrap
          /\ deal' = [profile |-> p, picks |-> Append(before, w)]

\* A packet that is not TCP: it has no pin.
OtherPacket(p) ==
  /\ work.at = "idle"
  /\ SelectWan(p)
  /\ UNCHANGED <<tables, pins, work, rx, gc, closed, told>>

-----------------------------------------------------------------------------
(***************************************************************************)
(* The worker and a packet of connection c.  The clock is read once on     *)
(* entry of tcp_policy_pin_lookup() and again for tcp_policy_pin_set();    *)
(* the second reading is taken with the step before.                       *)
(***************************************************************************)
Dequeue(c, fin) ==
  /\ work.at = "idle"
  /\ c \notin closed
  /\ SelectWan(ProfileOf[c])
  /\ work' = IF tables.crypt THEN [NoWork EXCEPT !.at = "lookup", !.conn = c, !.fin = fin]
                             ELSE NoWork
  /\ UNCHANGED <<tables, pins, rx, gc, closed, told>>

Usable(pol) == pol \in tables.bypass \cup tables.ready

\* pin_pi >= 0: a policy was found, and not for want of a context ignored.
ToPin(pol) == pol # NoPolicy /\ Usable(pol)

Heard(c, pol) == IF told[c].pol = pol THEN [told[c] EXCEPT !.idle = 0] ELSE NoTold

\* tcp_policy_pin_lookup() refreshes the pin it finds, or drops one that can no
\* longer be used; without a pin the policies are matched.
Lookup ==
  LET c == work.conn
      hit == pins[c] # NoPin /\ Usable(pins[c].pol)
      pol == IF hit THEN pins[c].pol ELSE tables.sel[c]
  IN /\ work.at = "lookup"
     /\ pins' = [pins EXCEPT ![c] = IF hit THEN [@ EXCEPT !.age = work.read] ELSE NoPin]
     /\ told' = IF hit THEN [told EXCEPT ![c] = Heard(c, pol)] ELSE told
     /\ work' = IF ToPin(pol)
                THEN [work EXCEPT !.at = "set", !.pol = pol, !.read = 0]
                ELSE NoWork   \* dropped, or sent as it is
     /\ UNCHANGED <<tables, seq, deal, rx, gc, closed>>

\* Fault: a pin that exists is only refreshed.
PinSetFirst(c, pol, age) ==
  pins' = [pins EXCEPT ![c] = [pol |-> IF @ = NoPin THEN pol ELSE @.pol, age |-> age]]

\* tcp_policy_pin_set()
PinSet(c, pol, age) == pins' = [pins EXCEPT ![c] = [pol |-> pol, age |-> age]]

\* A packet sent as it is skips what comes after the encryption.  A pin that
\* replaces the peer's, set meanwhile, is what the two holds of the lock allow.
WorkerSet ==
  /\ work.at = "set"
  /\ PinSet(work.conn, work.pol, work.read)
  /\ told' = [told EXCEPT ![work.conn] = Heard(work.conn, work.pol)]
  /\ work' = IF work.fin /\ work.pol \notin tables.bypass
             THEN [work EXCEPT !.at = "fin", !.read = 0] ELSE NoWork
  /\ UNCHANGED <<tables, seq, deal, rx, gc, closed>>

\* tcp_policy_pin_remove(), unless the encryption failed.
Finish ==
  /\ work.at = "fin"
  /\ \/ /\ pins' = [pins EXCEPT ![work.conn] = NoPin]
        /\ told' = [told EXCEPT ![work.conn] = NoTold]
     \/ UNCHANGED <<pins, told>>
  /\ work' = NoWork
  /\ UNCHANGED <<tables, seq, deal, rx, gc, closed>>

Worker == Lookup \/ WorkerSet \/ Finish

-----------------------------------------------------------------------------
\* A WAN thread comes to set a pin and has read the clock.  The second half has
\* completed a packet that the peer split under pol, a layer-3 policy: its id is
\* read from the half before that is decrypted (1770-1775).  Or what has been
\* decrypted, in place, holds bytes that pass for pol's, of layer 4 (1906-1910).
\* A whole packet, or one split at another layer, is decrypted when the id is
\* looked for, and not found.
Decrypt(t, c, pol) ==
  /\ rx[t].at = "idle"
  /\ c \notin closed
  /\ tables.crypt /\ pol \in tables.l3 \cup tables.l4
  /\ rx' = [rx EXCEPT ![t] = [at |-> "set", conn |-> c, pol |-> pol, read |-> 0]]
  /\ UNCHANGED <<tables, seq, deal, pins, work, gc, closed, told>>

RxSet(t) ==
  LET c == rx[t].conn
      pol == rx[t].pol
  IN /\ rx[t].at = "set"
     /\ PinSet(c, pol, rx[t].read)
     /\ told' = [told EXCEPT ![c] = IF pol \in tables.l3 THEN [pol |-> pol, idle |-> 0]
                                    ELSE Heard(c, pol)]
     /\ rx' = [rx EXCEPT ![t] = NoRx]
     /\ UNCHANGED <<tables, seq, deal, work, gc, closed>>

-----------------------------------------------------------------------------
(***************************************************************************)
(* tcp_policy_pin_gc(), every minute.                                      *)
(***************************************************************************)
GcBegin ==
  /\ gc.left = {}
  /\ tables.crypt
  /\ gc' = [left |-> Conns, read |-> 0]
  /\ UNCHANGED <<tables, seq, deal, pins, work, rx, closed, told>>

\* Fault: the operands of the difference are swapped.
ExpiredSwapped(c) == gc.read - pins[c].age > Timeout

\* now - last_seen_sec > TIMEOUT, unsigned: a pin touched after the reading
\* looks older than any.
Expired(c) ==
  LET elapsed == pins[c].age - gc.read
  IN elapsed > Timeout \/ elapsed < 0

GcBucket(c) ==
  /\ c \in gc.left
  /\ IF pins[c] # NoPin /\ Expired(c)
     THEN /\ pins' = [pins EXCEPT ![c] = NoPin]
          /\ told' = IF pins[c].age < gc.read THEN [told EXCEPT ![c] = NoTold] ELSE told
     ELSE UNCHANGED <<pins, told>>
  /\ gc' = [left |-> gc.left \ {c}, read |-> IF gc.left = {c} THEN 0 ELSE gc.read]
  /\ UNCHANGED <<tables, seq, deal, work, rx, closed>>

-----------------------------------------------------------------------------
\* forwarder_reload_config(), between packet sections.  The pins are dropped
\* with the tables, unless encryption is switched off.
Reload(b) ==
  /\ work.at = "idle" /\ \A t \in Rxs : rx[t].at = "idle"
  /\ b # tables
  /\ tables' = b
  /\ deal' = [profile |-> NoPolicy, picks |-> <<>>]
  /\ IF b.crypt THEN /\ pins' = [c \in Conns |-> NoPin]
                     /\ told' = [c \in Conns |-> NoTold]
                ELSE UNCHANGED <<pins, told>>
  /\ UNCHANGED <<seq, work, rx, gc, closed>>

Close(c) ==
  /\ c \notin closed
  /\ closed' = closed \cup {c}
  /\ UNCHANGED <<tables, seq, deal, pins, work, rx, gc, told>>

\* One unit of time.  Readings are used within Skew units.
Older(age) == IF age < MaxAge THEN age + 1 ELSE age
OlderRead(r) == IF r.at = "idle" THEN r ELSE [r EXCEPT !.read = @ + 1]

Tick ==
  /\ work.read < Skew /\ gc.read < Skew /\ \A t \in Rxs : rx[t].read < Skew
  /\ pins' = [c \in Conns |-> IF pins[c] = NoPin THEN NoPin
                              ELSE [pins[c] EXCEPT !.age = Older(@)]]
  /\ work' = OlderRead(work)
  /\ rx' = [t \in Rxs |-> OlderRead(rx[t])]
  /\ gc' = IF gc.left = {} THEN gc ELSE [gc EXCEPT !.read = @ + 1]
  /\ told' = [c \in Conns |-> IF told[c].pol # NoPolicy /\ told[c].idle < Timeout - Skew
                              THEN [told[c] EXCEPT !.idle = @ + 1] ELSE NoTold]
  /\ UNCHANGED <<tables, seq, deal, closed>>

Init ==
  /\ tables \in Tables
  /\ seq = 0
  /\ deal = [profile |-> NoPolicy, picks |-> <<>>]
  /\ pins = [c \in Conns |-> NoPin]
  /\ work = NoWork
  /\ rx = [t \in Rxs |-> NoRx]
  /\ gc = [left |-> {}, read |-> 0]
  /\ closed = {}
  /\ told = [c \in Conns |-> NoTold]

Next ==
  \/ \E p \in Profiles : OtherPacket(p)
  \/ \E c \in Conns, fin \in BOOLEAN : Dequeue(c, fin)
  \/ Worker
  \/ \E t \in Rxs, c \in Conns, pol \in Policies : Decrypt(t, c, pol)
  \/ \E t \in Rxs : RxSet(t)
  \/ GcBegin
  \/ \E c \in Conns : GcBucket(c) \/ Close(c)
  \/ \E b \in Tables : Reload(b)
  \/ Tick

\* Threads are scheduled, gc_thread() wakes up again and again, and time goes
\* by.  Nothing makes a packet arrive, a connection end or a configuration
\* change.
Fairness ==
  /\ WF_vars(Worker)
  /\ \A t \in Rxs : WF_vars(RxSet(t))
  /\ SF_vars(GcBegin)
  /\ \A c \in Conns : WF_vars(GcBucket(c))
  /\ SF_vars(Tick)

Spec == Init /\ [][Next]_vars /\ Fairness

-----------------------------------------------------------------------------
TypeOK ==
  /\ tables \in Tables
  /\ seq \in 0 .. SeqWrap - 1
  /\ deal.profile \in Profiles \cup {NoPolicy}
  /\ pins \in [Conns -> [pol : Policies, age : Ages] \cup {NoPin}]
  /\ work \in [at : {"idle", "lookup", "set", "fin"}, conn : Conns \cup {NoPin},
               fin : BOOLEAN, pol : Policies \cup {NoPolicy}, read : 0 .. Skew]
  /\ rx \in [Rxs -> [at : {"idle", "set"}, conn : Conns \cup {NoPin},
                     pol : Policies \cup {NoPolicy}, read : 0 .. Skew]]
  /\ gc \in [left : SUBSET Conns, read : 0 .. Skew]
  /\ closed \subseteq Conns
  /\ told \in [Conns -> [pol : Policies \cup {NoPolicy}, idle : 0 .. Timeout]]

(***************************************************************************)
(* Once a packet that the peer split under a layer-3 policy has been put   *)
(* together, the connection is pinned to that policy for as long as its    *)
(* packets are less than Timeout - Skew apart: neither the worker's own    *)
(* look-ups and settings (forwarder.c:2064, 2098), nor the sweep every     *)
(* minute (475), nor clocks read before the lock move it.  Excused are two *)
(* interleavings that do, a packet of the worker looked up before the      *)
(* peer's was handled and set after it, and a pin touched after the sweep  *)
(* read the clock; and payload taken for the id of a layer-4 policy.       *)
(***************************************************************************)
FollowsPeer ==
  \A c \in Conns : told[c].pol # NoPolicy =>
    pins[c] # NoPin /\ pins[c].pol = told[c].pol

(***************************************************************************)
(* In as many packets of one profile as its weights add up to, each WAN    *)
(* gets as many as its weight (flow_table.c:199), wherever the count       *)
(* starts; a WAN may be listed more than once.  The counter is shared: a   *)
(* round that packets of another profile interrupt is not counted, nor one *)
(* in which the 64-bit counter wraps round.                                *)
(***************************************************************************)
\* What w is due in a round: a turn for each unit of its weight.
Turns(u, w) ==
  {t \in (DOMAIN u) \X (1 .. Total(u)) : u[t[1]].wan = w /\ t[2] <= u[t[1]].weight}

WeightsHonoured ==
  deal.profile \in Profiles =>
    LET u == Shares(deal.profile)
        Got(w) == {k \in DOMAIN deal.picks : deal.picks[k] = w}
    IN Len(deal.picks) = Total(u) =>
         \A w \in WanIfs : Cardinality(Got(w)) = Cardinality(Turns(u, w))

\* A connection that is over is forgotten, whether its FIN removed the pin, was
\* followed by packets that set it again, or never came; while encryption is
\* off the sweep does nothing (forwarder.c:476).
Forgotten ==
  \A c \in Conns : c \in closed ~> pins[c] = NoPin \/ ~ tables.crypt
=============================================================================
