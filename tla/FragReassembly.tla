--------------------------- MODULE FragReassembly ---------------------------
(***************************************************************************)
(* Packets that grow beyond the MTU when they are encrypted (fragment.c):  *)
(* the sending gateway splits the payload in two halves that carry a       *)
(* 16-bit packet id, the receiving one keeps the first half in a table     *)
(* indexed by the id until the second half arrives.  Between them is a     *)
(* network that loses, duplicates and reorders.  The halves of each        *)
(* encryption layer are kept in a table of their own, under its own lock;  *)
(* the sweep of gc_thread() takes no lock.  What is in a packet, its IP    *)
(* protocol included, is left out.                                         *)
(***************************************************************************)
EXTENDS Integers, Sequences, FiniteSets

CONSTANTS
  Peers,       \* gateways that send to this one
  Layers,      \* encryption layers in use, a subset of {"l2", "l3", "l4"}
  IdSpace,     \* packet ids are counted modulo this (2^16 in the code)
  TableSize,   \* FRAG_TABLE_SIZE
  Timeout,     \* FRAG_TIMEOUT_NS in clock ticks
  Width,       \* times are unsigned numbers modulo this (2^64 in the code)
  MaxPackets,  \* bound on the packets sent
  MaxClock,    \* bound on the clock
  MaxCopies    \* bound on the halves the network duplicates

ASSUME FragAssumption ==
  /\ Layers \subseteq {"l2", "l3", "l4"}
  /\ IdSpace \in Nat \ {0} /\ TableSize \in Nat \ {0}
  /\ Timeout \in Nat /\ MaxClock \in Nat
  /\ Width \in Nat /\ Width > MaxClock + Timeout
  /\ MaxPackets \in Nat /\ MaxCopies \in Nat

VARIABLES
  clock,    \* CLOCK_MONOTONIC
  sent,     \* packets split so far; a packet is its place in this sequence
  counter,  \* g_pkt_id_counter of each peer
  net,      \* halves under way: <<packet, 0 or 1>>
  copies,   \* halves duplicated so far
  table,    \* g_wan_frag_l2, _l3 and _l4
  gc,       \* what gc_thread() is doing in its sweep
  result,   \* outcome of the latest call of frag_try_reassemble()
  came,     \* history: when the first half of each packet last arrived
  waiting,  \* history: packets whose first half should be waiting
  inPass    \* history: packets whose first half came during the sweep

history == <<came, waiting, inPass>>
vars == <<clock, sent, counter, net, copies, table, gc, result, history>>

Slots   == 0..TableSize-1
Packets == 1..Len(sent)
IdleGc  == [on |-> FALSE, layer |-> "none", slot |-> 0, now |-> 0, expired |-> FALSE]

\* A call that returned 0 or -1 (rc) for a half of the packet `second', or
\* that combined the halves of `first' and `second' (rc = 1).
Outcome(rc, p, q) == [rc |-> rc, first |-> p, second |-> q]

-----------------------------------------------------------------------------
(***************************************************************************)
(* The sender: frag_split_and_encrypt(), _l2() and _l4().                  *)
(***************************************************************************)
\* frag_next_pkt_id()
NextPktId(n) == n % IdSpace

\* A TCP or UDP packet too long to be sent in one piece; a half that is not
\* transmitted counts as lost by the network.
Split(peer, layer) ==
  /\ Len(sent) < MaxPackets
  /\ sent' = Append(sent, [peer |-> peer, layer |-> layer,
                           seq |-> counter[peer], id |-> NextPktId(counter[peer])])
  /\ counter' = [counter EXCEPT ![peer] = @ + 1]
  /\ net' = net \cup ({Len(sent) + 1} \X {0, 1})
  /\ came' = Append(came, 0)
  /\ UNCHANGED <<clock, copies, table, gc, result, waiting, inPass>>

\* A half leaves the network, or a duplicate of it stays.
Leaves(h) ==
  \/ net' = net \ {h} /\ UNCHANGED copies
  \/ copies < MaxCopies /\ copies' = copies + 1 /\ UNCHANGED net

Tick ==
  /\ clock < MaxClock
  /\ clock' = clock + 1
  /\ UNCHANGED <<sent, counter, net, copies, table, gc, result, history>>

-----------------------------------------------------------------------------
(***************************************************************************)
(* The receiver: one call of frag_try_reassemble(), _l2() or _l4() under   *)
(* the lock of its table, by any of the WAN threads.                       *)
(***************************************************************************)
\* Fault: a half is given up when the timeout is reached, not exceeded.
ExpiredEarly(now, at) == (now - at) % Width >= Timeout

\* (now - timestamp_ns) > FRAG_TIMEOUT_NS on unsigned numbers.
Expired(now, at) == (now - at) % Width > Timeout

SlotOf(p)  == sent[p].id % TableSize
EntryOf(p) == table[sent[p].layer][SlotOf(p)]

\* Packets whose first halves share p's entry.
Rivals(p) ==
  {q \in Packets : sent[q].layer = sent[p].layer /\ SlotOf(q) = SlotOf(p)}

\* Fault: an entry in use is not taken.
StoredIfFree(p) ==
  IF EntryOf(p).valid THEN EntryOf(p)
  ELSE [valid |-> TRUE, pkt |-> p, at |-> clock]

\* frag_store_pending()
Stored(p) == [valid |-> TRUE, pkt |-> p, at |-> clock]

\* The first half takes the entry, whoever had it.
First(p) ==
  /\ <<p, 0>> \in net
  /\ Leaves(<<p, 0>>)
  /\ table' = [table EXCEPT ![sent[p].layer][SlotOf(p)] = Stored(p)]
  /\ result' = Outcome(0, p, p)
  /\ came' = [came EXCEPT ![p] = clock]
  /\ waiting' = (waiting \ Rivals(p)) \cup {p}
  /\ inPass' = IF gc.on THEN inPass \cup {p} ELSE inPass
  /\ UNCHANGED <<clock, sent, counter, gc>>

\* Fault: the id of the entry is not compared.
MatchesAny(p) == EntryOf(p).valid

\* The entry holds a first half with the id of p.
Matches(p) == EntryOf(p).valid /\ sent[EntryOf(p).pkt].id = sent[p].id

SecondUnmatched(p) ==
  /\ <<p, 1>> \in net
  /\ Leaves(<<p, 1>>)
  /\ ~ Matches(p)
  /\ result' = Outcome(-1, p, p)
  /\ UNCHANGED <<clock, sent, counter, table, gc, history>>

SecondLate(p) ==
  /\ <<p, 1>> \in net
  /\ Leaves(<<p, 1>>)
  /\ Matches(p)
  /\ Expired(clock, EntryOf(p).at)
  /\ table' = [table EXCEPT ![sent[p].layer][SlotOf(p)].valid = FALSE]
  /\ result' = Outcome(-1, p, p)
  /\ waiting' = waiting \ {EntryOf(p).pkt}
  /\ UNCHANGED <<clock, sent, counter, gc, came, inPass>>

Used(entry) == [entry EXCEPT !.valid = FALSE]

SecondCombined(p) ==
  /\ <<p, 1>> \in net
  /\ Leaves(<<p, 1>>)
  /\ Matches(p)
  /\ ~ Expired(clock, EntryOf(p).at)
  /\ table' = [table EXCEPT ![sent[p].layer][SlotOf(p)] = Used(@)]
  /\ result' = Outcome(1, EntryOf(p).pkt, p)
  /\ waiting' = waiting \ {EntryOf(p).pkt}
  /\ UNCHANGED <<clock, sent, counter, gc, came, inPass>>

-----------------------------------------------------------------------------
(***************************************************************************)
(* frag_table_gc().                                                        *)
(***************************************************************************)
\* By a WAN thread, before each batch and under the lock of the table.
LockedGc(layer) ==
  LET old == {s \in Slots : table[layer][s].valid /\ Expired(clock, table[layer][s].at)}
  IN  /\ old # {}
      /\ table' = [table EXCEPT ![layer] =
                     [s \in Slots |-> IF s \in old THEN Used(@[s]) ELSE @[s]]]
      /\ waiting' = waiting \ {table[layer][s].pkt : s \in old}
      /\ UNCHANGED <<clock, sent, counter, net, copies, gc, result, came, inPass>>

\* By gc_thread(), without the lock: the time is read once ...
GcStart(layer) ==
  /\ ~ gc.on
  /\ gc' = [IdleGc EXCEPT !.on = TRUE, !.layer = layer, !.now = clock]
  /\ inPass' = {}
  /\ UNCHANGED <<clock, sent, counter, net, copies, table, result, came, waiting>>

\* ... then each entry is looked at, ...
GcLook ==
  /\ gc.on /\ gc.slot < TableSize /\ ~ gc.expired
  /\ LET entry == table[gc.layer][gc.slot]
     IN  gc' = IF entry.valid /\ Expired(gc.now, entry.at)
               THEN [gc EXCEPT !.expired = TRUE]
               ELSE [gc EXCEPT !.slot = @ + 1]
  /\ UNCHANGED <<clock, sent, counter, net, copies, table, result, history>>

\* ... and cleared if it looked expired, whatever it holds by then.
GcClear ==
  /\ gc.on /\ gc.expired
  /\ table' = [table EXCEPT ![gc.layer][gc.slot].valid = FALSE]
  /\ waiting' = waiting \ {table[gc.layer][gc.slot].pkt}
  /\ gc' = [gc EXCEPT !.slot = @ + 1, !.expired = FALSE]
  /\ UNCHANGED <<clock, sent, counter, net, copies, result, came, inPass>>

GcEnd ==
  /\ gc.on /\ gc.slot = TableSize
  /\ gc' = IdleGc
  /\ inPass' = {}
  /\ UNCHANGED <<clock, sent, counter, net, copies, table, result, came, waiting>>

-----------------------------------------------------------------------------
\* frag_table_init(); a packet number 0 stands for an entry never used.
Init ==
  /\ clock = 0
  /\ sent = <<>> /\ came = <<>>
  /\ counter = [p \in Peers |-> 0]
  /\ net = {} /\ copies = 0
  /\ table = [l \in Layers |-> [s \in Slots |->
                [valid |-> FALSE, pkt |-> 0, at |-> 0]]]
  /\ gc = IdleGc
  /\ result = Outcome(0, 0, 0)
  /\ waiting = {} /\ inPass = {}

Receive(p) == First(p) \/ SecondUnmatched(p) \/ SecondLate(p) \/ SecondCombined(p)

Gc == GcLook \/ GcClear \/ GcEnd \/ \E l \in Layers : LockedGc(l) \/ GcStart(l)

Next ==
  \/ \E peer \in Peers, layer \in Layers : Split(peer, layer)
  \/ \E p \in Packets : Receive(p)
  \/ Gc
  \/ Tick

Spec == Init /\ [][Next]_vars

-----------------------------------------------------------------------------
Entries == [valid : BOOLEAN, pkt : 0..MaxPackets, at : 0..MaxClock]

TypeOK ==
  /\ clock \in 0..MaxClock
  /\ sent \in Seq([peer : Peers, layer : Layers, seq : Nat, id : 0..IdSpace-1])
  /\ counter \in [Peers -> Nat]
  /\ net \subseteq Packets \X {0, 1}
  /\ copies \in 0..MaxCopies
  /\ table \in [Layers -> [Slots -> Entries]]
  /\ gc \in [on : BOOLEAN, layer : Layers \cup {"none"}, slot : 0..TableSize,
             now : 0..MaxClock, expired : BOOLEAN]
  /\ result \in [rc : {-1, 0, 1}, first : 0..MaxPackets, second : 0..MaxPackets]
  /\ came \in Seq(0..MaxClock) /\ Len(came) = Len(sent)
  /\ waiting \subseteq Packets /\ inPass \subseteq Packets

Combined == result.rc = 1

(***************************************************************************)
(* Two halves are combined (fragment.c:201-248) only if they belong to one *)
(* packet, unless they come from different peers, whose ids are counted    *)
(* separately, or the counter of a peer went round between them.           *)
(***************************************************************************)
HalvesMatch ==
  Combined =>
    LET a == sent[result.first]
        b == sent[result.second]
    IN  \/ result.first = result.second
        \/ a.layer = b.layer /\ a.peer # b.peer
        \/ a.layer = b.layer /\ (a.seq >= b.seq + IdSpace \/ b.seq >= a.seq + IdSpace)

(***************************************************************************)
(* A second half is dropped (202-207) only if its first half is not there: *)
(* it did not come, was displaced, used or swept, or came too long ago.    *)
(***************************************************************************)
NoneDropped ==
  result.rc = -1 =>
    LET p == result.second IN p \notin waiting \/ clock - came[p] > Timeout

(***************************************************************************)
(* A first half is used once and within the timeout: it was waiting, for a *)
(* short time only, when it is combined (204-207, 246).  One that waits    *)
(* goes away only because it is combined, because the first half of        *)
(* another packet needs its entry, because it is older than the timeout,   *)
(* or because gc_thread() was sweeping without the lock when it came       *)
(* (1060-1062).                                                            *)
(***************************************************************************)
HalvesKept ==
  [][/\ \A p \in Packets : SecondCombined(p) =>
          LET q == EntryOf(p).pkt IN q \in waiting /\ clock - came[q] <= Timeout
     /\ \A p \in waiting \ waiting' :
          \/ Combined' /\ result'.first = p
          \/ result'.rc = 0 /\ result'.second \in Rivals(p)
          \/ clock - came[p] > Timeout
          \/ gc.on /\ p \in inPass]_vars
=============================================================================
