------------------------ MODULE FragReassemblyProofs ------------------------
(***************************************************************************)
(* Proofs about FragReassembly for any number of gateways, any size of the *)
(* table and of the id space, and any bounds.  The inductive invariant     *)
(* ties the table to the history: an entry in use holds a packet that      *)
(* waits, with the time its first half came, in the slot of its id; a      *)
(* packet that waits is in its entry; and what gc_thread() found expired   *)
(* is too old or came during its sweep.                                    *)
(***************************************************************************)
EXTENDS FragReassembly, SequenceTheorems, TLAPS

PacketRecords ==
  [peer : Peers, layer : Layers, seq : Nat, id : 0..IdSpace-1]

Sizes == Len(sent) <= MaxPackets

\* An entry holds a packet of its own slot, that waits if the entry is in use.
EntryInv ==
  \A l \in Layers, s \in Slots :
    LET e == table[l][s]
    IN /\ e.pkt # 0 => e.pkt \in Packets /\ sent[e.pkt].layer = l /\ SlotOf(e.pkt) = s
       /\ e.valid => e.pkt \in waiting /\ e.at = came[e.pkt]

WaitingInv == \A p \in waiting : EntryOf(p).valid /\ EntryOf(p).pkt = p

TimeInv == \A p \in Packets : came[p] <= clock

\* What gc_thread() found in its sweep.
SweepInv ==
  gc.on =>
    /\ gc.layer \in Layers /\ gc.now <= clock
    /\ \A p \in Packets : came[p] > gc.now => p \in inPass
    /\ gc.expired =>
         /\ gc.slot \in Slots
         /\ LET e == table[gc.layer][gc.slot]
            IN e.valid => e.pkt \in inPass \/ gc.now - came[e.pkt] > Timeout

\* Ids count the packets of a gateway.
IdInv ==
  /\ \A p \in Packets : /\ sent[p].id = sent[p].seq % IdSpace
                        /\ sent[p].seq < counter[sent[p].peer]
  /\ \A p, q \in Packets : p < q /\ sent[p].peer = sent[q].peer => sent[p].seq < sent[q].seq

ResultInv ==
  /\ result.rc = -1 => result.second \in Packets
  /\ Combined => /\ result.first \in Packets /\ result.second \in Packets
                 /\ sent[result.first].layer = sent[result.second].layer
                 /\ sent[result.first].id = sent[result.second].id

FragInv ==
  /\ TypeOK
  /\ Sizes
  /\ EntryInv
  /\ WaitingInv
  /\ TimeInv
  /\ SweepInv
  /\ IdInv
  /\ ResultInv
  /\ NoneDropped

-----------------------------------------------------------------------------
(***************************************************************************)
(* Arithmetic on ids and times.                                            *)
(***************************************************************************)
LEMMA ModType ==
  ASSUME NEW n \in Nat \ {0}, NEW a \in Int
  PROVE  a % n \in 0 .. n - 1
OBVIOUS

\* Numbers that agree modulo n are n apart.
LEMMA ModApart ==
  ASSUME NEW n \in Nat \ {0}, NEW a \in Nat, NEW b \in Nat, a < b, a % n = b % n
  PROVE  b >= a + n
<1> DEFINE r == a % n
           j == a \div n
           k == b \div n
<1>2. r \in 0 .. n - 1 /\ j \in Int /\ k \in Int /\ a = n * j + r /\ b = n * k + r
  OBVIOUS
<1> HIDE DEF r, j, k
<1>3. j < k
  <2>1. SUFFICES ASSUME j >= k PROVE FALSE
    BY <1>2
  <2>2. n * j >= n * k
    BY <1>2, <2>1
  <2> QED
    BY <1>2, <2>2
<1>4. PICK d \in Nat : k = j + 1 + d
  <2>1. k - j - 1 \in Nat /\ k = j + 1 + (k - j - 1)
    BY <1>2, <1>3
  <2> QED
    BY <2>1
<1>5. n * k = n * j + n + n * d
  BY <1>2, <1>4
<1>6. n * d \in Nat
  BY <1>4
<1> QED
  BY <1>2, <1>5, <1>6

\* A half from after the reading of the clock looks older than any.
LEMMA ExpiredMeans ==
  ASSUME NEW now \in 0 .. MaxClock, NEW at \in 0 .. MaxClock
  PROVE  /\ at <= now => (Expired(now, at) <=> now - at > Timeout)
         /\ at > now => Expired(now, at)
<1>1. Timeout \in Nat /\ MaxClock \in Nat /\ Width \in Int /\ Width > MaxClock + Timeout
  BY FragAssumption
<1>2. CASE at <= now
  <2>1. (now - at) % Width = now - at
    BY <1>1, <1>2
  <2> QED
    BY <1>2, <2>1 DEF Expired
<1>3. CASE at > now
  <2>1. (now - at) % Width = now - at + Width
    BY <1>1, <1>3
  <2> QED
    BY <1>1, <1>3, <2>1 DEF Expired
<1> QED
  BY <1>2, <1>3

-----------------------------------------------------------------------------
(***************************************************************************)
(* What the types say of packets, entries and steps.                       *)
(***************************************************************************)
LEMMA FragNextCases ==
  ASSUME [Next]_vars
  PROVE  \/ \E peer \in Peers, layer \in Layers : Split(peer, layer)
         \/ \E p \in Packets : \/ First(p) \/ SecondUnmatched(p)
                               \/ SecondLate(p) \/ SecondCombined(p)
         \/ \E l \in Layers : LockedGc(l) \/ GcStart(l)
         \/ GcLook \/ GcClear \/ GcEnd \/ Tick
         \/ UNCHANGED vars
BY DEF Next, Gc, Receive

LEMMA PacketsTyped ==
  ASSUME TypeOK
  PROVE  /\ Len(sent) \in Nat
         /\ \A p \in Packets : /\ sent[p] \in PacketRecords
                               /\ came[p] \in 0..MaxClock
                               /\ SlotOf(p) \in Slots
                               /\ EntryOf(p) \in Entries
                               /\ EntryOf(p) = table[sent[p].layer][SlotOf(p)]
<1>1. /\ sent \in Seq(PacketRecords) /\ came \in Seq(0..MaxClock) /\ Len(came) = Len(sent)
      /\ table \in [Layers -> [Slots -> Entries]]
  BY DEF TypeOK, PacketRecords
<1>2. ASSUME NEW p \in Packets
      PROVE  sent[p] \in PacketRecords /\ came[p] \in 0..MaxClock /\ SlotOf(p) \in Slots
  <2>1. sent[p] \in PacketRecords /\ came[p] \in 0..MaxClock
    BY <1>1, <1>2, ElementOfSeq DEF Packets
  <2>2. sent[p].id \in Int /\ TableSize \in Nat \ {0}
    BY <2>1, FragAssumption DEF PacketRecords
  <2>3. sent[p].id % TableSize \in 0 .. TableSize - 1
    BY <2>2, ModType
  <2> QED
    BY <2>1, <2>3 DEF SlotOf, Slots
<1>3. ASSUME NEW p \in Packets PROVE EntryOf(p) \in Entries
  <2>1. sent[p].layer \in Layers
    BY <1>2 DEF PacketRecords
  <2> QED
    BY <1>1, <1>2, <2>1 DEF EntryOf
<1> QED
  BY <1>1, <1>2, <1>3 DEF EntryOf

\* A packet that is split joins the others and changes none of them.
LEMMA SplitAppends ==
  ASSUME TypeOK, NEW peer \in Peers, NEW layer \in Layers, Split(peer, layer)
  PROVE  LET n == Len(sent) + 1
             r == [peer |-> peer, layer |-> layer,
                   seq |-> counter[peer], id |-> NextPktId(counter[peer])]
         IN /\ n \in Nat /\ n <= MaxPackets
            /\ r \in PacketRecords
            /\ sent' \in Seq(PacketRecords) /\ came' \in Seq(0..MaxClock)
            /\ Len(sent') = n /\ Len(came') = n
            /\ Packets' = Packets \cup {n} /\ n \notin Packets
            /\ sent'[n] = r /\ came'[n] = 0
            /\ \A p \in Packets : sent'[p] = sent[p] /\ came'[p] = came[p]
<1> DEFINE n == Len(sent) + 1
           r == [peer |-> peer, layer |-> layer,
                 seq |-> counter[peer], id |-> NextPktId(counter[peer])]
<1>1. /\ sent \in Seq(PacketRecords) /\ came \in Seq(0..MaxClock) /\ Len(came) = Len(sent)
      /\ counter \in [Peers -> Nat]
  BY DEF TypeOK, PacketRecords
<1>2. n \in Nat /\ n <= MaxPackets
  BY <1>1, FragAssumption DEF Split
<1>3. r \in PacketRecords
  <2>1. counter[peer] \in Nat /\ counter[peer] \in Int /\ IdSpace \in Nat \ {0}
    BY <1>1, FragAssumption
  <2>2. counter[peer] % IdSpace \in 0 .. IdSpace - 1
    BY <2>1, ModType
  <2> QED
    BY <2>1, <2>2 DEF PacketRecords, NextPktId
<1>4. sent' = Append(sent, r) /\ came' = Append(came, 0)
  BY DEF Split
<1>5. 0 \in 0..MaxClock
  BY FragAssumption
<1> HIDE DEF r
<1>6. /\ sent' \in Seq(PacketRecords) /\ Len(sent') = n /\ sent'[n] = r
      /\ \A p \in 1 .. Len(sent) : sent'[p] = sent[p]
  BY <1>1, <1>3, <1>4, AppendProperties
<1>7. /\ came' \in Seq(0..MaxClock) /\ Len(came') = n /\ came'[n] = 0
      /\ \A p \in 1 .. Len(sent) : came'[p] = came[p]
  BY <1>1, <1>4, <1>5, AppendProperties
<1>8. Packets' = Packets \cup {n} /\ n \notin Packets
  BY <1>1, <1>6 DEF Packets
<1> QED
  BY <1>2, <1>3, <1>6, <1>7, <1>8 DEF Packets, r

-----------------------------------------------------------------------------
(***************************************************************************)
(* Types.                                                                  *)
(***************************************************************************)
LEMMA FragInit == Init => FragInv
<1> SUFFICES ASSUME Init PROVE FragInv
  OBVIOUS
<1> USE FragAssumption DEF Init
<1>1. /\ sent \in Seq(PacketRecords) /\ came \in Seq(0..MaxClock)
      /\ Len(sent) = 0 /\ Len(came) = 0
  OBVIOUS
<1>2. Packets = {}
  BY <1>1 DEF Packets
<1>3. /\ clock \in 0..MaxClock /\ counter \in [Peers -> Nat] /\ net \subseteq Packets \X {0, 1}
      /\ copies \in 0..MaxCopies /\ waiting \subseteq Packets /\ inPass \subseteq Packets
  OBVIOUS
<1>4. table \in [Layers -> [Slots -> Entries]]
  BY DEF Entries
<1>5. gc \in [on : BOOLEAN, layer : Layers \cup {"none"}, slot : 0..TableSize,
              now : 0..MaxClock, expired : BOOLEAN] /\ ~ gc.on
  BY DEF IdleGc
<1>6. /\ result \in [rc : {-1, 0, 1}, first : 0..MaxPackets, second : 0..MaxPackets]
      /\ result.rc = 0
  BY DEF Outcome
<1>7. TypeOK
  BY <1>1, <1>3, <1>4, <1>5, <1>6 DEF TypeOK, PacketRecords
<1>8. Sizes /\ TimeInv /\ WaitingInv /\ IdInv
  BY <1>1, <1>2 DEF Sizes, TimeInv, WaitingInv, IdInv
<1>9. EntryInv
  BY DEF EntryInv
<1>10. SweepInv /\ ResultInv /\ NoneDropped
  BY <1>5, <1>6 DEF SweepInv, ResultInv, NoneDropped, Combined
<1> QED
  BY <1>7, <1>8, <1>9, <1>10 DEF FragInv

LEMMA LeavesTyped ==
  ASSUME TypeOK, NEW h, Leaves(h)
  PROVE  net' \subseteq net /\ copies' \in 0..MaxCopies
<1>1. copies \in 0..MaxCopies /\ MaxCopies \in Nat
  BY FragAssumption DEF TypeOK
<1>2. CASE net' = net \ {h} /\ UNCHANGED copies
  BY <1>1, <1>2
<1>3. CASE copies < MaxCopies /\ copies' = copies + 1 /\ UNCHANGED net
  BY <1>1, <1>3
<1> QED
  BY <1>2, <1>3 DEF Leaves

LEMMA UsedTyped ==
  ASSUME NEW e \in Entries
  PROVE  /\ Used(e) \in Entries
         /\ ~ Used(e).valid /\ Used(e).pkt = e.pkt /\ Used(e).at = e.at
<1>1. DOMAIN e = {"valid", "pkt", "at"}
  BY DEF Entries
<1>2. ~ Used(e).valid /\ Used(e).pkt = e.pkt /\ Used(e).at = e.at
  BY <1>1 DEF Used
<1>3. Used(e) \in Entries
  BY Zenon DEF Used, Entries
<1> QED
  BY <1>2, <1>3

\* The steps of the receiver write one entry, or only clear entries.
LEMMA EntriesTyped ==
  ASSUME TypeOK, [Next]_vars, Sizes, SweepInv
  PROVE  table' \in [Layers -> [Slots -> Entries]]
<1>0. /\ table \in [Layers -> [Slots -> Entries]] /\ clock \in 0..MaxClock
      /\ Len(sent) \in Nat /\ Len(sent) <= MaxPackets /\ MaxPackets \in Nat
  BY PacketsTyped, FragAssumption DEF TypeOK, Sizes
<1>p. \A p \in Packets : /\ sent[p].layer \in Layers /\ SlotOf(p) \in Slots
                         /\ p \in 0..MaxPackets
  BY <1>0, PacketsTyped DEF PacketRecords, Packets
<1>1. ASSUME NEW p \in Packets, First(p) PROVE table' \in [Layers -> [Slots -> Entries]]
  <2>1. Stored(p) \in Entries
    BY <1>0, <1>p DEF Stored, Entries
  <2> QED
    BY <1>0, <1>p, <1>1, <2>1 DEF First
<1>2. ASSUME NEW p \in Packets, SecondLate(p) \/ SecondCombined(p)
      PROVE  table' \in [Layers -> [Slots -> Entries]]
  <2>1. table' = [table EXCEPT ![sent[p].layer][SlotOf(p)] = Used(@)]
    BY <1>2 DEF SecondLate, SecondCombined, Used
  <2>2. Used(table[sent[p].layer][SlotOf(p)]) \in Entries
    BY <1>0, <1>p, UsedTyped
  <2> QED
    BY <1>0, <1>p, <2>1, <2>2
<1>3. ASSUME NEW l \in Layers, LockedGc(l) PROVE table' \in [Layers -> [Slots -> Entries]]
  <2>1. \A s \in Slots : table[l][s] \in Entries /\ Used(table[l][s]) \in Entries
    BY <1>0, UsedTyped
  <2> QED
    BY <1>0, <1>3, <2>1 DEF LockedGc
<1>4. CASE GcClear
  <2>1. gc.layer \in Layers /\ gc.slot \in Slots
    BY <1>4 DEF GcClear, SweepInv
  <2>2. table' = [table EXCEPT ![gc.layer][gc.slot] = Used(@)]
    BY <1>4 DEF GcClear, Used
  <2>3. Used(table[gc.layer][gc.slot]) \in Entries
    BY <1>0, <2>1, UsedTyped
  <2> QED
    BY <1>0, <2>1, <2>2, <2>3
<1>5. CASE UNCHANGED table
  BY <1>0, <1>5
<1> QED
  BY FragNextCases, <1>1, <1>2, <1>3, <1>4, <1>5
     DEF Split, Tick, SecondUnmatched, GcStart, GcLook, GcEnd, vars

LEMMA TypesNext == FragInv /\ [Next]_vars => TypeOK' /\ Sizes'
<1> SUFFICES ASSUME FragInv, [Next]_vars PROVE TypeOK' /\ Sizes'
  OBVIOUS
<1> USE DEF history
<1>0. TypeOK /\ Sizes /\ SweepInv /\ table' \in [Layers -> [Slots -> Entries]]
  BY EntriesTyped DEF FragInv
<1>p. /\ Len(sent) \in Nat /\ Len(sent) <= MaxPackets /\ MaxPackets \in Nat
      /\ \A p \in Packets : p \in 0..MaxPackets /\ EntryOf(p).pkt \in 0..MaxPackets
  BY <1>0, PacketsTyped, FragAssumption DEF Sizes, Packets, Entries
<1>1. ASSUME NEW peer \in Peers, NEW layer \in Layers, Split(peer, layer)
      PROVE  TypeOK' /\ Sizes'
  <2> DEFINE n == Len(sent) + 1
  <2>1. /\ n <= MaxPackets /\ Packets' = Packets \cup {n}
        /\ sent' \in Seq(PacketRecords) /\ came' \in Seq(0..MaxClock)
        /\ Len(sent') = n /\ Len(came') = n
    BY <1>0, <1>1, SplitAppends
  <2>2. counter' \in [Peers -> Nat]
    BY <1>0, <1>1 DEF TypeOK, Split
  <2>3. net' \subseteq Packets' \X {0, 1}
    BY <1>0, <1>1, <2>1 DEF TypeOK, Split
  <2>4. /\ UNCHANGED <<clock, copies, gc, result, waiting, inPass>>
    BY <1>1 DEF Split
  <2> QED
    BY <1>0, <2>1, <2>2, <2>3, <2>4 DEF TypeOK, Sizes, PacketRecords
<1>2. ASSUME UNCHANGED <<sent, counter, came>>,
             clock' \in 0..MaxClock, net' \subseteq net, copies' \in 0..MaxCopies,
             gc' \in [on : BOOLEAN, layer : Layers \cup {"none"}, slot : 0..TableSize,
                      now : 0..MaxClock, expired : BOOLEAN],
             result' \in [rc : {-1, 0, 1}, first : 0..MaxPackets, second : 0..MaxPackets],
             waiting' \subseteq Packets, inPass' \subseteq Packets
      PROVE  TypeOK' /\ Sizes'
  <2>1. Packets' = Packets
    BY <1>2 DEF Packets
  <2> QED
    BY <1>0, <1>2, <2>1 DEF TypeOK, Sizes
<1>3. ASSUME NEW p \in Packets, First(p) PROVE TypeOK' /\ Sizes'
  <2>1. /\ UNCHANGED <<sent, counter, clock, gc>>
        /\ net' \subseteq net /\ copies' \in 0..MaxCopies
    BY <1>0, <1>3, LeavesTyped DEF First
  <2>2. waiting' \subseteq Packets /\ inPass' \subseteq Packets
    BY <1>0, <1>3 DEF First, TypeOK
  <2>3. /\ came' \in Seq(0..MaxClock) /\ Len(came') = Len(came)
    <3>1. came \in Seq(0..MaxClock) /\ p \in 1 .. Len(came) /\ clock \in 0..MaxClock
      BY <1>0 DEF TypeOK, Packets
    <3> QED
      BY <1>3, <3>1, ExceptSeq DEF First
  <2>4. result' \in [rc : {-1, 0, 1}, first : 0..MaxPackets, second : 0..MaxPackets]
    BY <1>p, <1>3 DEF First, Outcome
  <2>5. Packets' = Packets
    BY <2>1 DEF Packets
  <2> QED
    BY <1>0, <2>1, <2>2, <2>3, <2>4, <2>5 DEF TypeOK, Sizes
<1>4. ASSUME NEW p \in Packets, SecondUnmatched(p) \/ SecondLate(p) \/ SecondCombined(p)
      PROVE  TypeOK' /\ Sizes'
  <2>1. /\ UNCHANGED <<sent, counter, came, clock, gc, inPass>>
        /\ net' \subseteq net /\ copies' \in 0..MaxCopies
    BY <1>0, <1>4, LeavesTyped DEF SecondUnmatched, SecondLate, SecondCombined
  <2>2. waiting' \subseteq Packets
    BY <1>0, <1>4 DEF SecondUnmatched, SecondLate, SecondCombined, TypeOK
  <2>3. result' \in [rc : {-1, 0, 1}, first : 0..MaxPackets, second : 0..MaxPackets]
    BY <1>p, <1>4 DEF SecondUnmatched, SecondLate, SecondCombined, Outcome
  <2> QED
    BY <1>0, <1>2, <2>1, <2>2, <2>3 DEF TypeOK
<1>5. ASSUME NEW l \in Layers, LockedGc(l) PROVE TypeOK' /\ Sizes'
  BY <1>0, <1>2, <1>5 DEF LockedGc, TypeOK
<1>6. ASSUME NEW l \in Layers, GcStart(l) PROVE TypeOK' /\ Sizes'
  <2>1. gc' = [on |-> TRUE, layer |-> l, slot |-> 0, now |-> clock, expired |-> FALSE]
    BY <1>6 DEF GcStart, IdleGc
  <2>2. gc' \in [on : BOOLEAN, layer : Layers \cup {"none"}, slot : 0..TableSize,
                 now : 0..MaxClock, expired : BOOLEAN]
    BY <1>0, <2>1, FragAssumption DEF TypeOK
  <2> QED
    BY <1>0, <1>2, <1>6, <2>2 DEF GcStart, TypeOK
<1>7. CASE GcEnd
  <2>1. gc' \in [on : BOOLEAN, layer : Layers \cup {"none"}, slot : 0..TableSize,
                 now : 0..MaxClock, expired : BOOLEAN]
    BY <1>7, FragAssumption DEF GcEnd, IdleGc
  <2> QED
    BY <1>0, <1>2, <1>7, <2>1 DEF GcEnd, TypeOK
<1>8. CASE GcLook \/ GcClear
  <2>1. gc.slot \in Nat /\ gc.slot < TableSize
    <3>1. gc.slot \in 0..TableSize /\ TableSize \in Nat
      BY <1>0, FragAssumption DEF TypeOK
    <3>2. CASE GcLook
      BY <3>1, <3>2 DEF GcLook
    <3>3. CASE GcClear
      BY <1>0, <3>1, <3>3 DEF GcClear, SweepInv, Slots
    <3> QED
      BY <1>8, <3>2, <3>3
  <2>2. gc.slot + 1 \in 0..TableSize
    BY <2>1, FragAssumption
  <2>3. gc' \in [on : BOOLEAN, layer : Layers \cup {"none"}, slot : 0..TableSize,
                 now : 0..MaxClock, expired : BOOLEAN]
    BY <1>0, <1>8, <2>2, Zenon DEF GcLook, GcClear, TypeOK
  <2>4. waiting' \subseteq Packets
    BY <1>0, <1>8 DEF GcLook, GcClear, TypeOK
  <2> QED
    BY <1>0, <1>2, <1>8, <2>3, <2>4 DEF GcLook, GcClear, TypeOK
<1>9. CASE Tick
  BY <1>0, <1>2, <1>9, FragAssumption DEF Tick, TypeOK
<1>10. CASE UNCHANGED vars
  BY <1>0, <1>2, <1>10 DEF vars, TypeOK
<1> QED
  BY FragNextCases, <1>1, <1>3, <1>4, <1>5, <1>6, <1>7, <1>8, <1>9, <1>10

-----------------------------------------------------------------------------
(***************************************************************************)
(* The table and the packets that wait.                                    *)
(***************************************************************************)
\* Entries are cleared, and their packets wait no longer.
LEMMA ClearedKeeps ==
  ASSUME TypeOK, EntryInv, WaitingInv, UNCHANGED <<sent, came>>,
         NEW C \in SUBSET (Layers \X Slots),
         \A l \in Layers, s \in Slots :
           table'[l][s] = IF <<l, s>> \in C THEN Used(table[l][s]) ELSE table[l][s],
         \A p \in waiting :
           p \in waiting' <=> ~ \E c \in C : p = table[c[1]][c[2]].pkt,
         waiting' \subseteq waiting
  PROVE  EntryInv' /\ WaitingInv'
<1>0. /\ Packets' = Packets /\ waiting \subseteq Packets /\ \A p \in Packets : p # 0
      /\ \A l \in Layers, s \in Slots : table[l][s] \in Entries
      /\ sent' = sent
  BY DEF Packets, TypeOK
<1>1. \A l \in Layers, s \in Slots :
        /\ table'[l][s].pkt = table[l][s].pkt /\ table'[l][s].at = table[l][s].at
        /\ <<l, s>> \in C => ~ table'[l][s].valid
        /\ <<l, s>> \notin C => table'[l][s] = table[l][s]
  <2> TAKE l \in Layers, s \in Slots
  <2>1. table[l][s] \in Entries
    BY <1>0
  <2>2. CASE <<l, s>> \in C
    BY <2>1, <2>2, UsedTyped
  <2>3. CASE <<l, s>> \notin C
    BY <2>3
  <2> QED
    BY <2>2, <2>3
<1>2. ASSUME NEW l \in Layers, NEW s \in Slots, table'[l][s].valid
      PROVE  table[l][s].pkt \in waiting' /\ table[l][s].at = came[table[l][s].pkt]
  <2> DEFINE p == table[l][s].pkt
  <2>1. <<l, s>> \notin C /\ table[l][s].valid
    BY <1>1, <1>2
  <2>2. p \in waiting /\ p \in Packets /\ table[l][s].at = came[p] /\ p # 0
    BY <1>0, <2>1 DEF EntryInv
  <2>3. sent[p].layer = l /\ SlotOf(p) = s
    BY <2>2 DEF EntryInv
  <2>4. ASSUME NEW c \in C, p = table[c[1]][c[2]].pkt PROVE FALSE
    <3>1. c[1] \in Layers /\ c[2] \in Slots /\ c = <<c[1], c[2]>>
      OBVIOUS
    <3>2. sent[p].layer = c[1] /\ SlotOf(p) = c[2]
      BY <2>2, <2>4, <3>1 DEF EntryInv
    <3> QED
      BY <2>1, <2>3, <3>1, <3>2
  <2> QED
    BY <2>2, <2>4
<1>3. EntryInv'
  <2>1. ASSUME NEW l \in Layers, NEW s \in Slots, table[l][s].pkt # 0
        PROVE  LET k == table[l][s].pkt
               IN k \in Packets' /\ sent'[k].layer = l /\ sent'[k].id % TableSize = s
    BY <1>0, <2>1 DEF EntryInv, SlotOf
  <2>2. ASSUME NEW l \in Layers, NEW s \in Slots
        PROVE  LET e == table'[l][s]
               IN /\ e.pkt # 0 => /\ e.pkt \in Packets' /\ sent'[e.pkt].layer = l
                                  /\ sent'[e.pkt].id % TableSize = s
                  /\ e.valid => e.pkt \in waiting' /\ e.at = came'[e.pkt]
    <3>1. table'[l][s].pkt = table[l][s].pkt /\ table'[l][s].at = table[l][s].at
      BY <1>1
    <3>2. came' = came
      OBVIOUS
    <3>3. table'[l][s].valid => /\ table'[l][s].pkt \in waiting'
                               /\ table'[l][s].at = came'[table'[l][s].pkt]
      BY <1>2, <3>1, <3>2
    <3> QED
      BY <2>1, <3>1, <3>3
  <2> QED
    BY ONLY <2>2 DEF EntryInv, SlotOf
<1>4. ASSUME NEW p \in waiting' PROVE EntryOf(p)' = EntryOf(p) /\ p \in waiting
  <2>1. p \in waiting /\ p \in Packets
    BY <1>0
  <2>2. sent[p].layer \in Layers /\ SlotOf(p) \in Slots
    BY <2>1, PacketsTyped DEF PacketRecords
  <2>3. table[sent[p].layer][SlotOf(p)].pkt = p
    BY <2>1 DEF WaitingInv, EntryOf
  <2>4. <<sent[p].layer, SlotOf(p)>> \notin C
    BY <1>4, <2>1, <2>3
  <2> QED
    BY <1>0, <1>1, <2>1, <2>2, <2>4 DEF EntryOf, SlotOf
<1>5. WaitingInv'
  BY <1>4 DEF WaitingInv
<1> QED
  BY <1>3, <1>5

\* The first half of a packet takes the entry of its id.
LEMMA FirstKeeps ==
  ASSUME TypeOK, EntryInv, WaitingInv, NEW p \in Packets, First(p)
  PROVE  EntryInv' /\ WaitingInv'
<1> DEFINE l0 == sent[p].layer
           s0 == SlotOf(p)
<1>0. /\ \A q \in Packets : sent[q].layer \in Layers /\ SlotOf(q) \in Slots /\ q # 0
      /\ table \in [Layers -> [Slots -> Entries]] /\ waiting \subseteq Packets
      /\ sent' = sent /\ Packets' = Packets
  <2>1. \A q \in Packets : sent[q].layer \in Layers /\ SlotOf(q) \in Slots
    BY PacketsTyped DEF PacketRecords
  <2>2. sent' = sent
    BY DEF First
  <2>3. Packets' = Packets /\ \A q \in Packets : q # 0
    BY <2>2 DEF Packets
  <2> QED
    BY <2>1, <2>2, <2>3 DEF TypeOK
<1>1. /\ table'[l0][s0] = Stored(p)
      /\ \A l \in Layers, s \in Slots : l # l0 \/ s # s0 => table'[l][s] = table[l][s]
  BY <1>0 DEF First
<1>2. came'[p] = clock /\ \A q \in Packets : q # p => came'[q] = came[q]
  <2>1. came \in Seq(0..MaxClock) /\ DOMAIN came = Packets
    BY DEF TypeOK, Packets
  <2> QED
    BY <2>1 DEF First
<1>3. /\ p \in waiting' /\ waiting' \subseteq waiting \cup {p}
      /\ \A q \in waiting : sent[q].layer # l0 \/ SlotOf(q) # s0 => q \in waiting'
      /\ \A q \in waiting' : q # p => sent[q].layer # l0 \/ SlotOf(q) # s0
  BY <1>0 DEF First, Rivals
<1>4. Stored(p).valid /\ Stored(p).pkt = p /\ Stored(p).at = clock
  BY DEF Stored
<1>5. ASSUME NEW l \in Layers, NEW s \in Slots
      PROVE  LET e == table'[l][s]
             IN /\ e.pkt # 0 => e.pkt \in Packets /\ sent[e.pkt].layer = l /\ SlotOf(e.pkt) = s
                /\ e.valid => e.pkt \in waiting' /\ e.at = came'[e.pkt]
  <2>1. CASE l = l0 /\ s = s0
    BY <1>1, <1>2, <1>3, <1>4, <2>1
  <2>2. CASE l # l0 \/ s # s0
    <3> DEFINE e == table[l][s]
    <3>1. table'[l][s] = e
      BY <1>1, <2>2
    <3>2. e.pkt # 0 => e.pkt \in Packets /\ sent[e.pkt].layer = l /\ SlotOf(e.pkt) = s
      BY DEF EntryInv
    <3>3. ASSUME e.valid PROVE e.pkt \in waiting' /\ e.at = came'[e.pkt]
      <4>1. e.pkt \in waiting /\ e.at = came[e.pkt] /\ e.pkt # 0 /\ e.pkt \in Packets
        BY <1>0, <3>3 DEF EntryInv
      <4>2. e.pkt # p
        BY <2>2, <3>2, <4>1
      <4> QED
        BY <1>2, <1>3, <2>2, <3>2, <4>1, <4>2
    <3> QED
      BY <3>1, <3>2, <3>3
  <2> QED
    BY <2>1, <2>2
<1>6. EntryInv'
  BY <1>0, <1>5 DEF EntryInv, SlotOf
<1>7. ASSUME NEW q \in waiting' PROVE EntryOf(q)'.valid /\ EntryOf(q)'.pkt = q
  <2>1. CASE q = p
    BY <1>0, <1>1, <1>4, <2>1 DEF EntryOf, SlotOf
  <2>2. CASE q # p
    <3>1. q \in waiting /\ q \in Packets /\ (sent[q].layer # l0 \/ SlotOf(q) # s0)
      BY <1>0, <1>3, <2>2
    <3>2. EntryOf(q)' = EntryOf(q)
      BY <1>0, <1>1, <3>1 DEF EntryOf, SlotOf
    <3> QED
      BY <3>1, <3>2 DEF WaitingInv
  <2> QED
    BY <2>1, <2>2
<1> QED
  BY <1>6, <1>7 DEF WaitingInv

LEMMA EntriesNext == FragInv /\ [Next]_vars => EntryInv' /\ WaitingInv'
<1> SUFFICES ASSUME FragInv, [Next]_vars PROVE EntryInv' /\ WaitingInv'
  OBVIOUS
<1>0. /\ TypeOK /\ EntryInv /\ WaitingInv /\ SweepInv
      /\ table \in [Layers -> [Slots -> Entries]] /\ waiting \subseteq Packets
  BY DEF FragInv, TypeOK
<1>p. \A p \in Packets : sent[p].layer \in Layers /\ SlotOf(p) \in Slots
  BY <1>0, PacketsTyped DEF PacketRecords
<1>1. ASSUME NEW peer \in Peers, NEW layer \in Layers, Split(peer, layer)
      PROVE  EntryInv' /\ WaitingInv'
  <2>1. /\ Packets \subseteq Packets'
        /\ \A p \in Packets : sent'[p] = sent[p] /\ came'[p] = came[p]
    BY <1>0, <1>1, SplitAppends
  <2>2. table' = table /\ waiting' = waiting
    BY <1>1 DEF Split
  <2>3. ASSUME NEW l \in Layers, NEW s \in Slots
        PROVE  LET e == table[l][s]
               IN /\ e.pkt # 0 => /\ e.pkt \in Packets' /\ sent'[e.pkt].layer = l
                                  /\ sent'[e.pkt].id % TableSize = s
                  /\ e.valid => e.pkt \in waiting /\ e.at = came'[e.pkt]
    <3>1. table[l][s].pkt # 0 => /\ table[l][s].pkt \in Packets
                                 /\ sent[table[l][s].pkt].layer = l
                                 /\ SlotOf(table[l][s].pkt) = s
      BY <1>0 DEF EntryInv
    <3>2. table[l][s].valid => /\ table[l][s].pkt \in waiting
                               /\ table[l][s].at = came[table[l][s].pkt]
      BY <1>0 DEF EntryInv
    <3> QED
      BY <1>0, <2>1, <3>1, <3>2 DEF SlotOf
  <2>4. EntryInv'
    BY ONLY <2>2, <2>3 DEF EntryInv, SlotOf
  <2>5. ASSUME NEW p \in waiting PROVE EntryOf(p)' = EntryOf(p)
    BY <1>0, <2>1, <2>2, <2>5 DEF EntryOf, SlotOf
  <2>6. WaitingInv'
    BY <1>0, <2>2, <2>5 DEF WaitingInv
  <2> QED
    BY <2>4, <2>6
<1>2. ASSUME NEW p \in Packets, First(p) PROVE EntryInv' /\ WaitingInv'
  BY <1>0, <1>2, FirstKeeps
<1>3. ASSUME NEW p \in Packets, SecondLate(p) \/ SecondCombined(p) PROVE EntryInv' /\ WaitingInv'
  <2> DEFINE l0 == sent[p].layer
             s0 == SlotOf(p)
             C == {<<l0, s0>>}
  <2>1. UNCHANGED <<sent, came>>
    BY <1>3 DEF SecondLate, SecondCombined
  <2>2. C \in SUBSET (Layers \X Slots) /\ \A c \in C : table[c[1]][c[2]] = EntryOf(p)
    BY <1>p DEF EntryOf
  <2>3. table' = [table EXCEPT ![l0][s0] = Used(@)]
    BY <1>3 DEF SecondLate, SecondCombined, Used
  <2>4. \A l \in Layers, s \in Slots :
          table'[l][s] = IF <<l, s>> \in C THEN Used(table[l][s]) ELSE table[l][s]
    BY <1>0, <1>p, <2>3
  <2>5. waiting' = waiting \ {EntryOf(p).pkt}
    BY <1>3 DEF SecondLate, SecondCombined
  <2> HIDE DEF C
  <2>6. \A q \in waiting : q \in waiting' <=> ~ \E c \in C : q = table[c[1]][c[2]].pkt
    <3>1. C # {}
      BY DEF C
    <3> QED
      BY <2>2, <2>5, <3>1
  <2> QED
    BY <1>0, <2>1, <2>2, <2>4, <2>5, <2>6, ClearedKeeps
<1>4. ASSUME NEW l0 \in Layers, LockedGc(l0) PROVE EntryInv' /\ WaitingInv'
  <2> DEFINE old == {s \in Slots : table[l0][s].valid /\ Expired(clock, table[l0][s].at)}
             C == {l0} \X old
  <2>1. /\ UNCHANGED <<sent, came>>
        /\ table' = [table EXCEPT ![l0] =
                       [s \in Slots |-> IF s \in old THEN Used(@[s]) ELSE @[s]]]
        /\ waiting' = waiting \ {table[l0][s].pkt : s \in old}
    BY <1>4 DEF LockedGc
  <2> HIDE DEF old
  <2>2. old \subseteq Slots
    BY DEF old
  <2>3. C \in SUBSET (Layers \X Slots)
    BY <2>2
  <2>4. \A l \in Layers, s \in Slots :
          table'[l][s] = IF <<l, s>> \in C THEN Used(table[l][s]) ELSE table[l][s]
    BY <1>0, <2>1
  <2>5. \A q \in waiting : q \in waiting' <=> ~ \E c \in C : q = table[c[1]][c[2]].pkt
    <3>1. \A q : (\E c \in C : q = table[c[1]][c[2]].pkt) <=> \E s \in old : q = table[l0][s].pkt
      <4>1. \A s \in old : <<l0, s>> \in C
        OBVIOUS
      <4>2. \A c \in C : c[1] = l0 /\ c[2] \in old
        OBVIOUS
      <4> QED
        BY <4>1, <4>2
    <3> QED
      BY <2>1, <3>1
  <2> HIDE DEF C
  <2> QED
    BY <1>0, <2>1, <2>3, <2>4, <2>5, ClearedKeeps
<1>5. CASE GcClear
  <2> DEFINE l0 == gc.layer
             s0 == gc.slot
             C == {<<l0, s0>>}
  <2>1. UNCHANGED <<sent, came>> /\ waiting' = waiting \ {table[l0][s0].pkt}
    BY <1>5 DEF GcClear
  <2>2. l0 \in Layers /\ s0 \in Slots
    BY <1>0, <1>5 DEF GcClear, SweepInv
  <2>3. C \in SUBSET (Layers \X Slots) /\ \A c \in C : table[c[1]][c[2]] = table[l0][s0]
    BY <2>2
  <2>4. table' = [table EXCEPT ![l0][s0] = Used(@)]
    BY <1>5 DEF GcClear, Used
  <2>5. \A l \in Layers, s \in Slots :
          table'[l][s] = IF <<l, s>> \in C THEN Used(table[l][s]) ELSE table[l][s]
    BY <1>0, <2>2, <2>4
  <2> HIDE DEF C
  <2>6. \A q \in waiting : q \in waiting' <=> ~ \E c \in C : q = table[c[1]][c[2]].pkt
    <3>1. C # {}
      BY DEF C
    <3> QED
      BY <2>1, <2>3, <3>1
  <2> QED
    BY <1>0, <2>1, <2>3, <2>5, <2>6, ClearedKeeps
<1>6. CASE UNCHANGED <<sent, came, table, waiting>>
  BY <1>0, <1>6 DEF EntryInv, WaitingInv, EntryOf, SlotOf, Packets
<1>7. Tick \/ GcLook \/ GcEnd \/ UNCHANGED vars \/ (\E l \in Layers : GcStart(l))
        \/ (\E p \in Packets : SecondUnmatched(p)) => UNCHANGED <<sent, came, table, waiting>>
  BY DEF Tick, GcLook, GcEnd, vars, GcStart, SecondUnmatched, history
<1> QED
  BY FragNextCases, <1>1, <1>2, <1>3, <1>4, <1>5, <1>6, <1>7

-----------------------------------------------------------------------------
(***************************************************************************)
(* Ids, times and the sweep.                                               *)
(***************************************************************************)
LEMMA IdsNext == FragInv /\ [Next]_vars => IdInv'
<1> SUFFICES ASSUME FragInv, [Next]_vars PROVE IdInv'
  OBVIOUS
<1>0. TypeOK /\ IdInv /\ counter \in [Peers -> Nat]
  BY DEF FragInv, TypeOK
<1>1. ASSUME NEW peer \in Peers, NEW layer \in Layers, Split(peer, layer)
      PROVE  IdInv'
  <2> DEFINE n == Len(sent) + 1
  <2>1. /\ n \in Nat /\ Packets' = Packets \cup {n} /\ n \notin Packets
        /\ sent'[n].peer = peer /\ sent'[n].seq = counter[peer]
        /\ sent'[n].id = NextPktId(counter[peer])
        /\ \A p \in Packets : sent'[p] = sent[p]
    <3>1. /\ n \in Nat /\ Packets' = Packets \cup {n} /\ n \notin Packets
          /\ sent'[n] = [peer |-> peer, layer |-> layer,
                         seq |-> counter[peer], id |-> NextPktId(counter[peer])]
          /\ \A p \in Packets : sent'[p] = sent[p]
      BY <1>0, <1>1, SplitAppends
    <3> HIDE DEF n
    <3> QED
      BY <3>1
  <2>2. Packets = 1 .. n - 1 /\ \A p \in Packets : p < n
    BY <2>1 DEF Packets
  <2>3. counter' = [counter EXCEPT ![peer] = counter[peer] + 1]
    BY <1>1 DEF Split
  <2>4. \A p \in Packets : sent[p].peer \in Peers /\ sent[p].seq \in Nat
    BY <1>0, PacketsTyped DEF PacketRecords
  <2> HIDE DEF n
  <2>5. \A p \in Packets' : /\ sent'[p].id = sent'[p].seq % IdSpace
                            /\ sent'[p].seq < counter'[sent'[p].peer]
    <3>1. ASSUME NEW p \in Packets
          PROVE  /\ sent'[p].id = sent'[p].seq % IdSpace
                 /\ sent'[p].seq < counter'[sent'[p].peer]
      <4>1. /\ sent[p].id = sent[p].seq % IdSpace /\ sent[p].seq < counter[sent[p].peer]
            /\ sent'[p] = sent[p]
        BY <1>0, <2>1 DEF IdInv
      <4>2. counter'[sent[p].peer] >= counter[sent[p].peer]
        BY <1>0, <2>3, <2>4
      <4>3. counter[sent[p].peer] \in Nat /\ counter'[sent[p].peer] \in Nat
        BY <1>0, <2>3, <2>4
      <4> QED
        BY <2>4, <4>1, <4>2, <4>3
    <3>2. sent'[n].id = sent'[n].seq % IdSpace /\ sent'[n].seq < counter'[sent'[n].peer]
      BY <1>0, <2>1, <2>3 DEF NextPktId
    <3> QED
      BY <2>1, <3>1, <3>2
  <2>6. ASSUME NEW p \in Packets', NEW q \in Packets', p < q, sent'[p].peer = sent'[q].peer
        PROVE  sent'[p].seq < sent'[q].seq
    <3>1. p \in Packets
      BY <2>1, <2>2, <2>6
    <3>2. CASE q \in Packets
      BY <1>0, <2>1, <2>6, <3>1, <3>2 DEF IdInv
    <3>3. CASE q = n
      BY <1>0, <2>1, <2>6, <3>1, <3>3 DEF IdInv
    <3> QED
      BY <2>1, <3>2, <3>3
  <2> QED
    BY <2>5, <2>6 DEF IdInv
<1>2. CASE UNCHANGED <<sent, counter>>
  BY <1>0, <1>2 DEF IdInv, Packets
<1> QED
  BY FragNextCases, <1>1, <1>2
     DEF First, SecondUnmatched, SecondLate, SecondCombined, LockedGc, GcStart, GcLook,
         GcClear, GcEnd, Tick, vars, history

LEMMA TimesNext == FragInv /\ [Next]_vars => TimeInv'
<1> SUFFICES ASSUME FragInv, [Next]_vars PROVE TimeInv'
  OBVIOUS
<1>0. /\ TypeOK /\ TimeInv /\ clock \in 0..MaxClock /\ MaxClock \in Nat
      /\ \A p \in Packets : came[p] \in 0..MaxClock
      /\ DOMAIN came = Packets
  <2>1. TypeOK /\ TimeInv
    BY DEF FragInv
  <2>2. came \in Seq(0..MaxClock) /\ Len(came) = Len(sent) /\ clock \in 0..MaxClock
    BY <2>1 DEF TypeOK
  <2>3. DOMAIN came = Packets
    BY <2>2 DEF Packets
  <2> QED
    BY <2>1, <2>2, <2>3, PacketsTyped, FragAssumption
<1>1. ASSUME NEW peer \in Peers, NEW layer \in Layers, Split(peer, layer)
      PROVE  TimeInv'
  <2>1. clock' = clock
    BY <1>1 DEF Split
  <2>2. \A p \in Packets' : came'[p] = 0 \/ (p \in Packets /\ came'[p] = came[p])
    BY <1>0, <1>1, SplitAppends
  <2> QED
    BY <1>0, <2>1, <2>2 DEF TimeInv
<1>2. ASSUME NEW p \in Packets, First(p) PROVE TimeInv'
  <2>1. clock' = clock /\ sent' = sent /\ came' = [came EXCEPT ![p] = clock]
    BY <1>2 DEF First
  <2> QED
    BY <1>0, <2>1 DEF TimeInv, Packets
<1>3. CASE Tick
  BY <1>0, <1>3 DEF Tick, TimeInv, history, Packets
<1>4. CASE UNCHANGED <<sent, came, clock>>
  BY <1>0, <1>4 DEF TimeInv, Packets
<1> QED
  BY FragNextCases, <1>1, <1>2, <1>3, <1>4
     DEF SecondUnmatched, SecondLate, SecondCombined, LockedGc, GcStart, GcLook,
         GcClear, GcEnd, vars, history

LEMMA SweepNext == FragInv /\ [Next]_vars => SweepInv'
<1> SUFFICES ASSUME FragInv, [Next]_vars PROVE SweepInv'
  OBVIOUS
<1>0. /\ TypeOK /\ SweepInv /\ EntryInv /\ TimeInv
      /\ clock \in 0..MaxClock /\ MaxClock \in Nat /\ Timeout \in Nat
      /\ table \in [Layers -> [Slots -> Entries]] /\ waiting \subseteq Packets
      /\ \A p \in Packets : came[p] \in 0..MaxClock
      /\ gc \in [on : BOOLEAN, layer : Layers \cup {"none"}, slot : 0..TableSize,
                 now : 0..MaxClock, expired : BOOLEAN]
  BY PacketsTyped, FragAssumption DEF FragInv, TypeOK
<1>e. \A l \in Layers, s \in Slots : table[l][s].valid =>
        table[l][s].pkt \in Packets /\ table[l][s].at = came[table[l][s].pkt]
  BY <1>0 DEF EntryInv
\* The steps that leave the sweep alone.
<1>s. ASSUME gc' = gc, clock' \in 0..MaxClock, clock' >= clock, inPass' = inPass,
             \A p \in Packets' : came'[p] > gc.now => p \in Packets /\ came'[p] = came[p],
             \A p \in Packets : came'[p] = came[p],
             \A l \in Layers, s \in Slots : table'[l][s].valid => table'[l][s] = table[l][s]
      PROVE  SweepInv'
  <2> SUFFICES ASSUME gc.on PROVE SweepInv'
    BY <1>s DEF SweepInv
  <2>1. /\ gc.layer \in Layers /\ gc.now <= clock
        /\ \A p \in Packets : came[p] > gc.now => p \in inPass
    BY <1>0 DEF SweepInv
  <2>2. gc.layer \in Layers /\ gc.now <= clock'
    BY <1>0, <1>s, <2>1
  <2>3. \A p \in Packets' : came'[p] > gc.now => p \in inPass
    BY <1>s, <2>1
  <2>4. ASSUME gc.expired, table'[gc.layer][gc.slot].valid
        PROVE  LET k == table'[gc.layer][gc.slot].pkt
               IN k \in inPass \/ gc.now - came'[k] > Timeout
    <3>1. gc.slot \in Slots
      BY <1>0, <2>4 DEF SweepInv
    <3>2. table'[gc.layer][gc.slot] = table[gc.layer][gc.slot]
      BY <1>s, <2>1, <2>4, <3>1
    <3>3. table[gc.layer][gc.slot].pkt \in Packets
      BY <1>e, <2>1, <2>4, <3>1, <3>2
    <3> QED
      BY <1>0, <1>s, <2>4, <3>2, <3>3 DEF SweepInv
  <2>5. gc.expired => gc.slot \in Slots
    BY <1>0 DEF SweepInv
  <2> QED
    BY <1>s, <2>2, <2>3, <2>4, <2>5 DEF SweepInv
<1>1. ASSUME NEW peer \in Peers, NEW layer \in Layers, Split(peer, layer)
      PROVE  SweepInv'
  <2>1. UNCHANGED <<gc, clock, inPass, table>>
    BY <1>1 DEF Split
  <2>2. /\ \A p \in Packets' : came'[p] = 0 \/ (p \in Packets /\ came'[p] = came[p])
        /\ \A p \in Packets : came'[p] = came[p]
    BY <1>0, <1>1, SplitAppends
  <2>3. \A p \in Packets' : came'[p] > gc.now => p \in Packets /\ came'[p] = came[p]
    BY <1>0, <2>2
  <2> QED
    BY <1>0, <1>s, <2>1, <2>2, <2>3
<1>2. ASSUME NEW p \in Packets, First(p) PROVE SweepInv'
  <2> SUFFICES ASSUME gc.on PROVE SweepInv'
    BY <1>2 DEF SweepInv, First
  <2>1. /\ gc' = gc /\ clock' = clock /\ Packets' = Packets /\ inPass' = inPass \cup {p}
        /\ came' = [came EXCEPT ![p] = clock]
    BY <1>2 DEF First, Packets
  <2>2. \A q \in Packets : q # p => came'[q] = came[q]
    BY <2>1
  <2>3. /\ gc.layer \in Layers /\ gc.now <= clock
        /\ \A q \in Packets : came[q] > gc.now => q \in inPass
        /\ gc.expired => gc.slot \in Slots
    BY <1>0 DEF SweepInv
  <2>4. ASSUME gc.expired, table'[gc.layer][gc.slot].valid
        PROVE  LET k == table'[gc.layer][gc.slot].pkt
               IN k \in inPass' \/ gc.now - came'[k] > Timeout
    <3>1. sent[p].layer \in Layers /\ SlotOf(p) \in Slots
      BY <1>0, PacketsTyped DEF PacketRecords
    <3>2. table' = [table EXCEPT ![sent[p].layer][SlotOf(p)] = Stored(p)] /\ Stored(p).pkt = p
      BY <1>2 DEF First, Stored
    <3>3. \/ table'[gc.layer][gc.slot].pkt = p
          \/ table'[gc.layer][gc.slot] = table[gc.layer][gc.slot]
      BY <1>0, <2>3, <2>4, <3>1, <3>2
    <3>4. CASE table'[gc.layer][gc.slot].pkt = p
      BY <2>1, <3>4
    <3>5. CASE table'[gc.layer][gc.slot] = table[gc.layer][gc.slot]
      <4> DEFINE k == table[gc.layer][gc.slot].pkt
      <4>1. k \in Packets /\ (k \in inPass \/ gc.now - came[k] > Timeout)
        BY <1>0, <1>e, <2>3, <2>4, <3>5 DEF SweepInv
      <4> QED
        BY <2>1, <2>2, <3>5, <4>1
    <3> QED
      BY <3>3, <3>4, <3>5
  <2>5. \A q \in Packets' : came'[q] > gc.now => q \in inPass'
    <3> SUFFICES ASSUME NEW q \in Packets, came'[q] > gc.now PROVE q \in inPass \cup {p}
      BY <2>1
    <3>1. CASE q = p
      BY ONLY <3>1
    <3>2. CASE q # p
      <4>1. came[q] > gc.now
        BY <2>2, <3>2
      <4> QED
        BY <2>3, <4>1
    <3> QED
      BY <3>1, <3>2
  <2>6. gc' = gc /\ clock' = clock
    BY <2>1
  <2>7. gc'.now <= clock' /\ gc'.layer \in Layers /\ (gc'.expired => gc'.slot \in Slots)
    BY <2>3, <2>6
  <2>8. \A q \in Packets' : came'[q] > gc'.now => q \in inPass'
    BY <2>5, <2>6
  <2>9. gc'.expired /\ table'[gc'.layer][gc'.slot].valid =>
          LET k == table'[gc'.layer][gc'.slot].pkt
          IN k \in inPass' \/ gc'.now - came'[k] > Timeout
    BY <2>4, <2>6
  <2> QED
    BY ONLY <2>7, <2>8, <2>9 DEF SweepInv
<1>3. ASSUME NEW p \in Packets, SecondUnmatched(p) \/ SecondLate(p) \/ SecondCombined(p)
      PROVE  SweepInv'
  <2>1. UNCHANGED <<gc, clock, inPass, sent, came>>
    BY <1>3 DEF SecondUnmatched, SecondLate, SecondCombined, history
  <2>2. sent[p].layer \in Layers /\ SlotOf(p) \in Slots
    BY <1>0, PacketsTyped DEF PacketRecords
  <2>3. \/ table' = table
        \/ table' = [table EXCEPT ![sent[p].layer][SlotOf(p)] = Used(@)]
    BY <1>3 DEF SecondUnmatched, SecondLate, SecondCombined, Used
  <2>4. ~ Used(table[sent[p].layer][SlotOf(p)]).valid
    BY <1>0, <2>2, UsedTyped
  <2>5. \A l \in Layers, s \in Slots : table'[l][s].valid => table'[l][s] = table[l][s]
    BY <1>0, <2>2, <2>3, <2>4
  <2> QED
    BY <1>0, <1>s, <2>1, <2>5 DEF Packets
<1>4. ASSUME NEW l \in Layers, LockedGc(l) PROVE SweepInv'
  <2>1. UNCHANGED <<gc, clock, inPass, sent, came>>
    BY <1>4 DEF LockedGc
  <2>2. \A s \in Slots : ~ Used(table[l][s]).valid
    BY <1>0, UsedTyped
  <2>3. \A k \in Layers, s \in Slots : table'[k][s].valid => table'[k][s] = table[k][s]
    BY <1>0, <1>4, <2>2 DEF LockedGc
  <2> QED
    BY <1>0, <1>s, <2>1, <2>3 DEF Packets
<1>5. ASSUME NEW l \in Layers, GcStart(l) PROVE SweepInv'
  <2>1. gc' = [on |-> TRUE, layer |-> l, slot |-> 0, now |-> clock, expired |-> FALSE]
    BY <1>5 DEF GcStart, IdleGc
  <2>2. UNCHANGED <<sent, came, clock>>
    BY <1>5 DEF GcStart
  <2>3. gc'.layer = l /\ gc'.now = clock /\ ~ gc'.expired
    BY <2>1
  <2>4. \A p \in Packets' : ~ came'[p] > clock
    BY <1>0, <2>2 DEF TimeInv, Packets
  <2> QED
    BY <1>0, <2>2, <2>3, <2>4 DEF SweepInv
<1>6. CASE GcLook
  <2> DEFINE e == table[gc.layer][gc.slot]
  <2>1. /\ gc.layer \in Layers /\ gc.now <= clock /\ gc.slot \in Slots /\ ~ gc.expired
        /\ \A p \in Packets : came[p] > gc.now => p \in inPass
    <3>1. gc.on /\ gc.slot < TableSize /\ ~ gc.expired
      BY <1>6 DEF GcLook
    <3>2. gc.slot \in Slots
      BY <1>0, <3>1, FragAssumption DEF Slots
    <3> QED
      BY <1>0, <3>1, <3>2 DEF SweepInv
  <2>2. UNCHANGED <<sent, came, clock, inPass, table>>
    BY <1>6 DEF GcLook, history
  <2>3. CASE e.valid /\ Expired(gc.now, e.at)
    <3>1. gc'.on = gc.on /\ gc'.layer = gc.layer /\ gc'.slot = gc.slot /\ gc'.now = gc.now
      BY <1>0, <1>6, <2>3 DEF GcLook
    <3>2. e.pkt \in Packets /\ e.at = came[e.pkt] /\ e.at \in 0..MaxClock
      BY <1>0, <1>e, <2>1, <2>3
    <3>3. e.at <= gc.now => gc.now - e.at > Timeout
      BY <1>0, <2>3, <3>2, ExpiredMeans
    <3>4. e.pkt \in inPass \/ gc.now - came[e.pkt] > Timeout
      BY <1>0, <2>1, <3>2, <3>3
    <3> QED
      BY <2>1, <2>2, <3>1, <3>4 DEF SweepInv, Packets
  <2>4. CASE ~ (e.valid /\ Expired(gc.now, e.at))
    <3>1. gc'.on = gc.on /\ gc'.layer = gc.layer /\ gc'.expired = gc.expired /\ gc'.now = gc.now
      BY <1>0, <1>6, <2>4 DEF GcLook
    <3> QED
      BY <2>1, <2>2, <3>1 DEF SweepInv, Packets
  <2> QED
    BY <2>3, <2>4
<1>7. CASE GcClear
  <2>1. /\ gc.layer \in Layers /\ gc.now <= clock
        /\ \A p \in Packets : came[p] > gc.now => p \in inPass
    BY <1>0, <1>7 DEF GcClear, SweepInv
  <2>2. UNCHANGED <<sent, came, clock, inPass>>
    BY <1>7 DEF GcClear
  <2>3. gc'.layer = gc.layer /\ gc'.now = gc.now /\ ~ gc'.expired
    BY <1>0, <1>7 DEF GcClear
  <2> QED
    BY <2>1, <2>2, <2>3 DEF SweepInv, Packets
<1>8. CASE GcEnd
  BY <1>8 DEF GcEnd, IdleGc, SweepInv
<1>9. CASE Tick \/ UNCHANGED vars
  <2>1. UNCHANGED <<gc, inPass, sent, came, table>> /\ clock' \in 0..MaxClock /\ clock' >= clock
    BY <1>0, <1>9 DEF Tick, vars, history
  <2> QED
    BY <1>s, <2>1 DEF Packets
<1> QED
  BY FragNextCases, <1>1, <1>2, <1>3, <1>4, <1>5, <1>6, <1>7, <1>8, <1>9

-----------------------------------------------------------------------------
(***************************************************************************)
(* Outcomes.                                                               *)
(***************************************************************************)
LEMMA ResultsNext == FragInv /\ [Next]_vars => ResultInv' /\ NoneDropped'
<1> SUFFICES ASSUME FragInv, [Next]_vars PROVE ResultInv' /\ NoneDropped'
  OBVIOUS
<1>0. /\ TypeOK /\ EntryInv /\ WaitingInv /\ ResultInv /\ NoneDropped
      /\ waiting \subseteq Packets /\ Timeout \in Nat
      /\ clock \in 0..MaxClock /\ MaxClock \in Nat
      /\ \A p \in Packets : came[p] \in 0..MaxClock
  BY PacketsTyped, FragAssumption DEF FragInv, TypeOK
\* What the entry of a packet holds.
<1>e. ASSUME NEW p \in Packets, EntryOf(p).valid
      PROVE  LET q == EntryOf(p).pkt
             IN /\ q \in waiting /\ q \in Packets /\ EntryOf(p).at = came[q]
                /\ sent[q].layer = sent[p].layer
  <2>1. /\ sent[p].layer \in Layers /\ SlotOf(p) \in Slots
        /\ EntryOf(p) = table[sent[p].layer][SlotOf(p)]
    BY <1>0, PacketsTyped DEF PacketRecords
  <2>2. EntryOf(p).pkt \in waiting /\ EntryOf(p).at = came[EntryOf(p).pkt]
    BY <1>0, <1>e, <2>1 DEF EntryInv
  <2>3. EntryOf(p).pkt # 0
    BY <1>0, <2>2 DEF Packets
  <2> QED
    BY <1>0, <2>1, <2>2, <2>3 DEF EntryInv
\* The steps that give no result.
<1>r. ASSUME result' = result, clock' \in 0..MaxClock, clock' >= clock,
             Packets \subseteq Packets', waiting' \subseteq waiting,
             \A p \in Packets : sent'[p] = sent[p] /\ came'[p] = came[p]
      PROVE  ResultInv' /\ NoneDropped'
  <2>1. ResultInv'
    BY <1>0, <1>r DEF ResultInv, Combined
  <2>2. ASSUME result.rc = -1, result.second \in waiting'
        PROVE  clock' - came'[result.second] > Timeout
    <3>1. result.second \in Packets /\ clock - came[result.second] > Timeout
      BY <1>0, <1>r, <2>2 DEF ResultInv, NoneDropped
    <3> QED
      BY <1>0, <1>r, <3>1
  <2> QED
    BY <1>r, <2>1, <2>2 DEF NoneDropped
<1>1. ASSUME NEW peer \in Peers, NEW layer \in Layers, Split(peer, layer)
      PROVE  ResultInv' /\ NoneDropped'
  <2>1. UNCHANGED <<result, clock, waiting>>
    BY <1>1 DEF Split
  <2>2. /\ Packets \subseteq Packets'
        /\ \A p \in Packets : sent'[p] = sent[p] /\ came'[p] = came[p]
    BY <1>0, <1>1, SplitAppends
  <2> QED
    BY <1>0, <1>r, <2>1, <2>2
<1>2. ASSUME NEW p \in Packets, First(p) PROVE ResultInv' /\ NoneDropped'
  <2>1. result'.rc = 0
    BY <1>2 DEF First, Outcome
  <2> QED
    BY <2>1 DEF ResultInv, NoneDropped, Combined
<1>3. ASSUME NEW p \in Packets, SecondUnmatched(p) PROVE ResultInv' /\ NoneDropped'
  <2>1. /\ result'.rc = -1 /\ result'.second = p
        /\ UNCHANGED <<sent, waiting>> /\ ~ Matches(p)
    BY <1>3 DEF SecondUnmatched, Outcome, history
  <2>2. p \notin waiting
    BY <2>1 DEF Matches, WaitingInv, FragInv
  <2> QED
    BY <2>1, <2>2 DEF ResultInv, NoneDropped, Combined, Packets
<1>4. ASSUME NEW p \in Packets, SecondLate(p) PROVE ResultInv' /\ NoneDropped'
  <2>1. /\ result'.rc = -1 /\ result'.second = p
        /\ UNCHANGED <<sent, came, clock>>
        /\ Matches(p) /\ Expired(clock, EntryOf(p).at)
        /\ waiting' = waiting \ {EntryOf(p).pkt}
    BY <1>4 DEF SecondLate, Outcome
  <2>2. p \notin waiting'
    BY <1>0, <2>1 DEF WaitingInv
  <2> QED
    BY <2>1, <2>2 DEF ResultInv, NoneDropped, Combined, Packets
<1>5. ASSUME NEW p \in Packets, SecondCombined(p) PROVE ResultInv' /\ NoneDropped'
  <2>1. /\ result'.rc = 1 /\ result'.first = EntryOf(p).pkt /\ result'.second = p
        /\ sent' = sent /\ EntryOf(p).valid /\ sent[EntryOf(p).pkt].id = sent[p].id
    BY <1>5 DEF SecondCombined, Outcome, Matches
  <2>2. EntryOf(p).pkt \in Packets /\ sent[EntryOf(p).pkt].layer = sent[p].layer
    BY <1>e, <2>1
  <2> QED
    BY <2>1, <2>2 DEF ResultInv, NoneDropped, Combined, Packets
<1>6. CASE \/ \E l \in Layers : LockedGc(l) \/ GcStart(l)
           \/ GcLook \/ GcClear \/ GcEnd \/ Tick \/ UNCHANGED vars
  <2>1. /\ UNCHANGED <<result, sent, came>> /\ waiting' \subseteq waiting
        /\ clock' = clock \/ (clock < MaxClock /\ clock' = clock + 1)
    BY <1>6 DEF LockedGc, GcStart, GcLook, GcClear, GcEnd, Tick, vars, history
  <2>2. Packets' = Packets
    BY <2>1 DEF Packets
  <2> QED
    BY <1>0, <1>r, <2>1, <2>2
<1> QED
  BY FragNextCases, <1>1, <1>2, <1>3, <1>4, <1>5, <1>6

LEMMA FragNext == FragInv /\ [Next]_vars => FragInv'
BY TypesNext, EntriesNext, TimesNext, SweepNext, IdsNext, ResultsNext DEF FragInv

LEMMA FragSafe == Spec => []FragInv
BY FragInit, FragNext, PTL DEF Spec

(***************************************************************************)
(* TypeOK: halves, entries and the sweep stay within the tables and the    *)
(* id space (fragment.c:150-250).                                          *)
(***************************************************************************)
THEOREM FragTypeCorrect == Spec => []TypeOK
BY FragSafe, PTL DEF FragInv

(***************************************************************************)
(* HalvesMatch: two halves that frag_try_reassemble() combines belong to   *)
(* one packet, unless they come from different gateways or the 16-bit      *)
(* counter of a gateway went round between them (fragment.c:201-248).      *)
(***************************************************************************)
THEOREM CombinedMatch == Spec => []HalvesMatch
<1>1. FragInv => HalvesMatch
  <2> SUFFICES ASSUME FragInv, Combined PROVE HalvesMatch
    BY DEF HalvesMatch
  <2> DEFINE p == result.first
             q == result.second
  <2>1. /\ p \in Packets /\ q \in Packets
        /\ sent[p].layer = sent[q].layer /\ sent[p].id = sent[q].id
    BY DEF FragInv, ResultInv
  <2>2. /\ sent[p].seq \in Nat /\ sent[q].seq \in Nat /\ IdSpace \in Nat \ {0}
        /\ sent[p].id = sent[p].seq % IdSpace /\ sent[q].id = sent[q].seq % IdSpace
    BY <2>1, PacketsTyped, FragAssumption DEF FragInv, IdInv, PacketRecords
  <2>3. p \in Int /\ q \in Int
    BY <2>1 DEF Packets
  <2> HIDE DEF p, q
  <2>4. CASE p = q \/ sent[p].peer # sent[q].peer
    BY <2>1, <2>4 DEF HalvesMatch, p, q
  <2>5. CASE p < q /\ sent[p].peer = sent[q].peer
    <3>1. sent[p].seq < sent[q].seq
      BY <2>1, <2>5 DEF FragInv, IdInv
    <3>2. sent[q].seq >= sent[p].seq + IdSpace
      BY <2>1, <2>2, <3>1, ModApart
    <3> QED
      BY <2>1, <3>2 DEF HalvesMatch, p, q
  <2>6. CASE q < p /\ sent[p].peer = sent[q].peer
    <3>1. sent[q].seq < sent[p].seq
      BY <2>1, <2>6 DEF FragInv, IdInv
    <3>2. sent[p].seq >= sent[q].seq + IdSpace
      BY <2>1, <2>2, <3>1, ModApart
    <3> QED
      BY <2>1, <3>2 DEF HalvesMatch, p, q
  <2> QED
    BY <2>3, <2>4, <2>5, <2>6
<1> QED
  BY <1>1, FragSafe, PTL

(***************************************************************************)
(* NoneDropped: a second half is dropped only if its first half is not     *)
(* there any more or came too long ago (fragment.c:202-207).               *)
(***************************************************************************)
THEOREM NoHalfDropped == Spec => []NoneDropped
BY FragSafe, PTL DEF FragInv

(***************************************************************************)
(* HalvesKept: a first half is used once and in time, and goes away only   *)
(* because it is combined, displaced, too old, or was stored during a      *)
(* sweep of gc_thread() that takes no lock (fragment.c:204-246,            *)
(* forwarder.c:1060-1062).                                                 *)
(***************************************************************************)
THEOREM FirstHalvesKept == Spec => HalvesKept
<1> DEFINE Kept ==
      /\ \A p \in Packets : SecondCombined(p) =>
           LET q == EntryOf(p).pkt IN q \in waiting /\ clock - came[q] <= Timeout
      /\ \A p \in waiting \ waiting' :
           \/ Combined' /\ result'.first = p
           \/ result'.rc = 0 /\ result'.second \in Rivals(p)
           \/ clock - came[p] > Timeout
           \/ gc.on /\ p \in inPass
<1>1. FragInv /\ [Next]_vars => [Kept]_vars
  <2> SUFFICES ASSUME FragInv, [Next]_vars PROVE Kept
    OBVIOUS
  <2>0. /\ TypeOK /\ EntryInv /\ WaitingInv /\ TimeInv /\ SweepInv
        /\ waiting \subseteq Packets /\ Timeout \in Nat
        /\ clock \in 0..MaxClock /\ MaxClock \in Nat
        /\ \A p \in Packets : came[p] \in 0..MaxClock /\ came[p] <= clock
        /\ gc.now \in 0..MaxClock
    BY PacketsTyped, FragAssumption DEF FragInv, TypeOK, TimeInv
  <2>p. \A p \in Packets : /\ sent[p].layer \in Layers /\ SlotOf(p) \in Slots
                           /\ EntryOf(p) = table[sent[p].layer][SlotOf(p)]
    BY <2>0, PacketsTyped DEF PacketRecords
  <2>e. \A l \in Layers, s \in Slots : table[l][s].valid =>
          table[l][s].pkt \in waiting /\ table[l][s].at = came[table[l][s].pkt]
    BY <2>0 DEF EntryInv
  <2>x. \A p \in waiting : Expired(clock, came[p]) => clock - came[p] > Timeout
    BY <2>0, ExpiredMeans
  <2>1. ASSUME NEW p \in Packets, SecondCombined(p)
        PROVE  LET q == EntryOf(p).pkt IN q \in waiting /\ clock - came[q] <= Timeout
    <3> DEFINE q == EntryOf(p).pkt
    <3>1. EntryOf(p).valid /\ ~ Expired(clock, EntryOf(p).at)
      BY <2>1 DEF SecondCombined, Matches
    <3>2. q \in waiting /\ EntryOf(p).at = came[q]
      BY <2>e, <2>p, <3>1
    <3>3. came[q] \in 0..MaxClock /\ came[q] <= clock
      BY <2>0, <3>2
    <3>4. ~ (clock - came[q] > Timeout)
      BY <2>0, <3>1, <3>2, <3>3, ExpiredMeans
    <3> QED
      BY <2>0, <3>2, <3>3, <3>4
  <2>2. ASSUME NEW p \in waiting, p \notin waiting'
        PROVE  \/ Combined' /\ result'.first = p
               \/ result'.rc = 0 /\ result'.second \in Rivals(p)
               \/ clock - came[p] > Timeout
               \/ gc.on /\ p \in inPass
    <3>1. ASSUME NEW q \in Packets, First(q)
          PROVE  result'.rc = 0 /\ result'.second \in Rivals(p)
      <4>1. result'.rc = 0 /\ result'.second = q /\ p \in Rivals(q)
        BY <2>2, <3>1 DEF First, Outcome
      <4> QED
        BY <2>0, <4>1 DEF Rivals
    <3>2. ASSUME NEW q \in Packets, SecondLate(q) PROVE clock - came[p] > Timeout
      <4>1. p = EntryOf(q).pkt /\ EntryOf(q).valid /\ Expired(clock, EntryOf(q).at)
        BY <2>2, <3>2 DEF SecondLate, Matches
      <4> QED
        BY <2>e, <2>p, <2>x, <4>1
    <3>3. ASSUME NEW q \in Packets, SecondCombined(q) PROVE Combined' /\ result'.first = p
      BY <2>2, <3>3 DEF SecondCombined, Combined, Outcome
    <3>4. ASSUME NEW l \in Layers, LockedGc(l) PROVE clock - came[p] > Timeout
      <4>1. PICK s \in Slots : /\ table[l][s].valid /\ Expired(clock, table[l][s].at)
                               /\ p = table[l][s].pkt
        BY <2>2, <3>4 DEF LockedGc
      <4> QED
        BY <2>e, <2>x, <4>1
    <3>5. CASE GcClear
      <4>1. /\ p = table[gc.layer][gc.slot].pkt /\ gc.on /\ gc.expired
            /\ gc.layer \in Layers /\ gc.slot \in Slots /\ gc.now <= clock
        BY <2>0, <2>2, <3>5 DEF GcClear, SweepInv
      <4>2. p \in Packets /\ EntryOf(p).valid /\ EntryOf(p) = table[gc.layer][gc.slot]
        <5>1. p \in Packets /\ p # 0 /\ EntryOf(p).valid
          BY <2>0 DEF WaitingInv, Packets
        <5>2. sent[p].layer = gc.layer /\ SlotOf(p) = gc.slot
          BY <2>0, <4>1, <5>1 DEF EntryInv
        <5> QED
          BY <5>1, <5>2 DEF EntryOf
      <4>3. p \in inPass \/ gc.now - came[p] > Timeout
        BY <2>0, <4>1, <4>2 DEF SweepInv
      <4> QED
        BY <2>0, <4>1, <4>2, <4>3
    <3>6. Tick \/ GcLook \/ GcEnd \/ UNCHANGED vars \/ (\E l \in Layers : GcStart(l))
            \/ (\E q \in Packets : SecondUnmatched(q))
            \/ (\E peer \in Peers, layer \in Layers : Split(peer, layer))
          => waiting' = waiting
      BY DEF Tick, GcLook, GcEnd, vars, GcStart, SecondUnmatched, Split, history
    <3> QED
      BY FragNextCases, <2>2, <3>1, <3>2, <3>3, <3>4, <3>5, <3>6
  <2> QED
    BY <2>1, <2>2
<1> QED
  BY <1>1, FragSafe, PTL DEF Spec, HalvesKept
=============================================================================
