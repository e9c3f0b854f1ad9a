------------------------- MODULE LanDeliveryProofs --------------------------
(***************************************************************************)
(* Proofs about LanDelivery, for every size of the rings and of the ARP    *)
(* cache, every hash, and every number of slots not below the TX ring.     *)
(*                                                                         *)
(*   SlotsIntact   the slots in the TX ring are always the last ones       *)
(*                 handed out, in order, and there are as many slots as    *)
(*                 entries at least, so that no two entries name the same  *)
(*   FramesOnce    the frames of the WAN are in the fill ring, the RX ring *)
(*                 or the batch, each once, until one is given back twice  *)
(*   CacheIsMap    every entry of the ARP cache is where the probing for   *)
(*                 its address ends, and the file names an address once    *)
(***************************************************************************)
EXTENDS LanDelivery, FiniteSetTheorems, SequenceTheorems, WellFoundedInduction, TLAPS

\* The slot handed out n packets before slot s is.
Before(s, n) == IF n <= s THEN s - n ELSE s - n + Half

TxTyped ==
  /\ queue \in Seq(0 .. Half - 1) /\ Len(queue) <= TxRing
  /\ txSlot \in 0 .. Half - 1

LastSlots ==
  \A i \in 1 .. Len(queue) : queue[i] = Before(txSlot, Len(queue) + 1 - i)

TxInv == TxTyped /\ LastSlots

-----------------------------------------------------------------------------
\* Slots go round: the one after the last is the first.
LEMMA NextSlotIs ==
  ASSUME NEW s \in 0 .. Half - 1
  PROVE  NextSlot(s) = IF s + 1 = Half THEN 0 ELSE s + 1
BY DeliveryAssumption DEF NextSlot

\* What the kernel leaves in the ring are the last slots still.
LEMMA KickKeeps ==
  ASSUME NEW s \in 0 .. Half - 1, NEW q \in Seq(0 .. Half - 1), Len(q) <= TxRing,
         \A i \in 1 .. Len(q) : q[i] = Before(s, Len(q) + 1 - i),
         Kick(q)
  PROVE  /\ queue' \in Seq(0 .. Half - 1) /\ Len(queue') <= TxRing
         /\ \A i \in 1 .. Len(queue') : queue'[i] = Before(s, Len(queue') + 1 - i)
<1>1. PICK n \in 0 .. Len(q) : queue' = SubSeq(q, n + 1, Len(q))
  BY DEF Kick
<1>2. Len(q) \in Nat
  OBVIOUS
<1>3. Len(queue') = Len(q) - n /\ \A i \in 1 .. Len(q) - n : queue'[i] = q[n + i]
  BY <1>1, <1>2
<1>4. queue' \in Seq(0 .. Half - 1)
  <2>1. n + 1 \in Int /\ \A i \in n + 1 .. Len(q) : i \in 1 .. Len(q)
    BY <1>2
  <2>2. \A i \in n + 1 .. Len(q) : q[i] \in 0 .. Half - 1
    BY <2>1, ElementOfSeq
  <2>3. SubSeq(q, n + 1, Len(q)) \in Seq(0 .. Half - 1)
    BY <1>2, <2>1, <2>2, SubSeqProperties
  <2> QED
    BY <1>1, <2>3
<1>5. \A i \in 1 .. Len(queue') : queue'[i] = Before(s, Len(queue') + 1 - i)
  <2> SUFFICES ASSUME NEW i \in 1 .. Len(queue')
               PROVE  queue'[i] = Before(s, Len(queue') + 1 - i)
    OBVIOUS
  <2>1. n + i \in 1 .. Len(q)
    BY <1>2, <1>3
  <2>2. Len(q) + 1 - (n + i) = Len(queue') + 1 - i
    BY <1>2, <1>3
  <2> QED
    BY <1>3, <2>1, <2>2
<1> QED
  BY <1>2, <1>3, <1>4, <1>5, DeliveryAssumption

-----------------------------------------------------------------------------
LEMMA TxInit == Init => TxInv
BY DeliveryAssumption DEF Init, TxInv, TxTyped, LastSlots

\* A packet that is queued takes the slot after the last.
LEMMA TxSend == TxInv /\ Send => TxInv'
<1> SUFFICES ASSUME TxInv, Send PROVE TxInv'
  OBVIOUS
<1> DEFINE q == Append(queue, txSlot)
           s == NextSlot(txSlot)
<1>1. /\ txSlot \in 0 .. Half - 1 /\ s \in 0 .. Half - 1
      /\ s = IF txSlot + 1 = Half THEN 0 ELSE txSlot + 1
      /\ Half \in Nat
  BY NextSlotIs, DeliveryAssumption DEF TxInv, TxTyped
<1>2. /\ queue \in Seq(0 .. Half - 1) /\ Len(queue) < TxRing /\ TxRing <= Half
      /\ TxRing \in Nat
  BY DeliveryAssumption DEF TxInv, TxTyped, Send
<1>3. q \in Seq(0 .. Half - 1) /\ Len(q) = Len(queue) + 1 /\ Len(q) <= TxRing
  BY <1>1, <1>2
<1>4. \A i \in 1 .. Len(q) : q[i] = Before(s, Len(q) + 1 - i)
  <2> SUFFICES ASSUME NEW i \in 1 .. Len(q)
               PROVE  q[i] = Before(s, Len(q) + 1 - i)
    OBVIOUS
  <2>1. CASE i = Len(q)
    <3>1. q[i] = txSlot
      BY <1>2, <1>3, <2>1
    <3>2. Before(s, 1) = txSlot
      BY <1>1 DEF Before
    <3> QED
      BY <1>2, <1>3, <2>1, <3>1, <3>2
  <2>2. CASE i # Len(q)
    <3>1. i \in 1 .. Len(queue) /\ q[i] = queue[i]
      BY <1>1, <1>2, <1>3, <2>2
    <3>2. queue[i] = Before(txSlot, Len(queue) + 1 - i)
      BY <3>1 DEF TxInv, LastSlots
    <3>3. ASSUME NEW n \in 1 .. Half - 1
          PROVE  Before(txSlot, n) = Before(s, n + 1)
      BY <1>1, <3>3 DEF Before
    <3>4. /\ Len(queue) + 1 - i \in 1 .. Half - 1
          /\ Len(queue) + 1 - i + 1 = Len(q) + 1 - i
      BY <1>1, <1>2, <1>3, <3>1
    <3> QED
      BY <3>1, <3>2, <3>3, <3>4
  <2> QED
    BY <2>1, <2>2
<1>5. txSlot' = s
  BY DEF Send
<1>6. CASE pending + 1 >= KickAt
  <2>1. Kick(q)
    BY <1>6 DEF Send
  <2> HIDE DEF q, s
  <2> QED
    BY <1>1, <1>3, <1>4, <1>5, <2>1, KickKeeps DEF TxInv, TxTyped, LastSlots
<1>7. CASE ~ (pending + 1 >= KickAt)
  <2>1. queue' = q
    BY <1>7 DEF Send
  <2> HIDE DEF q, s
  <2> QED
    BY <1>1, <1>3, <1>4, <1>5, <2>1 DEF TxInv, TxTyped, LastSlots
<1> QED
  BY <1>6, <1>7

\* Kicks on their own leave txSlot alone.
LEMMA TxKick ==
  ASSUME TxInv, Kick(queue) \/ UNCHANGED queue, UNCHANGED txSlot
  PROVE  TxInv'
<1>1. CASE Kick(queue)
  BY <1>1, KickKeeps DEF TxInv, TxTyped, LastSlots
<1>2. CASE UNCHANGED queue
  BY <1>2 DEF TxInv, TxTyped, LastSlots
<1> QED
  BY <1>1, <1>2

LEMMA TxNext == TxInv /\ [Next]_vars => TxInv'
<1> SUFFICES ASSUME TxInv, [Next]_vars PROVE TxInv'
  OBVIOUS
<1> USE DEF txVars, rxVars, arpVars
<1>0. CASE (\E ip \in Ips : Resolve(ip)) \/ Sync \/ Reload
  BY <1>0, TxKick DEF Resolve, Sync, Reload
<1>1. ASSUME NEW ip \in Dests, Receive(ip) PROVE TxInv'
  BY <1>1, TxKick DEF Receive
<1>2. CASE TakeBatch
  BY <1>2, TxKick DEF TakeBatch
<1>3. CASE Miss
  BY <1>3, TxKick DEF Miss
<1>4. CASE Send
  BY <1>4, TxSend
<1>5. CASE SendWait
  BY <1>5, TxKick DEF SendWait
<1>6. CASE GiveUp
  BY <1>6, TxKick DEF GiveUp
<1>7. CASE EndBatch
  BY <1>7, TxKick DEF EndBatch
<1>8. CASE LanPoll
  BY <1>8, TxKick DEF LanPoll
<1>9. CASE Arp
  BY <1>9, TxKick DEF Arp
<1>10. CASE Restart
  BY <1>10, DeliveryAssumption DEF Restart, TxInv, TxTyped, LastSlots
<1>11. CASE UNCHANGED vars
  BY <1>11, TxKick DEF vars
<1> QED
  BY <1>0, <1>1, <1>2, <1>3, <1>4, <1>5, <1>6, <1>7, <1>8, <1>9, <1>10, <1>11
     DEF Next, WanThread

\* Counting back up to Half slots, none comes twice.
LEMMA SlotsDiffer == TxInv => SlotIntact
<1> SUFFICES ASSUME TxInv, NEW i \in 1 .. Len(queue), NEW j \in 1 .. Len(queue),
                    queue[i] = queue[j]
             PROVE  i = j
  BY DEF TxInv, TxTyped, SlotIntact, IsInjective
<1>1. /\ Half \in Nat /\ Len(queue) \in Nat /\ Len(queue) <= Half /\ txSlot \in 0 .. Half - 1
  BY DeliveryAssumption DEF TxInv, TxTyped
<1>2. Before(txSlot, Len(queue) + 1 - i) = Before(txSlot, Len(queue) + 1 - j)
  BY DEF TxInv, LastSlots
<1> QED
  BY <1>1, <1>2 DEF Before

\* A packet queued for a LAN is not overwritten before the kernel takes it
\* (interface.c:1527), with the least number of slots config_validate() admits.
THEOREM SlotsIntact == Spec => []SlotIntact
<1>1. Init => TxInv
  BY TxInit
<1>2. TxInv /\ [Next]_vars => TxInv'
  BY TxNext
<1>3. TxInv => SlotIntact
  BY SlotsDiffer
<1> QED
  BY <1>1, <1>2, <1>3, PTL DEF Spec

-----------------------------------------------------------------------------
(***************************************************************************)
(* Frames of the WAN.  What is proved of FrameOnce rests on how sequences  *)
(* without repetition are put together and taken apart.                    *)
(***************************************************************************)
LEMMA InToSet ==
  ASSUME NEW S, NEW s \in Seq(S)
  PROVE  /\ DOMAIN s = 1 .. Len(s) /\ Len(s) \in Nat
         /\ \A x : x \in ToSet(s) <=> \E i \in 1 .. Len(s) : s[i] = x
<1>1. DOMAIN s = 1 .. Len(s) /\ Len(s) \in Nat
  OBVIOUS
<1> QED
  BY <1>1, Zenon DEF ToSet

\* The elements of two sequences are those of both, and none comes twice if
\* none does in each and they share none.
LEMMA ConcatOnce ==
  ASSUME NEW S, NEW a \in Seq(S), NEW b \in Seq(S)
  PROVE  /\ a \o b \in Seq(S) /\ Len(a \o b) = Len(a) + Len(b)
         /\ ToSet(a \o b) = ToSet(a) \cup ToSet(b)
         /\ IsInjective(a \o b) <=>
              IsInjective(a) /\ IsInjective(b) /\ ToSet(a) \cap ToSet(b) = {}
<1> DEFINE c == a \o b
           m == Len(a)
           n == Len(b)
<1>1. /\ c \in Seq(S) /\ Len(c) = m + n /\ m \in Nat /\ n \in Nat
      /\ DOMAIN a = 1 .. m /\ DOMAIN b = 1 .. n /\ DOMAIN c = 1 .. m + n
      /\ \A i \in 1 .. m + n : c[i] = IF i <= m THEN a[i] ELSE b[i - m]
  BY ConcatProperties
<1>s. /\ \A x : x \in ToSet(a) <=> \E i \in 1 .. m : a[i] = x
      /\ \A x : x \in ToSet(b) <=> \E i \in 1 .. n : b[i] = x
      /\ \A x : x \in ToSet(c) <=> \E i \in 1 .. m + n : c[i] = x
  BY <1>1, InToSet
<1> HIDE DEF c, m, n
<1>2. /\ \A i \in 1 .. m : i \in 1 .. m + n /\ c[i] = a[i]
      /\ \A j \in 1 .. n : m + j \in 1 .. m + n /\ c[m + j] = b[j]
      /\ \A i \in 1 .. m + n : i \in 1 .. m \/ \E j \in 1 .. n : i = m + j
  <2>1. \A j \in 1 .. n : m + j \in 1 .. m + n /\ c[m + j] = b[j]
    <3> SUFFICES ASSUME NEW j \in 1 .. n PROVE m + j \in 1 .. m + n /\ c[m + j] = b[j]
      OBVIOUS
    <3>1. m + j \in 1 .. m + n /\ ~ (m + j <= m) /\ (m + j) - m = j
      BY <1>1
    <3> QED
      BY <1>1, <3>1
  <2>2. \A i \in 1 .. m + n : i \in 1 .. m \/ \E j \in 1 .. n : i = m + j
    <3> SUFFICES ASSUME NEW i \in 1 .. m + n, i \notin 1 .. m PROVE \E j \in 1 .. n : i = m + j
      OBVIOUS
    <3>1. i - m \in 1 .. n /\ i = m + (i - m)
      BY <1>1
    <3> QED
      BY <3>1
  <2>3. \A i \in 1 .. m : i \in 1 .. m + n /\ c[i] = a[i]
    BY <1>1
  <2> QED
    BY <2>1, <2>2, <2>3
<1>3. ToSet(c) = ToSet(a) \cup ToSet(b)
  <2>1. ToSet(c) \subseteq ToSet(a) \cup ToSet(b)
    BY <1>s, <1>2
  <2>2. ToSet(a) \cup ToSet(b) \subseteq ToSet(c)
    BY <1>s, <1>2
  <2> QED
    BY <2>1, <2>2
<1>4. IsInjective(c) => IsInjective(a) /\ IsInjective(b) /\ ToSet(a) \cap ToSet(b) = {}
  <2> SUFFICES ASSUME IsInjective(c)
               PROVE  IsInjective(a) /\ IsInjective(b) /\ ToSet(a) \cap ToSet(b) = {}
    OBVIOUS
  <2>1. \A i, j \in 1 .. m + n : c[i] = c[j] => i = j
    BY <1>1 DEF IsInjective
  <2>2. IsInjective(a)
    BY <1>1, <1>2, <2>1 DEF IsInjective
  <2>3. IsInjective(b)
    <3> SUFFICES ASSUME NEW i \in 1 .. n, NEW j \in 1 .. n, b[i] = b[j] PROVE i = j
      BY <1>1 DEF IsInjective
    <3>1. m + i = m + j
      BY <1>2, <2>1
    <3> QED
      BY <1>1, <3>1
  <2>4. ASSUME NEW i \in 1 .. m, NEW j \in 1 .. n, a[i] = b[j] PROVE FALSE
    <3>1. i = m + j
      BY <1>2, <2>1, <2>4
    <3> QED
      BY <1>1, <3>1
  <2> QED
    BY <1>s, <2>2, <2>3, <2>4
<1>5. IsInjective(a) /\ IsInjective(b) /\ ToSet(a) \cap ToSet(b) = {} => IsInjective(c)
  <2> SUFFICES ASSUME IsInjective(a), IsInjective(b), ToSet(a) \cap ToSet(b) = {},
                      NEW i \in 1 .. m + n, NEW j \in 1 .. m + n, c[i] = c[j]
               PROVE  i = j
    BY <1>1 DEF IsInjective
  <2>1. /\ \A k, l \in 1 .. m : a[k] = a[l] => k = l
        /\ \A k, l \in 1 .. n : b[k] = b[l] => k = l
        /\ \A k \in 1 .. m, l \in 1 .. n : a[k] # b[l]
    <3>1. /\ \A k, l \in 1 .. m : a[k] = a[l] => k = l
          /\ \A k, l \in 1 .. n : b[k] = b[l] => k = l
      BY <1>1 DEF IsInjective
    <3>2. \A k \in 1 .. m, l \in 1 .. n : a[k] # b[l]
      BY <1>s
    <3> QED
      BY <3>1, <3>2
  <2>2. CASE i \in 1 .. m /\ j \in 1 .. m
    BY <1>2, <2>1, <2>2
  <2>3. CASE i \in 1 .. m /\ j \notin 1 .. m
    BY <1>2, <2>1, <2>3
  <2>4. CASE i \notin 1 .. m /\ j \in 1 .. m
    BY <1>2, <2>1, <2>4
  <2>5. CASE i \notin 1 .. m /\ j \notin 1 .. m
    BY <1>2, <2>1, <2>5
  <2> QED
    BY <2>2, <2>3, <2>4, <2>5
<1> QED
  BY <1>1, <1>3, <1>4, <1>5 DEF c, m, n

LEMMA OneOnce ==
  ASSUME NEW S, NEW x \in S
  PROVE  <<x>> \in Seq(S) /\ IsInjective(<<x>>) /\ ToSet(<<x>>) = {x}
<1>1. <<x>> \in Seq(S) /\ DOMAIN <<x>> = {1} /\ <<x>>[1] = x
  OBVIOUS
<1> QED
  BY <1>1 DEF IsInjective, ToSet

\* A sequence is its first element and the rest.
LEMMA HeadAndTail ==
  ASSUME NEW S, NEW s \in Seq(S), s # <<>>
  PROVE  Head(s) \in S /\ Tail(s) \in Seq(S) /\ s = <<Head(s)>> \o Tail(s)
<1>1. Head(s) \in S /\ Tail(s) \in Seq(S) /\ Len(s) \in Nat /\ Len(s) > 0
  BY HeadTailProperties, EmptySeq
<1>2. <<Head(s)>> \in Seq(S)
  BY <1>1
<1> QED
  BY <1>1, <1>2

\* Without repetition there are no more elements than there are to choose from.
LEMMA OnceBound ==
  ASSUME NEW n \in Nat, NEW s \in Seq(1 .. n), IsInjective(s)
  PROVE  Len(s) <= n
<1>1. Len(s) \in Nat /\ DOMAIN s = 1 .. Len(s) /\ s \in [1 .. Len(s) -> 1 .. n]
  OBVIOUS
<1>2. s \in Injection(1 .. Len(s), 1 .. n)
  BY <1>1 DEF IsInjective, Injection
<1>3. /\ IsFiniteSet(1 .. n) /\ Cardinality(1 .. n) = n
      /\ Cardinality(1 .. Len(s)) = Len(s)
  <2>1. \A k \in Nat : IsFiniteSet(1 .. k) /\ Cardinality(1 .. k) = k
    <3> SUFFICES ASSUME NEW k \in Nat PROVE IsFiniteSet(1 .. k) /\ Cardinality(1 .. k) = k
      OBVIOUS
    <3>1. /\ IsFiniteSet(1 .. k)
          /\ Cardinality(1 .. k) = IF 1 > k THEN 0 ELSE k - 1 + 1
      BY FS_Interval
    <3> QED
      BY <3>1
  <2> QED
    BY <1>1, <2>1
<1> QED
  BY <1>2, <1>3, FS_Injection

-----------------------------------------------------------------------------
(***************************************************************************)
(* The frames: between the fill ring, the RX ring and the batch.           *)
(***************************************************************************)
Held == [frame : Frames, ip : Dests]

RxTyped ==
  /\ fill \in Seq(Frames) /\ Len(fill) <= RingSize
  /\ rx \in Seq(Held)
  /\ batch \in Seq(Held) /\ pos \in 0 .. Len(batch) + 1
  /\ missed \in BOOLEAN
  /\ pos = 0 => batch = <<>>

LEMMA FramesTyped ==
  ASSUME NEW s \in Seq(Held)
  PROVE  /\ FramesOf(s) \in Seq(Frames) /\ Len(FramesOf(s)) = Len(s)
         /\ \A i \in 1 .. Len(s) : FramesOf(s)[i] = s[i].frame
<1>1. DOMAIN s = 1 .. Len(s) /\ Len(s) \in Nat /\ \A i \in 1 .. Len(s) : s[i].frame \in Frames
  <2>1. \A i \in 1 .. Len(s) : s[i] \in Held
    BY ElementOfSeq
  <2> QED
    BY <2>1 DEF Held
<1>2. FramesOf(s) = [i \in 1 .. Len(s) |-> s[i].frame]
  BY <1>1 DEF FramesOf
<1>3. FramesOf(s) \in [1 .. Len(s) -> Frames]
  BY <1>1, <1>2
<1> QED
  BY <1>1, <1>2, <1>3

LEMMA FramesNone == FramesOf(<<>>) = <<>>
BY DEF FramesOf

LEMMA FramesAppend ==
  ASSUME NEW s \in Seq(Held), NEW r \in Held
  PROVE  Append(s, r) \in Seq(Held) /\ FramesOf(Append(s, r)) = FramesOf(s) \o <<r.frame>>
<1>1. /\ Append(s, r) \in Seq(Held) /\ Len(Append(s, r)) = Len(s) + 1 /\ Len(s) \in Nat
      /\ \A i \in 1 .. Len(s) : Append(s, r)[i] = s[i]
      /\ Append(s, r)[Len(s) + 1] = r
  BY AppendProperties
<1> DEFINE t == Append(s, r)
<1> HIDE DEF t
<1>2. /\ FramesOf(t) \in Seq(Frames) /\ Len(FramesOf(t)) = Len(s) + 1
      /\ \A i \in 1 .. Len(s) + 1 : FramesOf(t)[i] = t[i].frame
  BY <1>1, FramesTyped DEF t
<1>3. /\ FramesOf(s) \in Seq(Frames) /\ Len(FramesOf(s)) = Len(s)
      /\ \A i \in 1 .. Len(s) : FramesOf(s)[i] = s[i].frame
  BY FramesTyped
<1>4. r.frame \in Frames
  BY DEF Held
<1> DEFINE u == FramesOf(s) \o <<r.frame>>
<1>5. /\ u \in Seq(Frames) /\ Len(u) = Len(s) + 1
      /\ \A i \in 1 .. Len(s) : u[i] = FramesOf(s)[i]
      /\ u[Len(s) + 1] = r.frame
  <2>1. <<r.frame>> \in Seq(Frames) /\ Len(<<r.frame>>) = 1 /\ <<r.frame>>[1] = r.frame
    BY <1>4
  <2> QED
    BY <1>1, <1>3, <2>1, ConcatProperties
<1> HIDE DEF u
<1>6. \A i \in 1 .. Len(s) + 1 : FramesOf(t)[i] = u[i]
  <2> SUFFICES ASSUME NEW i \in 1 .. Len(s) + 1 PROVE FramesOf(t)[i] = u[i]
    OBVIOUS
  <2>1. CASE i \in 1 .. Len(s)
    BY <1>1, <1>2, <1>3, <1>5, <2>1 DEF t
  <2>2. CASE i = Len(s) + 1
    BY <1>1, <1>2, <1>5, <2>2 DEF t
  <2> QED
    BY <1>1, <2>1, <2>2
<1>7. FramesOf(t) = u
  BY <1>2, <1>5, <1>6, SeqEqual
<1> QED
  BY <1>1, <1>7 DEF t, u

\* The least element of a set is what Min takes.
LEMMA MinIs ==
  ASSUME NEW T, T \subseteq Int, NEW m \in T, \A k \in T : m <= k
  PROVE  Min(T) = m
<1>1. \A n \in T : (\A k \in T : n <= k) => n = m
  <2> SUFFICES ASSUME NEW n \in T, \A k \in T : n <= k PROVE n = m
    OBVIOUS
  <2>1. n <= m /\ m <= n /\ n \in Int /\ m \in Int
    OBVIOUS
  <2> QED
    BY <2>1
<1> QED
  BY <1>1, Zenon DEF Min

LEMMA ReleasedIs ==
  ASSUME RxTyped, NEW s \in Seq(Frames)
  PROVE  /\ Released(s) \in Seq(Frames) /\ Len(Released(s)) <= RingSize
         /\ Len(fill \o s) <= RingSize => Released(s) = fill \o s
<1> DEFINE c == fill \o s
           n == Min({RingSize, Len(c)})
<1>1. c \in Seq(Frames) /\ Len(c) \in Nat /\ RingSize \in Nat
  BY DeliveryAssumption DEF RxTyped
<1> HIDE DEF c
<1>2. n \in Nat /\ n <= Len(c) /\ n <= RingSize /\ (Len(c) <= RingSize => n = Len(c))
  <2>1. CASE RingSize <= Len(c)
    <3>1. /\ {RingSize, Len(c)} \subseteq Int
          /\ \A k \in {RingSize, Len(c)} : RingSize <= k
      BY <1>1, <2>1
    <3>2. n = RingSize
      BY <3>1, MinIs
    <3> QED
      BY <1>1, <2>1, <3>2
  <2>2. CASE Len(c) <= RingSize
    <3>1. /\ {RingSize, Len(c)} \subseteq Int
          /\ \A k \in {RingSize, Len(c)} : Len(c) <= k
      BY <1>1, <2>2
    <3> DEFINE T == {RingSize, Len(c)}
               l == Len(c)
    <3>2. l \in T /\ T \subseteq Int /\ \A k \in T : l <= k
      BY <3>1
    <3> HIDE DEF T, l
    <3>3. Min(T) = l
      BY <3>2, MinIs
    <3>4. n = Len(c)
      BY <3>3 DEF T, l
    <3> QED
      BY <1>1, <2>2, <3>4
  <2> QED
    BY <1>1, <2>1, <2>2
<1> HIDE DEF n
<1>3. SubSeq(c, 1, n) \in Seq(Frames) /\ Len(SubSeq(c, 1, n)) = n
  <2>1. \A i \in 1 .. n : c[i] \in Frames
    BY <1>1, <1>2, ElementOfSeq
  <2> QED
    BY <1>1, <1>2, <2>1, SubSeqProperties
<1>4. n = Len(c) => SubSeq(c, 1, n) = c
  BY <1>1, SubSeqFull
<1> QED
  BY <1>2, <1>3, <1>4 DEF Released, c, n

FrameInv == RxTyped /\ FrameOnce

\* Frames that are each in one place.
EachOnce(a, b, c) ==
  /\ IsInjective(a) /\ IsInjective(b) /\ IsInjective(c)
  /\ ToSet(a) \cap ToSet(b) = {} /\ ToSet(a) \cap ToSet(c) = {} /\ ToSet(b) \cap ToSet(c) = {}
  /\ ToSet(a) \cup ToSet(b) \cup ToSet(c) = Frames

LEMMA OnceInParts ==
  ASSUME RxTyped
  PROVE  FrameOnce <=> (~ missed => EachOnce(fill, FramesOf(rx), FramesOf(batch)))
<1>1. fill \in Seq(Frames) /\ FramesOf(rx) \in Seq(Frames) /\ FramesOf(batch) \in Seq(Frames)
  BY FramesTyped DEF RxTyped
<1> DEFINE a == fill
           b == FramesOf(rx)
           c == FramesOf(batch)
<1> HIDE DEF a, b, c
<1>2. /\ a \o b \in Seq(Frames)
      /\ ToSet(a \o b) = ToSet(a) \cup ToSet(b)
      /\ IsInjective(a \o b) <=>
           IsInjective(a) /\ IsInjective(b) /\ ToSet(a) \cap ToSet(b) = {}
  BY <1>1, ConcatOnce DEF a, b
<1>3. /\ ToSet((a \o b) \o c) = ToSet(a \o b) \cup ToSet(c)
      /\ IsInjective((a \o b) \o c) <=>
           IsInjective(a \o b) /\ IsInjective(c) /\ ToSet(a \o b) \cap ToSet(c) = {}
  BY <1>1, <1>2, ConcatOnce DEF c
<1>4. IsInjective((a \o b) \o c) /\ ToSet((a \o b) \o c) = Frames <=> EachOnce(a, b, c)
  BY <1>2, <1>3 DEF EachOnce
<1> QED
  BY <1>4 DEF FrameOnce, AllFrames, a, b, c

\* OnceInParts after a step.
LEMMA OnceAfter ==
  ASSUME RxTyped', ~ missed' => EachOnce(fill', FramesOf(rx'), FramesOf(batch'))
  PROVE  FrameOnce'
<1>1. (RxTyped => (FrameOnce <=> (~ missed => EachOnce(fill, FramesOf(rx), FramesOf(batch)))))'
  BY OnceInParts, PTL
<1> QED
  BY <1>1

LEMMA FillRingOnce == EachOnce(FillRing, <<>>, <<>>)
<1>1. RingSize \in Nat
  BY DeliveryAssumption
<1>2. ToSet(<<>>) = {} /\ IsInjective(<<>>)
  BY DEF ToSet, IsInjective
<1>3. ToSet(FillRing) = Frames /\ IsInjective(FillRing)
  BY <1>1, Zenon DEF FillRing, ToSet, IsInjective, Frames
<1> QED
  BY <1>2, <1>3 DEF EachOnce

\* The rings as a process finds them.
LEMMA RingsNew ==
  ASSUME NEW r, NEW b, NEW p, r = <<>>, b = <<>>, p = 0
  PROVE  /\ r \in Seq(Held) /\ b \in Seq(Held) /\ p \in 0 .. Len(b) + 1
         /\ FillRing \in Seq(Frames) /\ Len(FillRing) <= RingSize
<1>1. RingSize \in Nat
  BY DeliveryAssumption
<1>2. FillRing \in Seq(Frames) /\ Len(FillRing) = RingSize
  BY <1>1 DEF FillRing, Frames
<1>3. r \in Seq(Held) /\ b \in Seq(Held) /\ Len(b) = 0
  OBVIOUS
<1> QED
  BY <1>1, <1>2, <1>3

LEMMA RxInit == Init => FrameInv
<1> SUFFICES ASSUME Init PROVE FrameInv
  OBVIOUS
<1>1. /\ fill = FillRing /\ rx = <<>> /\ batch = <<>> /\ pos = 0 /\ missed = FALSE
  BY DEF Init
<1>2. /\ rx \in Seq(Held) /\ batch \in Seq(Held) /\ pos \in 0 .. Len(batch) + 1
      /\ FillRing \in Seq(Frames) /\ Len(FillRing) <= RingSize
  BY <1>1, RingsNew
<1>3. RxTyped
  BY <1>1, <1>2 DEF RxTyped
<1>4. EachOnce(FillRing, <<>>, <<>>)
  BY FillRingOnce
<1> QED
  BY <1>1, <1>3, <1>4, OnceInParts, FramesNone DEF FrameInv

\* The kernel moves a frame from the fill ring to the RX ring.
LEMMA RxReceive ==
  ASSUME FrameInv, NEW ip \in Dests, Receive(ip)
  PROVE  FrameInv'
<1> DEFINE h == Head(fill)
           r == [frame |-> h, ip |-> ip]
<1>1. /\ fill \in Seq(Frames) /\ fill # <<>> /\ rx \in Seq(Held) /\ batch \in Seq(Held)
      /\ fill' = Tail(fill) /\ rx' = Append(rx, r)
      /\ UNCHANGED <<batch, pos, missed>>
  BY DEF FrameInv, RxTyped, Receive
<1>2. h \in Frames /\ Tail(fill) \in Seq(Frames) /\ fill = <<h>> \o Tail(fill)
  BY <1>1, HeadAndTail
<1> HIDE DEF h
<1>3. r \in Held
  BY <1>2 DEF Held
<1>4. Append(rx, r) \in Seq(Held) /\ FramesOf(Append(rx, r)) = FramesOf(rx) \o <<h>>
  <2> HIDE DEF r
  <2>1. r.frame = h
    BY DEF r
  <2> QED
    BY <1>1, <1>3, <2>1, FramesAppend
<1>5. Len(fill') <= RingSize
  <2>1. Len(Tail(fill)) = Len(fill) - 1 /\ Len(fill) \in Nat /\ Len(fill) <= RingSize
    BY <1>1, HeadTailProperties DEF FrameInv, RxTyped
  <2> QED
    BY <1>1, <2>1, DeliveryAssumption
<1>6. RxTyped'
  BY <1>1, <1>2, <1>4, <1>5 DEF FrameInv, RxTyped
<1>7. ASSUME ~ missed
      PROVE  EachOnce(Tail(fill), FramesOf(rx) \o <<h>>, FramesOf(batch))
  <2>1. EachOnce(fill, FramesOf(rx), FramesOf(batch))
    BY <1>7, OnceInParts DEF FrameInv
  <2>2. /\ ToSet(fill) = ToSet(<<h>>) \cup ToSet(Tail(fill))
        /\ IsInjective(Tail(fill)) /\ ToSet(<<h>>) \cap ToSet(Tail(fill)) = {}
    <3> DEFINE t == Tail(fill)
               g == <<h>>
    <3>1. g \in Seq(Frames) /\ t \in Seq(Frames) /\ fill = g \o t /\ IsInjective(fill)
      BY <1>2, <2>1 DEF EachOnce
    <3> HIDE DEF t, g
    <3>2. /\ ToSet(g \o t) = ToSet(g) \cup ToSet(t)
          /\ IsInjective(g \o t) <=>
               IsInjective(g) /\ IsInjective(t) /\ ToSet(g) \cap ToSet(t) = {}
      BY <3>1, ConcatOnce
    <3>3. /\ ToSet(fill) = ToSet(g) \cup ToSet(t)
          /\ IsInjective(t) /\ ToSet(g) \cap ToSet(t) = {}
      BY <3>1, <3>2
    <3> QED
      BY <3>3 DEF t, g
  <2>3. ToSet(<<h>>) = {h} /\ IsInjective(<<h>>) /\ <<h>> \in Seq(Frames)
    BY <1>2, OneOnce
  <2>4. FramesOf(rx) \in Seq(Frames)
    BY <1>1, FramesTyped
  <2>5. /\ ToSet(FramesOf(rx) \o <<h>>) = ToSet(FramesOf(rx)) \cup {h}
        /\ IsInjective(FramesOf(rx) \o <<h>>) <=>
             IsInjective(FramesOf(rx)) /\ IsInjective(<<h>>) /\ ToSet(FramesOf(rx)) \cap {h} = {}
    BY <2>3, <2>4, ConcatOnce
  <2> QED
    BY <2>1, <2>2, <2>3, <2>5 DEF EachOnce
<1>8. FrameOnce'
  BY <1>1, <1>4, <1>6, <1>7, OnceAfter
<1> QED
  BY <1>6, <1>8 DEF FrameInv

\* The WAN thread takes what is in the RX ring.
LEMMA RxTakeBatch == FrameInv /\ TakeBatch => FrameInv'
<1> SUFFICES ASSUME FrameInv, TakeBatch PROVE FrameInv'
  OBVIOUS
<1>1. /\ rx \in Seq(Held) /\ batch = <<>> /\ batch' = rx /\ rx' = <<>> /\ pos' = 1
      /\ UNCHANGED <<fill, missed>>
  BY DEF FrameInv, RxTyped, TakeBatch
<1>2. RxTyped'
  BY <1>1 DEF FrameInv, RxTyped
<1>3. ~ missed => EachOnce(fill, FramesOf(rx), <<>>)
  BY <1>1, OnceInParts, FramesNone DEF FrameInv
<1>4. ~ missed => EachOnce(fill, <<>>, FramesOf(rx))
  BY <1>3 DEF EachOnce
<1> QED
  BY <1>1, <1>2, <1>4, OnceAfter, FramesNone DEF FrameInv

\* At the end of a batch its frames go back to the fill ring, which has room.
LEMMA RxEndBatch == FrameInv /\ EndBatch => FrameInv'
<1> SUFFICES ASSUME FrameInv, EndBatch PROVE FrameInv'
  OBVIOUS
<1> DEFINE c == FramesOf(batch)
<1>1. /\ fill \in Seq(Frames) /\ batch \in Seq(Held) /\ c \in Seq(Frames)
      /\ fill' = Released(c) /\ batch' = <<>> /\ pos' = 0
      /\ UNCHANGED <<rx, missed>>
  BY FramesTyped DEF FrameInv, RxTyped, EndBatch, ReleaseBatch
<1> HIDE DEF c
<1>2. RxTyped'
  BY <1>1, ReleasedIs DEF FrameInv, RxTyped
<1>3. ASSUME ~ missed PROVE EachOnce(fill', FramesOf(rx), <<>>)
  <2>1. EachOnce(fill, FramesOf(rx), c)
    BY <1>3, OnceInParts DEF FrameInv, c
  <2>2. /\ fill \o c \in Seq(Frames) /\ IsInjective(fill \o c)
        /\ ToSet(fill \o c) = ToSet(fill) \cup ToSet(c)
    BY <1>1, <2>1, ConcatOnce DEF EachOnce
  <2>3. Len(fill \o c) <= RingSize
    BY <2>2, OnceBound, DeliveryAssumption DEF Frames
  <2>4. fill' = fill \o c
    BY <1>1, <2>3, ReleasedIs DEF FrameInv
  <2>5. ToSet(<<>>) = {} /\ IsInjective(<<>>)
    BY DEF ToSet, IsInjective
  <2> QED
    BY <2>1, <2>2, <2>4, <2>5 DEF EachOnce
<1> QED
  BY <1>1, <1>2, <1>3, OnceAfter, FramesNone DEF FrameInv

\* The steps that leave the frames where they are.
LEMMA RxStay ==
  ASSUME FrameInv, UNCHANGED <<fill, rx, batch, missed>>, pos' \in 0 .. Len(batch) + 1,
         pos' = 0 => pos = 0
  PROVE  FrameInv'
<1>1. RxTyped'
  BY DEF FrameInv, RxTyped
<1> QED
  BY <1>1 DEF FrameInv, FrameOnce, AllFrames, FramesOf

\* The packet the WAN thread is at.
LEMMA RxAdvance ==
  ASSUME FrameInv, HasPacket
  PROVE  pos \in 1 .. Len(batch) /\ pos + 1 \in 1 .. Len(batch) + 1
         /\ Current \in Held /\ <<Current.frame>> \in Seq(Frames)
<1>1. batch \in Seq(Held) /\ pos \in DOMAIN batch
  BY DEF FrameInv, RxTyped, HasPacket
<1>2. pos \in 1 .. Len(batch) /\ Len(batch) \in Nat /\ batch[pos] \in Held
  BY <1>1, ElementOfSeq
<1> QED
  BY <1>2 DEF Current, Held

LEMMA RxNext == FrameInv /\ [Next]_vars => FrameInv'
<1> SUFFICES ASSUME FrameInv, [Next]_vars PROVE FrameInv'
  OBVIOUS
<1> USE DEF txVars, rxVars
<1>0. pos \in 0 .. Len(batch) + 1
  BY DEF FrameInv, RxTyped
<1>1. ASSUME NEW ip \in Dests, Receive(ip) PROVE FrameInv'
  BY <1>1, RxReceive
<1>2. CASE TakeBatch
  BY <1>2, RxTakeBatch
<1>9. CASE (\E ip \in Ips : Resolve(ip)) \/ Sync \/ Reload
  <2>1. UNCHANGED <<fill, rx, batch, missed, pos>>
    BY <1>9 DEF Resolve, Sync, Reload
  <2> QED
    BY <1>0, <2>1, RxStay
<1>3. CASE Miss
  <2>1. Released(<<Current.frame>>) \in Seq(Frames) /\ Len(Released(<<Current.frame>>)) <= RingSize
    BY <1>3, RxAdvance, ReleasedIs DEF Miss, FrameInv
  <2>2. CASE plain
    <3>1. RxTyped'
      BY <1>3, <2>1, <2>2, RxAdvance DEF Miss, FrameInv, RxTyped
    <3>2. FrameOnce'
      BY <1>3, <2>2 DEF Miss, FrameOnce
    <3> QED
      BY <3>1, <3>2 DEF FrameInv
  <2>3. CASE ~ plain
    <3>1. missed \in BOOLEAN
      BY DEF FrameInv, RxTyped
    <3>2. UNCHANGED <<fill, rx, batch, missed>> /\ pos' = pos + 1
      BY <1>3, <2>3, <3>1 DEF Miss
    <3> QED
      BY <1>3, <3>2, RxAdvance, RxStay DEF Miss
  <2> QED
    BY <2>2, <2>3
<1>4. CASE Send
  <2>1. UNCHANGED <<fill, rx, batch, missed>> /\ HasPacket /\ pos' = pos + 1
    BY <1>4 DEF Send
  <2> QED
    BY <2>1, RxAdvance, RxStay
<1>5. CASE GiveUp
  <2>1. UNCHANGED <<fill, rx, batch, missed>> /\ HasPacket /\ pos' = pos + 1
    BY <1>5 DEF GiveUp, Blocked
  <2> QED
    BY <2>1, RxAdvance, RxStay
<1>6. CASE EndBatch
  BY <1>6, RxEndBatch
<1>7. CASE SendWait \/ LanPoll \/ Arp \/ UNCHANGED vars
  <2>1. UNCHANGED <<fill, rx, batch, missed, pos>>
    BY <1>7 DEF SendWait, LanPoll, Arp, vars
  <2> QED
    BY <1>0, <2>1, RxStay
<1>8. CASE Restart
  <2>1. fill' = FillRing /\ rx' = <<>> /\ batch' = <<>> /\ pos' = 0 /\ missed' = FALSE
    BY <1>8 DEF Restart
  <2>2. /\ rx' \in Seq(Held) /\ batch' \in Seq(Held) /\ pos' \in 0 .. Len(batch') + 1
        /\ FillRing \in Seq(Frames) /\ Len(FillRing) <= RingSize
    BY <2>1, RingsNew
  <2>3. RxTyped'
    BY <2>1, <2>2 DEF RxTyped
  <2> QED
    BY <2>1, <2>3, FillRingOnce, OnceAfter, FramesNone DEF FrameInv
<1> QED
  BY <1>1, <1>2, <1>3, <1>4, <1>5, <1>6, <1>7, <1>8, <1>9 DEF Next, WanThread

(***************************************************************************)
(* FrameOnce: until a packet misses its MAC, each frame of the WAN is in   *)
(* one place, and none comes twice in the fill ring, the RX ring or the    *)
(* batch: giving a batch back never finds the fill ring full               *)
(* (forwarder.c:1227).                                                     *)
(***************************************************************************)
THEOREM FramesOnce == Spec => []FrameOnce
<1>1. FrameInv => FrameOnce
  BY DEF FrameInv
<1> QED
  BY <1>1, RxInit, RxNext, PTL DEF Spec

-----------------------------------------------------------------------------
(***************************************************************************)
(* Induction on numbers, from the well-foundedness of <, and the functions *)
(* it allows to define.                                                    *)
(***************************************************************************)
\* A set of numbers has a least one.
LEMMA LeastNat ==
  ASSUME NEW T, T \subseteq Nat, T # {}
  PROVE  \E n \in T : \A m \in T : n <= m
<1> DEFINE R == OpToRel(<, Nat)
<1>1. IsWellFoundedOn(R, Nat)
  BY NatLessThanWellFounded
<1>2. \A n, m \in Nat : <<m, n>> \in R <=> m < n
  BY DEF OpToRel
<1> HIDE DEF R
<1>3. PICK n \in T : \A m \in T : ~ (<<m, n>> \in R)
  BY <1>1, WFMin
<1>4. \A m \in T : n <= m
  <2> SUFFICES ASSUME NEW m \in T PROVE n <= m
    OBVIOUS
  <2>1. m \in Nat /\ n \in Nat /\ ~ (m < n)
    BY <1>2, <1>3
  <2> QED
    BY <2>1
<1> QED
  BY <1>4

\* Induction up to a number.
LEMMA InductUpTo ==
  ASSUME NEW N \in Nat, NEW S, 0 \in S, \A n \in 0 .. N - 1 : n \in S => n + 1 \in S
  PROVE  0 .. N \subseteq S
<1> SUFFICES ASSUME (0 .. N) \ S # {} PROVE FALSE
  OBVIOUS
<1>1. (0 .. N) \ S \subseteq Nat
  OBVIOUS
<1>2. PICK n \in (0 .. N) \ S : \A m \in (0 .. N) \ S : n <= m
  BY <1>1, LeastNat
<1>3. n # 0 /\ n - 1 \in 0 .. N - 1
  BY <1>2
<1>4. n - 1 \in S
  BY <1>2, <1>3
<1>5. (n - 1) + 1 = n
  BY <1>3
<1> QED
  BY <1>2, <1>3, <1>4, <1>5

\* A function may be defined by recursion: there is one that starts from b and
\* goes on by a step.
IsStep(step, N, T) == step \in [1 .. N -> [T -> T]]

Follows(f, b, step, N, T) ==
  f \in [0 .. N -> T] /\ f[0] = b /\ \A n \in 1 .. N : f[n] = step[n][f[n - 1]]

LEMMA RecursionExists ==
  ASSUME NEW N \in Nat, NEW T, NEW b \in T, NEW step, IsStep(step, N, T)
  PROVE  \E f : Follows(f, b, step, N, T)
<1> DEFINE Good(f, k) ==
      f \in [0 .. k -> T] /\ f[0] = b /\ \A n \in 1 .. k : f[n] = step[n][f[n - 1]]
           S == {k \in 0 .. N : \E f : Good(f, k)}
<1>1. 0 \in S
  <2> DEFINE g == [i \in 0 .. 0 |-> b]
  <2>1. Good(g, 0) /\ 0 \in 0 .. N
    OBVIOUS
  <2> HIDE DEF Good
  <2> QED
    BY <2>1
<1>2. ASSUME NEW k \in 0 .. N - 1, k \in S PROVE k + 1 \in S
  <2>1. PICK f : Good(f, k)
    BY <1>2
  <2> DEFINE g == [i \in 0 .. k + 1 |-> IF i = k + 1 THEN step[k + 1][f[k]] ELSE f[i]]
  <2>2. step[k + 1][f[k]] \in T
    <3>1. f[k] \in T /\ k + 1 \in 1 .. N
      BY <2>1
    <3> QED
      BY <3>1 DEF IsStep
  <2>3. /\ g \in [0 .. k + 1 -> T] /\ g[k + 1] = step[k + 1][f[k]]
        /\ \A i \in 0 .. k : g[i] = f[i]
    BY <2>1, <2>2
  <2> HIDE DEF g
  <2>4. \A n \in 1 .. k + 1 : g[n] = step[n][g[n - 1]]
    <3> SUFFICES ASSUME NEW n \in 1 .. k + 1 PROVE g[n] = step[n][g[n - 1]]
      OBVIOUS
    <3>1. CASE n = k + 1
      <4>1. n - 1 = k /\ g[k] = f[k]
        BY <2>3, <3>1
      <4> QED
        BY <2>3, <3>1, <4>1
    <3>2. CASE n # k + 1
      <4>1. n \in 1 .. k /\ n - 1 \in 0 .. k
        BY <3>2
      <4> QED
        BY <2>1, <2>3, <4>1
    <3> QED
      BY <3>1, <3>2
  <2>5. Good(g, k + 1)
    BY <2>1, <2>3, <2>4
  <2> QED
    BY <2>5
<1> HIDE DEF S
<1>3. 0 .. N \subseteq S
  BY <1>1, <1>2, InductUpTo
<1>4. N \in S
  BY <1>3
<1> QED
  BY <1>4 DEF S, Follows

-----------------------------------------------------------------------------
(***************************************************************************)
(* The ARP cache.                                                          *)
(***************************************************************************)
Ends(t, ip) == {i \in 1 .. Size : t[Probes[ip][i]] = Empty \/ t[Probes[ip][i]].ip = ip}

\* Every entry is where the probing for its address ends.
Tables ==
  {t \in [Index -> Lines \cup {Empty}] :
     \A i \in Index : t[i] # Empty => ProbedAt(t, t[i].ip) = i}

Used(t) == {t[i] : i \in Index} \ {Empty}

\* The probing for an address comes to every entry once.
LEMMA ProbesIs ==
  ASSUME NEW ip \in Ips
  PROVE  /\ \A i \in 1 .. Size : Probes[ip][i] \in Index
         /\ \A i, j \in 1 .. Size : Probes[ip][i] = Probes[ip][j] => i = j
         /\ \A m \in Index : \E i \in 1 .. Size : Probes[ip][i] = m
<1>1. Size \in Nat \ {0} /\ Hash[ip] \in 0 .. Size - 1
  BY CacheAssumption
<1>2. \A x \in 0 .. 2 * Size - 1 : x % Size = IF x < Size THEN x ELSE x - Size
  BY <1>1
<1>3. ASSUME NEW i \in 1 .. Size
      PROVE  Probes[ip][i] = IF Hash[ip] + i - 1 < Size THEN Hash[ip] + i - 1 ELSE Hash[ip] + i - 1 - Size
  <2> DEFINE x == Hash[ip] + i - 1
  <2>1. x \in 0 .. 2 * Size - 1
    BY <1>1
  <2>2. Probes[ip][i] = x % Size
    BY DEF Probes
  <2>3. Probes[ip][i] = IF x < Size THEN x ELSE x - Size
    <3> HIDE DEF x
    <3> QED
      BY <1>2, <2>1, <2>2
  <2> QED
    BY <1>1, <2>3
<1>4. \A i \in 1 .. Size : Probes[ip][i] \in Index
  BY <1>1, <1>3 DEF Index
<1>5. ASSUME NEW i \in 1 .. Size, NEW j \in 1 .. Size, Probes[ip][i] = Probes[ip][j] PROVE i = j
  BY <1>1, <1>3, <1>5
<1>6. ASSUME NEW m \in Index PROVE \E i \in 1 .. Size : Probes[ip][i] = m
  <2> DEFINE i == IF m >= Hash[ip] THEN m - Hash[ip] + 1 ELSE m - Hash[ip] + 1 + Size
  <2>1. i \in 1 .. Size
    BY <1>1 DEF Index
  <2>2. Probes[ip][i] = m
    BY <1>1, <1>3, <2>1 DEF Index
  <2> QED
    BY <2>1, <2>2
<1> QED
  BY <1>4, <1>5, <1>6

LEMMA ProbedIs ==
  ASSUME NEW t, NEW ip \in Ips, NEW k \in Ends(t, ip), \A j \in Ends(t, ip) : k <= j
  PROVE  ProbedAt(t, ip) = Probes[ip][k]
<1> DEFINE E == Ends(t, ip)
<1>1. ProbedAt(t, ip) = IF E = {} THEN Size ELSE Probes[ip][Min(E)]
  BY DEF ProbedAt, Ends
<1>2. E \subseteq Int /\ k \in E
  BY DEF Ends
<1>3. Min(E) = k
  <2> HIDE DEF E
  <2> QED
    BY <1>2, MinIs DEF E
<1> QED
  BY <1>1, <1>2, <1>3

LEMMA ProbedEnds ==
  ASSUME NEW t, NEW ip \in Ips
  PROVE  \/ Ends(t, ip) = {} /\ ProbedAt(t, ip) = Size
         \/ \E k \in Ends(t, ip) :
              (\A j \in Ends(t, ip) : k <= j) /\ ProbedAt(t, ip) = Probes[ip][k]
                /\ Probes[ip][k] \in Index
<1>1. CASE Ends(t, ip) = {}
  BY <1>1 DEF ProbedAt, Ends
<1>2. CASE Ends(t, ip) # {}
  <2>1. Ends(t, ip) \subseteq Nat
    BY DEF Ends
  <2>2. PICK k \in Ends(t, ip) : \A j \in Ends(t, ip) : k <= j
    BY <1>2, <2>1, LeastNat
  <2>3. k \in 1 .. Size
    BY DEF Ends
  <2> QED
    BY <2>2, <2>3, ProbedIs, ProbesIs
<1> QED
  BY <1>1, <1>2

LEMMA SizeIs == Size \in Nat /\ Size \notin Index
BY CacheAssumption DEF Index

\* An entry for an address is found, and nothing if there is none.
LEMMA LookupIs ==
  ASSUME NEW t \in Tables, NEW ip \in Ips
  PROVE  /\ \A i \in Index : t[i] # Empty /\ t[i].ip = ip => CacheLookup(t, ip) = t[i].mac
         /\ CacheLookup(t, ip) # NoMac =>
              \E i \in Index : t[i] # Empty /\ t[i].ip = ip /\ CacheLookup(t, ip) = t[i].mac
<1>1. ASSUME NEW i \in Index, t[i] # Empty, t[i].ip = ip PROVE CacheLookup(t, ip) = t[i].mac
  <2>1. ProbedAt(t, ip) = i
    BY <1>1 DEF Tables
  <2> QED
    BY <1>1, <2>1, SizeIs DEF CacheLookup
<1>2. ASSUME CacheLookup(t, ip) # NoMac
      PROVE  \E i \in Index : t[i] # Empty /\ t[i].ip = ip /\ CacheLookup(t, ip) = t[i].mac
  <2>1. ProbedAt(t, ip) # Size /\ t[ProbedAt(t, ip)] # Empty
        /\ CacheLookup(t, ip) = t[ProbedAt(t, ip)].mac
    BY <1>2 DEF CacheLookup
  <2>2. PICK k \in Ends(t, ip) : ProbedAt(t, ip) = Probes[ip][k] /\ Probes[ip][k] \in Index
    BY <2>1, ProbedEnds
  <2> QED
    BY <2>1, <2>2 DEF Ends
<1> QED
  BY <1>1, <1>2

LEMMA FoundIs ==
  ASSUME table \in Tables
  PROVE  Neighbours = Used(table)
<1>1. ASSUME NEW e \in Neighbours PROVE e \in Used(table)
  <2>1. PICK ip \in Ips : e = [ip |-> ip, mac |-> CacheLookup(table, ip)]
    BY <1>1 DEF Neighbours, Found
  <2>2. CacheLookup(table, ip) # NoMac
    BY <1>1, <2>1 DEF Neighbours
  <2>3. PICK i \in Index : table[i] # Empty /\ table[i].ip = ip /\ CacheLookup(table, ip) = table[i].mac
    BY <2>2, LookupIs
  <2>4. table[i] \in Lines
    BY <2>3 DEF Tables
  <2>5. e = table[i]
    BY <2>1, <2>3, <2>4 DEF Lines
  <2> QED
    BY <2>3, <2>5 DEF Used
<1>2. ASSUME NEW e \in Used(table) PROVE e \in Neighbours
  <2>1. PICK i \in Index : table[i] # Empty /\ e = table[i]
    BY <1>2 DEF Used
  <2>2. e \in Lines
    BY <2>1 DEF Tables
  <2>3. e.ip \in Ips /\ e.mac \in Macs \cup {Torn} /\ e = [ip |-> e.ip, mac |-> e.mac]
    BY <2>2 DEF Lines
  <2>4. CacheLookup(table, e.ip) = e.mac
    BY <2>1, <2>3, LookupIs
  <2>5. e.mac # NoMac
    BY <2>3, CacheAssumption
  <2> QED
    BY <2>3, <2>4, <2>5 DEF Neighbours, Found
<1> QED
  BY <1>1, <1>2

-----------------------------------------------------------------------------
\* arp_cache_insert() puts the neighbour where it will be found, in place of an
\* older entry for it, and hides no other.
LEMMA InsertIs ==
  ASSUME NEW t \in Tables, NEW l \in Lines, ProbedAt(t, l.ip) # Size
  PROVE  LET u == Insert(t, l.ip, l.mac)
         IN  /\ u \in Tables /\ Used(u) = {m \in Used(t) : m.ip # l.ip} \cup {l}
             /\ \E i \in Index : \A j \in Index \ {i} : u[j] = t[j]
<1> DEFINE u == Insert(t, l.ip, l.mac)
<1>1. l.ip \in Ips /\ l = [ip |-> l.ip, mac |-> l.mac] /\ l # Empty
  BY CacheAssumption DEF Lines
<1>2. PICK k \in Ends(t, l.ip) :
        /\ \A j \in Ends(t, l.ip) : k <= j
        /\ ProbedAt(t, l.ip) = Probes[l.ip][k] /\ Probes[l.ip][k] \in Index
  BY <1>1, ProbedEnds
<1> DEFINE at == Probes[l.ip][k]
<1>3. at \in Index /\ u = [t EXCEPT ![at] = l] /\ ProbedAt(t, l.ip) = at
  BY <1>1, <1>2 DEF Insert
<1>4. k \in 1 .. Size /\ (t[at] = Empty \/ t[at].ip = l.ip)
  BY <1>2 DEF Ends
<1>5. t \in [Index -> Lines \cup {Empty}] /\ \A i \in Index : t[i] # Empty => ProbedAt(t, t[i].ip) = i
  BY DEF Tables
<1> HIDE DEF u
<1>6. /\ u \in [Index -> Lines \cup {Empty}] /\ u[at] = l
      /\ \A i \in Index \ {at} : u[i] = t[i]
  <2> HIDE DEF at
  <2> QED
    BY <1>3, <1>5
<1>7. \A i \in Index \ {at} : t[i] # Empty => t[i].ip # l.ip
  BY <1>3, <1>5
<1>8. ASSUME NEW i \in Index, u[i] # Empty PROVE ProbedAt(u, u[i].ip) = i
  <2>1. CASE i = at
    <3>1. u[i] = l /\ k \in Ends(u, l.ip)
      BY <1>4, <1>6, <2>1 DEF Ends
    <3>2. ASSUME NEW j \in Ends(u, l.ip) PROVE k <= j
      <4>1. j \in 1 .. Size /\ Probes[l.ip][j] \in Index
        BY <1>1, ProbesIs DEF Ends
      <4>2. CASE Probes[l.ip][j] = at
        <5>1. j = k
          BY <1>1, <1>4, <4>1, <4>2, ProbesIs
        <5> QED
          BY <1>4, <5>1
      <4>3. CASE Probes[l.ip][j] # at
        <5>1. u[Probes[l.ip][j]] = t[Probes[l.ip][j]]
          BY <1>6, <4>1, <4>3
        <5>2. j \in Ends(t, l.ip)
          BY <4>1, <5>1 DEF Ends
        <5> QED
          BY <1>2, <5>2
      <4> QED
        BY <4>2, <4>3
    <3> QED
      BY <1>1, <2>1, <3>1, <3>2, ProbedIs
  <2>2. CASE i # at
    <3>1. u[i] = t[i] /\ t[i] # Empty /\ t[i].ip # l.ip /\ ProbedAt(t, t[i].ip) = i
      BY <1>5, <1>6, <1>7, <1>8, <2>2
    <3> DEFINE ip == t[i].ip
    <3>2. ip \in Ips
      BY <1>5, <3>1 DEF Lines
    <3>3. PICK n \in Ends(t, ip) :
            (\A j \in Ends(t, ip) : n <= j) /\ Probes[ip][n] = i
      BY <3>1, <3>2, ProbedEnds, SizeIs
    <3> HIDE DEF ip
    <3>4. n \in Ends(u, ip)
      BY <3>1, <3>3 DEF Ends
    <3>5. ASSUME NEW j \in Ends(u, ip) PROVE n <= j
      <4>1. j \in 1 .. Size /\ Probes[ip][j] \in Index
        BY <3>2, ProbesIs DEF Ends
      <4>2. CASE Probes[ip][j] = at
        <5>1. u[at].ip = ip
          BY <1>1, <1>6, <4>2 DEF Ends
        <5>2. u[at].ip = l.ip /\ l.ip # ip
          BY <1>6, <3>1 DEF ip
        <5> QED
          BY <5>1, <5>2
      <4>3. CASE Probes[ip][j] # at
        <5>1. j \in Ends(t, ip)
          BY <1>6, <4>1, <4>3 DEF Ends
        <5> QED
          BY <3>3, <5>1
      <4> QED
        BY <4>2, <4>3
    <3>6. ProbedAt(u, ip) = Probes[ip][n]
      BY <3>2, <3>4, <3>5, ProbedIs
    <3> QED
      BY <3>1, <3>3, <3>6 DEF ip
  <2> QED
    BY <2>1, <2>2
<1>9. u \in Tables
  BY <1>6, <1>8 DEF Tables
<1>10. Used(u) = {m \in Used(t) : m.ip # l.ip} \cup {l}
  <2>1. ASSUME NEW e \in Used(u) PROVE e = l \/ (e \in Used(t) /\ e.ip # l.ip)
    <3>1. PICK i \in Index : e = u[i] /\ e # Empty
      BY <2>1 DEF Used
    <3> QED
      BY <1>6, <1>7, <3>1 DEF Used
  <2>2. l \in Used(u)
    BY <1>1, <1>3, <1>6 DEF Used
  <2>3. ASSUME NEW e \in Used(t), e.ip # l.ip PROVE e \in Used(u)
    <3>1. PICK i \in Index : e = t[i] /\ e # Empty
      BY <2>3 DEF Used
    <3>2. i # at
      BY <1>4, <2>3, <3>1
    <3> QED
      BY <1>6, <3>1, <3>2 DEF Used
  <2> QED
    BY <2>1, <2>2, <2>3
<1> QED
  BY <1>3, <1>6, <1>9, <1>10 DEF u

LEMMA InsertTyped ==
  ASSUME NEW t \in Tables, NEW l \in Lines
  PROVE  Insert(t, l.ip, l.mac) \in Tables
<1>1. CASE ProbedAt(t, l.ip) = Size
  BY <1>1 DEF Insert
<1>2. CASE ProbedAt(t, l.ip) # Size
  BY <1>2, InsertIs
<1> QED
  BY <1>1, <1>2

\* There is no place for an address only if the table is full.
LEMMA FullIs ==
  ASSUME NEW t \in Tables, NEW ip \in Ips, ProbedAt(t, ip) = Size, NEW j \in Index
  PROVE  t[j] # Empty
<1>1. PICK i \in 1 .. Size : Probes[ip][i] = j
  BY ProbesIs
<1>2. Ends(t, ip) = {}
  BY ProbedEnds, SizeIs
<1> QED
  BY <1>1, <1>2 DEF Ends

-----------------------------------------------------------------------------
\* A file names an address once.
Distinct(f) == \A i, j \in DOMAIN f : f[i].ip = f[j].ip => i = j

\* At most n entries are in use.
UsedUpTo(t, n) ==
  \E S \in SUBSET Index : Cardinality(S) <= n /\ \A j \in Index \ S : t[j] = Empty

\* A table with fewer than Size entries in use has room.
LEMMA HasRoom ==
  ASSUME NEW t \in Tables, NEW n \in 0 .. Size - 1, UsedUpTo(t, n), NEW ip \in Ips
  PROVE  ProbedAt(t, ip) # Size
<1>1. PICK S \in SUBSET Index : Cardinality(S) <= n /\ \A j \in Index \ S : t[j] = Empty
  BY DEF UsedUpTo
<1>2. Cardinality(Index) = Size
  BY SizeIs, CacheAssumption, FS_Interval DEF Index
<1>3. S # Index
  BY <1>1, <1>2, SizeIs
<1>4. PICK j \in Index : t[j] = Empty
  BY <1>1, <1>3
<1> QED
  BY <1>4, FullIs

LEMMA UsedOneMore ==
  ASSUME NEW t, NEW u, NEW n \in Nat, UsedUpTo(t, n), NEW i \in Index,
         \A j \in Index \ {i} : u[j] = t[j]
  PROVE  UsedUpTo(u, n + 1)
<1>1. PICK S \in SUBSET Index : Cardinality(S) <= n /\ \A j \in Index \ S : t[j] = Empty
  BY DEF UsedUpTo
<1>2. IsFiniteSet(S)
  <2>1. IsFiniteSet(Index)
    BY SizeIs, FS_Interval DEF Index
  <2> QED
    BY <2>1, FS_Subset
<1>3. Cardinality(S \cup {i}) <= n + 1
  <2>1. Cardinality(S) \in Nat
    BY <1>2, FS_CardinalityType
  <2>2. Cardinality(S \cup {i}) = IF i \in S THEN Cardinality(S) ELSE Cardinality(S) + 1
    BY <1>2, FS_AddElement, Zenon
  <2> HIDE DEF Index
  <2> QED
    BY <1>1, <2>1, <2>2
<1>4. S \cup {i} \in SUBSET Index /\ \A j \in Index \ (S \cup {i}) : u[j] = Empty
  BY <1>1
<1> QED
  BY <1>3, <1>4 DEF UsedUpTo

\* arp_cache_load() finds room for all lines of a file.
LEMMA LoadedIs ==
  ASSUME NEW f \in Seq(Lines), Len(f) <= Size, Distinct(f)
  PROVE  Loaded(f) \in Tables /\ Used(Loaded(f)) = ToSet(f)
<1> DEFINE N == Len(f)
           Is(a) == a = [n \in 0 .. N |-> IF n = 0 THEN NoTable
                                          ELSE Insert(a[n - 1], f[n].ip, f[n].mac)]
           after == CHOOSE a : Is(a)
           step == [n \in 1 .. N |-> [t \in Tables |-> Insert(t, f[n].ip, f[n].mac)]]
<1>1. N \in Nat /\ N <= Size /\ DOMAIN f = 1 .. N /\ \A n \in 1 .. N : f[n] \in Lines
  BY ElementOfSeq
<1>2. NoTable \in Tables /\ Used(NoTable) = {}
  BY DEF NoTable, Tables, Used
<1>3. IsStep(step, N, Tables)
  BY <1>1, InsertTyped DEF IsStep
<1>4. \E a : Is(a)
  <2>0. PICK a : Follows(a, NoTable, step, N, Tables)
    <3> HIDE DEF step, N
    <3> QED
      BY <1>1, <1>2, <1>3, RecursionExists
  <2>1. /\ a \in [0 .. N -> Tables] /\ a[0] = NoTable
        /\ \A n \in 1 .. N : a[n] = step[n][a[n - 1]]
    BY <2>0 DEF Follows
  <2>2. \A n \in 1 .. N : a[n] = Insert(a[n - 1], f[n].ip, f[n].mac)
    <3> SUFFICES ASSUME NEW n \in 1 .. N PROVE a[n] = Insert(a[n - 1], f[n].ip, f[n].mac)
      OBVIOUS
    <3>1. n - 1 \in 0 .. N /\ a[n - 1] \in Tables
      BY <1>1, <2>1
    <3> QED
      BY <2>1, <3>1
  <2>3. \A n \in 0 .. N : a[n] = IF n = 0 THEN NoTable ELSE Insert(a[n - 1], f[n].ip, f[n].mac)
    BY <1>1, <2>1, <2>2
  <2>4. Is(a)
    BY <2>1, <2>3
  <2> QED
    BY <2>4
<1>5. Is(after)
  BY <1>4
<1>6. Loaded(f) = after[N]
  BY DEF Loaded
<1> HIDE DEF after
<1>7. after[0] = NoTable /\ \A n \in 1 .. N : after[n] = Insert(after[n - 1], f[n].ip, f[n].mac)
  BY <1>1, <1>5
<1> DEFINE Good(n) == /\ after[n] \in Tables /\ Used(after[n]) = {f[k] : k \in 1 .. n}
                      /\ UsedUpTo(after[n], n)
           S == {n \in 0 .. N : Good(n)}
<1>8. 0 \in S
  <2>1. {} \in SUBSET Index /\ Cardinality({}) <= 0 /\ \A j \in Index \ {} : NoTable[j] = Empty
    BY FS_EmptySet DEF NoTable
  <2>2. UsedUpTo(NoTable, 0)
    BY <2>1 DEF UsedUpTo
  <2>3. {f[k] : k \in 1 .. 0} = {}
    OBVIOUS
  <2> QED
    BY <1>1, <1>2, <1>7, <2>2, <2>3
<1>9. ASSUME NEW n \in 0 .. N - 1, n \in S PROVE n + 1 \in S
  <2> DEFINE l == f[n + 1]
             t == after[n]
             u == after[n + 1]
  <2>1. /\ n + 1 \in 1 .. N /\ (n + 1) - 1 = n /\ l \in Lines
        /\ t \in Tables /\ Used(t) = {f[k] : k \in 1 .. n} /\ UsedUpTo(t, n)
    BY <1>1, <1>9
  <2>2. u = Insert(t, l.ip, l.mac)
    BY <1>7, <2>1
  <2>3. l.ip \in Ips /\ n \in 0 .. Size - 1
    BY <1>1, <2>1, SizeIs DEF Lines
  <2>4. ProbedAt(t, l.ip) # Size
    <3> HIDE DEF t, l
    <3> QED
      BY <2>1, <2>3, HasRoom
  <2>5. /\ u \in Tables /\ Used(u) = {m \in Used(t) : m.ip # l.ip} \cup {l}
        /\ \E i \in Index : \A j \in Index \ {i} : u[j] = t[j]
    <3> HIDE DEF t, l, u
    <3> QED
      BY <2>1, <2>2, <2>4, InsertIs
  <2>6. UsedUpTo(u, n + 1)
    <3>1. PICK i \in Index : \A j \in Index \ {i} : u[j] = t[j]
      BY <2>5
    <3> HIDE DEF t, u
    <3> QED
      BY <2>1, <3>1, UsedOneMore
  <2>7. \A m \in Used(t) : m.ip # l.ip
    <3> SUFFICES ASSUME NEW k \in 1 .. n PROVE f[k].ip # l.ip
      BY <2>1
    <3>1. k \in DOMAIN f /\ n + 1 \in DOMAIN f /\ k # n + 1
      BY <1>1, <2>1
    <3> QED
      BY <3>1 DEF Distinct
  <2>8. Used(u) = {f[k] : k \in 1 .. n + 1}
    <3>1. Used(u) = {f[k] : k \in 1 .. n} \cup {f[n + 1]}
      BY <2>1, <2>5, <2>7
    <3>2. 1 .. n + 1 = (1 .. n) \cup {n + 1}
      BY <2>1
    <3> HIDE DEF u
    <3> QED
      BY <3>1, <3>2
  <2> QED
    BY <2>1, <2>5, <2>6, <2>8
<1> HIDE DEF S
<1>10. N \in S
  <2>1. 0 .. N \subseteq S
    <3> HIDE DEF N
    <3> QED
      BY <1>1, <1>8, <1>9, InductUpTo
  <2> QED
    BY <1>1, <2>1
<1>11. ToSet(f) = {f[k] : k \in 1 .. N}
  BY <1>1 DEF ToSet
<1> QED
  BY <1>6, <1>10, <1>11 DEF S

\* arp_cache_save() prints every entry once.
LEMMA PrintedIs ==
  ASSUME NEW t \in Tables
  PROVE  /\ Printed(t) \in Seq(Lines) /\ Len(Printed(t)) <= Size
         /\ Distinct(Printed(t)) /\ ToSet(Printed(t)) = Used(t)
<1> DEFINE Is(a) == a = [n \in 0 .. Size |->
                           IF n = 0 THEN <<>>
                           ELSE IF t[n - 1] = Empty THEN a[n - 1] ELSE Append(a[n - 1], t[n - 1])]
           printed == CHOOSE a : Is(a)
           step == [n \in 1 .. Size |-> [s \in Seq(Lines) |->
                      IF t[n - 1] = Empty THEN s ELSE Append(s, t[n - 1])]]
<1>1. /\ Size \in Nat /\ Size # 0 /\ Index = 0 .. Size - 1
      /\ \A n \in Index : t[n] # Empty => t[n] \in Lines /\ ProbedAt(t, t[n].ip) = n
  BY CacheAssumption DEF Tables, Index
<1>2. <<>> \in Seq(Lines)
  OBVIOUS
<1>3. IsStep(step, Size, Seq(Lines))
  <2> SUFFICES ASSUME NEW n \in 1 .. Size, NEW s \in Seq(Lines)
               PROVE  (IF t[n - 1] = Empty THEN s ELSE Append(s, t[n - 1])) \in Seq(Lines)
    BY DEF IsStep
  <2>1. n - 1 \in Index
    BY <1>1
  <2> QED
    BY <1>1, <2>1
<1>4. \E a : Is(a)
  <2>0. PICK a : Follows(a, <<>>, step, Size, Seq(Lines))
    <3> HIDE DEF step
    <3> QED
      BY <1>1, <1>2, <1>3, RecursionExists
  <2>1. /\ a \in [0 .. Size -> Seq(Lines)] /\ a[0] = <<>>
        /\ \A n \in 1 .. Size : a[n] = step[n][a[n - 1]]
    BY <2>0 DEF Follows
  <2>2. \A n \in 1 .. Size :
          a[n] = IF t[n - 1] = Empty THEN a[n - 1] ELSE Append(a[n - 1], t[n - 1])
    <3> SUFFICES ASSUME NEW n \in 1 .. Size
                 PROVE  a[n] = IF t[n - 1] = Empty THEN a[n - 1] ELSE Append(a[n - 1], t[n - 1])
      OBVIOUS
    <3>1. n - 1 \in 0 .. Size /\ a[n - 1] \in Seq(Lines)
      BY <1>1, <2>1
    <3> QED
      BY <2>1, <3>1
  <2>3. \A n \in 0 .. Size :
          a[n] = IF n = 0 THEN <<>>
                 ELSE IF t[n - 1] = Empty THEN a[n - 1] ELSE Append(a[n - 1], t[n - 1])
    <3> SUFFICES ASSUME NEW n \in 0 .. Size
                 PROVE  a[n] = IF n = 0 THEN <<>>
                        ELSE IF t[n - 1] = Empty THEN a[n - 1] ELSE Append(a[n - 1], t[n - 1])
      OBVIOUS
    <3>1. CASE n = 0
      BY <2>1, <3>1, Zenon
    <3>2. CASE n # 0
      <4>1. n \in 1 .. Size
        BY <1>1, <3>2
      <4> QED
        BY <2>2, <3>2, <4>1, Zenon
    <3> QED
      BY <3>1, <3>2
  <2>4. Is(a)
    BY <2>1, <2>3
  <2> QED
    BY <2>4
<1>5. Is(printed)
  BY <1>4
<1>6. Printed(t) = printed[Size]
  BY DEF Printed
<1> HIDE DEF printed
<1>7. /\ printed[0] = <<>>
      /\ \A n \in 1 .. Size :
           printed[n] = IF t[n - 1] = Empty THEN printed[n - 1] ELSE Append(printed[n - 1], t[n - 1])
  <2>1. 0 \in 0 .. Size
    BY <1>1
  <2>2. printed[0] = <<>>
    BY <1>5, <2>1, Zenon
  <2>3. ASSUME NEW n \in 1 .. Size
        PROVE  printed[n] = IF t[n - 1] = Empty THEN printed[n - 1]
                            ELSE Append(printed[n - 1], t[n - 1])
    <3>1. n \in 0 .. Size /\ n # 0
      BY <1>1
    <3> QED
      BY <1>5, <3>1, Zenon
  <2> QED
    BY <2>2, <2>3
<1> DEFINE Good(n) == /\ printed[n] \in Seq(Lines) /\ Len(printed[n]) <= n
                      /\ Distinct(printed[n])
                      /\ ToSet(printed[n]) = {t[i] : i \in 0 .. n - 1} \ {Empty}
           S == {n \in 0 .. Size : Good(n)}
<1>8. 0 \in S
  <2>1. ToSet(<<>>) = {} /\ {t[i] : i \in 0 .. 0 - 1} = {}
    BY DEF ToSet
  <2>2. Distinct(<<>>)
    BY DEF Distinct
  <2>3. <<>> \in Seq(Lines) /\ Len(<<>>) <= 0 /\ ToSet(<<>>) = {t[i] : i \in 0 .. 0 - 1} \ {Empty}
    BY <2>1
  <2>4. 0 \in 0 .. Size /\ printed[0] = <<>>
    BY <1>1, <1>7
  <2>5. Good(0)
    BY <2>2, <2>3, <2>4, Zenon
  <2> QED
    BY <2>4, <2>5
<1>9. ASSUME NEW n \in 0 .. Size - 1, n \in S PROVE n + 1 \in S
  <2> DEFINE s == printed[n]
             l == t[n]
             r == printed[n + 1]
  <2>1. /\ n + 1 \in 1 .. Size /\ (n + 1) - 1 = n /\ n \in Index
        /\ s \in Seq(Lines) /\ Len(s) <= n /\ Distinct(s)
        /\ ToSet(s) = {t[i] : i \in 0 .. n - 1} \ {Empty}
    BY <1>1, <1>9
  <2>2. r = IF l = Empty THEN s ELSE Append(s, l)
    BY <1>7, <2>1
  <2>3. {t[i] : i \in 0 .. n} = {t[i] : i \in 0 .. n - 1} \cup {l}
    <3>1. 0 .. n = (0 .. n - 1) \cup {n}
      BY <2>1
    <3> QED
      BY <3>1
  <2>4. CASE l = Empty
    <3>1. r = s
      BY <2>2, <2>4
    <3>2. ToSet(s) = {t[i] : i \in 0 .. n} \ {Empty}
      BY <2>1, <2>3, <2>4
    <3> QED
      BY <2>1, <3>1, <3>2
  <2>5. CASE l # Empty
    <3>1. l \in Lines /\ r = Append(s, l)
      BY <1>1, <2>1, <2>2, <2>5
    <3> DEFINE m == Len(s)
    <3>2. /\ m \in Nat /\ r \in Seq(Lines) /\ Len(r) = m + 1 /\ DOMAIN r = 1 .. m + 1
          /\ DOMAIN s = 1 .. m /\ r[m + 1] = l /\ \A i \in 1 .. m : r[i] = s[i]
      BY <2>1, <3>1, AppendProperties
    <3>3. \A i \in 1 .. m : s[i].ip # l.ip
      <4> SUFFICES ASSUME NEW i \in 1 .. m PROVE s[i].ip # l.ip
        OBVIOUS
      <4>1. s[i] \in ToSet(s)
        BY <3>2 DEF ToSet
      <4>2. PICK k \in 0 .. n - 1 : s[i] = t[k] /\ t[k] # Empty
        BY <2>1, <4>1
      <4>3. k \in Index /\ k # n
        BY <1>1, <2>1
      <4> QED
        BY <1>1, <2>1, <2>5, <4>2, <4>3
    <3> HIDE DEF r, s, l
    <3>4. Distinct(r)
      <4> SUFFICES ASSUME NEW i \in 1 .. m + 1, NEW j \in 1 .. m + 1, r[i].ip = r[j].ip
                   PROVE  i = j
        BY <3>2 DEF Distinct
      <4>1. CASE i \in 1 .. m /\ j \in 1 .. m
        BY <2>1, <3>2, <4>1 DEF Distinct
      <4>2. CASE i = m + 1 \/ j = m + 1
        BY <3>2, <3>3, <4>2
      <4> QED
        BY <3>2, <4>1, <4>2
    <3>5. ToSet(r) = ToSet(s) \cup {l}
      <4>1. 1 .. m + 1 = (1 .. m) \cup {m + 1}
        BY <3>2
      <4> QED
        BY <3>2, <4>1 DEF ToSet
    <3>6. ToSet(r) = {t[i] : i \in 0 .. n} \ {Empty}
      BY <2>1, <2>3, <2>5, <3>5
    <3>7. Len(r) <= n + 1 /\ n + 1 \in 0 .. Size /\ (n + 1) - 1 = n
      BY <1>1, <2>1, <3>2
    <3> QED
      BY <3>2, <3>4, <3>6, <3>7 DEF r
  <2> QED
    BY <2>4, <2>5
<1> HIDE DEF S
<1>10. Size \in S
  <2>1. 0 .. Size \subseteq S
    BY <1>1, <1>8, <1>9, InductUpTo
  <2> QED
    BY <1>1, <2>1
<1>11. Used(t) = {t[i] : i \in 0 .. Size - 1} \ {Empty}
  BY <1>1 DEF Used
<1> QED
  BY <1>6, <1>10, <1>11 DEF S

-----------------------------------------------------------------------------
(***************************************************************************)
(* The cache implements ArpMap.                                            *)
(***************************************************************************)
LEMMA SameCardinality ==
  ASSUME NEW T
  PROVE  Map!Cardinality(T) = Cardinality(T)
BY Zenon DEF Cardinality, Map!Cardinality

IsFile(f) == f \in Seq(Lines) /\ Len(f) <= Size /\ Distinct(f)

CacheInv ==
  /\ table \in Tables
  /\ IsFile(file)
  /\ saving => file = <<>>
  /\ dirty \in BOOLEAN /\ saving \in BOOLEAN /\ asked \subseteq Ips

LEMMA NothingInFile == IsFile(<<>>) /\ ToSet(<<>>) = {}
<1>1. <<>> \in Seq(Lines) /\ Len(<<>>) = 0 /\ DOMAIN <<>> = {}
  OBVIOUS
<1> QED
  BY <1>1, CacheAssumption DEF IsFile, Distinct, ToSet

LEMMA FewAre == Cardinality({}) <= 1 /\ \A x : Cardinality({x}) <= 1
<1>1. Cardinality({}) = 0 /\ \A x : Cardinality({x}) = 1
  BY FS_EmptySet, FS_Singleton, Zenon
<1> QED
  BY <1>1

LEMMA NoneUsed == NoTable \in Tables /\ Used(NoTable) = {}
BY DEF NoTable, Tables, Used

\* FoundIs after a step.
LEMMA FoundAfter == table' \in Tables => Neighbours' = Used(table')
<1>1. (table \in Tables => Neighbours = Used(table))'
  BY FoundIs, PTL
<1> QED
  BY <1>1

LEMMA UsedFits ==
  ASSUME NEW t \in Tables
  PROVE  Cardinality(Used(t)) <= Size
<1> DEFINE W == {i \in Index : t[i] # Empty}
           f == [i \in W |-> t[i]]
<1>1. IsFiniteSet(Index) /\ Cardinality(Index) = Size
  BY SizeIs, CacheAssumption, FS_Interval DEF Index
<1>2. IsFiniteSet(W) /\ Cardinality(W) <= Size
  BY <1>1, FS_Subset
<1>3. f \in Surjection(W, Used(t))
  BY DEF Surjection, Used
<1> HIDE DEF f, W
<1>4. Cardinality(Used(t)) <= Cardinality(W) /\ IsFiniteSet(Used(t))
  BY <1>2, <1>3, FS_Surjection
<1>5. Cardinality(Used(t)) \in Nat /\ Cardinality(W) \in Nat /\ Size \in Nat
  BY <1>2, <1>4, FS_CardinalityType, SizeIs
<1> QED
  BY <1>2, <1>4, <1>5

\* What a crash leaves of the file is a file again: the old one, or some of the
\* entries, one of them perhaps with another MAC.
LEMMA LeavingsAre ==
  ASSUME CacheInv, NEW left \in Leavings
  PROVE  IsFile(left) /\ (left = file \/ (file = <<>> /\ Map!Part(ToSet(left))))
<1>1. CASE ~ saving
  <2>1. left = file
    BY <1>1 DEF Leavings
  <2> QED
    BY <2>1 DEF CacheInv
<1>2. CASE saving
  <2> DEFINE all == Printed(table)
  <2>1. file = <<>> /\ Neighbours = Used(table)
    BY <1>2, FoundIs DEF CacheInv
  <2>2. IsFile(all) /\ ToSet(all) = Used(table)
    BY PrintedIs DEF CacheInv, IsFile
  <2>3. PICK n \in 0 .. Len(all) :
          \/ left = SubSeq(all, 1, n)
          \/ SubSeq(all, 1, n) # <<>>
             /\ left = [SubSeq(all, 1, n) EXCEPT ![Len(SubSeq(all, 1, n))].mac = Torn]
    <3> DEFINE firsts == {SubSeq(all, 1, k) : k \in 0 .. Len(all)}
               torn == {[g EXCEPT ![Len(g)].mac = Torn] : g \in firsts \ {<<>>}}
    <3>1. left \in firsts \cup torn
      BY <1>2, Zenon DEF Leavings
    <3> HIDE DEF all
    <3>2. CASE left \in firsts
      BY <3>2
    <3>3. CASE left \in torn
      <4>1. PICK g \in firsts : g # <<>> /\ left = [g EXCEPT ![Len(g)].mac = Torn]
        BY <3>3
      <4> QED
        BY <4>1
    <3> QED
      BY <3>1, <3>2, <3>3
  <2> HIDE DEF all
  <2> DEFINE f == SubSeq(all, 1, n)
  <2>4. /\ n \in Nat /\ n <= Len(all) /\ Len(all) \in Nat /\ Len(all) <= Size /\ Size \in Nat
        /\ \A i \in 1 .. Len(all) : all[i] \in Lines
    BY <2>2, ElementOfSeq, SizeIs DEF IsFile
  <2>5. f \in Seq(Lines) /\ Len(f) = n /\ \A i \in 1 .. n : f[i] = all[i]
    <3>1. \A i \in 1 .. n : all[i] \in Lines
      BY <2>4
    <3>2. all \in Seq(Lines)
      BY <2>2 DEF IsFile
    <3> QED
      BY <2>4, <3>1, <3>2, SubSeqProperties
  <2>6. left = f \/ (f # <<>> /\ left = [f EXCEPT ![n].mac = Torn])
    BY <2>3, <2>5
  <2> HIDE DEF f
  <2>7. \A i, j \in 1 .. n : all[i].ip = all[j].ip => i = j
    BY <2>2, <2>4 DEF IsFile, Distinct
  <2>8. \A i \in 1 .. n : all[i] \in Used(table)
    BY <2>2, <2>4 DEF ToSet
  <2>9. CASE left = f
    <3>1. DOMAIN left = 1 .. n
      BY <2>5, <2>9
    <3>2. IsFile(left)
      BY <2>4, <2>5, <2>7, <2>9, <3>1 DEF IsFile, Distinct
    <3>3. ToSet(left) \ Neighbours = {}
      BY <2>1, <2>5, <2>8, <2>9, <3>1 DEF ToSet
    <3> QED
      BY <2>1, <3>2, <3>3, FewAre, SameCardinality DEF Map!Part
  <2>10. CASE f # <<>> /\ left = [f EXCEPT ![n].mac = Torn]
    <3>1. n \in 1 .. n /\ DOMAIN f = 1 .. n
      BY <2>4, <2>5, <2>10, EmptySeq
    <3> DEFINE c == [all[n] EXCEPT !.mac = Torn]
    <3>2. all[n] \in Lines /\ f[n] = all[n]
      BY <2>4, <2>5, <3>1
    <3>3. c \in Lines /\ c.mac = Torn /\ c.ip = all[n].ip
      BY <3>2 DEF Lines
    <3>4. /\ DOMAIN left = 1 .. n /\ left[n] = c
          /\ \A i \in 1 .. n : i # n => left[i] = all[i]
      BY <2>5, <2>10, <3>1, <3>2
    <3> HIDE DEF c
    <3>5. left \in Seq(Lines) /\ Len(left) = n
      <4>1. left \in [1 .. n -> Lines]
        <5>1. \A i \in 1 .. n : left[i] \in Lines
          BY <2>4, <3>3, <3>4
        <5>2. left = [i \in 1 .. n |-> left[i]]
          BY <2>5, <2>10, <3>1
        <5> QED
          BY <5>1, <5>2
      <4> QED
        BY <2>4, <4>1
    <3>6. Distinct(left)
      <4>1. \A i \in 1 .. n : left[i].ip = all[i].ip
        BY <3>3, <3>4
      <4> QED
        BY <2>7, <3>4, <4>1 DEF Distinct
    <3>7. ToSet(left) \ Neighbours \subseteq {c}
      BY <2>1, <2>8, <3>4 DEF ToSet
    <3>8. Cardinality(ToSet(left) \ Neighbours) <= 1
      <4>1. ToSet(left) \ Neighbours = {} \/ ToSet(left) \ Neighbours = {c}
        BY <3>7
      <4> QED
        BY <4>1, FewAre
    <3>9. all[n] \in Neighbours
      BY <2>1, <2>8, <3>1
    <3>10. Map!Part(ToSet(left))
      BY <3>3, <3>7, <3>8, <3>9, SameCardinality DEF Map!Part
    <3> QED
      BY <2>1, <2>4, <3>5, <3>6, <3>10 DEF IsFile
  <2> QED
    BY <2>6, <2>9, <2>10
<1> QED
  BY <1>1, <1>2 DEF CacheInv

-----------------------------------------------------------------------------
LEMMA CacheInit == Init => CacheInv /\ Map!Init
<1> SUFFICES ASSUME Init PROVE CacheInv /\ Map!Init
  OBVIOUS
<1>1. table = NoTable /\ dirty = FALSE /\ file = <<>> /\ saving = FALSE /\ asked = {}
  BY DEF Init, ArpInit
<1>2. CacheInv
  BY <1>1, NothingInFile, NoneUsed DEF CacheInv
<1>3. Neighbours = {} /\ ToSet(file) = {}
  BY <1>1, <1>2, NothingInFile, NoneUsed, FoundIs DEF CacheInv
<1> QED
  BY <1>2, <1>3 DEF Map!Init

\* The steps that touch neither the table nor the file.
LEMMA CacheStay ==
  ASSUME CacheInv, UNCHANGED <<table, dirty, file, saving>>, asked' \subseteq Ips
  PROVE  CacheInv' /\ UNCHANGED Map!vars
<1>1. CacheInv'
  BY DEF CacheInv
<1>2. Neighbours' = Neighbours
  BY FoundIs, FoundAfter DEF CacheInv
<1> QED
  BY <1>1, <1>2 DEF Map!vars

\* The listener hears a reply.
LEMMA CacheHear ==
  ASSUME CacheInv, NEW ip \in Ips, Hear(ip)
  PROVE  CacheInv' /\ [Map!Next]_(Map!vars)
<1> DEFINE l == [ip |-> ip, mac |-> MacOf[ip]]
<1>1. /\ asked' = asked \ {ip} /\ table' = Insert(table, ip, MacOf[ip])
      /\ dirty' = (dirty \/ ProbedAt(table, ip) # Size)
      /\ saving' \in {FALSE, dirty'} /\ file' = IF saving' THEN <<>> ELSE file
  BY DEF Hear
<1>2. l \in Lines /\ l.ip = ip /\ l.mac = MacOf[ip] /\ MacOf[ip] \in Macs
  BY CacheAssumption DEF Lines
<1> HIDE DEF l
<1>3. table' \in Tables
  BY <1>1, <1>2, InsertTyped DEF CacheInv
<1>4. /\ dirty' \in BOOLEAN /\ saving' \in BOOLEAN /\ asked' \subseteq Ips
      /\ IsFile(file') /\ (saving' => file' = <<>>)
  BY <1>1, NothingInFile DEF CacheInv
<1>5. CacheInv'
  BY <1>3, <1>4 DEF CacheInv, IsFile, Distinct
<1>6. Neighbours = Used(table) /\ Neighbours' = Used(table')
  BY <1>3, FoundIs, FoundAfter DEF CacheInv
<1>7. ToSet(file') \in {ToSet(file), {}}
  BY <1>1, NothingInFile
<1>8. CASE ProbedAt(table, ip) = Size
  <2>1. Neighbours' = Neighbours
    BY <1>1, <1>6, <1>8 DEF Insert
  <2>2. Map!Open \/ UNCHANGED Map!vars
    BY <1>7, <2>1 DEF Map!Open, Map!vars
  <2> QED
    BY <1>5, <2>2 DEF Map!Next
<1>9. CASE ProbedAt(table, ip) # Size
  <2>1. Used(table') = {m \in Used(table) : m.ip # ip} \cup {l}
    BY <1>1, <1>2, <1>9, InsertIs DEF CacheInv
  <2>2. Cardinality(Used(table')) <= Size
    BY <1>3, UsedFits
  <2>3. l \in Map!Entries
    BY <1>2 DEF l, Map!Entries
  <2>4. Map!Put(l) /\ l \in Neighbours'
    BY <1>2, <1>6, <1>7, <2>1, <2>2, <2>3, SameCardinality DEF Map!Put
  <2> QED
    BY <1>5, <2>4 DEF Map!Next
<1> QED
  BY <1>8, <1>9

\* The listener empties the file before it writes it.
LEMMA CacheOpen == CacheInv /\ SaveAtStop => CacheInv' /\ Map!Next
<1> SUFFICES ASSUME CacheInv, SaveAtStop PROVE CacheInv' /\ Map!Next
  OBVIOUS
<1>1. saving' = TRUE /\ file' = <<>> /\ UNCHANGED <<table, dirty, asked>>
  BY DEF SaveAtStop
<1>2. CacheInv'
  BY <1>1, NothingInFile DEF CacheInv, IsFile, Distinct
<1>3. Neighbours' = Neighbours /\ ToSet(file') = {}
  BY <1>1, NothingInFile, FoundIs, FoundAfter DEF CacheInv
<1> QED
  BY <1>2, <1>3 DEF Map!Open, Map!Next

LEMMA CacheWrite == CacheInv /\ SaveWrite => CacheInv' /\ Map!Next
<1> SUFFICES ASSUME CacheInv, SaveWrite PROVE CacheInv' /\ Map!Next
  OBVIOUS
<1>1. file' = Printed(table) /\ dirty' = FALSE /\ saving' = FALSE /\ UNCHANGED <<table, asked>>
  BY DEF SaveWrite
<1>2. IsFile(file') /\ ToSet(file') = Used(table)
  BY <1>1, PrintedIs DEF CacheInv, IsFile
<1>3. CacheInv'
  BY <1>1, <1>2 DEF CacheInv, IsFile, Distinct
<1>4. Neighbours' = Neighbours /\ ToSet(file') = Neighbours
  BY <1>1, <1>2, FoundIs, FoundAfter DEF CacheInv
<1> QED
  BY <1>3, <1>4 DEF Map!Save, Map!Next

\* A new process reads back what is left of the file.
LEMMA CacheRestart ==
  ASSUME CacheInv, NEW left \in Leavings, ArpRestart(left)
  PROVE  CacheInv' /\ Map!Next
<1>1. /\ file' = left /\ table' = Loaded(left)
      /\ dirty' = FALSE /\ saving' = FALSE /\ asked' = {}
  BY DEF ArpRestart
<1>2. IsFile(left) /\ (left = file \/ (file = <<>> /\ Map!Part(ToSet(left))))
  BY LeavingsAre
<1>3. table' \in Tables /\ Used(table') = ToSet(left)
  BY <1>1, <1>2, LoadedIs DEF IsFile
<1>4. CacheInv'
  BY <1>1, <1>2, <1>3 DEF CacheInv, IsFile, Distinct
<1>5. Neighbours' = ToSet(file') /\ ToSet(file') = ToSet(left)
  BY <1>1, <1>3, FoundAfter
<1>6. Map!Restart
  BY <1>2, <1>5, NothingInFile DEF Map!Restart
<1> QED
  BY <1>4, <1>6 DEF Map!Next

LEMMA CacheNext == FrameInv /\ CacheInv /\ [Next]_vars => CacheInv' /\ [Map!Next]_(Map!vars)
<1> SUFFICES ASSUME FrameInv, CacheInv, [Next]_vars
             PROVE  CacheInv' /\ [Map!Next]_(Map!vars)
  OBVIOUS
<1>1. ASSUME UNCHANGED arpVars PROVE CacheInv' /\ [Map!Next]_(Map!vars)
  BY <1>1, CacheStay DEF arpVars, CacheInv
<1>2. ASSUME NEW ip \in Dests, Receive(ip) PROVE UNCHANGED arpVars
  BY <1>2 DEF Receive
<1>0. ASSUME NEW ip \in Ips, Resolve(ip) PROVE CacheInv' /\ [Map!Next]_(Map!vars)
  <2>1. UNCHANGED <<table, dirty, file, saving>> /\ asked' \subseteq Ips
    BY <1>0 DEF Resolve, Ask, CacheInv
  <2> QED
    BY <2>1, CacheStay
<1>3. CASE TakeBatch \/ Send \/ SendWait \/ GiveUp \/ EndBatch \/ LanPoll \/ Sync \/ Reload
  <2>1. UNCHANGED arpVars
    BY <1>3 DEF TakeBatch, Send, SendWait, GiveUp, EndBatch, LanPoll, Sync, Reload
  <2> QED
    BY <1>1, <2>1
<1>4. CASE Miss
  <2>1. Ask(Current.ip) /\ Current \in Held
    BY <1>4, RxAdvance DEF Miss
  <2>2. UNCHANGED <<table, dirty, file, saving>> /\ asked' \subseteq Ips
    BY <2>1, DeliveryAssumption DEF Ask, Held, CacheInv
  <2> QED
    BY <2>2, CacheStay
<1>5. CASE Arp
  <2>1. ASSUME NEW ip \in Ips, Hear(ip) PROVE CacheInv' /\ [Map!Next]_(Map!vars)
    BY <2>1, CacheHear
  <2>2. ASSUME NEW ip \in Ips, Lose(ip) PROVE CacheInv' /\ [Map!Next]_(Map!vars)
    <3>1. UNCHANGED <<table, dirty, file, saving>> /\ asked' \subseteq Ips
      BY <2>2 DEF Lose, CacheInv
    <3> QED
      BY <3>1, CacheStay
  <2> QED
    BY <1>5, <2>1, <2>2, CacheOpen, CacheWrite DEF Arp
<1>6. CASE Restart
  BY <1>6, CacheRestart DEF Restart
<1>7. CASE UNCHANGED vars
  BY <1>1, <1>7 DEF vars
<1> QED
  BY <1>0, <1>1, <1>2, <1>3, <1>4, <1>5, <1>6, <1>7 DEF Next, WanThread

(***************************************************************************)
(* IsArpMap: the open-addressing table of arp_cache_insert() and           *)
(* arp_cache_lookup() is a map from addresses to MACs with room for        *)
(* ARP_CACHE_SIZE of them, and its file is read back after a restart, or   *)
(* of a file cut by a crash some of the neighbours, one at most with a     *)
(* wrong MAC (wan_arp.c:104).  For every size, hash and set of addresses.  *)
(***************************************************************************)
THEOREM CacheIsMap == Spec => IsArpMap
<1> QED
  BY CacheInit, CacheNext, RxInit, RxNext, PTL DEF Spec, IsArpMap, Map!Spec

(***************************************************************************)
(* TypeOK: all of the above, and the counters.                             *)
(***************************************************************************)
CountersInv ==
  /\ pending \in 0 .. KickAt - 1 /\ restarts \in 0 .. MaxRestarts
  /\ plain \in BOOLEAN /\ ready \in BOOLEAN
  /\ primary \in Macs \cup {Torn, NoMac}

LEMMA CountersInit == Init => CountersInv
<1> SUFFICES ASSUME Init PROVE CountersInv
  OBVIOUS
<1>1. plain \in BOOLEAN /\ ready \in BOOLEAN /\ primary \in Macs \cup {Torn, NoMac}
  BY Zenon DEF Init
<1>2. pending \in 0 .. KickAt - 1 /\ restarts \in 0 .. MaxRestarts
  BY DeliveryAssumption DEF Init
<1> QED
  BY <1>1, <1>2 DEF CountersInv

\* A lookup returns a MAC of the table, and so does the search for the first host.
LEMMA FirstKnownIs ==
  ASSUME table \in Tables
  PROVE  FirstKnown \in Macs \cup {Torn, NoMac}
<1> DEFINE known == {i \in DOMAIN PolicyHosts : CacheLookup(table, PolicyHosts[i]) # NoMac}
<1>1. ASSUME NEW ip \in Ips PROVE CacheLookup(table, ip) \in Macs \cup {Torn, NoMac}
  <2>1. ASSUME NEW i \in Index, table[i] # Empty PROVE table[i].mac \in Macs \cup {Torn}
    BY <2>1 DEF Tables, Lines
  <2> QED
    BY <2>1, LookupIs
<1>2. ASSUME known # {} PROVE Min(known) \in known
  <2>1. known \subseteq Nat
    BY DeliveryAssumption
  <2> HIDE DEF known
  <2>2. PICK n \in known : \A m \in known : n <= m
    BY <1>2, <2>1, LeastNat
  <2>3. known \subseteq Int
    BY <2>1
  <2>4. Min(known) = n
    BY <2>2, <2>3, MinIs
  <2> QED
    BY <2>4
<1>3. \A i \in known : PolicyHosts[i] \in Ips
  BY DeliveryAssumption, ElementOfSeq
<1>4. FirstKnown = IF known = {} THEN NoMac ELSE CacheLookup(table, PolicyHosts[Min(known)])
  BY DEF FirstKnown
<1> HIDE DEF known
<1> QED
  BY <1>1, <1>2, <1>3, <1>4

LEMMA CountersNext == CacheInv /\ CountersInv /\ [Next]_vars => CountersInv'
<1> SUFFICES ASSUME CacheInv, CountersInv, [Next]_vars PROVE CountersInv'
  OBVIOUS
<1> USE DeliveryAssumption DEF CountersInv, lanVars, txVars
<1>1. ASSUME NEW ip \in Dests, Receive(ip) PROVE CountersInv'
  BY <1>1 DEF Receive
<1>2. CASE TakeBatch \/ Miss \/ GiveUp \/ Arp \/ LanPoll \/ UNCHANGED vars
  BY <1>2 DEF TakeBatch, Miss, GiveUp, Arp, LanPoll, vars
<1>3. CASE Send
  BY <1>3 DEF Send
<1>4. CASE SendWait \/ EndBatch
  BY <1>4 DEF SendWait, EndBatch
<1>5. CASE Restart
  <2>1. plain' \in BOOLEAN /\ ready' \in BOOLEAN /\ primary' \in Macs \cup {Torn, NoMac}
    BY <1>5, Zenon DEF Restart
  <2>2. pending' \in 0 .. KickAt - 1 /\ restarts' \in 0 .. MaxRestarts
    BY <1>5 DEF Restart
  <2> QED
    BY <2>1, <2>2
<1>6. CASE (\E ip \in Ips : Resolve(ip)) \/ Reload
  BY <1>6 DEF Resolve, Reload
<1>7. CASE Sync
  <2>1. FirstKnown \in Macs \cup {Torn, NoMac}
    BY FirstKnownIs DEF CacheInv
  <2> QED
    BY <1>7, <2>1 DEF Sync
<1> QED
  BY <1>1, <1>2, <1>3, <1>4, <1>5, <1>6, <1>7 DEF Next, WanThread

THEOREM DeliveryTypeCorrect == Spec => []TypeOK
<1>1. CacheInv => ArpTypeOK
  BY DEF CacheInv, IsFile, ArpTypeOK, Tables
<1>2. FrameInv /\ TxInv /\ CacheInv /\ CountersInv => TypeOK
  BY <1>1 DEF FrameInv, RxTyped, Held, TxInv, TxTyped, CountersInv, TypeOK
<1> QED
  BY <1>2, CacheInit, CacheNext, RxInit, RxNext, TxInit, TxNext, CountersInit, CountersNext,
     PTL DEF Spec
=============================================================================
