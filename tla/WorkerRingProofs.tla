-------------------------- MODULE WorkerRingProofs --------------------------
(***************************************************************************)
(* Proofs about WorkerRing for any number of LANs and any size of the      *)
(* worker ring and of the fill rings: its types, and that the worker ring  *)
(* implements JobQueue.  A step of the code maps to a step of the queue    *)
(* because one slot of the ring stays empty, so that head, tail and the    *)
(* number of jobs between them determine each other modulo Size; and a     *)
(* frame is refused to, or given up by, one RX thread at a time because an *)
(* RX thread handles frames of its own LAN only.                           *)
(* Frames are safe while no two threads give back to one fill ring at once *)
(* (SafeInv): its indices then tell how far the one thread is, a LAN has   *)
(* no more frames than entries, so that the ring has room (Room), and each *)
(* step moves a frame from one place to another.                           *)
(***************************************************************************)
EXTENDS WorkerRing, SequenceTheorems, FiniteSetTheorems, TLAPS

RxPlaces  == {"top", "recv", "offer", "done"}
RelPlaces == {"no", "load", "bump", "write", "count", "submit"}
FramesOf(l) == {f \in Frames : LanOf(f) = l}

RingTyped ==
  /\ running \in BOOLEAN /\ clash \in BOOLEAN
  /\ head \in 0..Size-1 /\ tail \in 0..Size-1
  /\ jobs \in [0..Size-1 -> Frames \cup {NoFrame}]
  /\ rpc \in [Lans -> RxPlaces]
  /\ wpc \in {"top", "take", "work", "release", "done"}
  /\ job \in Frames \cup {NoFrame}
  /\ cached \in [Lans -> 0..2*RingSize-1]
  /\ prod \in [Lans -> 0..2*RingSize-1]
  /\ cons \in [Lans -> 0..2*RingSize-1]
  /\ relpc \in [Threads -> RelPlaces]
  /\ relf \in [Threads -> Frames \cup {NoFrame}]
  /\ idx \in [Threads -> 0..2*RingSize-1]

\* The rings of a LAN, and its RX thread, hold frames of that LAN.
OwnFrames ==
  /\ DOMAIN batch = Lans /\ DOMAIN rx = Lans
  /\ fill \in [Lans -> [0..RingSize-1 -> Frames]]
  /\ \A l \in Lans :
       /\ batch[l] \in Seq(FramesOf(l))
       /\ rx[l] \in Seq(FramesOf(l))
       /\ fill[l] \in [0..RingSize-1 -> FramesOf(l)]
       /\ relf[l] \in FramesOf(l) \cup {NoFrame}

\* A thread holds a frame while it gives it back, the worker while it works.
HandInv ==
  /\ \A t \in Threads : relpc[t] = "no" <=> relf[t] = NoFrame
  /\ job = NoFrame <=> wpc # "work"

\* Between head and tail lie frames.
QueueInv == Queued \in Seq(Frames)

RingInv == RingTyped /\ OwnFrames /\ HandInv /\ QueueInv

-----------------------------------------------------------------------------

LEMMA ModType ==
  ASSUME NEW n \in Nat \ {0}, NEW a \in Int
  PROVE  a % n \in 0 .. n - 1
OBVIOUS

\* Indices once round, from below and from above.
LEMMA ModNone ==
  ASSUME NEW n \in Nat \ {0}, NEW a \in 0 .. n - 1
  PROVE  a % n = a
OBVIOUS

LEMMA ModOver ==
  ASSUME NEW n \in Nat \ {0}, NEW a \in n .. 2 * n - 1
  PROVE  a % n = a - n
OBVIOUS

LEMMA ModUnder ==
  ASSUME NEW n \in Nat \ {0}, NEW a \in 1 - n .. -1
  PROVE  a % n = a + n
OBVIOUS
-----------------------------------------------------------------------------
(***************************************************************************)
(* The slots between head and tail.                                        *)
(***************************************************************************)
\* The slot of the i-th job of a queue that starts at h.
SlotAt(h, i) == IF h + i - 1 < Size THEN h + i - 1 ELSE h + i - 1 - Size

Jobs(h, t) == IF h <= t THEN t - h ELSE t - h + Size

LEMMA SlotsAre ==
  ASSUME NEW h \in 0 .. Size - 1, NEW t \in 0 .. Size - 1
  PROVE  /\ (t - h) % Size = Jobs(h, t)
         /\ \A i \in 1 .. Jobs(h, t) : (h + i - 1) % Size = SlotAt(h, i)
<1>1. Size \in Nat \ {0}
  BY RingAssumption
<1>2. (t - h) % Size = Jobs(h, t) /\ Jobs(h, t) \in 0 .. Size - 1
  BY <1>1, ModNone, ModUnder DEF Jobs
<1>3. ASSUME NEW i \in 1 .. Jobs(h, t)
      PROVE  (h + i - 1) % Size = SlotAt(h, i)
  <2> DEFINE a == h + i - 1
  <2>1. a \in 0 .. 2 * Size - 1
    BY <1>1, <1>2
  <2> HIDE DEF a
  <2>2. CASE a \in 0 .. Size - 1
    <3>1. a % Size = a
      BY <1>1, <2>2, ModNone
    <3> QED
      BY <1>1, <1>2, <2>2, <3>1 DEF a, SlotAt
  <2>3. CASE a \in Size .. 2 * Size - 1
    <3>1. a % Size = a - Size
      BY <1>1, <2>3, ModOver
    <3> QED
      BY <1>1, <1>2, <2>3, <3>1 DEF a, SlotAt
  <2> QED
    BY <1>1, <2>1, <2>2, <2>3
<1> QED
  BY <1>2, <1>3

LEMMA QueuedIs ==
  /\ RingTyped => Queued = [i \in 1 .. Jobs(head, tail) |-> jobs[SlotAt(head, i)]]
  /\ RingTyped' => Queued' = [i \in 1 .. Jobs(head', tail') |-> jobs'[SlotAt(head', i)]]
BY SlotsAre DEF RingTyped, Queued

LEMMA NextIs ==
  ASSUME NEW i \in 0 .. Size - 1
  PROVE  (i + 1) % Size = IF i + 1 = Size THEN 0 ELSE i + 1
<1>1. Size \in Nat \ {0}
  BY RingAssumption
<1>2. CASE i + 1 = Size
  BY <1>1, <1>2, ModOver
<1>3. CASE i + 1 # Size
  BY <1>1, <1>3, ModNone
<1> QED
  BY <1>2, <1>3

\* A job is queued behind the others, and there was room.
LEMMA QueuedPut ==
  ASSUME RingTyped, RingTyped', ~ Full, NEW f,
         jobs' = [jobs EXCEPT ![tail] = f], tail' = NextTail, UNCHANGED head
  PROVE  Queued' = Append(Queued, f) /\ Len(Queued) < Size - 1
<1>1. /\ Size \in Nat \ {0} /\ head \in 0 .. Size - 1 /\ tail \in 0 .. Size - 1
      /\ jobs \in [0..Size-1 -> Frames \cup {NoFrame}]
  BY RingAssumption DEF RingTyped
<1>2. tail' = (IF tail + 1 = Size THEN 0 ELSE tail + 1) /\ tail' # head /\ head' = head
  BY <1>1, NextIs DEF NextTail, Full
<1> DEFINE n == Jobs(head, tail)
<1>3. n \in 0 .. Size - 2 /\ Jobs(head', tail') = n + 1
  BY <1>1, <1>2 DEF Jobs
<1>4. \A i \in 1 .. n : SlotAt(head, i) \in 0 .. Size - 1 /\ SlotAt(head, i) # tail
  BY <1>1, <1>3 DEF SlotAt, Jobs
<1>5. SlotAt(head, n + 1) = tail
  BY <1>1, <1>3 DEF SlotAt, Jobs
<1>6. Queued = [i \in 1 .. n |-> jobs[SlotAt(head, i)]]
  BY QueuedIs
<1>7. Queued' = [i \in 1 .. n + 1 |-> jobs'[SlotAt(head, i)]]
  <2>1. Queued' = [i \in 1 .. Jobs(head', tail') |-> jobs'[SlotAt(head', i)]]
    BY QueuedIs
  <2> QED
    BY <1>2, <1>3, <2>1
<1> HIDE DEF n
<1>8. Len(Queued) = n
  BY <1>3, <1>6
<1>9. Append(Queued, f) = [i \in 1 .. n + 1 |-> IF i = n + 1 THEN f ELSE Queued[i]]
  BY <1>3, <1>6, <1>8
<1>10. \A i \in 1 .. n + 1 : jobs'[SlotAt(head, i)] = IF i = n + 1 THEN f ELSE Queued[i]
  <2> SUFFICES ASSUME NEW i \in 1 .. n + 1
               PROVE  jobs'[SlotAt(head, i)] = IF i = n + 1 THEN f ELSE Queued[i]
    OBVIOUS
  <2>1. CASE i = n + 1
    BY <1>1, <1>5, <2>1
  <2>2. CASE i # n + 1
    <3>1. i \in 1 .. n
      BY <1>3, <2>2
    <3> QED
      BY <1>1, <1>4, <1>6, <2>2, <3>1
  <2> QED
    BY <2>1, <2>2
<1> QED
  BY <1>1, <1>3, <1>7, <1>8, <1>9, <1>10

\* The oldest job is taken.
LEMMA QueuedTake ==
  ASSUME RingTyped, RingTyped', head # tail,
         head' = (head + 1) % Size, UNCHANGED <<tail, jobs>>
  PROVE  /\ Queued # <<>>
         /\ jobs[head] = Head(Queued)
         /\ Queued' = Tail(Queued)
<1>1. /\ Size \in Nat \ {0} /\ head \in 0 .. Size - 1 /\ tail \in 0 .. Size - 1
      /\ jobs \in [0..Size-1 -> Frames \cup {NoFrame}]
  BY RingAssumption DEF RingTyped
<1>2. head' = (IF head + 1 = Size THEN 0 ELSE head + 1) /\ tail' = tail /\ jobs' = jobs
  BY <1>1, NextIs
<1> DEFINE n == Jobs(head, tail)
<1>3. n \in 1 .. Size - 1 /\ Jobs(head', tail') = n - 1
  BY <1>1, <1>2 DEF Jobs
<1>4. SlotAt(head, 1) = head
  BY <1>1 DEF SlotAt
<1>5. \A i \in 1 .. n - 1 : SlotAt(head', i) = SlotAt(head, i + 1)
  BY <1>1, <1>2, <1>3 DEF SlotAt
<1>6. Queued = [i \in 1 .. n |-> jobs[SlotAt(head, i)]]
  BY QueuedIs
<1>7. Queued' = [i \in 1 .. n - 1 |-> jobs[SlotAt(head, i + 1)]]
  <2>1. Queued' = [i \in 1 .. Jobs(head', tail') |-> jobs'[SlotAt(head', i)]]
    BY QueuedIs
  <2> QED
    BY <1>2, <1>3, <1>5, <2>1
<1> HIDE DEF n
<1>8. Len(Queued) = n /\ Queued # <<>>
  BY <1>3, <1>6
<1>9. jobs[head] = Head(Queued)
  BY <1>3, <1>4, <1>6
<1>10. Tail(Queued) = [i \in 1 .. n - 1 |-> Queued[i + 1]]
  BY <1>3, <1>6, <1>8
<1>11. \A i \in 1 .. n - 1 : Queued[i + 1] = jobs[SlotAt(head, i + 1)]
  BY <1>3, <1>6
<1> QED
  BY <1>7, <1>8, <1>9, <1>10, <1>11

\* A ring in which only one slot is free holds Size - 1 jobs.
LEMMA QueuedFull ==
  ASSUME RingTyped, Full
  PROVE  Len(Queued) = Size - 1
<1>1. /\ Size \in Nat \ {0} /\ head \in 0 .. Size - 1 /\ tail \in 0 .. Size - 1
  BY RingAssumption DEF RingTyped
<1>2. head = IF tail + 1 = Size THEN 0 ELSE tail + 1
  BY <1>1, NextIs DEF Full, NextTail
<1>3. Jobs(head, tail) = Size - 1
  BY <1>1, <1>2 DEF Jobs
<1> QED
  BY <1>1, <1>3, QueuedIs

-----------------------------------------------------------------------------
(***************************************************************************)
(* The invariant.  The first lemmas say what each kind of step keeps.      *)
(***************************************************************************)
LEMMA RingNextCases ==
  ASSUME [Next]_vars
  PROVE  \/ \E l \in Lans :
              \/ Arrive(l) \/ RxLoop(l) \/ RecvNone(l) \/ Recv(l)
              \/ Enqueue(l) \/ Drop(l) \/ BatchDone(l)
         \/ \E t \in Threads :
              RelLoad(t) \/ RelBump(t) \/ RelWrite(t) \/ RelCount(t) \/ RelSubmit(t)
         \/ WorkerLoop \/ TakeNone \/ TakeJob \/ Process \/ JobDone
         \/ Stop
         \/ UNCHANGED vars
BY DEF Next, RxThread, WorkerThread, Release, Threads

\* The constants as the proofs use them.
LEMMA RingConstants ==
  /\ Size \in Nat \ {0, 1} /\ RingSize \in Nat \ {0} /\ MaxBatch \in Nat \ {0}
  /\ Worker \notin Lans /\ NoFrame \notin Frames
  /\ Lans \subseteq Threads /\ Worker \in Threads
BY RingAssumption DEF Frames, Threads

LEMMA FrameLan == \A f \in Frames : LanOf(f) \in Lans /\ f \in FramesOf(LanOf(f))
BY DEF Frames, LanOf, FramesOf

LEMMA WrapTyped == \A i \in 0..2*RingSize-1 : Wrap(i + 1) \in 0..2*RingSize-1
<1> SUFFICES ASSUME NEW i \in 0..2*RingSize-1
             PROVE  Wrap(i + 1) \in 0..2*RingSize-1
  OBVIOUS
<1> DEFINE n == 2 * RingSize
           a == i + 1
<1>1. n \in Nat \ {0} /\ a \in Int
  BY RingConstants
<1> HIDE DEF n, a
<1>2. a % n \in 0 .. n - 1
  BY <1>1, ModType
<1> QED
  BY <1>2 DEF Wrap, n, a

LEMMA NextTyped == \A i \in 0..Size-1 : (i + 1) % Size \in 0..Size-1
BY NextIs, RingConstants

\* What an RX thread has received are frames of its LAN.
LEMMA BatchFrames ==
  ASSUME OwnFrames, NEW l \in Lans, batch[l] # <<>>
  PROVE  /\ Head(batch[l]) \in FramesOf(l) /\ Head(batch[l]) \in Frames
         /\ LanOf(Head(batch[l])) = l
         /\ Tail(batch[l]) \in Seq(FramesOf(l))
<1>1. batch[l] \in Seq(FramesOf(l))
  BY DEF OwnFrames
<1>2. Head(batch[l]) \in FramesOf(l) /\ Tail(batch[l]) \in Seq(FramesOf(l))
  BY <1>1, HeadTailProperties
<1> QED
  BY <1>2 DEF FramesOf

LEMMA RingInit == Init => RingInv
<1> SUFFICES ASSUME Init PROVE RingInv
  OBVIOUS
<1>1. RingTyped
  <2>1. 0 \in 0..Size-1 /\ 0 \in 0..2*RingSize-1 /\ RingSize \in 0..2*RingSize-1
    BY RingConstants
  <2> QED
    BY <2>1 DEF Init, RingTyped, RxPlaces, RelPlaces
<1>2. OwnFrames
  BY RingConstants DEF Init, OwnFrames, FramesOf, Frames, LanOf
<1>3. HandInv
  BY DEF Init, HandInv
<1>4. QueueInv
  <2>1. Queued = [i \in 1 .. 0 |-> jobs[SlotAt(head, i)]]
    BY <1>1, QueuedIs, RingConstants DEF Init, Jobs
  <2> QED
    BY <2>1 DEF QueueInv
<1> QED
  BY <1>1, <1>2, <1>3, <1>4 DEF RingInv

LEMMA RingTypedNext == RingInv /\ [Next]_vars => RingTyped'
<1> SUFFICES ASSUME RingInv, [Next]_vars PROVE RingTyped'
  OBVIOUS
<1> USE RingConstants
    DEF RingTyped, RxPlaces, RelPlaces, ringVars, rxVars, wVars, fillVars, relVars
<1>0. RingTyped
  BY DEF RingInv
<1>1. ASSUME NEW l \in Lans, Arrive(l) PROVE RingTyped'
  <2>1. Wrap(cons[l] + 1) \in 0..2*RingSize-1
    BY <1>0, WrapTyped
  <2> QED
    BY <1>0, <1>1, <2>1 DEF Arrive
<1>2. ASSUME NEW l \in Lans, RxLoop(l) PROVE RingTyped'
  BY <1>0, <1>2 DEF RxLoop
<1>3. ASSUME NEW l \in Lans, RecvNone(l) PROVE RingTyped'
  BY <1>0, <1>3 DEF RecvNone
<1>4. ASSUME NEW l \in Lans, Recv(l) PROVE RingTyped'
  BY <1>0, <1>4 DEF Recv
<1>5. ASSUME NEW l \in Lans, Enqueue(l) PROVE RingTyped'
  <2>1. Head(batch[l]) \in Frames
    BY <1>5, BatchFrames DEF RingInv, Enqueue, Turn
  <2>2. NextTail \in 0..Size-1
    BY <1>0, NextTyped DEF NextTail
  <2> QED
    BY <1>0, <1>5, <2>1, <2>2 DEF Enqueue
<1>6. ASSUME NEW l \in Lans, Drop(l) PROVE RingTyped'
  <2>1. Head(batch[l]) \in Frames
    BY <1>6, BatchFrames DEF RingInv, Drop, Turn
  <2> QED
    BY <1>0, <1>6, <2>1 DEF Drop, StartRelease
<1>7. ASSUME NEW l \in Lans, BatchDone(l) PROVE RingTyped'
  BY <1>0, <1>7 DEF BatchDone
<1>8. ASSUME NEW t \in Threads, RelLoad(t) PROVE RingTyped'
  <2>1. LanOf(relf[t]) \in Lans
    BY <1>0, <1>8, FrameLan DEF RingInv, HandInv, RelLoad
  <2> QED
    BY <1>0, <1>8, <2>1 DEF RelLoad
<1>9. ASSUME NEW t \in Threads, RelBump(t) PROVE RingTyped'
  <2>1. Wrap(idx[t] + 1) \in 0..2*RingSize-1
    BY <1>0, WrapTyped
  <2> QED
    BY <1>0, <1>9, <2>1 DEF RelBump
<1>10. ASSUME NEW t \in Threads, RelWrite(t) PROVE RingTyped'
  BY <1>0, <1>10 DEF RelWrite
<1>11. ASSUME NEW t \in Threads, RelCount(t) PROVE RingTyped'
  <2>1. LanOf(relf[t]) \in Lans
    BY <1>0, <1>11, FrameLan DEF RingInv, HandInv, RelCount
  <2> QED
    BY <1>0, <1>11, <2>1 DEF RelCount
<1>12. ASSUME NEW t \in Threads, RelSubmit(t) PROVE RingTyped'
  <2>1. Wrap(idx[t] + 1) \in 0..2*RingSize-1
    BY <1>0, WrapTyped
  <2>2. 0 \in 0..2*RingSize-1
    OBVIOUS
  <2> QED
    BY <1>0, <1>12, <2>1, <2>2 DEF RelSubmit
<1>13. CASE WorkerLoop
  BY <1>0, <1>13 DEF WorkerLoop
<1>14. CASE TakeNone
  BY <1>0, <1>14 DEF TakeNone
<1>15. CASE TakeJob
  <2>1. (head + 1) % Size \in 0..Size-1
    BY <1>0, NextTyped
  <2> QED
    BY <1>0, <1>15, <2>1 DEF TakeJob
<1>16. CASE Process
  BY <1>0, <1>16 DEF Process, StartRelease
<1>17. CASE JobDone
  BY <1>0, <1>17 DEF JobDone
<1>18. CASE Stop
  BY <1>0, <1>18 DEF Stop
<1>19. CASE UNCHANGED vars
  BY <1>0, <1>19 DEF vars
<1> QED
  BY RingNextCases, <1>1, <1>2, <1>3, <1>4, <1>5, <1>6, <1>7, <1>8, <1>9, <1>10, <1>11,
     <1>12, <1>13, <1>14, <1>15, <1>16, <1>17, <1>18, <1>19

\* A released frame is one, and its index is within the ring.
LEMMA Releasing ==
  ASSUME RingInv, NEW t \in Threads, relpc[t] # "no"
  PROVE  /\ relf[t] \in Frames /\ LanOf(relf[t]) \in Lans
         /\ relf[t] \in FramesOf(LanOf(relf[t]))
         /\ idx[t] % RingSize \in 0..RingSize-1
<1>1. relf[t] \in Frames
  BY DEF RingInv, RingTyped, HandInv
<1>2. idx[t] \in Int
  BY RingConstants DEF RingInv, RingTyped
<1> QED
  BY <1>1, <1>2, FrameLan, ModType, RingConstants

LEMMA OwnFramesNext == RingInv /\ [Next]_vars => OwnFrames'
<1> SUFFICES ASSUME RingInv, [Next]_vars PROVE OwnFrames'
  OBVIOUS
<1> USE DEF ringVars, rxVars, wVars, fillVars, relVars
<1>0. RingTyped /\ OwnFrames /\ HandInv
  BY DEF RingInv
<1>same. ASSUME UNCHANGED <<batch, rx, fill, relf>> PROVE OwnFrames'
  BY <1>0, <1>same DEF OwnFrames
<1>1. ASSUME NEW l \in Lans, Arrive(l) PROVE OwnFrames'
  <2>1. cons[l] % RingSize \in 0..RingSize-1
    <3>1. cons[l] \in Int
      BY <1>0, RingConstants DEF RingTyped
    <3> QED
      BY <3>1, ModType, RingConstants
  <2>2. fill[l][cons[l] % RingSize] \in FramesOf(l)
    BY <1>0, <2>1 DEF OwnFrames
  <2>3. Append(rx[l], fill[l][cons[l] % RingSize]) \in Seq(FramesOf(l))
    BY <1>0, <2>2 DEF OwnFrames
  <2> QED
    BY <1>0, <1>1, <2>3 DEF Arrive, OwnFrames
<1>2. ASSUME NEW l \in Lans, Recv(l) PROVE OwnFrames'
  <2>1. PICK n \in 1 .. Len(rx[l]) :
          /\ batch' = [batch EXCEPT ![l] = SubSeq(rx[l], 1, n)]
          /\ rx' = [rx EXCEPT ![l] = SubSeq(@, n + 1, Len(@))]
    <3>1. Len(rx[l]) \in Nat \ {0}
      BY <1>0, <1>2 DEF Recv, OwnFrames
    <3>2. (IF Len(rx[l]) < MaxBatch THEN Len(rx[l]) ELSE MaxBatch) \in 1 .. Len(rx[l])
      BY <3>1, RingConstants
    <3> QED
      BY <1>2, <3>2 DEF Recv
  <2>2. /\ Len(rx[l]) \in Nat /\ n \in 1 .. Len(rx[l])
        /\ \A i \in 1 .. Len(rx[l]) : rx[l][i] \in FramesOf(l)
    BY <1>0, ElementOfSeq DEF OwnFrames
  <2>3. SubSeq(rx[l], 1, n) \in Seq(FramesOf(l))
    BY <2>2, SubSeqProperties
  <2>4. SubSeq(rx[l], n + 1, Len(rx[l])) \in Seq(FramesOf(l))
    BY <2>2, SubSeqProperties
  <2> QED
    BY <1>0, <1>2, <2>1, <2>3, <2>4 DEF Recv, OwnFrames
<1>3. ASSUME NEW l \in Lans, Enqueue(l) PROVE OwnFrames'
  <2>1. Tail(batch[l]) \in Seq(FramesOf(l))
    BY <1>0, <1>3, BatchFrames DEF Enqueue, Turn
  <2> QED
    BY <1>0, <1>3, <2>1 DEF Enqueue, OwnFrames
<1>4. ASSUME NEW l \in Lans, Drop(l) PROVE OwnFrames'
  <2>1. Head(batch[l]) \in FramesOf(l) /\ Tail(batch[l]) \in Seq(FramesOf(l))
    BY <1>0, <1>4, BatchFrames DEF Drop, Turn
  <2> QED
    BY <1>0, <1>4, <2>1, RingConstants DEF Drop, StartRelease, OwnFrames, RingTyped
<1>5. ASSUME NEW t \in Threads, RelWrite(t) PROVE OwnFrames'
  <2>1. /\ relf[t] \in FramesOf(LanOf(relf[t])) /\ LanOf(relf[t]) \in Lans
        /\ idx[t] % RingSize \in 0..RingSize-1
    BY <1>5, Releasing DEF RelWrite
  <2> DEFINE k == LanOf(relf[t])
             i == idx[t] % RingSize
             f == relf[t]
  <2>2. fill' = [fill EXCEPT ![k][i] = f] /\ UNCHANGED <<batch, rx, relf>>
    BY <1>5 DEF RelWrite
  <2>3. k \in Lans /\ i \in 0..RingSize-1 /\ f \in FramesOf(k)
    BY <2>1
  <2> HIDE DEF k, i, f
  <2>4. \A l \in Lans : fill'[l] \in [0..RingSize-1 -> FramesOf(l)]
    BY <1>0, <2>2, <2>3 DEF OwnFrames
  <2>5. fill' \in [Lans -> [0..RingSize-1 -> Frames]]
    BY <1>0, <2>2, <2>3 DEF OwnFrames, FramesOf
  <2> QED
    BY <1>0, <2>2, <2>4, <2>5 DEF OwnFrames
<1>6. ASSUME NEW t \in Threads, RelSubmit(t) PROVE OwnFrames'
  BY <1>0, <1>6 DEF RelSubmit, OwnFrames, RingTyped
<1>7. CASE Process
  <2>1. \A l \in Lans : relf'[l] = relf[l]
    BY <1>0, <1>7, RingConstants DEF Process, StartRelease, RingTyped
  <2> QED
    BY <1>0, <1>7, <2>1 DEF Process, OwnFrames
<1>8. ASSUME NEW l \in Lans, RxLoop(l) \/ RecvNone(l) \/ BatchDone(l) PROVE OwnFrames'
  BY <1>8, <1>same DEF RxLoop, RecvNone, BatchDone
<1>9. ASSUME NEW t \in Threads, RelLoad(t) \/ RelBump(t) \/ RelCount(t) PROVE OwnFrames'
  BY <1>9, <1>same DEF RelLoad, RelBump, RelCount
<1>10. CASE WorkerLoop \/ TakeNone \/ TakeJob \/ JobDone \/ Stop
  BY <1>10, <1>same DEF WorkerLoop, TakeNone, TakeJob, JobDone, Stop
<1>11. CASE UNCHANGED vars
  BY <1>11, <1>same DEF vars
<1> QED
  BY RingNextCases, <1>1, <1>2, <1>3, <1>4, <1>5, <1>6, <1>7, <1>8, <1>9, <1>10, <1>11

\* A job that is taken is a frame.
LEMMA TakenIsFrame ==
  ASSUME RingInv, RingTyped', TakeJob
  PROVE  jobs[head] \in Frames
<1>1. Queued # <<>> /\ jobs[head] = Head(Queued)
  BY QueuedTake DEF RingInv, TakeJob
<1> QED
  BY <1>1, HeadTailProperties DEF RingInv, QueueInv

LEMMA HandInvNext == RingInv /\ [Next]_vars => HandInv'
<1> SUFFICES ASSUME RingInv, [Next]_vars PROVE HandInv'
  OBVIOUS
<1> USE DEF ringVars, rxVars, wVars, fillVars, relVars
<1>0. RingTyped /\ HandInv
  BY DEF RingInv
<1>same. ASSUME UNCHANGED <<relpc, relf, wpc, job>> PROVE HandInv'
  BY <1>0, <1>same DEF HandInv
<1>1. ASSUME NEW l \in Lans,
             Arrive(l) \/ RxLoop(l) \/ RecvNone(l) \/ Recv(l) \/ Enqueue(l) \/ BatchDone(l)
      PROVE  HandInv'
  BY <1>1, <1>same DEF Arrive, RxLoop, RecvNone, Recv, Enqueue, BatchDone
<1>2. ASSUME NEW l \in Lans, Drop(l) PROVE HandInv'
  <2>1. Head(batch[l]) # NoFrame
    BY <1>2, BatchFrames, RingConstants DEF RingInv, Drop, Turn
  <2> QED
    BY <1>0, <1>2, <2>1, RingConstants DEF Drop, StartRelease, HandInv, RingTyped
<1>3. ASSUME NEW t \in Threads, RelLoad(t) \/ RelBump(t) \/ RelWrite(t) \/ RelCount(t)
      PROVE  HandInv'
  BY <1>0, <1>3 DEF RelLoad, RelBump, RelWrite, RelCount, HandInv, RingTyped
<1>4. ASSUME NEW t \in Threads, RelSubmit(t) PROVE HandInv'
  BY <1>0, <1>4 DEF RelSubmit, HandInv, RingTyped
<1>5. CASE WorkerLoop \/ TakeNone \/ JobDone
  BY <1>0, <1>5 DEF WorkerLoop, TakeNone, JobDone, HandInv, RingTyped
<1>6. CASE TakeJob
  <2>1. jobs[head] # NoFrame
    BY <1>6, TakenIsFrame, RingTypedNext, RingConstants
  <2> QED
    BY <1>0, <1>6, <2>1 DEF TakeJob, HandInv, RingTyped
<1>7. CASE Process
  BY <1>0, <1>7, RingConstants DEF Process, StartRelease, HandInv, RingTyped
<1>8. CASE Stop
  BY <1>8, <1>same DEF Stop
<1>9. CASE UNCHANGED vars
  BY <1>9, <1>same DEF vars
<1> QED
  BY RingNextCases, <1>1, <1>2, <1>3, <1>4, <1>5, <1>6, <1>7, <1>8, <1>9

\* Only these steps touch the worker ring.
LEMMA QueuedSame == UNCHANGED ringVars => UNCHANGED Queued
BY DEF ringVars, Queued

LEMMA OtherSteps ==
  ASSUME [Next]_vars, ~ TakeJob, \A l \in Lans : ~ Enqueue(l)
  PROVE  UNCHANGED ringVars
BY RingNextCases
DEF Arrive, RxLoop, RecvNone, Recv, Drop, BatchDone, RelLoad, RelBump, RelWrite, RelCount,
    RelSubmit, WorkerLoop, TakeNone, Process, JobDone, Stop, vars, ringVars

LEMMA QueueInvNext == RingInv /\ [Next]_vars => QueueInv'
<1> SUFFICES ASSUME RingInv, [Next]_vars PROVE QueueInv'
  OBVIOUS
<1>0. RingTyped /\ RingTyped' /\ QueueInv
  BY RingTypedNext DEF RingInv
<1>1. ASSUME NEW l \in Lans, Enqueue(l) PROVE QueueInv'
  <2>1. Head(batch[l]) \in Frames
    BY <1>1, BatchFrames DEF RingInv, Enqueue, Turn
  <2>2. Queued' = Append(Queued, Head(batch[l]))
    BY <1>0, <1>1, QueuedPut DEF Enqueue
  <2> QED
    BY <1>0, <2>1, <2>2 DEF QueueInv
<1>2. CASE TakeJob
  <2>1. Queued # <<>> /\ Queued' = Tail(Queued)
    BY <1>0, <1>2, QueuedTake DEF TakeJob
  <2> QED
    BY <1>0, <2>1, HeadTailProperties DEF QueueInv
<1>3. CASE UNCHANGED ringVars
  BY <1>0, <1>3, QueuedSame DEF QueueInv
<1> QED
  BY <1>1, <1>2, <1>3, OtherSteps

LEMMA RingNext == RingInv /\ [Next]_vars => RingInv'
BY RingTypedNext, OwnFramesNext, HandInvNext, QueueInvNext DEF RingInv

LEMMA RingAlways == Spec => []RingInv
<1>1. Init => RingInv
  BY RingInit
<1>2. RingInv /\ [Next]_vars => RingInv'
  BY RingNext
<1> QED
  BY <1>1, <1>2, PTL DEF Spec

\* Every variable keeps its type: the indices of all rings stay within them,
\* whichever thread moves them, and only frames are passed on.
THEOREM RingTypeCorrect == Spec => []TypeOK
<1>1. RingInv => TypeOK
  <2> SUFFICES ASSUME RingInv PROVE TypeOK
    OBVIOUS
  <2>1. \A l \in Lans : batch[l] \in Seq(Frames) /\ rx[l] \in Seq(Frames)
    <3> SUFFICES ASSUME NEW l \in Lans
                 PROVE  batch[l] \in Seq(Frames) /\ rx[l] \in Seq(Frames)
      OBVIOUS
    <3>1. FramesOf(l) \subseteq Frames
      BY DEF FramesOf
    <3>2. batch[l] \in Seq(FramesOf(l)) /\ rx[l] \in Seq(FramesOf(l))
      BY DEF RingInv, OwnFrames
    <3> QED
      BY <3>1, <3>2, SeqMonotonic
  <2> QED
    BY <2>1 DEF RingInv, RingTyped, OwnFrames, TypeOK, RxPlaces, RelPlaces
<1> QED
  BY <1>1, RingAlways, PTL

-----------------------------------------------------------------------------
(***************************************************************************)
(* The worker ring implements JobQueue.                                    *)
(***************************************************************************)
Refused == {relf[l] : l \in Lans} \ {NoFrame}

LEMMA QueueInit == Init => JQ!Init
<1> SUFFICES ASSUME Init PROVE JQ!Init
  OBVIOUS
<1>1. Queued = <<>>
  <2>1. RingTyped
    BY RingInit DEF RingInv
  <2>2. Queued = [i \in 1 .. 0 |-> jobs[SlotAt(head, i)]]
    BY <2>1, QueuedIs, RingConstants DEF Init, Jobs
  <2> QED
    BY <2>2
<1>2. Refused = {} /\ job = NoFrame
  BY RingConstants DEF Init, Refused
<1> QED
  BY <1>1, <1>2 DEF JQ!Init, Refused

LEMMA QueueStep == RingInv /\ [Next]_vars => [JQ!Next]_(JQ!vars)
<1> SUFFICES ASSUME RingInv, [Next]_vars PROVE JQ!Next \/ UNCHANGED JQ!vars
  OBVIOUS
<1> USE DEF ringVars, rxVars, wVars, fillVars, relVars
<1>0. RingTyped /\ RingTyped' /\ OwnFrames /\ HandInv
  BY RingTypedNext DEF RingInv
<1>same. ASSUME UNCHANGED ringVars, UNCHANGED job, \A l \in Lans : relf'[l] = relf[l]
         PROVE  UNCHANGED JQ!vars
  <2>1. UNCHANGED Queued
    BY <1>same, QueuedSame
  <2>2. {relf[l] : l \in Lans}' = {relf[l] : l \in Lans}
    BY <1>same
  <2> QED
    BY <1>same, <2>1, <2>2 DEF JQ!vars
<1>1. ASSUME NEW l \in Lans, Enqueue(l) PROVE JQ!Next
  <2>1. PICK f \in Frames : f = Head(batch[l])
    BY <1>0, <1>1, BatchFrames DEF Enqueue, Turn
  <2>2. Queued' = Append(Queued, f) /\ Len(Queued) < Size - 1
    BY <1>0, <1>1, <2>1, QueuedPut DEF Enqueue
  <2>3. UNCHANGED <<relf, job>>
    BY <1>1 DEF Enqueue
  <2>4. JQ!Put(f)
    BY <2>2, <2>3 DEF JQ!Put
  <2> QED
    BY <2>4 DEF JQ!Next
<1>2. ASSUME NEW l \in Lans, Drop(l) PROVE JQ!Next
  <2>1. PICK f \in Frames : f = Head(batch[l])
    BY <1>0, <1>2, BatchFrames DEF Drop, Turn
  <2>2. Len(Queued) = Size - 1 /\ UNCHANGED Queued
    BY <1>0, <1>2, QueuedFull, QueuedSame DEF Drop
  <2>3. relf[l] = NoFrame
    BY <1>0, <1>2, RingConstants DEF Drop, Turn, HandInv
  <2>4. relf' = [relf EXCEPT ![l] = f] /\ UNCHANGED job
    BY <1>2, <2>1 DEF Drop, StartRelease
  <2>5. Refused' = Refused \cup {f}
    <3>1. \A k \in Lans : relf'[k] = IF k = l THEN f ELSE relf[k]
      BY <1>0, <2>4, RingConstants DEF RingTyped
    <3> QED
      BY <2>3, <3>1, RingConstants DEF Refused
  <2>6. JQ!Refuse(f)
    BY <2>2, <2>4, <2>5 DEF JQ!Refuse, Refused
  <2> QED
    BY <2>6 DEF JQ!Next
<1>3. ASSUME NEW t \in Lans, RelSubmit(t) PROVE JQ!Next
  <2>1. PICK f \in Frames : f = relf[t]
    BY <1>3, Releasing, RingConstants DEF RelSubmit
  <2>2. \A l \in Lans : relf[l] = f => l = t
    BY <1>0, <2>1, RingConstants DEF OwnFrames, FramesOf
  <2>3. relf' = [relf EXCEPT ![t] = NoFrame] /\ UNCHANGED <<ringVars, job>>
    BY <1>3 DEF RelSubmit
  <2>4. Refused' = Refused \ {f} /\ f \in Refused
    <3>1. \A k \in Lans : relf'[k] = IF k = t THEN NoFrame ELSE relf[k]
      BY <1>0, <2>3, RingConstants DEF RingTyped
    <3> QED
      BY <2>1, <2>2, <3>1, RingConstants DEF Refused
  <2>5. UNCHANGED Queued
    BY <2>3, QueuedSame
  <2>6. JQ!GiveUp(f)
    BY <2>3, <2>4, <2>5 DEF JQ!GiveUp, Refused
  <2> QED
    BY <2>6 DEF JQ!Next
<1>4. CASE RelSubmit(Worker)
  <2>1. \A l \in Lans : relf'[l] = relf[l]
    BY <1>0, <1>4, RingConstants DEF RelSubmit, RingTyped
  <2> QED
    BY <1>4, <1>same, <2>1 DEF RelSubmit
<1>5. CASE TakeJob
  <2>1. Queued # <<>> /\ jobs[head] = Head(Queued) /\ Queued' = Tail(Queued)
    BY <1>0, <1>5, QueuedTake DEF TakeJob
  <2>2. job = NoFrame /\ job' = jobs[head] /\ UNCHANGED relf
    BY <1>0, <1>5 DEF TakeJob, HandInv
  <2> QED
    BY <2>1, <2>2 DEF JQ!Next, JQ!Take
<1>6. CASE Process
  <2>1. job # NoFrame /\ job' = NoFrame /\ UNCHANGED ringVars
    BY <1>0, <1>6 DEF Process, HandInv
  <2>2. \A l \in Lans : relf'[l] = relf[l]
    BY <1>0, <1>6, RingConstants DEF Process, StartRelease, RingTyped
  <2>3. UNCHANGED Queued /\ UNCHANGED Refused
    BY <2>1, <2>2, QueuedSame DEF Refused
  <2> QED
    BY <2>1, <2>3 DEF JQ!Next, JQ!Finish, Refused
<1>7. ASSUME NEW l \in Lans,
             Arrive(l) \/ RxLoop(l) \/ RecvNone(l) \/ Recv(l) \/ BatchDone(l)
      PROVE  UNCHANGED JQ!vars
  BY <1>7, <1>same DEF Arrive, RxLoop, RecvNone, Recv, BatchDone
<1>8. ASSUME NEW t \in Threads, RelLoad(t) \/ RelBump(t) \/ RelWrite(t) \/ RelCount(t)
      PROVE  UNCHANGED JQ!vars
  BY <1>8, <1>same DEF RelLoad, RelBump, RelWrite, RelCount
<1>9. CASE WorkerLoop \/ TakeNone \/ JobDone \/ Stop
  BY <1>9, <1>same DEF WorkerLoop, TakeNone, JobDone, Stop
<1>10. CASE UNCHANGED vars
  BY <1>10, <1>same DEF vars
<1> QED
  BY RingNextCases, <1>1, <1>2, <1>3, <1>4, <1>5, <1>6, <1>7, <1>8, <1>9, <1>10 DEF Threads

\* The worker ring (forwarder.c:760-777, 1399-1457) is a bounded FIFO queue, for
\* any number of RX threads: no job is lost, doubled or overtaken, and one is
\* refused only when Size - 1 others wait.
THEOREM RingIsJobQueue == Spec => IsJobQueue
<1>1. Init => JQ!Init
  BY QueueInit
<1>2. RingInv /\ [Next]_vars => [JQ!Next]_(JQ!vars)
  BY QueueStep
<1> QED
  BY <1>1, <1>2, RingAlways, PTL DEF Spec, IsJobQueue, JQ!Spec

-----------------------------------------------------------------------------
(***************************************************************************)
(* How often a frame occurs in a sequence.                                 *)
(***************************************************************************)
Places(s, f) == {i \in DOMAIN s : s[i] = f}
One(b) == IF b THEN 1 ELSE 0

LEMMA PlacesFinite ==
  ASSUME NEW S, NEW s \in Seq(S), NEW f
  PROVE  /\ IsFiniteSet(Places(s, f)) /\ Count(s, f) = Cardinality(Places(s, f))
         /\ Count(s, f) \in Nat
<1>1. DOMAIN s = 1 .. Len(s) /\ Len(s) \in Nat
  OBVIOUS
<1>2. IsFiniteSet(1 .. Len(s))
  BY <1>1, FS_Interval
<1>3. Places(s, f) \in SUBSET (1 .. Len(s))
  BY <1>1 DEF Places
<1>4. IsFiniteSet(Places(s, f))
  BY <1>2, <1>3, FS_Subset
<1>5. Cardinality(Places(s, f)) \in Nat
  BY <1>4, FS_CardinalityType
<1> QED
  BY <1>4, <1>5 DEF Count, Places

LEMMA CountConcat ==
  ASSUME NEW S, NEW a \in Seq(S), NEW b \in Seq(S), NEW f
  PROVE  Count(a \o b, f) = Count(a, f) + Count(b, f)
<1> DEFINE n == Len(a)
           m == Len(b)
           P == Places(a, f)
           R == {i \in n + 1 .. n + m : b[i - n] = f}
<1>1. n \in Nat /\ m \in Nat /\ DOMAIN a = 1 .. n /\ DOMAIN b = 1 .. m
  OBVIOUS
<1>2. /\ a \o b \in Seq(S) /\ DOMAIN (a \o b) = 1 .. n + m
      /\ \A i \in 1 .. n + m : (a \o b)[i] = IF i <= n THEN a[i] ELSE b[i - n]
  BY ConcatProperties
<1>3. Places(a \o b, f) = P \cup R
  BY <1>1, <1>2 DEF Places
<1>4. P \cap R = {}
  BY <1>1 DEF Places
<1>5. IsFiniteSet(R) /\ Cardinality(R) = Count(b, f)
  <2>1. [i \in Places(b, f) |-> i + n] \in Bijection(Places(b, f), R)
    <3> DEFINE g == [i \in Places(b, f) |-> i + n]
    <3>1. g \in [Places(b, f) -> R]
      BY <1>1 DEF Places
    <3>2. \A i, j \in Places(b, f) : g[i] = g[j] => i = j
      BY <1>1 DEF Places
    <3>3. \A k \in R : k - n \in Places(b, f) /\ g[k - n] = k
      BY <1>1 DEF Places
    <3>4. DOMAIN g = Places(b, f)
      OBVIOUS
    <3> HIDE DEF g, R
    <3>5. g \in Injection(Places(b, f), R)
      BY <3>1, <3>2, <3>4 DEF Injection, IsInjective
    <3>6. g \in Surjection(Places(b, f), R)
      BY <3>1, <3>3 DEF Surjection
    <3> QED
      BY <3>5, <3>6 DEF Bijection, g
  <2>2. ExistsBijection(Places(b, f), R)
    BY <2>1 DEF ExistsBijection
  <2> QED
    BY <2>2, PlacesFinite, FS_Bijection
<1> HIDE DEF P, R
<1>6. IsFiniteSet(P) /\ Cardinality(P) = Count(a, f) /\ Count(a, f) \in Nat
  BY PlacesFinite DEF P
<1>7. Cardinality(P \cup R) = Cardinality(P) + Cardinality(R) - Cardinality({})
  BY <1>4, <1>5, <1>6, FS_Union
<1>8. Count(b, f) \in Nat /\ Count(a \o b, f) = Cardinality(P \cup R)
  BY <1>2, <1>3, PlacesFinite
<1> QED
  BY <1>5, <1>6, <1>7, <1>8, FS_EmptySet

LEMMA CountOne ==
  ASSUME NEW e, NEW f
  PROVE  Count(<<e>>, f) = One(e = f) /\ Count(<<>>, f) = 0
<1>1. {i \in DOMAIN <<e>> : <<e>>[i] = f} = IF e = f THEN {1} ELSE {}
  OBVIOUS
<1>2. {i \in DOMAIN <<>> : <<>>[i] = f} = {}
  OBVIOUS
<1> QED
  BY <1>1, <1>2, FS_Singleton, FS_EmptySet DEF Count, One

LEMMA CountAppend ==
  ASSUME NEW S, NEW s \in Seq(S), NEW e \in S, NEW f
  PROVE  Count(Append(s, e), f) = Count(s, f) + One(e = f)
<1> DEFINE b == <<e>>
<1>1. Append(s, e) = s \o b /\ b \in Seq(S)
  BY AppendIsConcat
<1>2. Count(b, f) = One(e = f)
  BY CountOne
<1> HIDE DEF b
<1>3. Count(s \o b, f) = Count(s, f) + Count(b, f)
  BY <1>1, CountConcat
<1> QED
  BY <1>1, <1>2, <1>3

LEMMA CountTail ==
  ASSUME NEW S, NEW s \in Seq(S), s # <<>>, NEW f
  PROVE  Count(Tail(s), f) = Count(s, f) - One(Head(s) = f)
<1> DEFINE a == <<Head(s)>>
           b == Tail(s)
<1>1. a \in Seq(S) /\ b \in Seq(S) /\ s = a \o b
  BY HeadTailProperties, SMT
<1>2. Count(a, f) = One(Head(s) = f)
  BY CountOne
<1> HIDE DEF a, b
<1>3. Count(a \o b, f) = Count(a, f) + Count(b, f)
  BY <1>1, CountConcat
<1>4. Count(b, f) \in Nat /\ One(Head(s) = f) \in Nat
  BY <1>1, PlacesFinite DEF One
<1>5. Count(s, f) = One(Head(s) = f) + Count(b, f)
  BY <1>1, <1>2, <1>3
<1>6. Count(b, f) = Count(s, f) - One(Head(s) = f)
  BY <1>4, <1>5
<1> QED
  BY <1>6 DEF b

LEMMA CountSplit ==
  ASSUME NEW S, NEW s \in Seq(S), NEW n \in 1 .. Len(s), NEW f
  PROVE  Count(SubSeq(s, 1, n), f) + Count(SubSeq(s, n + 1, Len(s)), f) = Count(s, f)
<1> DEFINE a == SubSeq(s, 1, n)
           b == SubSeq(s, n + 1, Len(s))
<1>1. /\ Len(s) \in Nat /\ n \in 1 .. Len(s)
      /\ \A i \in 1 .. Len(s) : s[i] \in S
  BY ElementOfSeq
<1>2. a \in Seq(S) /\ b \in Seq(S)
  BY <1>1, SubSeqProperties
<1>3. s = a \o b
  BY <1>1, SMT
<1> HIDE DEF a, b
<1>4. Count(a \o b, f) = Count(a, f) + Count(b, f)
  BY <1>2, CountConcat
<1> QED
  BY <1>3, <1>4 DEF a, b

-----------------------------------------------------------------------------
(***************************************************************************)
(* The entries of a fill ring that the kernel may take, for the producer   *)
(* index p and the consumer index c.                                       *)
(***************************************************************************)
Vis(g, p, c) == [i \in 1 .. Wrap(p - c) |-> g[(c + i - 1) % RingSize]]

\* An index of a fill ring's entry, at most twice round.
Pos(j) == IF j < RingSize THEN j ELSE IF j < 2 * RingSize THEN j - RingSize ELSE j - 2 * RingSize

LEMMA ModTwice ==
  ASSUME NEW n \in Nat \ {0}, NEW a \in 2 * n .. 3 * n - 1
  PROVE  a % n = a - 2 * n
OBVIOUS

LEMMA PosIs ==
  ASSUME NEW j \in 0 .. 3 * RingSize - 1
  PROVE  j % RingSize = Pos(j) /\ Pos(j) \in 0 .. RingSize - 1
<1>1. RingSize \in Nat \ {0}
  BY RingConstants
<1>2. CASE j \in 0 .. RingSize - 1
  BY <1>1, <1>2, ModNone DEF Pos
<1>3. CASE j \in RingSize .. 2 * RingSize - 1
  BY <1>1, <1>3, ModOver DEF Pos
<1>4. CASE j \in 2 * RingSize .. 3 * RingSize - 1
  BY <1>1, <1>4, ModTwice DEF Pos
<1> QED
  BY <1>1, <1>2, <1>3, <1>4

LEMMA WrapIs ==
  ASSUME NEW p \in 0 .. 2 * RingSize - 1, NEW c \in 0 .. 2 * RingSize - 1
  PROVE  /\ Wrap(p - c) = IF c <= p THEN p - c ELSE p - c + 2 * RingSize
         /\ Wrap(p + 1) = IF p + 1 = 2 * RingSize THEN 0 ELSE p + 1
<1> DEFINE n == 2 * RingSize
<1>1. n \in Nat \ {0} /\ n = 2 * RingSize
  BY RingConstants
<1>2. p \in 0 .. n - 1 /\ c \in 0 .. n - 1
  OBVIOUS
<1> HIDE DEF n
<1>3. (p - c) % n = IF c <= p THEN p - c ELSE p - c + n
  BY <1>1, <1>2, ModNone, ModUnder
<1>4. (p + 1) % n = IF p + 1 = n THEN 0 ELSE p + 1
  BY <1>1, <1>2, ModNone, ModOver
<1> QED
  BY <1>1, <1>3, <1>4 DEF Wrap

LEMMA VisIs ==
  ASSUME NEW p \in 0 .. 2 * RingSize - 1, NEW c \in 0 .. 2 * RingSize - 1, NEW g,
         Wrap(p - c) <= RingSize
  PROVE  /\ Wrap(p - c) \in 0 .. RingSize
         /\ Vis(g, p, c) = [i \in 1 .. Wrap(p - c) |-> g[Pos(c + i - 1)]]
<1>1. RingSize \in Nat \ {0}
  BY RingConstants
<1>2. Wrap(p - c) \in 0 .. RingSize
  <2>1. Wrap(p - c) = IF c <= p THEN p - c ELSE p - c + 2 * RingSize
    BY WrapIs
  <2> QED
    BY <1>1, <2>1
<1>3. \A i \in 1 .. Wrap(p - c) : (c + i - 1) % RingSize = Pos(c + i - 1)
  <2> SUFFICES ASSUME NEW i \in 1 .. Wrap(p - c)
               PROVE  (c + i - 1) % RingSize = Pos(c + i - 1)
    OBVIOUS
  <2>1. c + i - 1 \in 0 .. 3 * RingSize - 1
    BY <1>1, <1>2
  <2> QED
    BY <2>1, PosIs
<1> QED
  BY <1>2, <1>3 DEF Vis

LEMMA VisSeq ==
  ASSUME NEW p \in 0 .. 2 * RingSize - 1, NEW c \in 0 .. 2 * RingSize - 1,
         NEW S, NEW g \in [0 .. RingSize - 1 -> S]
  PROVE  /\ Vis(g, p, c) \in Seq(S) /\ Len(Vis(g, p, c)) = Wrap(p - c)
         /\ Wrap(p - c) \in Nat
<1>1. RingSize \in Nat \ {0}
  BY RingConstants
<1>2. Wrap(p - c) \in Nat
  <2>1. Wrap(p - c) = IF c <= p THEN p - c ELSE p - c + 2 * RingSize
    BY WrapIs
  <2> QED
    BY <1>1, <2>1
<1>3. \A i \in 1 .. Wrap(p - c) : g[(c + i - 1) % RingSize] \in S
  <2> SUFFICES ASSUME NEW i \in 1 .. Wrap(p - c)
               PROVE  g[(c + i - 1) % RingSize] \in S
    OBVIOUS
  <2>1. (c + i - 1) % RingSize \in 0 .. RingSize - 1
    <3> DEFINE a == c + i - 1
    <3>1. a \in Int
      BY <1>2
    <3> HIDE DEF a
    <3>2. a % RingSize \in 0 .. RingSize - 1
      BY <1>1, <3>1, ModType
    <3> QED
      BY <3>2 DEF a
  <2> QED
    BY <2>1
<1> QED
  BY <1>2, <1>3, IsASeq DEF Vis

\* The kernel takes the oldest entry.
LEMMA VisTake ==
  ASSUME NEW p \in 0 .. 2 * RingSize - 1, NEW c \in 0 .. 2 * RingSize - 1,
         NEW S, NEW g \in [0 .. RingSize - 1 -> S],
         Wrap(p - c) <= RingSize, c # p
  PROVE  /\ Vis(g, p, c) # <<>> /\ Head(Vis(g, p, c)) = g[c % RingSize]
         /\ Vis(g, p, Wrap(c + 1)) = Tail(Vis(g, p, c))
<1> DEFINE n == Wrap(p - c)
           d == Wrap(c + 1)
<1>1. RingSize \in Nat \ {0}
  BY RingConstants
<1>2. /\ n = IF c <= p THEN p - c ELSE p - c + 2 * RingSize
      /\ d = IF c + 1 = 2 * RingSize THEN 0 ELSE c + 1
  BY WrapIs
<1>3. n \in 1 .. RingSize /\ d \in 0 .. 2 * RingSize - 1
  BY <1>1, <1>2
<1>4. Wrap(p - d) = n - 1
  <2>1. Wrap(p - d) = IF d <= p THEN p - d ELSE p - d + 2 * RingSize
    BY <1>3, WrapIs
  <2> QED
    BY <1>1, <1>2, <2>1
<1>5. Vis(g, p, c) = [i \in 1 .. n |-> g[Pos(c + i - 1)]]
  BY VisIs
<1> HIDE DEF n, d
<1>6. Vis(g, p, d) = [i \in 1 .. n - 1 |-> g[Pos(d + i - 1)]]
  <2>1. Wrap(p - d) <= RingSize
    BY <1>1, <1>3, <1>4
  <2>2. Vis(g, p, d) = [i \in 1 .. Wrap(p - d) |-> g[Pos(d + i - 1)]]
    BY <1>3, <2>1, VisIs
  <2> QED
    BY <1>4, <2>2
<1>7. \A i \in 1 .. n - 1 : Pos(d + i - 1) = Pos(c + (i + 1) - 1)
  BY <1>1, <1>2, <1>3 DEF Pos
<1>8. c % RingSize = Pos(c + 1 - 1)
  <2>1. c \in 0 .. 3 * RingSize - 1 /\ c + 1 - 1 = c
    BY <1>1
  <2> QED
    BY <2>1, PosIs
<1> DEFINE v == Vis(g, p, c)
<1>v. v = [i \in 1 .. n |-> g[Pos(c + i - 1)]] /\ n \in Nat /\ 1 <= n
  BY <1>1, <1>3, <1>5
<1> HIDE DEF v
<1>9. Tail(v) = [i \in 1 .. n - 1 |-> g[Pos(c + (i + 1) - 1)]]
  <2>1. Tail(v) = [i \in 1 .. n - 1 |-> v[i + 1]]
    BY <1>v
  <2>2. \A i \in 1 .. n - 1 : v[i + 1] = g[Pos(c + (i + 1) - 1)]
    BY <1>v
  <2> QED
    BY <2>1, <2>2
<1>10. v # <<>> /\ Head(v) = g[Pos(c + 1 - 1)]
  BY <1>v
<1>11. Vis(g, p, d) = Tail(v)
  BY <1>6, <1>7, <1>9
<1> QED
  BY <1>8, <1>10, <1>11 DEF d, v

\* The entry behind those the kernel may take.
LEMMA VisEnd ==
  ASSUME NEW p \in 0 .. 2 * RingSize - 1, NEW c \in 0 .. 2 * RingSize - 1,
         Wrap(p - c) < RingSize
  PROVE  LET n == Wrap(p - c)
         IN  /\ n \in 0 .. RingSize - 1 /\ Wrap(p + 1) \in 0 .. 2 * RingSize - 1
             /\ Wrap(Wrap(p + 1) - c) = n + 1
             /\ p % RingSize = Pos(c + (n + 1) - 1)
             /\ \A i \in 1 .. n : /\ Pos(c + i - 1) # p % RingSize
                                  /\ Pos(c + i - 1) \in 0 .. RingSize - 1
<1> DEFINE n == Wrap(p - c)
           q == Wrap(p + 1)
<1>1. RingSize \in Nat \ {0}
  BY RingConstants
<1>2. /\ n = IF c <= p THEN p - c ELSE p - c + 2 * RingSize
      /\ q = IF p + 1 = 2 * RingSize THEN 0 ELSE p + 1
  BY WrapIs
<1>3. n \in 0 .. RingSize - 1 /\ q \in 0 .. 2 * RingSize - 1
  BY <1>1, <1>2
<1>4. Wrap(q - c) = n + 1
  <2>1. Wrap(q - c) = IF c <= q THEN q - c ELSE q - c + 2 * RingSize
    BY <1>3, WrapIs
  <2> QED
    BY <1>1, <1>2, <1>3, <2>1
<1> HIDE DEF n, q
<1>5. p % RingSize = Pos(c + (n + 1) - 1)
  <2>1. p \in 0 .. 3 * RingSize - 1
    BY <1>1
  <2>2. p % RingSize = Pos(p)
    BY <2>1, PosIs
  <2>3. Pos(p) = Pos(c + (n + 1) - 1)
    BY <1>1, <1>2, <1>3 DEF Pos
  <2> QED
    BY <2>2, <2>3
<1>6. \A i \in 1 .. n : /\ Pos(c + i - 1) # Pos(c + (n + 1) - 1)
                        /\ Pos(c + i - 1) \in 0 .. RingSize - 1
  BY <1>1, <1>3 DEF Pos
<1> QED
  BY <1>3, <1>4, <1>5, <1>6 DEF n, q

LEMMA VisKeep ==
  ASSUME NEW p \in 0 .. 2 * RingSize - 1, NEW c \in 0 .. 2 * RingSize - 1,
         Wrap(p - c) < RingSize, NEW g,
         NEW h, \A j \in 0 .. RingSize - 1 : j # p % RingSize => h[j] = g[j]
  PROVE  Vis(h, p, c) = Vis(g, p, c)
<1> DEFINE n == Wrap(p - c)
<1>1. \A i \in 1 .. n : /\ Pos(c + i - 1) # p % RingSize
                        /\ Pos(c + i - 1) \in 0 .. RingSize - 1
  BY VisEnd
<1>2. Wrap(p - c) <= RingSize
  BY RingConstants DEF Wrap
<1>3. /\ Vis(h, p, c) = [i \in 1 .. n |-> h[Pos(c + i - 1)]]
      /\ Vis(g, p, c) = [i \in 1 .. n |-> g[Pos(c + i - 1)]]
  BY <1>2, VisIs
<1> HIDE DEF n
<1> QED
  BY <1>1, <1>3

LEMMA VisPut ==
  ASSUME NEW p \in 0 .. 2 * RingSize - 1, NEW c \in 0 .. 2 * RingSize - 1,
         Wrap(p - c) < RingSize, NEW g, NEW f, g[p % RingSize] = f
  PROVE  Vis(g, Wrap(p + 1), c) = Append(Vis(g, p, c), f)
<1> DEFINE n == Wrap(p - c)
           q == Wrap(p + 1)
           v == Vis(g, p, c)
<1>1. /\ n \in 0 .. RingSize - 1 /\ q \in 0 .. 2 * RingSize - 1
      /\ Wrap(q - c) = n + 1
      /\ p % RingSize = Pos(c + (n + 1) - 1)
  BY VisEnd
<1>2. n \in Nat /\ Wrap(p - c) <= RingSize /\ Wrap(q - c) <= RingSize
  BY <1>1, RingConstants
<1>3. v = [i \in 1 .. n |-> g[Pos(c + i - 1)]]
  BY <1>2, VisIs
<1> HIDE DEF n, q, v
<1>4. Vis(g, q, c) = [i \in 1 .. n + 1 |-> g[Pos(c + i - 1)]]
  <2>1. q \in 0 .. 2 * RingSize - 1
    BY <1>1
  <2>2. Vis(g, q, c) = [i \in 1 .. Wrap(q - c) |-> g[Pos(c + i - 1)]]
    BY <1>2, <2>1, VisIs
  <2> QED
    BY <1>1, <2>2
<1>5. Append(v, f) = [i \in 1 .. n + 1 |-> IF i = n + 1 THEN f ELSE v[i]]
  BY <1>2, <1>3
<1>6. \A i \in 1 .. n + 1 : g[Pos(c + i - 1)] = IF i = n + 1 THEN f ELSE v[i]
  <2>1. g[Pos(c + (n + 1) - 1)] = f
    BY <1>1
  <2>2. \A i \in 1 .. n + 1 : i # n + 1 => i \in 1 .. n
    BY <1>2
  <2> QED
    BY <1>3, <2>1, <2>2
<1>7. Vis(g, q, c) = Append(v, f)
  BY <1>4, <1>5, <1>6
<1> QED
  BY <1>7 DEF q, v

-----------------------------------------------------------------------------
(***************************************************************************)
(* What holds the frames together, as long as no two threads clash.        *)
(***************************************************************************)
\* Thread t gives back a frame of LAN l.
Gives(t, l) == relpc[t] # "no" /\ LanOf(relf[t]) = l

SoleInv ==
  ~ clash => \A t, u \in Threads :
    relpc[t] # "no" /\ relpc[u] # "no" /\ LanOf(relf[t]) = LanOf(relf[u]) => t = u

\* What the indices are while a thread gives back a frame to the fill ring of l.
Phase(t, l) ==
  /\ relpc[t] \in {"load", "bump"} => cached[l] = prod[l]
  /\ relpc[t] \in {"write", "count", "submit"} => cached[l] = Wrap(prod[l] + 1)
  /\ relpc[t] \in {"bump", "write", "submit"} => idx[t] = prod[l]
  /\ relpc[t] \in {"count", "submit"} => fill[l][prod[l] % RingSize] = relf[t]

PhaseAt(l) ==
  /\ (\A t \in Threads : ~ Gives(t, l)) => cached[l] = prod[l]
  /\ \A t \in Threads : Gives(t, l) => Phase(t, l)

PhaseInv == ~ clash => \A l \in Lans : PhaseAt(l)

WorkerInv == relpc[Worker] # "no" => wpc = "release"

BatchInv == \A l \in Lans : rpc[l] # "offer" => batch[l] = <<>>

OwnedInv == ~ clash => \A l \in Lans : \A f \in FramesOf(l) : Held(l, f) = 1

SafeInv == RingInv /\ SoleInv /\ PhaseInv /\ WorkerInv /\ BatchInv /\ OwnedInv

-----------------------------------------------------------------------------
(***************************************************************************)
(* The numbers that Held adds up, and what changes them.                   *)
(***************************************************************************)
Givers(f) == {t \in Threads : relf[t] = f}

LEMMA VisibleIs ==
  ASSUME NEW l \in Lans
  PROVE  /\ Visible(l) = Vis(fill[l], prod[l], cons[l])
         /\ Visible(l)' = Vis(fill'[l], prod'[l], cons'[l])
BY DEF Visible, Vis

LEMMA IndicesIn ==
  ASSUME RingInv, NEW l \in Lans
  PROVE  /\ prod[l] \in 0 .. 2 * RingSize - 1 /\ cons[l] \in 0 .. 2 * RingSize - 1
         /\ fill[l] \in [0 .. RingSize - 1 -> FramesOf(l)]
BY DEF RingInv, RingTyped, OwnFrames

LEMMA VisibleSeq ==
  ASSUME RingInv, NEW l \in Lans
  PROVE  /\ Visible(l) \in Seq(FramesOf(l))
         /\ Len(Visible(l)) = Wrap(prod[l] - cons[l]) /\ Wrap(prod[l] - cons[l]) \in Nat
BY IndicesIn, VisibleIs, VisSeq

LEMMA GiversFinite ==
  ASSUME RingInv, NEW f \in Frames
  PROVE  IsFiniteSet(Givers(f)) /\ Cardinality(Givers(f)) \in Nat
<1>1. \A t \in Givers(f) : t = Worker \/ t = LanOf(f)
  <2> SUFFICES ASSUME NEW t \in Threads, relf[t] = f, t # Worker
               PROVE  t = LanOf(f)
    BY DEF Givers
  <2>1. t \in Lans
    BY DEF Threads
  <2>2. relf[t] \in FramesOf(t)
    BY <2>1, RingConstants DEF RingInv, OwnFrames
  <2> QED
    BY <2>2 DEF FramesOf
<1> DEFINE T == {Worker} \cup {LanOf(f)}
<1>2. IsFiniteSet(T)
  <2>1. IsFiniteSet({Worker})
    BY FS_Singleton
  <2> QED
    BY <2>1, FS_AddElement
<1>3. Givers(f) \in SUBSET T
  BY <1>1
<1>4. IsFiniteSet(Givers(f))
  BY <1>2, <1>3, FS_Subset
<1> QED
  BY <1>4, FS_CardinalityType

\* A thread begins to give back g ...
LEMMA GiversMore ==
  ASSUME RingInv, NEW f \in Frames, NEW t \in Threads, NEW g \in Frames,
         relf[t] = NoFrame, relf' = [relf EXCEPT ![t] = g]
  PROVE  Cardinality(Givers(f)') = Cardinality(Givers(f)) + One(g = f)
<1>1. Givers(f)' = IF g = f THEN Givers(f) \cup {t} ELSE Givers(f)
  BY RingConstants DEF Givers, RingInv, RingTyped
<1>2. t \notin Givers(f)
  BY RingConstants DEF Givers
<1>3. IsFiniteSet(Givers(f)) /\ Cardinality(Givers(f)) \in Nat
  BY GiversFinite
<1> DEFINE G == Givers(f)
           H == Givers(f)'
<1>4. IsFiniteSet(G) /\ Cardinality(G) \in Nat
  BY <1>3
<1> HIDE DEF G, H
<1>5. CASE g = f
  <2>1. H = G \cup {t}
    BY <1>1, <1>5 DEF G, H
  <2>2. Cardinality(G \cup {t}) = Cardinality(G) + 1
    BY <1>2, <1>4, <1>5, FS_AddElement DEF G
  <2> QED
    BY <1>5, <2>1, <2>2 DEF G, H, One
<1>6. CASE g # f
  <2>1. H = G
    BY <1>1, <1>6 DEF G, H
  <2> QED
    BY <1>4, <1>6, <2>1 DEF G, H, One
<1> QED
  BY <1>5, <1>6

\* ... and has done so.
LEMMA GiversFewer ==
  ASSUME RingInv, NEW f \in Frames, NEW t \in Threads, NEW g \in Frames,
         relf[t] = g, relf' = [relf EXCEPT ![t] = NoFrame]
  PROVE  Cardinality(Givers(f)') = Cardinality(Givers(f)) - One(g = f)
<1>1. Givers(f)' = IF g = f THEN Givers(f) \ {t} ELSE Givers(f)
  BY RingConstants DEF Givers, RingInv, RingTyped
<1>2. g = f => t \in Givers(f)
  BY DEF Givers
<1>3. IsFiniteSet(Givers(f)) /\ Cardinality(Givers(f)) \in Nat
  BY GiversFinite
<1> DEFINE G == Givers(f)
           H == Givers(f)'
<1>4. IsFiniteSet(G) /\ Cardinality(G) \in Nat
  BY <1>3
<1> HIDE DEF G, H
<1>5. CASE g = f
  <2>1. H = G \ {t}
    BY <1>1, <1>5 DEF G, H
  <2>2. Cardinality(G \ {t}) = Cardinality(G) - 1
    BY <1>2, <1>4, <1>5, FS_RemoveElement DEF G
  <2> QED
    BY <1>5, <2>1, <2>2 DEF G, H, One
<1>6. CASE g # f
  <2>1. H = G
    BY <1>1, <1>6 DEF G, H
  <2> QED
    BY <1>4, <1>6, <2>1 DEF G, H, One
<1> QED
  BY <1>5, <1>6

LEMMA HeldIs ==
  ASSUME NEW l, NEW f
  PROVE  /\ Held(l, f) = Count(Visible(l), f) + Count(rx[l], f) + Count(batch[l], f)
                           + Count(Queued, f) + One(job = f) + Cardinality(Givers(f))
         /\ Held(l, f)' = Count(Visible(l)', f) + Count(rx'[l], f) + Count(batch'[l], f)
                           + Count(Queued', f) + One(job' = f) + Cardinality(Givers(f)')
BY CountOne DEF Held, Givers

\* The numbers that Held adds up.
LEMMA HeldTypes ==
  ASSUME RingInv, NEW l \in Lans, NEW f \in FramesOf(l)
  PROVE  /\ f \in Frames
         /\ Count(Visible(l), f) \in Nat /\ Count(rx[l], f) \in Nat
         /\ Count(batch[l], f) \in Nat /\ Count(Queued, f) \in Nat
         /\ One(job = f) \in Nat /\ Cardinality(Givers(f)) \in Nat
<1>1. f \in Frames
  BY DEF FramesOf
<1>2. Count(Visible(l), f) \in Nat
  BY VisibleSeq, PlacesFinite
<1>3. Count(rx[l], f) \in Nat /\ Count(batch[l], f) \in Nat
  BY PlacesFinite DEF RingInv, OwnFrames
<1>4. Count(Queued, f) \in Nat
  BY PlacesFinite DEF RingInv, QueueInv
<1> QED
  BY <1>1, <1>2, <1>3, <1>4, GiversFinite DEF One

\* The fill ring has room for the frames that are given back.
LEMMA Room ==
  ASSUME SafeInv, ~ clash, NEW l \in Lans
  PROVE  /\ Wrap(prod[l] - cons[l]) <= RingSize
         /\ \A t \in Threads : Gives(t, l) => Wrap(prod[l] - cons[l]) < RingSize
<1> DEFINE v == Visible(l)
           n == Wrap(prod[l] - cons[l])
           I == 0 .. RingSize - 1
           g == [i \in 1 .. n |-> v[i][2]]
<1>0. RingInv /\ RingSize \in Nat \ {0}
  BY RingConstants DEF SafeInv
<1>1. v \in Seq(FramesOf(l)) /\ Len(v) = n /\ n \in Nat
  BY <1>0, VisibleSeq
<1>2. \A i \in 1 .. n : v[i] \in FramesOf(l) /\ v[i] = <<l, v[i][2]>> /\ v[i][2] \in I
  <2> SUFFICES ASSUME NEW i \in 1 .. n
               PROVE  v[i] \in FramesOf(l) /\ v[i] = <<l, v[i][2]>> /\ v[i][2] \in I
    OBVIOUS
  <2> HIDE DEF v, n
  <2>1. v[i] \in FramesOf(l)
    BY <1>1, ElementOfSeq
  <2> QED
    BY <2>1 DEF FramesOf, Frames, LanOf
<1> HIDE DEF n
<1>3. \A i, j \in 1 .. n : v[i] = v[j] => i = j
  <2> SUFFICES ASSUME NEW i \in 1 .. n, NEW j \in 1 .. n, v[i] = v[j], i # j
               PROVE  FALSE
    OBVIOUS
  <2> DEFINE f == v[i]
  <2>1. f \in FramesOf(l)
    BY <1>2
  <2>2. Held(l, f) = 1
    BY <2>1 DEF SafeInv, OwnedInv
  <2> HIDE DEF f
  <2>3. Count(v, f) <= 1
    BY <1>0, <2>1, <2>2, HeldIs, HeldTypes
  <2>4. IsFiniteSet(Places(v, f)) /\ Count(v, f) = Cardinality(Places(v, f))
    BY <1>1, PlacesFinite
  <2>5. {i} \cup {j} \in SUBSET Places(v, f)
    BY <1>1 DEF Places, f
  <2>6. Cardinality({i} \cup {j}) = 2
    <3>1. IsFiniteSet({i}) /\ Cardinality({i}) = 1
      BY FS_Singleton
    <3> QED
      BY <3>1, FS_AddElement
  <2> QED
    BY <1>1, <2>3, <2>4, <2>5, <2>6, FS_Subset, PlacesFinite
<1>4. \A i, j \in 1 .. n : g[i] = g[j] => i = j
  BY <1>2, <1>3
<1>5. IsFiniteSet(I) /\ Cardinality(I) = RingSize
  BY <1>0, FS_Interval
<1>6. IsFiniteSet(1 .. n) /\ Cardinality(1 .. n) = n
  BY <1>1, FS_Interval
<1>7. ASSUME NEW T, g \in [1 .. n -> T], IsFiniteSet(T)
      PROVE  n <= Cardinality(T)
  <2>1. DOMAIN g = 1 .. n
    OBVIOUS
  <2> HIDE DEF g
  <2>2. g \in Injection(1 .. n, T)
    BY <1>4, <1>7, <2>1 DEF Injection, IsInjective
  <2> QED
    BY <1>6, <1>7, <2>2, FS_Injection
<1>8. g \in [1 .. n -> I]
  BY <1>2
<1>9. ASSUME NEW t \in Threads, Gives(t, l)
      PROVE  n < RingSize
  <2> DEFINE f == relf[t]
  <2>1. f \in FramesOf(l)
    BY <1>0, <1>9, Releasing DEF Gives
  <2>2. Held(l, f) = 1
    BY <2>1 DEF SafeInv, OwnedInv
  <2>3. IsFiniteSet(Givers(f)) /\ Givers(f) # {}
    BY <1>0, <2>1, GiversFinite DEF Givers, FramesOf
  <2>4. f = <<l, f[2]>> /\ f[2] \in I
    BY <2>1 DEF FramesOf, Frames, LanOf
  <2> HIDE DEF f
  <2>5. Cardinality(Givers(f)) # 0
    BY <2>3, FS_EmptySet
  <2>6. Count(v, f) = 0
    BY <1>0, <2>1, <2>2, <2>5, HeldIs, HeldTypes
  <2>7. Places(v, f) = {}
    BY <1>1, <2>6, PlacesFinite, FS_EmptySet
  <2>8. \A i \in 1 .. n : v[i] # f
    BY <1>1, <2>7 DEF Places
  <2>9. g \in [1 .. n -> I \ {f[2]}]
    BY <1>2, <2>4, <2>8
  <2>10. IsFiniteSet(I \ {f[2]}) /\ Cardinality(I \ {f[2]}) = RingSize - 1
    BY <1>5, <2>4, FS_RemoveElement
  <2>11. n <= RingSize - 1
    BY <1>7, <2>9, <2>10
  <2> QED
    BY <1>0, <1>1, <2>11
<1>10. n <= RingSize
  BY <1>5, <1>7, <1>8
<1> QED
  BY <1>9, <1>10 DEF n

-----------------------------------------------------------------------------
(***************************************************************************)
(* Every step keeps a frame where it is or moves it to one other place.    *)
(***************************************************************************)
LEMMA SameVisible ==
  ASSUME NEW l \in Lans, UNCHANGED <<fill[l], prod[l], cons[l]>>
  PROVE  Visible(l)' = Visible(l)
BY VisibleIs

\* A frame is taken by the kernel, with a packet.
LEMMA HeldArrive ==
  ASSUME SafeInv, ~ clash, NEW k \in Lans, Arrive(k), NEW l \in Lans, NEW f \in FramesOf(l)
  PROVE  Held(l, f)' = Held(l, f)
<1>0. RingInv
  BY DEF SafeInv
<1>1. UNCHANGED <<batch, job, relf, fill, prod>> /\ UNCHANGED ringVars
  BY <1>0 DEF Arrive, rxVars, wVars, fillVars, relVars
<1>2. UNCHANGED Queued /\ UNCHANGED Givers(f)
  BY <1>1, QueuedSame DEF Givers
<1>3. Count(Visible(l)', f) + Count(rx'[l], f) = Count(Visible(l), f) + Count(rx[l], f)
  <2>1. CASE l # k
    <3>1. rx'[l] = rx[l] /\ cons'[l] = cons[l]
      BY <1>0, <2>1 DEF Arrive, RingInv, RingTyped, OwnFrames
    <3>2. Visible(l)' = Visible(l)
      BY <1>1, <3>1, SameVisible
    <3> QED
      BY <3>1, <3>2
  <2>2. CASE l = k
    <3> DEFINE v == Visible(l)
               w == Visible(l)'
               h == fill[l][cons[l] % RingSize]
    <3>1. cons[l] # prod[l] /\ rx'[l] = Append(rx[l], h) /\ cons'[l] = Wrap(cons[l] + 1)
      BY <1>0, <2>2 DEF Arrive, RingInv, RingTyped, OwnFrames
    <3>2. /\ v # <<>> /\ Head(v) = h /\ w = Tail(v)
      <4>1. Wrap(prod[l] - cons[l]) <= RingSize
        BY Room
      <4>2. w = Vis(fill[l], prod[l], Wrap(cons[l] + 1)) /\ v = Vis(fill[l], prod[l], cons[l])
        BY <1>1, <3>1, VisibleIs
      <4>3. /\ prod[l] \in 0 .. 2 * RingSize - 1 /\ cons[l] \in 0 .. 2 * RingSize - 1
            /\ fill[l] \in [0 .. RingSize - 1 -> FramesOf(l)]
        BY <1>0, IndicesIn
      <4> HIDE DEF v, w, h
      <4> QED
        BY <3>1, <4>1, <4>2, <4>3, VisTake DEF h
    <3>3. v \in Seq(FramesOf(l)) /\ rx[l] \in Seq(FramesOf(l))
      BY <1>0, VisibleSeq DEF RingInv, OwnFrames
    <3> HIDE DEF v, w, h
    <3>4. h \in FramesOf(l)
      BY <3>2, <3>3, HeadTailProperties
    <3>5. Count(w, f) = Count(v, f) - One(h = f)
      BY <3>2, <3>3, CountTail
    <3>6. Count(rx'[l], f) = Count(rx[l], f) + One(h = f)
      BY <3>1, <3>3, <3>4, CountAppend
    <3>7. Count(v, f) \in Nat /\ Count(rx[l], f) \in Nat /\ One(h = f) \in Nat
      BY <3>3, PlacesFinite DEF One
    <3>8. Count(w, f) + Count(rx'[l], f) = Count(v, f) + Count(rx[l], f)
      BY <3>5, <3>6, <3>7
    <3> QED
      BY <3>8 DEF v, w
  <2> QED
    BY <2>1, <2>2
<1>4. /\ Count(batch'[l], f) = Count(batch[l], f) /\ Count(Queued', f) = Count(Queued, f)
      /\ One(job' = f) = One(job = f) /\ Cardinality(Givers(f)') = Cardinality(Givers(f))
  BY <1>1, <1>2
<1> QED
  BY <1>0, <1>3, <1>4, HeldIs, HeldTypes

\* A thread receives what has come.
LEMMA HeldRecv ==
  ASSUME SafeInv, NEW k \in Lans, Recv(k), NEW l \in Lans, NEW f \in FramesOf(l)
  PROVE  Held(l, f)' = Held(l, f)
<1>0. RingInv
  BY DEF SafeInv
<1>1. UNCHANGED <<job, relf, fill, prod, cons>> /\ UNCHANGED ringVars
  BY DEF Recv, wVars, fillVars, relVars
<1>2. UNCHANGED Queued /\ UNCHANGED Givers(f) /\ Visible(l)' = Visible(l)
  BY <1>1, QueuedSame, SameVisible DEF Givers
<1>3. /\ Count(rx'[l], f) + Count(batch'[l], f) = Count(rx[l], f) + Count(batch[l], f)
      /\ Count(rx'[l], f) \in Nat /\ Count(batch'[l], f) \in Nat
  <2>1. CASE l # k
    <3>1. rx'[l] = rx[l] /\ batch'[l] = batch[l]
      BY <1>0, <2>1 DEF Recv, RingInv, OwnFrames
    <3> QED
      BY <1>0, <3>1, HeldTypes
  <2>2. CASE l = k
    <3>1. rx[l] \in Seq(FramesOf(l)) /\ rx[l] # <<>> /\ batch[l] = <<>>
      BY <1>0, <2>2 DEF Recv, RingInv, OwnFrames, SafeInv, BatchInv
    <3>2. PICK n \in 1 .. Len(rx[l]) :
            batch'[l] = SubSeq(rx[l], 1, n) /\ rx'[l] = SubSeq(rx[l], n + 1, Len(rx[l]))
      <4>1. Len(rx[l]) \in Nat \ {0}
        BY <3>1
      <4>2. (IF Len(rx[l]) < MaxBatch THEN Len(rx[l]) ELSE MaxBatch) \in 1 .. Len(rx[l])
        BY <4>1, RingConstants
      <4> QED
        BY <1>0, <2>2, <4>2 DEF Recv, RingInv, OwnFrames
    <3>3. Count(SubSeq(rx[l], 1, n), f) + Count(SubSeq(rx[l], n + 1, Len(rx[l])), f)
            = Count(rx[l], f)
      BY <3>1, CountSplit
    <3>4. Count(batch[l], f) = 0
      BY <3>1, CountOne
    <3>5. Count(rx[l], f) \in Nat /\ Count(batch'[l], f) \in Nat /\ Count(rx'[l], f) \in Nat
      <4>1. \A i \in 1 .. Len(rx[l]) : rx[l][i] \in FramesOf(l)
        BY <3>1, ElementOfSeq
      <4>2. Len(rx[l]) \in Nat
        BY <3>1
      <4>3. /\ SubSeq(rx[l], 1, n) \in Seq(FramesOf(l))
            /\ SubSeq(rx[l], n + 1, Len(rx[l])) \in Seq(FramesOf(l))
        BY <4>1, <4>2, SubSeqProperties
      <4> QED
        BY <3>1, <3>2, <4>3, PlacesFinite
    <3> QED
      BY <3>2, <3>3, <3>4, <3>5
  <2> QED
    BY <2>1, <2>2
<1>4. /\ Count(Visible(l)', f) = Count(Visible(l), f) /\ Count(Queued', f) = Count(Queued, f)
      /\ One(job' = f) = One(job = f) /\ Cardinality(Givers(f)') = Cardinality(Givers(f))
  BY <1>1, <1>2
<1> QED
  BY <1>0, <1>3, <1>4, HeldIs, HeldTypes

\* The first frame of a batch leaves it.
LEMMA BatchFewer ==
  ASSUME RingInv, NEW k \in Lans, batch[k] # <<>>, batch' = [batch EXCEPT ![k] = Tail(@)],
         NEW l \in Lans, NEW f \in FramesOf(l)
  PROVE  Count(batch'[l], f) = Count(batch[l], f) - One(Head(batch[k]) = f)
<1>1. batch[k] \in Seq(FramesOf(k)) /\ LanOf(Head(batch[k])) = k
  BY BatchFrames DEF RingInv, OwnFrames
<1>2. CASE l = k
  BY <1>1, <1>2, CountTail DEF RingInv, OwnFrames
<1>3. CASE l # k
  <2>1. batch'[l] = batch[l] /\ Head(batch[k]) # f
    BY <1>1, <1>3 DEF RingInv, OwnFrames, FramesOf
  <2>2. Count(batch[l], f) \in Nat
    BY HeldTypes
  <2> QED
    BY <2>1, <2>2 DEF One
<1> QED
  BY <1>2, <1>3

LEMMA HeldEnqueue ==
  ASSUME SafeInv, RingTyped', NEW k \in Lans, Enqueue(k), NEW l \in Lans, NEW f \in FramesOf(l)
  PROVE  Held(l, f)' = Held(l, f)
<1>0. RingInv /\ RingTyped /\ OwnFrames
  BY DEF SafeInv, RingInv
<1>1. UNCHANGED <<rx, job, relf, fill, prod, cons>>
  BY DEF Enqueue, wVars, fillVars, relVars
<1>2. UNCHANGED Givers(f) /\ Visible(l)' = Visible(l)
  BY <1>1, SameVisible DEF Givers
<1> DEFINE h == Head(batch[k])
<1>3. Count(batch'[l], f) = Count(batch[l], f) - One(h = f)
  BY <1>0, BatchFewer DEF Enqueue, Turn
<1>4. Count(Queued', f) = Count(Queued, f) + One(h = f)
  <2>1. h \in Frames
    BY <1>0, BatchFrames DEF Enqueue, Turn
  <2>2. Queued' = Append(Queued, h)
    BY <1>0, QueuedPut DEF Enqueue
  <2>3. Queued \in Seq(Frames)
    BY <1>0 DEF RingInv, QueueInv
  <2> HIDE DEF h
  <2> QED
    BY <2>1, <2>2, <2>3, CountAppend
<1> HIDE DEF h
<1>5. One(h = f) \in Nat
  BY DEF One
<1>6. /\ Count(Visible(l)', f) = Count(Visible(l), f) /\ Count(rx'[l], f) = Count(rx[l], f)
      /\ One(job' = f) = One(job = f) /\ Cardinality(Givers(f)') = Cardinality(Givers(f))
  BY <1>1, <1>2
<1> QED
  BY <1>0, <1>3, <1>4, <1>5, <1>6, HeldIs, HeldTypes

LEMMA HeldTake ==
  ASSUME SafeInv, RingTyped', TakeJob, NEW l \in Lans, NEW f \in FramesOf(l)
  PROVE  Held(l, f)' = Held(l, f)
<1>0. RingInv /\ RingTyped /\ HandInv
  BY DEF SafeInv, RingInv
<1>1. UNCHANGED <<rx, batch, relf, fill, prod, cons>>
  BY DEF TakeJob, rxVars, fillVars, relVars
<1>2. UNCHANGED Givers(f) /\ Visible(l)' = Visible(l)
  BY <1>1, SameVisible DEF Givers
<1> DEFINE h == jobs[head]
<1>3. Count(Queued', f) = Count(Queued, f) - One(h = f)
  <2>1. Queued # <<>> /\ h = Head(Queued) /\ Queued' = Tail(Queued)
    BY <1>0, QueuedTake DEF TakeJob
  <2>2. Queued \in Seq(Frames)
    BY <1>0 DEF RingInv, QueueInv
  <2> HIDE DEF h
  <2> QED
    BY <2>1, <2>2, CountTail
<1>4. One(job' = f) = One(job = f) + One(h = f)
  <2>1. job = NoFrame /\ job' = h /\ f # NoFrame
    BY <1>0, RingConstants DEF TakeJob, HandInv, FramesOf
  <2> QED
    BY <2>1 DEF One
<1> HIDE DEF h
<1>5. One(h = f) \in Nat
  BY DEF One
<1>6. /\ Count(Visible(l)', f) = Count(Visible(l), f) /\ Count(rx'[l], f) = Count(rx[l], f)
      /\ Count(batch'[l], f) = Count(batch[l], f)
      /\ Cardinality(Givers(f)') = Cardinality(Givers(f))
  BY <1>1, <1>2
<1> QED
  BY <1>0, <1>3, <1>4, <1>5, <1>6, HeldIs, HeldTypes

\* A refused frame goes from the batch into the hands of its RX thread.
LEMMA HeldDrop ==
  ASSUME SafeInv, NEW k \in Lans, Drop(k), NEW l \in Lans, NEW f \in FramesOf(l)
  PROVE  Held(l, f)' = Held(l, f)
<1>0. RingInv /\ OwnFrames /\ HandInv
  BY DEF SafeInv, RingInv
<1>1. UNCHANGED <<rx, job, fill, prod, cons>> /\ UNCHANGED ringVars
  BY DEF Drop, wVars, fillVars
<1>2. UNCHANGED Queued /\ Visible(l)' = Visible(l)
  BY <1>1, QueuedSame, SameVisible
<1> DEFINE h == Head(batch[k])
<1>3. Count(batch'[l], f) = Count(batch[l], f) - One(h = f)
  BY <1>0, BatchFewer DEF Drop, Turn
<1>4. Cardinality(Givers(f)') = Cardinality(Givers(f)) + One(h = f)
  <2>1. h \in Frames
    BY <1>0, BatchFrames DEF Drop, Turn
  <2>2. relf[k] = NoFrame /\ relf' = [relf EXCEPT ![k] = h] /\ k \in Threads
    BY <1>0, RingConstants DEF Drop, Turn, StartRelease, HandInv
  <2>3. f \in Frames
    BY DEF FramesOf
  <2> HIDE DEF h
  <2> QED
    BY <1>0, <2>1, <2>2, <2>3, GiversMore
<1> HIDE DEF h
<1>5. One(h = f) \in Nat
  BY DEF One
<1>6. /\ Count(Visible(l)', f) = Count(Visible(l), f) /\ Count(rx'[l], f) = Count(rx[l], f)
      /\ Count(Queued', f) = Count(Queued, f) /\ One(job' = f) = One(job = f)
  BY <1>1, <1>2
<1> QED
  BY <1>0, <1>3, <1>4, <1>5, <1>6, HeldIs, HeldTypes

\* The worker has treated a packet and begins to give back its frame.
LEMMA HeldProcess ==
  ASSUME SafeInv, Process, NEW l \in Lans, NEW f \in FramesOf(l)
  PROVE  Held(l, f)' = Held(l, f)
<1>0. RingInv /\ RingTyped /\ HandInv /\ f \in Frames
  BY DEF SafeInv, RingInv, FramesOf
<1>1. UNCHANGED <<rx, batch, fill, prod, cons>> /\ UNCHANGED ringVars
  BY DEF Process, rxVars, fillVars
<1>2. UNCHANGED Queued /\ Visible(l)' = Visible(l)
  BY <1>1, QueuedSame, SameVisible
<1>3. job \in Frames /\ job' = NoFrame /\ relf[Worker] = NoFrame
  BY <1>0, RingConstants DEF Process, HandInv, RingTyped, SafeInv, WorkerInv
<1>4. Cardinality(Givers(f)') = Cardinality(Givers(f)) + One(job = f)
  <2>1. relf' = [relf EXCEPT ![Worker] = job]
    BY DEF Process, StartRelease
  <2> QED
    BY <1>0, <1>3, <2>1, GiversMore, RingConstants
<1>5. One(job' = f) = 0 /\ One(job = f) \in Nat
  BY <1>0, <1>3, RingConstants DEF One
<1>6. /\ Count(Visible(l)', f) = Count(Visible(l), f) /\ Count(rx'[l], f) = Count(rx[l], f)
      /\ Count(batch'[l], f) = Count(batch[l], f) /\ Count(Queued', f) = Count(Queued, f)
  BY <1>1, <1>2
<1> QED
  BY <1>0, <1>4, <1>5, <1>6, HeldIs, HeldTypes

\* The entry a thread writes is none the kernel may take ...
LEMMA HeldWrite ==
  ASSUME SafeInv, ~ clash, NEW t \in Threads, RelWrite(t), NEW l \in Lans, NEW f \in FramesOf(l)
  PROVE  Held(l, f)' = Held(l, f)
<1>0. RingInv /\ RingTyped /\ OwnFrames
  BY DEF SafeInv, RingInv
<1>1. UNCHANGED <<rx, batch, job, relf, prod, cons>> /\ UNCHANGED ringVars
  BY DEF RelWrite, rxVars, wVars
<1>2. UNCHANGED Queued /\ UNCHANGED Givers(f)
  BY <1>1, QueuedSame DEF Givers
<1>3. Visible(l)' = Visible(l)
  <2>1. CASE LanOf(relf[t]) # l
    <3>1. fill'[l] = fill[l]
      BY <1>0, <2>1 DEF RelWrite, OwnFrames
    <3> QED
      BY <1>1, <3>1, SameVisible
  <2>2. CASE LanOf(relf[t]) = l
    <3>1. Gives(t, l) /\ idx[t] = prod[l] /\ relf[t] \in FramesOf(l)
      BY <1>0, <2>2, Releasing DEF RelWrite, Gives, SafeInv, PhaseInv, PhaseAt, Phase
    <3>2. fill'[l] = [fill[l] EXCEPT ![prod[l] % RingSize] = relf[t]]
      BY <1>0, <2>2, <3>1 DEF RelWrite, OwnFrames
    <3>3. Wrap(prod[l] - cons[l]) < RingSize
      BY <3>1, Room
    <3>4. Vis(fill'[l], prod[l], cons[l]) = Vis(fill[l], prod[l], cons[l])
      <4> DEFINE g == fill[l]
                 h == fill'[l]
                 p == prod[l]
                 c == cons[l]
      <4>1. p \in 0 .. 2 * RingSize - 1 /\ c \in 0 .. 2 * RingSize - 1
        BY <1>0, IndicesIn
      <4>2. \A j \in 0 .. RingSize - 1 : j # p % RingSize => h[j] = g[j]
        BY <1>0, <3>2 DEF OwnFrames
      <4>3. Wrap(p - c) < RingSize
        BY <3>3
      <4> HIDE DEF g, h, p, c
      <4>4. Vis(h, p, c) = Vis(g, p, c)
        BY <4>1, <4>2, <4>3, VisKeep
      <4> QED
        BY <4>4 DEF g, h, p, c
    <3> QED
      BY <1>1, <3>2, <3>4, VisibleIs
  <2> QED
    BY <2>1, <2>2
<1> QED
  BY <1>1, <1>2, <1>3, HeldIs

\* ... and when it is submitted the frame is the kernel's.
LEMMA HeldSubmit ==
  ASSUME SafeInv, ~ clash, NEW t \in Threads, RelSubmit(t), NEW l \in Lans, NEW f \in FramesOf(l)
  PROVE  Held(l, f)' = Held(l, f)
<1>0. RingInv /\ RingTyped /\ OwnFrames /\ f \in Frames
  BY DEF SafeInv, RingInv, FramesOf
<1>1. UNCHANGED <<rx, batch, job, fill, cons>> /\ UNCHANGED ringVars
  BY DEF RelSubmit, rxVars, wVars
<1> DEFINE h == relf[t]
           k == LanOf(h)
<1>2. h \in Frames /\ k \in Lans /\ h \in FramesOf(k) /\ Gives(t, k)
  BY <1>0, Releasing DEF RelSubmit, Gives
<1>3. Cardinality(Givers(f)') = Cardinality(Givers(f)) - One(h = f)
  <2>1. relf' = [relf EXCEPT ![t] = NoFrame]
    BY DEF RelSubmit
  <2> QED
    BY <1>0, <1>2, <2>1, GiversFewer
<1>4. Count(Visible(l)', f) = Count(Visible(l), f) + One(h = f)
  <2>1. CASE k # l
    <3>1. prod'[l] = prod[l] /\ h # f
      BY <1>0, <1>2, <2>1 DEF RelSubmit, RingTyped, FramesOf
    <3>2. Visible(l)' = Visible(l)
      BY <1>1, <3>1, SameVisible
    <3>3. Count(Visible(l), f) \in Nat
      BY <1>0, HeldTypes
    <3> QED
      BY <3>1, <3>2, <3>3 DEF One
  <2>2. CASE k = l
    <3>1. idx[t] = prod[l] /\ fill[l][prod[l] % RingSize] = h
      BY <1>2, <2>2 DEF RelSubmit, SafeInv, PhaseInv, PhaseAt, Phase
    <3>2. prod'[l] = Wrap(prod[l] + 1)
      BY <1>0, <2>2, <3>1 DEF RelSubmit, RingTyped
    <3>3. Wrap(prod[l] - cons[l]) < RingSize
      BY <1>2, <2>2, Room
    <3>4. Vis(fill[l], Wrap(prod[l] + 1), cons[l]) = Append(Vis(fill[l], prod[l], cons[l]), h)
      <4> DEFINE g == fill[l]
                 p == prod[l]
                 c == cons[l]
      <4>1. /\ p \in 0 .. 2 * RingSize - 1 /\ c \in 0 .. 2 * RingSize - 1
            /\ Wrap(p - c) < RingSize /\ g[p % RingSize] = h
        BY <1>0, <3>1, <3>3, IndicesIn
      <4> HIDE DEF g, p, c, h
      <4>2. Vis(g, Wrap(p + 1), c) = Append(Vis(g, p, c), h)
        BY <4>1, VisPut
      <4> QED
        BY <4>2 DEF g, p, c
    <3>5. Visible(l)' = Append(Visible(l), h)
      BY <1>1, <3>2, <3>4, VisibleIs
    <3>6. Visible(l) \in Seq(FramesOf(l)) /\ h \in FramesOf(l)
      BY <1>0, <1>2, <2>2, VisibleSeq
    <3> HIDE DEF h
    <3> QED
      BY <3>5, <3>6, CountAppend
  <2> QED
    BY <2>1, <2>2
<1> HIDE DEF h, k
<1>5. One(h = f) \in Nat
  BY DEF One
<1>6. /\ Count(rx'[l], f) = Count(rx[l], f) /\ Count(batch'[l], f) = Count(batch[l], f)
      /\ Count(Queued', f) = Count(Queued, f) /\ One(job' = f) = One(job = f)
  BY <1>1, QueuedSame
<1> QED
  BY <1>0, <1>3, <1>4, <1>5, <1>6, HeldIs, HeldTypes

\* The other steps move no frame.
LEMMA HeldOther ==
  ASSUME UNCHANGED <<rx, batch, job, relf, fill, prod, cons>>, UNCHANGED ringVars,
         NEW l \in Lans, NEW f
  PROVE  Held(l, f)' = Held(l, f)
<1>1. UNCHANGED Queued /\ UNCHANGED Givers(f) /\ Visible(l)' = Visible(l)
  BY QueuedSame, SameVisible DEF Givers
<1> QED
  BY <1>1, HeldIs

LEMMA ClashStays ==
  ASSUME [Next]_vars, clash
  PROVE  clash'
BY RingNextCases
DEF Arrive, RxLoop, RecvNone, Recv, Enqueue, Drop, BatchDone, RelLoad, RelBump, RelWrite,
    RelCount, RelSubmit, WorkerLoop, TakeNone, TakeJob, Process, JobDone, Stop, StartRelease,
    vars, rxVars, wVars, fillVars, relVars

LEMMA OwnedInvNext == SafeInv /\ [Next]_vars => OwnedInv'
<1> SUFFICES ASSUME SafeInv, [Next]_vars, ~ clash', NEW l \in Lans, NEW f \in FramesOf(l)
             PROVE  Held(l, f)' = 1
  BY DEF OwnedInv
<1> USE DEF ringVars, rxVars, wVars, fillVars, relVars
<1>0. RingInv /\ RingTyped' /\ ~ clash
  BY RingTypedNext, ClashStays DEF SafeInv
<1>1. Held(l, f) = 1
  BY <1>0 DEF SafeInv, OwnedInv
<1>2. Held(l, f)' = Held(l, f)
  <2>1. ASSUME NEW k \in Lans, RxLoop(k) \/ RecvNone(k) \/ BatchDone(k)
        PROVE  Held(l, f)' = Held(l, f)
    BY <2>1, HeldOther DEF RxLoop, RecvNone, BatchDone
  <2>2. ASSUME NEW t \in Threads, RelLoad(t) \/ RelBump(t) \/ RelCount(t)
        PROVE  Held(l, f)' = Held(l, f)
    BY <2>2, HeldOther DEF RelLoad, RelBump, RelCount
  <2>3. CASE WorkerLoop \/ TakeNone \/ JobDone \/ Stop \/ UNCHANGED vars
    BY <2>3, HeldOther DEF WorkerLoop, TakeNone, JobDone, Stop, vars
  <2> QED
    BY <1>0, <2>1, <2>2, <2>3, RingNextCases, HeldArrive, HeldRecv, HeldEnqueue, HeldDrop,
       HeldWrite, HeldSubmit, HeldTake, HeldProcess
<1> QED
  BY <1>1, <1>2

LEMMA WorkerInvNext == SafeInv /\ [Next]_vars => WorkerInv'
<1> SUFFICES ASSUME SafeInv, [Next]_vars PROVE WorkerInv'
  OBVIOUS
<1> USE DEF ringVars, rxVars, wVars, fillVars, relVars
<1>0. WorkerInv /\ RingTyped
  BY DEF SafeInv, RingInv
<1>1. ASSUME NEW t \in Threads,
             RelLoad(t) \/ RelBump(t) \/ RelWrite(t) \/ RelCount(t) \/ RelSubmit(t)
      PROVE  WorkerInv'
  <2>1. wpc' = wpc /\ (relpc'[Worker] # "no" => relpc[Worker] # "no")
    BY <1>0, <1>1, RingConstants
    DEF RelLoad, RelBump, RelWrite, RelCount, RelSubmit, RingTyped
  <2> QED
    BY <1>0, <2>1 DEF WorkerInv
<1>2. ASSUME NEW l \in Lans, Drop(l)
      PROVE  WorkerInv'
  <2>1. wpc' = wpc /\ relpc'[Worker] = relpc[Worker]
    BY <1>0, <1>2, RingConstants DEF Drop, StartRelease, RingTyped
  <2> QED
    BY <1>0, <2>1 DEF WorkerInv
<1>3. CASE Process
  BY <1>3 DEF Process, WorkerInv
<1>4. CASE WorkerLoop \/ TakeNone \/ TakeJob \/ JobDone
  BY <1>0, <1>4 DEF WorkerLoop, TakeNone, TakeJob, JobDone, WorkerInv
<1>5. ASSUME UNCHANGED <<wpc, relpc>>
      PROVE  WorkerInv'
  BY <1>0, <1>5 DEF WorkerInv
<1> QED
  BY <1>1, <1>2, <1>3, <1>4, <1>5, RingNextCases
  DEF Arrive, RxLoop, RecvNone, Recv, Enqueue, BatchDone, Stop, vars

LEMMA BatchInvNext == SafeInv /\ [Next]_vars => BatchInv'
<1> SUFFICES ASSUME SafeInv, [Next]_vars, NEW l \in Lans, rpc'[l] # "offer"
             PROVE  batch'[l] = <<>>
  BY DEF BatchInv
<1> USE DEF ringVars, rxVars, wVars, fillVars, relVars
<1>0. RingTyped /\ OwnFrames /\ (rpc[l] # "offer" => batch[l] = <<>>)
  BY DEF SafeInv, RingInv, BatchInv
<1>1. ASSUME NEW k \in Lans, RxLoop(k) \/ RecvNone(k) \/ BatchDone(k)
      PROVE  batch'[l] = <<>>
  BY <1>0, <1>1 DEF RxLoop, RecvNone, BatchDone, RingTyped
<1>2. ASSUME NEW k \in Lans, Recv(k)
      PROVE  batch'[l] = <<>>
  BY <1>0, <1>2 DEF Recv, RingTyped, OwnFrames
<1>3. ASSUME NEW k \in Lans, Enqueue(k) \/ Drop(k)
      PROVE  batch'[l] = <<>>
  BY <1>0, <1>3 DEF Enqueue, Drop, Turn, RingTyped, OwnFrames
<1>4. ASSUME UNCHANGED rxVars
      PROVE  batch'[l] = <<>>
  BY <1>0, <1>4
<1> QED
  BY <1>1, <1>2, <1>3, <1>4, RingNextCases
  DEF Arrive, RelLoad, RelBump, RelWrite, RelCount, RelSubmit, WorkerLoop, TakeNone, TakeJob,
      Process, JobDone, Stop, vars

-----------------------------------------------------------------------------
(***************************************************************************)
(* The fill rings: who gives back a frame, and how far it is.              *)
(***************************************************************************)
\* A thread that gives back nothing begins with g ...
Starts(t, g) == /\ relpc[t] = "no" /\ g \in Frames
                /\ StartRelease(t, g) /\ UNCHANGED fillVars

\* ... goes on with what it has begun ...
Moves(t) == RelLoad(t) \/ RelBump(t) \/ RelWrite(t) \/ RelCount(t) \/ RelSubmit(t)

\* ... or does something else.
LEMMA ReleaseCases ==
  ASSUME SafeInv, [Next]_vars
  PROVE  \/ \E t \in Threads : Moves(t) \/ \E g \in Frames : Starts(t, g)
         \/ UNCHANGED relVars /\ UNCHANGED fillVars
<1> USE DEF ringVars, rxVars, wVars, fillVars, relVars
<1>0. RingTyped /\ OwnFrames /\ HandInv /\ WorkerInv
  BY DEF SafeInv, RingInv
<1>1. ASSUME NEW l \in Lans, Drop(l)
      PROVE  Starts(l, Head(batch[l])) /\ Head(batch[l]) \in Frames
  <2>1. Head(batch[l]) \in Frames
    BY <1>0, <1>1, BatchFrames DEF Drop, Turn
  <2> QED
    BY <1>1, <2>1 DEF Drop, Turn, Starts
<1>2. CASE Process
  <2>1. job \in Frames /\ relpc[Worker] = "no"
    BY <1>0, <1>2 DEF Process, HandInv, RingTyped, WorkerInv
  <2> QED
    BY <1>2, <2>1, RingConstants DEF Process, Starts
<1> QED
  BY <1>1, <1>2, RingNextCases, RingConstants
  DEF Moves, Arrive, RxLoop, RecvNone, Recv, Enqueue, BatchDone, WorkerLoop, TakeNone, TakeJob,
      JobDone, Stop, vars

\* A thread begins only if no other gives back to the same LAN, or they clash.
LEMMA StartsAlone ==
  ASSUME RingTyped, NEW t \in Threads, NEW g \in Frames, Starts(t, g), ~ clash'
  PROVE  /\ \A u \in Threads : ~ Gives(u, LanOf(g))
         /\ relpc'[t] = "load" /\ relf'[t] = g
         /\ \A u \in Threads \ {t} : UNCHANGED <<relpc[u], relf[u], idx[u]>>
BY DEF Starts, StartRelease, Gives, RingTyped

LEMMA MovesAlone ==
  ASSUME RingTyped, OwnFrames, NEW t \in Threads, Moves(t)
  PROVE  /\ Gives(t, LanOf(relf[t])) /\ UNCHANGED clash
         /\ relpc'[t] # "no" => relf'[t] = relf[t]
         /\ \A u \in Threads \ {t} : UNCHANGED <<relpc[u], relf[u], idx[u]>>
         /\ \A l \in Lans \ {LanOf(relf[t])} : UNCHANGED <<fill[l], cached[l], prod[l]>>
<1>1. ASSUME NEW u \in Threads \ {t}
      PROVE  UNCHANGED <<relpc[u], relf[u], idx[u]>>
  BY DEF Moves, RelLoad, RelBump, RelWrite, RelCount, RelSubmit, RingTyped
<1>2. ASSUME NEW l \in Lans \ {LanOf(relf[t])}
      PROVE  UNCHANGED <<fill[l], cached[l], prod[l]>>
  BY DEF Moves, RelLoad, RelBump, RelWrite, RelCount, RelSubmit, RingTyped, OwnFrames, fillVars
<1>3. relpc[t] # "no" /\ UNCHANGED clash /\ (relpc'[t] # "no" => relf'[t] = relf[t])
  BY DEF Moves, RelLoad, RelBump, RelWrite, RelCount, RelSubmit, RingTyped
<1> QED
  BY <1>1, <1>2, <1>3 DEF Gives

LEMMA SoleInvNext == SafeInv /\ [Next]_vars => SoleInv'
<1> SUFFICES ASSUME SafeInv, [Next]_vars, ~ clash'
             PROVE  SoleInv'
  BY DEF SoleInv
<1>0. RingTyped /\ OwnFrames /\ ~ clash /\ SoleInv
  BY ClashStays DEF SafeInv, RingInv
<1>1. ASSUME NEW t \in Threads, NEW g \in Frames, Starts(t, g)
      PROVE  SoleInv'
  BY <1>0, <1>1, StartsAlone DEF SoleInv, Gives
<1>2. ASSUME NEW t \in Threads, Moves(t)
      PROVE  SoleInv'
  BY <1>0, <1>2, MovesAlone DEF SoleInv, Gives
<1>3. CASE UNCHANGED relVars
  BY <1>0, <1>3 DEF SoleInv, relVars
<1> QED
  BY <1>1, <1>2, <1>3, ReleaseCases

LEMMA PhaseSame ==
  ASSUME NEW l, PhaseAt(l), UNCHANGED <<fill[l], cached[l], prod[l]>>,
         \A t \in Threads : Gives(t, l) \/ Gives(t, l)' => UNCHANGED <<relpc[t], relf[t], idx[t]>>
  PROVE  PhaseAt(l)'
<1>1. ASSUME NEW t \in Threads
      PROVE  Gives(t, l)' = Gives(t, l)
  BY DEF Gives
<1>2. ASSUME NEW t \in Threads, Gives(t, l)'
      PROVE  Phase(t, l)'
  <2>1. Phase(t, l) /\ UNCHANGED <<relpc[t], relf[t], idx[t]>>
    BY <1>1, <1>2 DEF PhaseAt
  <2> QED
    BY <2>1 DEF Phase
<1> QED
  BY <1>1, <1>2 DEF PhaseAt

LEMMA PhaseInvNext == SafeInv /\ [Next]_vars => PhaseInv'
<1> SUFFICES ASSUME SafeInv, [Next]_vars, ~ clash', NEW l \in Lans
             PROVE  PhaseAt(l)'
  BY DEF PhaseInv
<1>0. RingInv /\ RingTyped /\ OwnFrames /\ ~ clash /\ SoleInv /\ PhaseAt(l)
  BY ClashStays DEF SafeInv, RingInv, PhaseInv
<1>1. ASSUME NEW t \in Threads, NEW g \in Frames, Starts(t, g)
      PROVE  PhaseAt(l)'
  <2>1. UNCHANGED <<fill[l], cached[l], prod[l]>>
    BY <1>1 DEF Starts, fillVars
  <2>2. /\ \A u \in Threads : ~ Gives(u, LanOf(g))
        /\ relpc[t] = "no" /\ relpc'[t] = "load" /\ relf'[t] = g
        /\ \A u \in Threads \ {t} : UNCHANGED <<relpc[u], relf[u], idx[u]>>
    BY <1>0, <1>1, StartsAlone DEF Starts
  <2>3. CASE LanOf(g) = l
    <3>1. cached'[l] = prod'[l]
      BY <1>0, <2>1, <2>2, <2>3 DEF PhaseAt
    <3>2. \A u \in Threads : Gives(u, l)' => u = t
      BY <2>2, <2>3 DEF Gives
    <3>3. Phase(t, l)'
      BY <2>2, <3>1 DEF Phase
    <3> QED
      BY <3>1, <3>2, <3>3 DEF PhaseAt
  <2>4. CASE LanOf(g) # l
    <3>1. ~ Gives(t, l) /\ ~ Gives(t, l)'
      BY <2>2, <2>4 DEF Gives
    <3> QED
      BY <1>0, <2>1, <2>2, <3>1, PhaseSame
  <2> QED
    BY <2>3, <2>4
<1>2. ASSUME NEW t \in Threads, Moves(t)
      PROVE  PhaseAt(l)'
  <2>1. /\ Gives(t, LanOf(relf[t]))
        /\ relpc'[t] # "no" => relf'[t] = relf[t]
        /\ \A u \in Threads \ {t} : UNCHANGED <<relpc[u], relf[u], idx[u]>>
        /\ \A k \in Lans \ {LanOf(relf[t])} : UNCHANGED <<fill[k], cached[k], prod[k]>>
    BY <1>0, <1>2, MovesAlone
  <2>2. CASE LanOf(relf[t]) # l
    <3>1. ~ Gives(t, l) /\ ~ Gives(t, l)'
      BY <2>1, <2>2 DEF Gives
    <3> QED
      BY <1>0, <2>1, <2>2, <3>1, PhaseSame
  <2>3. CASE LanOf(relf[t]) = l
    <3>1. Gives(t, l) /\ Phase(t, l)
      BY <1>0, <2>1, <2>3 DEF PhaseAt
    <3>2. \A u \in Threads \ {t} : ~ Gives(u, l) /\ ~ Gives(u, l)'
      BY <1>0, <2>1, <3>1 DEF SoleInv, Gives
    <3>3. /\ Gives(t, l)' => Phase(t, l)'
          /\ ~ Gives(t, l)' => cached'[l] = prod'[l]
      <4>1. CASE RelLoad(t)
        BY <1>0, <2>3, <3>1, <4>1 DEF RelLoad, Phase, Gives, RingTyped, fillVars
      <4>2. CASE RelBump(t)
        BY <1>0, <2>3, <3>1, <4>2 DEF RelBump, Phase, Gives, RingTyped
      <4>3. CASE RelWrite(t)
        <5>1. prod[l] % RingSize \in 0 .. RingSize - 1
          BY <1>0, <2>1, <2>3, <3>1, <4>3, Releasing DEF RelWrite, Phase, Gives
        <5>2. fill'[l][prod[l] % RingSize] = relf[t]
          BY <1>0, <2>3, <3>1, <4>3, <5>1 DEF RelWrite, Phase, Gives, OwnFrames
        <5> QED
          BY <1>0, <2>3, <3>1, <4>3, <5>2 DEF RelWrite, Phase, Gives, RingTyped
      <4>4. CASE RelCount(t)
        BY <1>0, <2>3, <3>1, <4>4 DEF RelCount, Phase, Gives, RingTyped, fillVars
      <4>5. CASE RelSubmit(t)
        BY <1>0, <2>3, <3>1, <4>5 DEF RelSubmit, Phase, Gives, RingTyped
      <4> QED
        BY <1>2, <4>1, <4>2, <4>3, <4>4, <4>5 DEF Moves
    <3> QED
      BY <3>2, <3>3 DEF PhaseAt
  <2> QED
    BY <2>2, <2>3
<1>3. CASE UNCHANGED relVars /\ UNCHANGED fillVars
  <2>1. UNCHANGED <<fill[l], cached[l], prod[l]>>
    BY <1>3 DEF fillVars
  <2>2. \A t \in Threads : UNCHANGED <<relpc[t], relf[t], idx[t]>>
    BY <1>3 DEF relVars
  <2> QED
    BY <1>0, <2>1, <2>2, PhaseSame
<1> QED
  BY <1>1, <1>2, <1>3, ReleaseCases

-----------------------------------------------------------------------------
(***************************************************************************)
(* Frames are safe.                                                        *)
(***************************************************************************)
\* At first the kernel has every frame of a LAN, and nobody else has one.
LEMMA HeldFirst ==
  ASSUME Init, RingInv, NEW l \in Lans, NEW f \in FramesOf(l)
  PROVE  Held(l, f) = 1
<1> DEFINE v == Visible(l)
<1>0. RingSize \in Nat \ {0} /\ l \in Lans
  BY RingConstants
<1>1. PICK k \in 0 .. RingSize - 1 : f = <<l, k>>
  BY DEF FramesOf, Frames, LanOf
<1>2. v = [i \in 1 .. RingSize |-> <<l, i - 1>>]
  <2>1. prod[l] = RingSize /\ cons[l] = 0 /\ fill[l] = [i \in 0 .. RingSize - 1 |-> <<l, i>>]
    BY DEF Init
  <2>2. RingSize \in 0 .. 2 * RingSize - 1 /\ 0 \in 0 .. 2 * RingSize - 1
    BY <1>0
  <2>3. Wrap(RingSize - 0) = RingSize
    <3> DEFINE n == 2 * RingSize
    <3>1. n \in Nat \ {0} /\ RingSize \in 0 .. n - 1
      BY <1>0
    <3> HIDE DEF n
    <3>2. RingSize % n = RingSize
      BY <3>1, ModNone
    <3> QED
      BY <1>0, <3>2 DEF n, Wrap
  <2>4. Vis(fill[l], RingSize, 0) = [i \in 1 .. RingSize |-> fill[l][Pos(0 + i - 1)]]
    BY <1>0, <2>2, <2>3, VisIs
  <2>5. \A i \in 1 .. RingSize : fill[l][Pos(0 + i - 1)] = <<l, i - 1>>
    BY <1>0, <2>1 DEF Pos
  <2> QED
    BY <2>1, <2>4, <2>5, VisibleIs
<1>3. Count(v, f) = 1
  <2>1. v \in Seq(FramesOf(l))
    BY VisibleSeq
  <2>2. Places(v, f) = {k + 1}
    BY <1>0, <1>1, <1>2 DEF Places
  <2>3. Cardinality({k + 1}) = 1
    BY FS_Singleton
  <2> HIDE DEF v
  <2>4. Count(v, f) = Cardinality(Places(v, f))
    BY <2>1, PlacesFinite
  <2> QED
    BY <2>2, <2>3, <2>4
<1>4. Count(rx[l], f) = 0 /\ Count(batch[l], f) = 0
  BY CountOne DEF Init
<1>5. Queued = <<>> /\ Count(Queued, f) = 0
  <2>1. Queued = [i \in 1 .. 0 |-> jobs[SlotAt(head, i)]]
    BY QueuedIs, RingConstants DEF Init, Jobs, RingInv
  <2>2. Queued = <<>>
    BY <2>1
  <2> QED
    BY <2>2, CountOne
<1>6. f # NoFrame
  BY RingConstants DEF FramesOf
<1>7. One(job = f) = 0
  BY <1>6 DEF Init, One
<1>8. Cardinality(Givers(f)) = 0
  <2>1. Givers(f) = {}
    BY <1>6 DEF Init, Givers
  <2> QED
    BY <2>1, FS_EmptySet
<1> QED
  BY <1>3, <1>4, <1>5, <1>7, <1>8, HeldIs

LEMMA SafeInit == Init => SafeInv
<1> SUFFICES ASSUME Init PROVE SafeInv
  OBVIOUS
<1>1. RingInv
  BY RingInit
<1>2. \A t \in Threads : relpc[t] = "no"
  BY DEF Init
<1>3. SoleInv /\ WorkerInv
  BY <1>2, RingConstants DEF SoleInv, WorkerInv
<1>4. PhaseInv
  BY <1>2 DEF Init, PhaseInv, PhaseAt, Gives
<1>5. BatchInv
  BY DEF Init, BatchInv
<1>6. OwnedInv
  BY <1>1, HeldFirst DEF OwnedInv
<1> QED
  BY <1>1, <1>3, <1>4, <1>5, <1>6 DEF SafeInv

LEMMA SafeNext == SafeInv /\ [Next]_vars => SafeInv'
<1>1. SafeInv /\ [Next]_vars => RingInv'
  BY RingNext DEF SafeInv
<1> QED
  BY <1>1, SoleInvNext, PhaseInvNext, WorkerInvNext, BatchInvNext, OwnedInvNext DEF SafeInv

\* A frame is in one place, of a LAN that has as many frames as its fill ring
\* has entries, and no entry is shown to the kernel before it is written: what
\* RX thread and worker rely on when they give back frames without a lock.
THEOREM FramesAreSafe == Spec => []FramesSafe
<1>1. SafeInv => FrameOwned
  <2> SUFFICES ASSUME SafeInv, ~ clash, NEW l \in Lans, NEW i \in 0 .. RingSize - 1
               PROVE  Held(l, <<l, i>>) = 1
    BY DEF FrameOwned
  <2>1. <<l, i>> \in FramesOf(l)
    BY DEF FramesOf, Frames, LanOf
  <2> QED
    BY <2>1 DEF SafeInv, OwnedInv
<1>2. SafeInv => WrittenBeforeShown
  <2> SUFFICES ASSUME SafeInv, ~ clash, NEW t \in Threads, relpc[t] = "write"
               PROVE  LET l == LanOf(relf[t])
                      IN  Wrap(idx[t] - cons[l]) >= Wrap(prod[l] - cons[l])
    BY DEF WrittenBeforeShown
  <2> DEFINE l == LanOf(relf[t])
  <2>1. l \in Lans /\ RingInv
    BY Releasing DEF SafeInv
  <2>2. idx[t] = prod[l]
    BY <2>1 DEF SafeInv, PhaseInv, PhaseAt, Phase, Gives
  <2>3. Wrap(prod[l] - cons[l]) \in Nat
    BY <2>1, VisibleSeq
  <2> QED
    BY <2>2, <2>3
<1>3. SafeInv => FramesSafe
  BY <1>1, <1>2 DEF FramesSafe
<1> QED
  BY <1>3, SafeInit, SafeNext, PTL DEF Spec

-----------------------------------------------------------------------------
(***************************************************************************)
(* Why the packet threads end: a thread that finds running = 0 only where  *)
(* its loop starts has a bounded number of steps to go there.              *)
(***************************************************************************)
\* The steps of giving back a frame, of an RX thread's loop and of the
\* worker's; a frame of a batch costs seven steps at most.
RelLeft    == [no |-> 0, submit |-> 1, count |-> 2, write |-> 3, bump |-> 4, load |-> 5]
RxLeft     == [done |-> 0, top |-> 1, offer |-> 2, recv |-> 3 + 7 * MaxBatch]
WorkerLeft == [done |-> 0, top |-> 1, release |-> 2, work |-> 8, take |-> 9]

\* What a thread still has to do once running is 0.
StepsLeft(t) ==
  IF t = Worker
  THEN WorkerLeft[wpc] + RelLeft[relpc[t]]
  ELSE RxLeft[rpc[t]] + 7 * Len(batch[t]) + RelLeft[relpc[t]]

Place(t) == <<relpc[t], IF t = Worker THEN <<wpc>> ELSE <<rpc[t], batch[t]>> >>

\* Once the forwarder is stopped it stays so, and every step of a thread, in
\* whatever order they come, is one step less that the thread has to do.
StopAdvances ==
  ~ running =>
    /\ ~ running'
    /\ \A t \in Threads : UNCHANGED Place(t) \/ StepsLeft(t)' < StepsLeft(t)

LEMMA LeftTyped ==
  ASSUME RingTyped
  PROVE  /\ \A t \in Threads : RelLeft[relpc[t]] \in 0 .. 5
         /\ \A l \in Lans : RxLeft[rpc[l]] \in Nat
         /\ WorkerLeft[wpc] \in Nat
BY RingConstants DEF RingTyped, RxPlaces, RelPlaces, RelLeft, RxLeft, WorkerLeft

LEMMA BatchLength ==
  ASSUME OwnFrames, NEW l \in Lans
  PROVE  /\ Len(batch[l]) \in Nat
         /\ batch[l] # <<>> => Len(Tail(batch[l])) = Len(batch[l]) - 1
BY HeadTailProperties DEF OwnFrames

\* An RX thread other than the one that steps.
LEMMA RxOnly ==
  ASSUME RingInv, NEW l \in Lans,
         RxLoop(l) \/ RecvNone(l) \/ Recv(l) \/ Enqueue(l) \/ Drop(l) \/ BatchDone(l)
  PROVE  \A t \in Threads \ {l} : UNCHANGED Place(t)
<1> SUFFICES ASSUME NEW t \in Threads \ {l} PROVE UNCHANGED Place(t)
  OBVIOUS
<1>0. RingTyped /\ DOMAIN batch = Lans /\ l # Worker /\ (t = Worker \/ t \in Lans)
  BY RingConstants DEF RingInv, OwnFrames, Threads
<1>1. UNCHANGED relpc[t] /\ UNCHANGED wpc
  BY <1>0
  DEF RxLoop, RecvNone, Recv, Enqueue, Drop, BatchDone, StartRelease, RingTyped, wVars, relVars
<1>2. t \in Lans => UNCHANGED rpc[t]
  BY <1>0 DEF RxLoop, RecvNone, Recv, Enqueue, Drop, BatchDone, RingTyped, rxVars
<1>3. t \in Lans => UNCHANGED batch[t]
  BY <1>0 DEF RxLoop, RecvNone, Recv, Enqueue, Drop, BatchDone
<1> QED
  BY <1>0, <1>1, <1>2, <1>3 DEF Place

LEMMA Fewer ==
  ASSUME NEW a \in Nat, NEW b \in Nat, NEW c \in 0 .. 5,
         NEW x \in Nat, NEW y \in Nat, NEW z \in 0 .. 5,
         \/ x < a /\ y = b /\ z = c
         \/ x = a /\ y = b /\ z < c
         \/ x = a /\ y = b - 1
         \/ x + 7 * y < a /\ z = c
  PROVE  x + 7 * y + z < a + 7 * b + c
OBVIOUS

LEMMA RxAdvances ==
  ASSUME RingInv, ~ running, NEW l \in Lans,
         RxLoop(l) \/ RecvNone(l) \/ Recv(l) \/ Enqueue(l) \/ Drop(l) \/ BatchDone(l)
  PROVE  StepsLeft(l)' < StepsLeft(l)
<1> USE DEF ringVars, rxVars, wVars, fillVars, relVars
<1>0. /\ RingTyped /\ OwnFrames /\ l \in Threads /\ l # Worker
      /\ Len(batch[l]) \in Nat /\ RelLeft[relpc[l]] \in 0 .. 5 /\ MaxBatch \in Nat \ {0}
  BY RingConstants, LeftTyped, BatchLength DEF RingInv
<1>a. /\ StepsLeft(l) = RxLeft[rpc[l]] + 7 * Len(batch[l]) + RelLeft[relpc[l]]
      /\ StepsLeft(l)' = RxLeft[rpc'[l]] + 7 * Len(batch'[l]) + RelLeft[relpc'[l]]
  BY <1>0 DEF StepsLeft, RxLeft, RelLeft
<1>1. CASE RxLoop(l) \/ RecvNone(l) \/ BatchDone(l)
  <2>1. \/ rpc[l] = "top" /\ rpc'[l] = "done"
        \/ rpc[l] = "recv" /\ rpc'[l] = "top"
        \/ rpc[l] = "offer" /\ rpc'[l] = "top"
    BY <1>0, <1>1 DEF RxLoop, RecvNone, BatchDone, RingTyped
  <2>2. UNCHANGED <<batch, relpc>>
    BY <1>1 DEF RxLoop, RecvNone, BatchDone
  <2>3. RxLeft[rpc'[l]] \in Nat /\ RxLeft[rpc'[l]] < RxLeft[rpc[l]] /\ RxLeft[rpc[l]] \in Nat
    BY <1>0, <2>1 DEF RxLeft
  <2>4. Len(batch'[l]) = Len(batch[l]) /\ RelLeft[relpc'[l]] = RelLeft[relpc[l]]
    BY <2>2
  <2>5. Len(batch'[l]) \in Nat /\ RelLeft[relpc'[l]] \in 0 .. 5
    BY <1>0, <2>4
  <2>6. RxLeft[rpc'[l]] + 7 * Len(batch'[l]) + RelLeft[relpc'[l]]
          < RxLeft[rpc[l]] + 7 * Len(batch[l]) + RelLeft[relpc[l]]
    BY <1>0, <2>3, <2>4, <2>5, Fewer
  <2> QED
    BY <1>a, <2>6
<1>2. CASE Recv(l)
  <2> DEFINE n == IF Len(rx[l]) < MaxBatch THEN Len(rx[l]) ELSE MaxBatch
  <2>1. n \in 0 .. Len(rx[l]) /\ n <= MaxBatch /\ rx[l] \in Seq(FramesOf(l))
    BY <1>0 DEF OwnFrames
  <2>2. Len(SubSeq(rx[l], 1, n)) = n
    BY <2>1
  <2>3. batch'[l] = SubSeq(rx[l], 1, n) /\ rpc[l] = "recv" /\ rpc'[l] = "offer"
        /\ relpc' = relpc
    BY <1>0, <1>2 DEF Recv, RingTyped, OwnFrames
  <2> HIDE DEF n
  <2>4. RxLeft[rpc[l]] = 3 + 7 * MaxBatch /\ RxLeft[rpc'[l]] = 2
    BY <2>3 DEF RxLeft
  <2>5. Len(batch'[l]) = n /\ RelLeft[relpc'[l]] = RelLeft[relpc[l]]
    BY <2>2, <2>3
  <2>6. n \in Nat /\ 2 + 7 * n < 3 + 7 * MaxBatch
    BY <1>0, <2>1
  <2>7. 3 + 7 * MaxBatch \in Nat
    BY <1>0
  <2>8. Len(batch'[l]) \in Nat /\ RelLeft[relpc'[l]] \in 0 .. 5
    BY <1>0, <2>5, <2>6
  <2>9. RxLeft[rpc'[l]] + 7 * Len(batch'[l]) + RelLeft[relpc'[l]]
          < RxLeft[rpc[l]] + 7 * Len(batch[l]) + RelLeft[relpc[l]]
    BY <1>0, <2>4, <2>5, <2>6, <2>7, <2>8, Fewer
  <2> QED
    BY <1>a, <2>9
<1>3. CASE Enqueue(l)
  <2>1. batch[l] # <<>> /\ batch'[l] = Tail(batch[l]) /\ UNCHANGED <<rpc, relpc>>
    BY <1>0, <1>3 DEF Enqueue, Turn, OwnFrames
  <2>2. Len(batch'[l]) = Len(batch[l]) - 1
    BY <1>0, <2>1, BatchLength
  <2>3. RxLeft[rpc[l]] \in Nat
    BY <1>0, LeftTyped
  <2>4. RxLeft[rpc'[l]] = RxLeft[rpc[l]] /\ RelLeft[relpc'[l]] = RelLeft[relpc[l]]
    BY <2>1
  <2>5. Len(batch'[l]) \in Nat
    BY <1>0, <2>1, <2>2, HeadTailProperties DEF OwnFrames
  <2> QED
    BY <1>0, <1>a, <2>2, <2>3, <2>4, <2>5, Fewer
<1>4. CASE Drop(l)
  <2>1. /\ batch[l] # <<>> /\ batch'[l] = Tail(batch[l]) /\ UNCHANGED rpc
        /\ relpc[l] = "no" /\ relpc'[l] = "load"
    BY <1>0, <1>4 DEF Drop, Turn, StartRelease, OwnFrames, RingTyped
  <2>2. Len(batch'[l]) = Len(batch[l]) - 1
    BY <1>0, <2>1, BatchLength
  <2>3. RxLeft[rpc[l]] \in Nat
    BY <1>0, LeftTyped
  <2> QED
    BY <1>0, <1>a, <2>1, <2>2, <2>3 DEF RelLeft
<1> QED
  BY <1>1, <1>2, <1>3, <1>4

LEMMA ReleaseAdvances ==
  ASSUME RingInv, NEW t \in Threads, Moves(t)
  PROVE  /\ StepsLeft(t)' < StepsLeft(t)
         /\ \A u \in Threads \ {t} : UNCHANGED Place(u)
<1> USE DEF ringVars, rxVars, wVars, fillVars, relVars
<1>1. /\ RelLeft[relpc'[t]] < RelLeft[relpc[t]] /\ UNCHANGED <<wpc, rpc, batch>>
      /\ RelLeft[relpc'[t]] \in 0 .. 5 /\ RelLeft[relpc[t]] \in 0 .. 5
  BY DEF Moves, RelLoad, RelBump, RelWrite, RelCount, RelSubmit, RelLeft, RingInv, RingTyped
<1>2. t = Worker \/ t \in Lans
  BY DEF Threads
<1>3. StepsLeft(t)' < StepsLeft(t)
  <2>1. RingTyped /\ OwnFrames
    BY DEF RingInv
  <2>2. CASE t = Worker
    <3>1. WorkerLeft[wpc] \in Nat
      BY <2>1, LeftTyped
    <3>2. /\ StepsLeft(t) = WorkerLeft[wpc] + RelLeft[relpc[t]]
          /\ StepsLeft(t)' = WorkerLeft[wpc'] + RelLeft[relpc'[t]]
      BY <2>2 DEF StepsLeft, WorkerLeft, RelLeft
    <3> QED
      BY <1>1, <3>1, <3>2
  <2>3. CASE t \in Lans
    <3>1. Len(batch[t]) \in Nat /\ RxLeft[rpc[t]] \in Nat
      BY <2>1, <2>3, LeftTyped, BatchLength
    <3>2. /\ StepsLeft(t) = RxLeft[rpc[t]] + 7 * Len(batch[t]) + RelLeft[relpc[t]]
          /\ StepsLeft(t)' = RxLeft[rpc'[t]] + 7 * Len(batch'[t]) + RelLeft[relpc'[t]]
      BY <2>3, RingConstants DEF StepsLeft, RxLeft, RelLeft
    <3>3. Len(batch'[t]) = Len(batch[t]) /\ RxLeft[rpc'[t]] = RxLeft[rpc[t]]
      BY <1>1
    <3> QED
      BY <1>1, <3>1, <3>2, <3>3, Fewer
  <2> QED
    BY <1>2, <2>2, <2>3
<1>4. ASSUME NEW u \in Threads \ {t}
      PROVE  UNCHANGED Place(u)
  <2>1. UNCHANGED relpc[u]
    BY DEF Moves, RelLoad, RelBump, RelWrite, RelCount, RelSubmit, RingInv, RingTyped
  <2> QED
    BY <1>1, <2>1 DEF Place
<1> QED
  BY <1>3, <1>4

LEMMA WorkerAdvances ==
  ASSUME RingInv, ~ running, WorkerLoop \/ TakeNone \/ TakeJob \/ Process \/ JobDone
  PROVE  /\ StepsLeft(Worker)' < StepsLeft(Worker)
         /\ \A t \in Threads \ {Worker} : UNCHANGED Place(t)
<1> USE DEF ringVars, rxVars, wVars, fillVars, relVars
<1>0. RingTyped /\ Worker \in Threads /\ RelLeft[relpc[Worker]] \in 0 .. 5
  BY RingConstants, LeftTyped DEF RingInv
<1>1. CASE Process
  <2>1. wpc = "work" /\ wpc' = "release" /\ relpc'[Worker] = "load"
    BY <1>0, <1>1 DEF Process, StartRelease, RingTyped
  <2>2. \A t \in Threads \ {Worker} : UNCHANGED <<relpc[t], rpc, batch>>
    BY <1>0, <1>1 DEF Process, StartRelease, RingTyped
  <2> QED
    BY <1>0, <2>1, <2>2 DEF StepsLeft, RelLeft, WorkerLeft, Place
<1>2. CASE WorkerLoop \/ TakeNone \/ TakeJob \/ JobDone
  BY <1>0, <1>2
  DEF WorkerLoop, TakeNone, TakeJob, JobDone, StepsLeft, WorkerLeft, Place
<1> QED
  BY <1>1, <1>2

(***************************************************************************)
(* ThreadsEnd without the scheduler: after forwarder_stop() an RX thread   *)
(* has its batch left, and the worker its job (forwarder.c:1415-1455,      *)
(* 1999-2271); neither waits for the other, and a full or a busy ring      *)
(* gives them nothing more to do.                                          *)
(***************************************************************************)
THEOREM ThreadsRunOut == Spec => [][StopAdvances]_vars
<1>1. RingInv /\ [Next]_vars => [StopAdvances]_vars
  <2> SUFFICES ASSUME RingInv, [Next]_vars, ~ running
               PROVE  StopAdvances
    BY DEF StopAdvances
  <2> USE DEF ringVars, rxVars, wVars, fillVars, relVars
  <2>1. ~ running'
    BY RingNextCases
    DEF Arrive, RxLoop, RecvNone, Recv, Enqueue, Drop, BatchDone, RelLoad, RelBump, RelWrite,
        RelCount, RelSubmit, WorkerLoop, TakeNone, TakeJob, Process, JobDone, Stop, vars
  <2>2. ASSUME NEW l \in Lans,
               RxLoop(l) \/ RecvNone(l) \/ Recv(l) \/ Enqueue(l) \/ Drop(l) \/ BatchDone(l)
        PROVE  \A t \in Threads : UNCHANGED Place(t) \/ StepsLeft(t)' < StepsLeft(t)
    BY <2>2, RxOnly, RxAdvances
  <2>3. ASSUME NEW t \in Threads, Moves(t)
        PROVE  \A u \in Threads : UNCHANGED Place(u) \/ StepsLeft(u)' < StepsLeft(u)
    BY <2>3, ReleaseAdvances
  <2>4. ASSUME WorkerLoop \/ TakeNone \/ TakeJob \/ Process \/ JobDone
        PROVE  \A t \in Threads : UNCHANGED Place(t) \/ StepsLeft(t)' < StepsLeft(t)
    BY <2>4, WorkerAdvances
  <2>5. ASSUME UNCHANGED <<relpc, wpc, rpc, batch>>
        PROVE  \A t \in Threads : UNCHANGED Place(t)
    BY <2>5 DEF Place
  <2>6. \/ \E l \in Lans :
             RxLoop(l) \/ RecvNone(l) \/ Recv(l) \/ Enqueue(l) \/ Drop(l) \/ BatchDone(l)
        \/ \E t \in Threads : Moves(t)
        \/ WorkerLoop \/ TakeNone \/ TakeJob \/ Process \/ JobDone
        \/ UNCHANGED <<relpc, wpc, rpc, batch>>
    BY RingNextCases DEF Moves, Arrive, Stop, vars
  <2> QED
    BY <2>1, <2>2, <2>3, <2>4, <2>5, <2>6 DEF StopAdvances
<1> QED
  BY <1>1, RingAlways, PTL DEF Spec
=============================================================================
