--------------------------- MODULE WanPathProofs ----------------------------
(***************************************************************************)
(* Proofs about the two halves of the way of a packet to a WAN: the        *)
(* choices of PacketChoice and the sending of WanSend, for any number of   *)
(* connections, policies, configurations, threads, WANs and time limits.   *)
(***************************************************************************)
EXTENDS PacketChoice, WanSend, FiniteSetTheorems, SequenceTheorems, WellFoundedInduction,
        TLAPS

(***************************************************************************)
(* The pins.  The inductive invariant says how old a pin can be at most    *)
(* while the peer is heard of, that the policy it names can be used as     *)
(* long as encryption is on, and that no packet is under way while it is   *)
(* off.                                                                    *)
(***************************************************************************)
Pins    == [pol : Policies, age : Ages]
Works   == [at : {"idle", "lookup", "set", "fin"}, conn : Conns \cup {NoPin},
            fin : BOOLEAN, pol : Policies \cup {NoPolicy}, read : 0 .. Skew]
Tolds   == [pol : Policies \cup {NoPolicy}, idle : 0 .. Timeout]
RxWorks == [at : {"idle", "set"}, conn : Conns \cup {NoPin},
            pol : Policies \cup {NoPolicy}, read : 0 .. Skew]

\* What the packets under way need of the configuration.
BusyInv ==
  /\ work.at # "idle" => tables.crypt /\ work.conn \in Conns
  /\ work.at \in {"set", "fin"} => work.pol \in Policies /\ Usable(work.pol)
  /\ \A t \in Rxs : rx[t].at = "set" =>
       tables.crypt /\ rx[t].conn \in Conns /\ rx[t].pol \in tables.ready

\* The pin of a connection whose peer has been heard of.
PinInv ==
  \A c \in Conns : told[c].pol # NoPolicy =>
    /\ pins[c] # NoPin /\ pins[c].pol = told[c].pol
    /\ pins[c].age <= told[c].idle + Skew /\ told[c].idle <= Timeout - Skew
    /\ tables.crypt => Usable(told[c].pol)

ChoiceInv == TypeOK /\ BusyInv /\ PinInv

-----------------------------------------------------------------------------
LEMMA Constants ==
  /\ Skew \in Nat /\ Timeout \in Nat /\ Timeout > Skew /\ MaxAge \in Nat
  /\ NoPin \notin Pins
  /\ 0 .. Skew \subseteq Ages /\ 0 \in 0 .. Skew /\ 0 \in 0 .. Timeout
  /\ \A b \in Tables : /\ b.crypt \in BOOLEAN
                       /\ b.sel \in [Conns -> Policies \cup {NoPolicy}]
                       /\ b.bypass \subseteq Policies /\ b.ready \subseteq Policies
                       /\ b.l3 \cup b.l4 \subseteq b.ready
<1>1. /\ Skew \in Nat /\ Timeout \in Nat /\ Timeout > Skew /\ MaxAge \in Nat
      /\ Ages = 0 .. MaxAge /\ Skew <= MaxAge
  BY TimeAssumption DEF MaxAge, Ages
<1>2. NoPin \notin Pins
  BY <1>1, PinAssumption DEF Pins
<1> QED
  BY <1>1, <1>2, TablesAssumption

LEMMA PinAged ==
  ASSUME NEW e \in Pins, NEW a \in Ages
  PROVE  /\ [e EXCEPT !.age = a] \in Pins
         /\ [e EXCEPT !.age = a].pol = e.pol /\ [e EXCEPT !.age = a].age = a
<1>1. [e EXCEPT !.age = a] \in Pins
  BY Zenon DEF Pins
<1>2. DOMAIN e = {"pol", "age"}
  BY DEF Pins
<1> QED
  BY <1>1, <1>2

\* The peer's policy stays known when the worker's packet uses it too.
LEMMA HeardIs ==
  ASSUME told \in [Conns -> Tolds], NEW c \in Conns, NEW pol
  PROVE  /\ Heard(c, pol) \in Tolds
         /\ Heard(c, pol).pol # NoPolicy =>
              Heard(c, pol).pol = pol /\ told[c].pol = pol /\ Heard(c, pol).idle = 0
<1>1. told[c] \in Tolds /\ DOMAIN told[c] = {"pol", "idle"} /\ 0 \in 0 .. Timeout
  BY Constants DEF Tolds
<1>2. [told[c] EXCEPT !.idle = 0] \in Tolds
  BY <1>1, Zenon DEF Tolds
<1>3. [told[c] EXCEPT !.idle = 0].pol = told[c].pol /\ [told[c] EXCEPT !.idle = 0].idle = 0
  BY <1>1
<1>4. NoTold \in Tolds /\ NoTold.pol = NoPolicy
  BY <1>1 DEF NoTold, Tolds
<1> QED
  BY <1>2, <1>3, <1>4 DEF Heard

LEMMA SeqTyped ==
  ASSUME seq \in 0 .. SeqWrap - 1, deal.profile \in Profiles \cup {NoPolicy},
         NEW p \in Profiles, SelectWan(p)
  PROVE  seq' \in 0 .. SeqWrap - 1 /\ deal'.profile \in Profiles \cup {NoPolicy}
<1>1. SeqWrap \in Nat \ {0} /\ seq \in Nat
  BY TimeAssumption
<1>2. (seq + 1) % SeqWrap \in 0 .. SeqWrap - 1
  BY <1>1
<1>3. \/ UNCHANGED <<seq, deal>>
      \/ seq' = (seq + 1) % SeqWrap /\ deal'.profile = p
  BY DEF SelectWan
<1> QED
  BY <1>2, <1>3

LEMMA ChoiceNextCases ==
  ASSUME [Next]_vars
  PROVE  \/ \E p \in Profiles : OtherPacket(p)
         \/ \E c \in Conns, fin \in BOOLEAN : Dequeue(c, fin)
         \/ Lookup \/ WorkerSet \/ Finish
         \/ \E t \in Rxs, c \in Conns, pol \in Policies : Decrypt(t, c, pol)
         \/ \E t \in Rxs : RxSet(t)
         \/ GcBegin
         \/ \E c \in Conns : GcBucket(c) \/ Close(c)
         \/ \E b \in Tables : Reload(b)
         \/ Tick
         \/ UNCHANGED vars
BY DEF Next, Worker

LEMMA ChoiceInit == Init => ChoiceInv
<1> SUFFICES ASSUME Init PROVE ChoiceInv
  OBVIOUS
<1>1. NoWork \in Works /\ NoRx \in RxWorks /\ NoTold \in Tolds
  BY Constants DEF NoWork, NoRx, NoTold, Works, RxWorks, Tolds
<1>2. [left |-> {}, read |-> 0] \in [left : SUBSET Conns, read : 0 .. Skew]
  BY Constants
<1>3. 0 \in 0 .. SeqWrap - 1
  BY TimeAssumption
<1>4. TypeOK
  BY <1>1, <1>2, <1>3 DEF Init, TypeOK, Works, RxWorks, Tolds
<1>5. BusyInv
  BY DEF Init, BusyInv, NoWork, NoRx
<1>6. PinInv
  BY DEF Init, PinInv, NoTold
<1> QED
  BY <1>4, <1>5, <1>6 DEF ChoiceInv

-----------------------------------------------------------------------------
(***************************************************************************)
(* The worker, the WAN threads and the sweep.                              *)
(***************************************************************************)
LEMMA WorkerKeeps == ChoiceInv /\ (Lookup \/ WorkerSet \/ Finish) => ChoiceInv'
<1> SUFFICES ASSUME ChoiceInv, Lookup \/ WorkerSet \/ Finish PROVE ChoiceInv'
  OBVIOUS
<1> DEFINE c == work.conn
<1>0. /\ TypeOK /\ BusyInv /\ PinInv
      /\ work \in Works /\ pins \in [Conns -> Pins \cup {NoPin}]
      /\ told \in [Conns -> Tolds]
      /\ work.read \in 0 .. Skew /\ work.read \in Ages
      /\ UNCHANGED <<tables, seq, deal, rx, gc, closed>>
  BY Constants DEF ChoiceInv, TypeOK, Works, Pins, Tolds, Lookup, WorkerSet, Finish
<1>1. c \in Conns /\ tables.crypt /\ tables \in Tables
  BY <1>0 DEF BusyInv, Lookup, WorkerSet, Finish, TypeOK
<1>n. NoWork \in Works /\ NoTold \in Tolds
  BY Constants DEF NoWork, NoTold, Works, Tolds
<1> HIDE DEF c
\* The connections the step is not about.
<1>o. ASSUME \A d \in Conns \ {c} : pins'[d] = pins[d] /\ told'[d] = told[d],
             pins' \in [Conns -> Pins \cup {NoPin}],
             told' \in [Conns -> Tolds],
             work' \in Works,
             work'.at # "idle" => work'.conn \in Conns,
             work'.at \in {"set", "fin"} => work'.pol \in Policies /\ Usable(work'.pol),
             told'[c].pol # NoPolicy =>
               /\ pins'[c] # NoPin /\ pins'[c].pol = told'[c].pol
               /\ pins'[c].age <= told'[c].idle + Skew /\ told'[c].idle <= Timeout - Skew
               /\ Usable(told'[c].pol)
      PROVE  ChoiceInv'
  <2>1. TypeOK'
    BY <1>0, <1>o DEF TypeOK, Works, Pins, Tolds
  <2>2. BusyInv'
    BY <1>0, <1>1, <1>o DEF BusyInv, Usable
  <2>3. PinInv'
    <3> SUFFICES ASSUME NEW d \in Conns, told'[d].pol # NoPolicy
                 PROVE  /\ pins'[d] # NoPin /\ pins'[d].pol = told'[d].pol
                        /\ pins'[d].age <= told'[d].idle + Skew
                        /\ told'[d].idle <= Timeout - Skew
                        /\ told'[d].pol \in tables'.bypass \cup tables'.ready
      BY DEF PinInv, Usable
    <3>1. CASE d = c
      BY <1>0, <1>o, <3>1 DEF Usable
    <3>2. CASE d # c
      BY <1>0, <1>1, <1>o, <3>2 DEF PinInv, Usable
    <3> QED
      BY <3>1, <3>2
  <2> QED
    BY <2>1, <2>2, <2>3 DEF ChoiceInv
<1>2. CASE Lookup
  <2> DEFINE hit == pins[c] # NoPin /\ Usable(pins[c].pol)
             pol == IF hit THEN pins[c].pol ELSE tables.sel[c]
  <2>1. /\ pins' = [pins EXCEPT ![c] = IF hit THEN [@ EXCEPT !.age = work.read] ELSE NoPin]
        /\ told' = IF hit THEN [told EXCEPT ![c] = Heard(c, pol)] ELSE told
        /\ work' = IF ToPin(pol) THEN [work EXCEPT !.at = "set", !.pol = pol, !.read = 0]
                   ELSE NoWork
    BY <1>2 DEF Lookup, c
  <2>2. /\ pol \in Policies \cup {NoPolicy}
        /\ hit => pins[c] \in Pins /\ pol = pins[c].pol /\ Usable(pol)
    BY <1>0, <1>1, Constants DEF Pins
  <2> HIDE DEF hit, pol
  <2>3. /\ work' \in Works /\ (work'.at # "idle" => work'.conn = c)
        /\ work'.at \in {"set", "fin"} => work'.pol \in Policies /\ Usable(work'.pol)
    <3>1. CASE ToPin(pol)
      <4>1. pol \in Policies /\ Usable(pol)
        BY <2>2, <3>1 DEF ToPin
      <4>2. work' = [at |-> "set", conn |-> c, fin |-> work.fin, pol |-> pol, read |-> 0]
        BY <1>0, <2>1, <3>1, Zenon DEF Works, c
      <4> QED
        BY <1>0, <1>1, <4>1, <4>2, Constants DEF Works
    <3>2. CASE ~ ToPin(pol)
      BY <1>n, <2>1, <3>2 DEF NoWork
    <3> QED
      BY <3>1, <3>2
  <2>4. CASE hit
    <3> DEFINE pin == [pins[c] EXCEPT !.age = work.read]
    <3>1. pin \in Pins /\ pin.pol = pol /\ pin.age = work.read
      BY <1>0, <2>2, <2>4, PinAged
    <3>2. pins'[c] = pin /\ told'[c] = Heard(c, pol) /\ pol \in Policies /\ Usable(pol)
      BY <1>0, <1>1, <2>1, <2>2, <2>4 DEF Pins
    <3> HIDE DEF pin
    <3>3. /\ told'[c] \in Tolds
          /\ told'[c].pol # NoPolicy => told'[c].pol = pol /\ told'[c].idle = 0
      BY <1>0, <1>1, <3>2, HeardIs
    <3>4. /\ pins' \in [Conns -> Pins \cup {NoPin}]
          /\ told' \in [Conns -> Tolds]
          /\ \A d \in Conns \ {c} : pins'[d] = pins[d] /\ told'[d] = told[d]
      BY <1>0, <1>1, <2>1, <2>4, <3>1, <3>2, <3>3
    <3>5. pin # NoPin /\ pin.age <= Skew
      BY <1>0, <3>1, Constants
    <3>6. told'[c].pol # NoPolicy => pins'[c].age <= told'[c].idle + Skew /\ told'[c].idle <= Timeout - Skew
      BY <3>2, <3>3, <3>5, Constants
    <3>7. told'[c].pol # NoPolicy => /\ pins'[c] # NoPin /\ pins'[c].pol = told'[c].pol
                                     /\ Usable(told'[c].pol)
      BY <3>1, <3>2, <3>3, <3>5
    <3> QED
      BY <1>1, <1>o, <2>3, <3>4, <3>6, <3>7
  <2>5. CASE ~ hit
    <3>1. told[c].pol = NoPolicy
      BY <1>0, <1>1, <2>5 DEF PinInv, hit
    <3>2. pins' = [pins EXCEPT ![c] = NoPin] /\ told' = told
      BY <2>1, <2>5
    <3> QED
      BY <1>0, <1>1, <1>o, <2>3, <3>1, <3>2
  <2> QED
    BY <2>4, <2>5
<1>3. CASE WorkerSet
  <2> DEFINE pin == [pol |-> work.pol, age |-> work.read]
  <2>1. /\ pins' = [pins EXCEPT ![c] = pin] /\ told' = [told EXCEPT ![c] = Heard(c, work.pol)]
        /\ work' = IF work.fin /\ work.pol \notin tables.bypass
                   THEN [work EXCEPT !.at = "fin", !.read = 0] ELSE NoWork
        /\ work.at = "set"
    BY <1>3 DEF WorkerSet, PinSet, c
  <2>2. work.pol \in Policies /\ Usable(work.pol)
    BY <1>0, <2>1 DEF BusyInv
  <2>3. pin \in Pins /\ pin # NoPin /\ pin.pol = work.pol /\ pin.age = work.read
    BY <1>0, <2>2, Constants DEF Pins
  <2>4. /\ work' \in Works /\ (work'.at # "idle" => work'.conn = c)
        /\ work'.at \in {"set", "fin"} => work'.pol = work.pol
    <3>1. CASE work' = [work EXCEPT !.at = "fin", !.read = 0]
      <4>1. work' = [at |-> "fin", conn |-> c, fin |-> work.fin, pol |-> work.pol, read |-> 0]
        BY <1>0, <3>1, Zenon DEF Works, c
      <4> QED
        BY <1>0, <1>1, <4>1, Constants DEF Works
    <3>2. CASE work' = NoWork
      BY <1>n, <3>2 DEF NoWork
    <3> QED
      BY <2>1, <3>1, <3>2
  <2>5. /\ Heard(c, work.pol) \in Tolds
        /\ Heard(c, work.pol).pol # NoPolicy =>
             Heard(c, work.pol).pol = work.pol /\ Heard(c, work.pol).idle = 0
    BY <1>0, <1>1, HeardIs
  <2>6. pins'[c] = pin /\ told'[c] = Heard(c, work.pol)
    BY <1>0, <1>1, <2>1
  <2> HIDE DEF pin
  <2>7. /\ pins' \in [Conns -> Pins \cup {NoPin}] /\ told' \in [Conns -> Tolds]
        /\ \A d \in Conns \ {c} : pins'[d] = pins[d] /\ told'[d] = told[d]
    BY <1>0, <1>1, <2>1, <2>3, <2>5
  <2>8. told'[c].pol # NoPolicy => pins'[c].age <= told'[c].idle + Skew /\ told'[c].idle <= Timeout - Skew
    BY <1>0, <2>3, <2>5, <2>6, Constants
  <2> QED
    BY <1>1, <1>o, <2>2, <2>3, <2>4, <2>5, <2>6, <2>7, <2>8
<1>4. CASE Finish
  <2>1. /\ work' = NoWork
        /\ \/ pins' = [pins EXCEPT ![c] = NoPin] /\ told' = [told EXCEPT ![c] = NoTold]
           \/ UNCHANGED <<pins, told>>
    BY <1>4 DEF Finish, c
  <2>2. work' \in Works /\ work'.at = "idle"
    BY <1>n, <2>1 DEF NoWork
  <2>3. CASE pins' = [pins EXCEPT ![c] = NoPin] /\ told' = [told EXCEPT ![c] = NoTold]
    <3>1. told'[c] = NoTold /\ NoTold.pol = NoPolicy
      BY <1>0, <1>1, <2>3 DEF NoTold
    <3> QED
      BY <1>0, <1>1, <1>n, <1>o, <2>2, <2>3, <3>1
  <2>4. CASE UNCHANGED <<pins, told>>
    BY <1>0, <1>1, <1>o, <2>2, <2>4 DEF PinInv
  <2> QED
    BY <2>1, <2>3, <2>4
<1> QED
  BY <1>2, <1>3, <1>4

\* A WAN thread pins the connection to the policy it takes the packet's id for.
LEMMA RxSetKeeps == ASSUME ChoiceInv, NEW t \in Rxs, RxSet(t) PROVE ChoiceInv'
<1> DEFINE c == rx[t].conn
           pin == [pol |-> rx[t].pol, age |-> rx[t].read]
           pol == rx[t].pol
           heard == IF pol \in tables.l3 THEN [pol |-> pol, idle |-> 0] ELSE Heard(c, pol)
<1>0. /\ TypeOK /\ BusyInv /\ PinInv
      /\ rx \in [Rxs -> RxWorks] /\ pins \in [Conns -> Pins \cup {NoPin}]
      /\ told \in [Conns -> Tolds] /\ rx[t].read \in 0 .. Skew /\ rx[t].read \in Ages
      /\ UNCHANGED <<tables, seq, deal, work, gc, closed>>
  BY Constants DEF ChoiceInv, TypeOK, RxWorks, Pins, Tolds, RxSet
<1>1. /\ rx[t].at = "set" /\ pins' = [pins EXCEPT ![c] = pin]
      /\ told' = [told EXCEPT ![c] = heard] /\ rx' = [rx EXCEPT ![t] = NoRx]
  BY DEF RxSet, PinSet
<1>2. c \in Conns /\ tables.crypt /\ rx[t].pol \in tables.ready /\ tables \in Tables
  BY <1>0, <1>1 DEF BusyInv, TypeOK
<1>3. rx[t].pol \in Policies
  BY <1>2, Constants
<1>4. /\ pin \in Pins /\ pin # NoPin /\ pin.pol = pol /\ pin.age <= Skew
      /\ NoRx \in RxWorks /\ NoRx.at = "idle"
  BY <1>0, <1>3, Constants DEF Pins, NoRx, RxWorks
<1>9. /\ heard \in Tolds
      /\ heard.pol # NoPolicy => heard.idle = 0 /\ heard.pol = pol
  <2>1. /\ Heard(c, pol) \in Tolds
        /\ Heard(c, pol).pol # NoPolicy => Heard(c, pol).idle = 0 /\ Heard(c, pol).pol = pol
    BY <1>0, <1>2, HeardIs
  <2>2. [pol |-> pol, idle |-> 0] \in Tolds
    BY <1>3, Constants DEF Tolds
  <2> QED
    BY <2>1, <2>2
<1>10. tables.crypt /\ pol \in tables.ready
  BY <1>2
<1> HIDE DEF c, pol, pin, heard
<1>5. /\ pins' \in [Conns -> Pins \cup {NoPin}] /\ told' \in [Conns -> Tolds]
      /\ rx' \in [Rxs -> RxWorks]
  BY <1>0, <1>1, <1>2, <1>4, <1>9
<1>6. TypeOK'
  BY <1>0, <1>5 DEF TypeOK, Pins, Tolds, RxWorks
<1>7. BusyInv'
  BY <1>0, <1>1, <1>4 DEF BusyInv, Usable
<1>8. PinInv'
  <2> SUFFICES ASSUME NEW d \in Conns, told'[d].pol # NoPolicy
               PROVE  /\ pins'[d] # NoPin /\ pins'[d].pol = told'[d].pol
                      /\ pins'[d].age <= told'[d].idle + Skew
                      /\ told'[d].idle <= Timeout - Skew
                      /\ tables.crypt => told'[d].pol \in tables.bypass \cup tables.ready
    BY <1>0 DEF PinInv, Usable
  <2>1. CASE d = c
    <3>1. pins'[d] = pin /\ told'[d] = heard
      BY <1>0, <1>1, <2>1
    <3> QED
      BY <1>4, <1>9, <1>10, <3>1, Constants
  <2>2. CASE d # c
    BY <1>0, <1>1, <2>2 DEF PinInv, Usable
  <2> QED
    BY <2>1, <2>2
<1> QED
  BY <1>6, <1>7, <1>8 DEF ChoiceInv

\* The sweep takes no pin whose peer is still heard of, but for one touched
\* after it read the clock.
LEMMA GcKeeps == ASSUME ChoiceInv, NEW c \in Conns, GcBucket(c) PROVE ChoiceInv'
<1>0. /\ TypeOK /\ BusyInv /\ PinInv
      /\ pins \in [Conns -> Pins \cup {NoPin}] /\ told \in [Conns -> Tolds]
      /\ gc \in [left : SUBSET Conns, read : 0 .. Skew]
      /\ UNCHANGED <<tables, seq, deal, work, rx, closed>>
  BY DEF ChoiceInv, TypeOK, Pins, Tolds, GcBucket
<1>1. gc' \in [left : SUBSET Conns, read : 0 .. Skew]
  BY <1>0, Constants DEF GcBucket
<1>2. NoTold \in Tolds /\ NoTold.pol = NoPolicy
  BY Constants DEF NoTold, Tolds
<1>3. BusyInv'
  BY <1>0 DEF BusyInv, Usable
<1>4. CASE pins[c] # NoPin /\ Expired(c)
  <2>1. /\ pins' = [pins EXCEPT ![c] = NoPin]
        /\ told' = IF pins[c].age < gc.read THEN [told EXCEPT ![c] = NoTold] ELSE told
    BY <1>4 DEF GcBucket
  <2>2. pins' \in [Conns -> Pins \cup {NoPin}] /\ told' \in [Conns -> Tolds]
    BY <1>0, <1>2, <2>1
  <2>3. told'[c].pol = NoPolicy
    <3>1. CASE pins[c].age < gc.read
      BY <1>0, <1>2, <2>1, <3>1
    <3>2. CASE ~ (pins[c].age < gc.read)
      <4>1. pins[c].age \in Nat /\ gc.read \in Nat /\ told[c].idle \in Nat
        BY <1>0, <1>4, Constants DEF Pins, Ages, Tolds
      <4>2. pins[c].age > Timeout
        BY <1>4, <3>2, <4>1, Constants DEF Expired
      <4>3. told[c].pol = NoPolicy
        BY <1>0, <4>1, <4>2, Constants DEF PinInv
      <4> QED
        BY <2>1, <3>2, <4>3
    <3> QED
      BY <3>1, <3>2
  <2>4. \A d \in Conns \ {c} : pins'[d] = pins[d] /\ told'[d] = told[d]
    BY <1>0, <2>1
  <2>5. TypeOK'
    BY <1>0, <1>1, <2>2 DEF TypeOK, Pins, Tolds
  <2>6. PinInv'
    BY <1>0, <2>3, <2>4 DEF PinInv, Usable
  <2> QED
    BY <1>3, <2>5, <2>6 DEF ChoiceInv
<1>5. CASE UNCHANGED <<pins, told>>
  BY <1>0, <1>1, <1>3, <1>5 DEF ChoiceInv, TypeOK, PinInv, Usable
<1> QED
  BY <1>4, <1>5 DEF GcBucket

LEMMA TickKeeps == ChoiceInv /\ Tick => ChoiceInv'
<1> SUFFICES ASSUME ChoiceInv, Tick PROVE ChoiceInv'
  OBVIOUS
<1>0. /\ TypeOK /\ BusyInv /\ PinInv
      /\ pins \in [Conns -> Pins \cup {NoPin}] /\ told \in [Conns -> Tolds]
      /\ work \in Works /\ rx \in [Rxs -> RxWorks]
      /\ gc \in [left : SUBSET Conns, read : 0 .. Skew]
      /\ UNCHANGED <<tables, seq, deal, closed>>
  BY DEF ChoiceInv, TypeOK, Works, RxWorks, Pins, Tolds, Tick
<1>1. /\ work' = OlderRead(work) /\ rx' = [t \in Rxs |-> OlderRead(rx[t])]
      /\ work.read < Skew /\ gc.read < Skew /\ \A t \in Rxs : rx[t].read < Skew
      /\ gc' = IF gc.left = {} THEN gc ELSE [gc EXCEPT !.read = @ + 1]
  BY DEF Tick
<1>2. work' \in Works /\ work'.at = work.at /\ work'.conn = work.conn /\ work'.pol = work.pol
  <2>1. CASE work.at = "idle"
    BY <1>0, <1>1, <2>1 DEF OlderRead
  <2>2. CASE work.at # "idle"
    <3>1. work' = [work EXCEPT !.read = work.read + 1] /\ work.read + 1 \in 0 .. Skew
      BY <1>0, <1>1, <2>2, Constants DEF OlderRead, Works
    <3>2. work' \in Works
      BY <1>0, <3>1, Zenon DEF Works
    <3>3. DOMAIN work = {"at", "conn", "fin", "pol", "read"}
      BY <1>0 DEF Works
    <3> QED
      BY <3>1, <3>2, <3>3
  <2> QED
    BY <2>1, <2>2
<1>3. ASSUME NEW t \in Rxs
      PROVE  /\ rx'[t] \in RxWorks
             /\ rx'[t].at = rx[t].at /\ rx'[t].conn = rx[t].conn /\ rx'[t].pol = rx[t].pol
  <2>0. rx'[t] = OlderRead(rx[t]) /\ rx[t] \in RxWorks
    BY <1>0, <1>1
  <2>1. CASE rx[t].at = "idle"
    BY <2>0, <2>1 DEF OlderRead
  <2>2. CASE rx[t].at # "idle"
    <3>1. rx'[t] = [rx[t] EXCEPT !.read = rx[t].read + 1] /\ rx[t].read + 1 \in 0 .. Skew
      BY <1>1, <2>0, <2>2, Constants DEF OlderRead, RxWorks
    <3>2. rx'[t] \in RxWorks
      BY <2>0, <3>1, Zenon DEF RxWorks
    <3>3. DOMAIN rx[t] = {"at", "conn", "pol", "read"}
      BY <2>0 DEF RxWorks
    <3> QED
      BY <3>1, <3>2, <3>3
  <2> QED
    BY <2>1, <2>2
<1>4. gc' \in [left : SUBSET Conns, read : 0 .. Skew]
  <2>1. CASE gc.left = {}
    BY <1>0, <1>1, <2>1
  <2>2. CASE gc.left # {}
    <3>1. gc' = [gc EXCEPT !.read = gc.read + 1] /\ gc.read + 1 \in 0 .. Skew
      BY <1>0, <1>1, <2>2, Constants
    <3> QED
      BY <1>0, <3>1, Zenon
  <2> QED
    BY <2>1, <2>2
<1>5. ASSUME NEW c \in Conns
      PROVE  /\ pins'[c] \in Pins \cup {NoPin}
             /\ pins[c] = NoPin => pins'[c] = NoPin
             /\ pins[c] # NoPin => /\ pins'[c] # NoPin /\ pins'[c].pol = pins[c].pol
                                   /\ pins'[c].age <= pins[c].age + 1
  <2>1. pins'[c] = IF pins[c] = NoPin THEN NoPin ELSE [pins[c] EXCEPT !.age = Older(@)]
    BY DEF Tick
  <2>2. CASE pins[c] = NoPin
    BY <2>1, <2>2
  <2>3. CASE pins[c] # NoPin
    <3>1. pins[c] \in Pins /\ pins[c].age \in 0 .. MaxAge
      BY <1>0, <2>3 DEF Pins, Ages
    <3>2. Older(pins[c].age) \in Ages /\ Older(pins[c].age) <= pins[c].age + 1
      BY <3>1, Constants DEF Older, Ages
    <3>3. pins'[c] = [pins[c] EXCEPT !.age = Older(pins[c].age)]
      BY <2>1, <2>3
    <3> HIDE DEF Older
    <3>4. pins'[c] \in Pins /\ pins'[c].pol = pins[c].pol /\ pins'[c].age = Older(pins[c].age)
      BY <3>1, <3>2, <3>3, PinAged
    <3> QED
      BY <2>3, <3>2, <3>4, Constants
  <2> QED
    BY <2>2, <2>3
<1>6. ASSUME NEW c \in Conns
      PROVE  /\ told'[c] \in Tolds
             /\ told'[c].pol # NoPolicy =>
                  /\ told'[c].pol = told[c].pol /\ told'[c].idle = told[c].idle + 1
                  /\ told[c].idle < Timeout - Skew
  <2>1. told'[c] = IF told[c].pol # NoPolicy /\ told[c].idle < Timeout - Skew
                   THEN [told[c] EXCEPT !.idle = @ + 1] ELSE NoTold
    BY DEF Tick
  <2>2. CASE told[c].pol # NoPolicy /\ told[c].idle < Timeout - Skew
    <3>1. told[c] \in Tolds /\ told[c].idle \in Nat /\ told[c].idle + 1 \in 0 .. Timeout
      BY <1>0, <2>2, Constants DEF Tolds
    <3>2. told'[c] = [told[c] EXCEPT !.idle = told[c].idle + 1]
      BY <2>1, <2>2
    <3>3. told'[c] \in Tolds
      BY <3>1, <3>2, Zenon DEF Tolds
    <3>4. DOMAIN told[c] = {"pol", "idle"}
      BY <3>1 DEF Tolds
    <3> QED
      BY <2>2, <3>2, <3>3, <3>4
  <2>3. CASE ~ (told[c].pol # NoPolicy /\ told[c].idle < Timeout - Skew)
    BY <2>1, <2>3, Constants DEF NoTold, Tolds
  <2> QED
    BY <2>2, <2>3
<1>7. /\ pins' \in [Conns -> Pins \cup {NoPin}] /\ told' \in [Conns -> Tolds]
      /\ rx' \in [Rxs -> RxWorks]
  <2>1. /\ pins' = [c \in Conns |-> pins'[c]] /\ told' = [c \in Conns |-> told'[c]]
        /\ rx' = [t \in Rxs |-> rx'[t]]
    BY DEF Tick
  <2> QED
    BY <1>3, <1>5, <1>6, <2>1
<1>8. TypeOK'
  BY <1>0, <1>2, <1>4, <1>7 DEF TypeOK, Works, RxWorks, Pins, Tolds
<1>9. BusyInv'
  BY <1>0, <1>2, <1>3 DEF BusyInv, Usable
<1>10. PinInv'
  <2> SUFFICES ASSUME NEW c \in Conns, told'[c].pol # NoPolicy
               PROVE  /\ pins'[c] # NoPin /\ pins'[c].pol = told'[c].pol
                      /\ pins'[c].age <= told'[c].idle + Skew
                      /\ told'[c].idle <= Timeout - Skew
                      /\ tables.crypt => told'[c].pol \in tables.bypass \cup tables.ready
    BY <1>0 DEF PinInv, Usable
  <2>1. /\ pins[c] # NoPin /\ pins[c].pol = told[c].pol
        /\ pins[c].age <= told[c].idle + Skew
        /\ tables.crypt => told[c].pol \in tables.bypass \cup tables.ready
        /\ told'[c].pol = told[c].pol /\ told'[c].idle = told[c].idle + 1
        /\ told[c].idle < Timeout - Skew
    BY <1>0, <1>6 DEF PinInv, Usable
  <2>2. pins[c].age \in Nat /\ told[c].idle \in Nat /\ pins'[c].age \in Nat
    BY <1>0, <1>5, <2>1, Constants DEF Pins, Ages, Tolds
  <2> QED
    BY <1>5, <2>1, <2>2, Constants
<1> QED
  BY <1>8, <1>9, <1>10 DEF ChoiceInv

\* Packets are taken up only while encryption is on; a reload finds none under
\* way and drops the pins with the tables, or switches encryption off.
LEMMA OthersKeep ==
  ASSUME ChoiceInv,
         \/ \E p \in Profiles : OtherPacket(p)
         \/ \E c \in Conns, fin \in BOOLEAN : Dequeue(c, fin)
         \/ \E t \in Rxs, c \in Conns, pol \in Policies : Decrypt(t, c, pol)
         \/ GcBegin
         \/ \E c \in Conns : Close(c)
         \/ \E b \in Tables : Reload(b)
         \/ UNCHANGED vars
  PROVE  ChoiceInv'
<1>0. /\ TypeOK /\ BusyInv /\ PinInv
      /\ seq \in 0 .. SeqWrap - 1 /\ deal.profile \in Profiles \cup {NoPolicy}
      /\ work \in Works /\ rx \in [Rxs -> RxWorks] /\ pins \in [Conns -> Pins \cup {NoPin}]
      /\ told \in [Conns -> Tolds]
  BY DEF ChoiceInv, TypeOK, Works, RxWorks, Pins, Tolds
<1>n. /\ NoWork \in Works /\ NoWork.at = "idle" /\ NoTold \in Tolds /\ NoTold.pol = NoPolicy
  BY Constants DEF NoWork, NoTold, Works, Tolds
<1>1. ASSUME NEW p \in Profiles, OtherPacket(p) PROVE ChoiceInv'
  <2>1. seq' \in 0 .. SeqWrap - 1 /\ deal'.profile \in Profiles \cup {NoPolicy}
    BY <1>0, <1>1, SeqTyped DEF OtherPacket
  <2> QED
    BY <1>0, <1>1, <2>1 DEF OtherPacket, ChoiceInv, TypeOK, BusyInv, PinInv, Usable
<1>2. ASSUME NEW c \in Conns, NEW fin \in BOOLEAN, Dequeue(c, fin) PROVE ChoiceInv'
  <2>1. ProfileOf[c] \in Profiles
    BY ProfilesAssumption
  <2>2. seq' \in 0 .. SeqWrap - 1 /\ deal'.profile \in Profiles \cup {NoPolicy}
    BY <1>0, <1>2, <2>1, SeqTyped DEF Dequeue
  <2>3. UNCHANGED <<tables, pins, rx, gc, closed, told>>
    BY <1>2 DEF Dequeue
  <2>4. work' \in Works /\ (work'.at # "idle" => work'.at = "lookup" /\ tables.crypt /\ work'.conn = c)
    <3>1. CASE tables.crypt
      <4>1. work' = [at |-> "lookup", conn |-> c, fin |-> fin, pol |-> NoPolicy, read |-> 0]
        BY <1>2, <3>1 DEF Dequeue, NoWork
      <4> QED
        BY <3>1, <4>1, Constants DEF Works
    <3>2. CASE ~ tables.crypt
      BY <1>2, <1>n, <3>2 DEF Dequeue
    <3> QED
      BY <3>1, <3>2
  <2>5. TypeOK'
    BY <1>0, <2>2, <2>3, <2>4 DEF TypeOK, Works
  <2>6. BusyInv'
    BY <1>0, <2>3, <2>4 DEF BusyInv, Usable
  <2>7. PinInv'
    BY <1>0, <2>3 DEF PinInv, Usable
  <2> QED
    BY <2>5, <2>6, <2>7 DEF ChoiceInv
<1>3. ASSUME NEW t \in Rxs, NEW c \in Conns, NEW pol \in Policies, Decrypt(t, c, pol)
      PROVE  ChoiceInv'
  <2> DEFINE r == [at |-> "set", conn |-> c, pol |-> pol, read |-> 0]
  <2>1. /\ rx' = [rx EXCEPT ![t] = r] /\ tables.crypt /\ pol \in tables.ready
        /\ UNCHANGED <<tables, seq, deal, pins, work, gc, closed, told>>
    BY <1>0, <1>3, Constants DEF Decrypt, TypeOK
  <2>2. r \in RxWorks /\ r.conn = c /\ r.pol = pol
    BY Constants DEF RxWorks
  <2> HIDE DEF r
  <2>3. TypeOK'
    BY <1>0, <2>1, <2>2 DEF TypeOK, RxWorks
  <2>4. BusyInv'
    BY <1>0, <2>1, <2>2 DEF BusyInv, Usable
  <2>5. PinInv'
    BY <1>0, <2>1 DEF PinInv, Usable
  <2> QED
    BY <2>3, <2>4, <2>5 DEF ChoiceInv
<1>4. CASE GcBegin
  <2>1. gc' \in [left : SUBSET Conns, read : 0 .. Skew]
    BY <1>4, Constants DEF GcBegin
  <2> QED
    BY <1>0, <1>4, <2>1 DEF GcBegin, ChoiceInv, TypeOK, BusyInv, PinInv, Usable
<1>5. ASSUME NEW c \in Conns, Close(c) PROVE ChoiceInv'
  BY <1>0, <1>5 DEF Close, ChoiceInv, TypeOK, BusyInv, PinInv, Usable
<1>6. ASSUME NEW b \in Tables, Reload(b) PROVE ChoiceInv'
  <2>1. /\ work.at = "idle" /\ (\A t \in Rxs : rx[t].at = "idle") /\ tables' = b
        /\ deal'.profile = NoPolicy
        /\ UNCHANGED <<seq, work, rx, gc, closed>>
    BY <1>6 DEF Reload
  <2>2. BusyInv'
    BY <2>1 DEF BusyInv
  <2>3. CASE b.crypt
    <3>1. pins' = [c \in Conns |-> NoPin] /\ told' = [c \in Conns |-> NoTold]
      BY <1>6, <2>3 DEF Reload
    <3>2. pins' \in [Conns -> Pins \cup {NoPin}] /\ told' \in [Conns -> Tolds]
      BY <1>n, <3>1
    <3>3. PinInv'
      BY <1>n, <3>1 DEF PinInv
    <3>4. TypeOK'
      BY <1>0, <2>1, <3>2 DEF TypeOK, Pins, Tolds
    <3> QED
      BY <2>2, <3>3, <3>4 DEF ChoiceInv
  <2>4. CASE ~ b.crypt
    <3>1. UNCHANGED <<pins, told>>
      BY <1>6, <2>4 DEF Reload
    <3> QED
      BY <1>0, <2>1, <2>2, <2>4, <3>1 DEF ChoiceInv, TypeOK, PinInv
  <2> QED
    BY <2>3, <2>4
<1>7. CASE UNCHANGED vars
  BY <1>0, <1>7 DEF vars, ChoiceInv, TypeOK, BusyInv, PinInv, Usable
<1> QED
  BY <1>1, <1>2, <1>3, <1>4, <1>5, <1>6, <1>7

LEMMA ChoiceNext == ChoiceInv /\ [Next]_vars => ChoiceInv'
<1> SUFFICES ASSUME ChoiceInv, [Next]_vars PROVE ChoiceInv'
  OBVIOUS
<1>1. CASE \E t \in Rxs : RxSet(t)
  BY <1>1, RxSetKeeps
<1>2. CASE \E c \in Conns : GcBucket(c)
  BY <1>2, GcKeeps
<1>3. CASE Lookup \/ WorkerSet \/ Finish
  BY <1>3, WorkerKeeps
<1>4. CASE Tick
  BY <1>4, TickKeeps
<1>5. CASE \/ \E p \in Profiles : OtherPacket(p)
           \/ \E c \in Conns, fin \in BOOLEAN : Dequeue(c, fin)
           \/ \E t \in Rxs, c \in Conns, pol \in Policies : Decrypt(t, c, pol)
           \/ GcBegin
           \/ \E c \in Conns : Close(c)
           \/ \E b \in Tables : Reload(b)
           \/ UNCHANGED vars
  BY <1>5, OthersKeep
<1> QED
  BY ChoiceNextCases, <1>1, <1>2, <1>3, <1>4, <1>5

LEMMA ChoiceSafe == Spec => []ChoiceInv
BY ChoiceInit, ChoiceNext, PTL DEF Spec

-----------------------------------------------------------------------------
(***************************************************************************)
(* TypeOK: the pins name policies and connections the tables know, and no  *)
(* clock reading outlives its bound (forwarder.c:428-520).                 *)
(***************************************************************************)
THEOREM ChoiceTypeCorrect == Spec => []TypeOK
BY ChoiceSafe, PTL DEF ChoiceInv

(***************************************************************************)
(* FollowsPeer: from the completion of a packet that the peer split at     *)
(* layer 3 on, its connection is pinned to that policy as long as its      *)
(* packets do not come too far apart, whatever the worker, the WAN         *)
(* threads, the sweep and reloads do, but for the excuses stated there     *)
(* (forwarder.c:475, 1770-1775, 1934, 2064, 2098-2108).                    *)
(***************************************************************************)
THEOREM PinFollowsPeer == Spec => []FollowsPeer
<1>1. ChoiceInv => FollowsPeer
  BY DEF ChoiceInv, PinInv, FollowsPeer
<1> QED
  BY <1>1, ChoiceSafe, PTL

-----------------------------------------------------------------------------
(***************************************************************************)
(* Induction on numbers, from the well-foundedness of <, and the functions *)
(* it allows to define.                                                    *)
(***************************************************************************)
\* A set of numbers has a least one.
LEMMA LeastNat ==
  ASSUME NEW T, T \subseteq Nat, T # {}
  PROVE  \E n \in T : \A m \in T : n <= m
<1> DEFINE R == OpToRel(<, Nat)
<1>1. IsWellFoundedOn(R, Nat)
  BY NatLessThanWellFounded
<1>2. \A n, m \in Nat : <<m, n>> \in R <=> m < n
  BY DEF OpToRel
<1> HIDE DEF R
<1>3. PICK n \in T : \A m \in T : ~ (<<m, n>> \in R)
  BY <1>1, WFMin
<1>4. \A m \in T : n <= m
  <2> SUFFICES ASSUME NEW m \in T PROVE n <= m
    OBVIOUS
  <2>1. m \in Nat /\ n \in Nat /\ ~ (m < n)
    BY <1>2, <1>3
  <2> QED
    BY <2>1
<1> QED
  BY <1>4

\* Induction up to a number.
LEMMA InductUpTo ==
  ASSUME NEW N \in Nat, NEW S, 0 \in S, \A n \in 0 .. N - 1 : n \in S => n + 1 \in S
  PROVE  0 .. N \subseteq S
<1> SUFFICES ASSUME (0 .. N) \ S # {} PROVE FALSE
  OBVIOUS
<1>1. (0 .. N) \ S \subseteq Nat
  OBVIOUS
<1>2. PICK n \in (0 .. N) \ S : \A m \in (0 .. N) \ S : n <= m
  BY <1>1, LeastNat
<1>3. n # 0 /\ n - 1 \in 0 .. N - 1
  BY <1>2
<1>4. n - 1 \in S
  BY <1>2, <1>3
<1>5. (n - 1) + 1 = n
  BY <1>3
<1> QED
  BY <1>2, <1>3, <1>4, <1>5

\* A function may be defined by recursion: there is one that starts from b and
\* goes on by a step.
IsStep(step, N, T) == step \in [1 .. N -> [T -> T]]

Follows(f, b, step, N, T) ==
  f \in [0 .. N -> T] /\ f[0] = b /\ \A n \in 1 .. N : f[n] = step[n][f[n - 1]]

LEMMA RecursionExists ==
  ASSUME NEW N \in Nat, NEW T, NEW b \in T, NEW step, IsStep(step, N, T)
  PROVE  \E f : Follows(f, b, step, N, T)
<1> DEFINE Good(f, k) ==
      f \in [0 .. k -> T] /\ f[0] = b /\ \A n \in 1 .. k : f[n] = step[n][f[n - 1]]
           S == {k \in 0 .. N : \E f : Good(f, k)}
<1>1. 0 \in S
  <2> DEFINE g == [i \in 0 .. 0 |-> b]
  <2>1. Good(g, 0) /\ 0 \in 0 .. N
    OBVIOUS
  <2> HIDE DEF Good
  <2> QED
    BY <2>1
<1>2. ASSUME NEW k \in 0 .. N - 1, k \in S PROVE k + 1 \in S
  <2>1. PICK f : Good(f, k)
    BY <1>2
  <2> DEFINE g == [i \in 0 .. k + 1 |-> IF i = k + 1 THEN step[k + 1][f[k]] ELSE f[i]]
  <2>2. step[k + 1][f[k]] \in T
    <3>1. f[k] \in T /\ k + 1 \in 1 .. N
      BY <2>1
    <3> QED
      BY <3>1 DEF IsStep
  <2>3. /\ g \in [0 .. k + 1 -> T] /\ g[k + 1] = step[k + 1][f[k]]
        /\ \A i \in 0 .. k : g[i] = f[i]
    BY <2>1, <2>2
  <2> HIDE DEF g
  <2>4. \A n \in 1 .. k + 1 : g[n] = step[n][g[n - 1]]
    <3> SUFFICES ASSUME NEW n \in 1 .. k + 1 PROVE g[n] = step[n][g[n - 1]]
      OBVIOUS
    <3>1. CASE n = k + 1
      <4>1. n - 1 = k /\ g[k] = f[k]
        BY <2>3, <3>1
      <4> QED
        BY <2>3, <3>1, <4>1
    <3>2. CASE n # k + 1
      <4>1. n \in 1 .. k /\ n - 1 \in 0 .. k
        BY <3>2
      <4> QED
        BY <2>1, <2>3, <4>1
    <3> QED
      BY <3>1, <3>2
  <2>5. Good(g, k + 1)
    BY <2>1, <2>3, <2>4
  <2> QED
    BY <2>5
<1> HIDE DEF S
<1>3. 0 .. N \subseteq S
  BY <1>1, <1>2, InductUpTo
<1>4. N \in S
  BY <1>3
<1> QED
  BY <1>4 DEF S, Follows

-----------------------------------------------------------------------------
(***************************************************************************)
(* The slots of a round.                                                   *)
(***************************************************************************)
Entries == [wan : WanIfs, weight : Nat]
Lists == Seq(Entries)

LEMMA ListIs ==
  ASSUME NEW u \in Lists
  PROVE  /\ Len(u) \in Nat /\ DOMAIN u = 1 .. Len(u) /\ Len(u) \in 0 .. Len(u)
         /\ \A i \in 1 .. Len(u) : /\ u[i] \in Entries
                                   /\ u[i].wan \in WanIfs /\ u[i].weight \in Nat
<1>1. Len(u) \in Nat /\ DOMAIN u = 1 .. Len(u)
  BY DEF Lists
<1>2. \A i \in 1 .. Len(u) : u[i] \in Entries
  BY ElementOfSeq DEF Lists
<1>3. \A e \in Entries : e.wan \in WanIfs /\ e.weight \in Nat
  BY DEF Entries
<1> QED
  BY <1>1, <1>2, <1>3

\* The partial sums, as they are added up.
LEMMA AccIs ==
  ASSUME NEW u \in Lists
  PROVE  /\ Acc(u) \in [0 .. Len(u) -> Nat] /\ Acc(u)[0] = 0
         /\ \A i \in 1 .. Len(u) : Acc(u)[i] = Acc(u)[i - 1] + u[i].weight
<1> DEFINE N == Len(u)
           step == [i \in 1 .. N |-> [a \in Nat |-> a + u[i].weight]]
<1>1. N \in Nat /\ \A i \in 1 .. N : u[i].weight \in Nat
  BY ListIs
<1>2. IsStep(step, N, Nat)
  BY <1>1 DEF IsStep
<1>3. PICK f : Follows(f, 0, step, N, Nat)
  <2> HIDE DEF N, step
  <2> QED
    BY <1>1, <1>2, RecursionExists
<1>4. /\ f \in [0 .. N -> Nat] /\ f[0] = 0
      /\ \A i \in 1 .. N : f[i] = f[i - 1] + u[i].weight
  <2>1. /\ f \in [0 .. N -> Nat] /\ f[0] = 0
        /\ \A i \in 1 .. N : f[i] = step[i][f[i - 1]]
    BY <1>3 DEF Follows
  <2>2. ASSUME NEW i \in 1 .. N PROVE f[i] = f[i - 1] + u[i].weight
    <3>1. i - 1 \in 0 .. N
      BY <1>1
    <3> QED
      BY <2>1, <3>1
  <2> QED
    BY <2>1, <2>2
<1> DEFINE F(g) == g = [i \in 0 .. N |-> IF i = 0 THEN 0 ELSE g[i - 1] + u[i].weight]
<1>5. F(f)
  <2>1. \A i \in 0 .. N : f[i] = IF i = 0 THEN 0 ELSE f[i - 1] + u[i].weight
    BY <1>1, <1>4
  <2> QED
    BY <1>4, <2>1
<1>6. Acc(u) = CHOOSE g : F(g)
  BY DEF Acc
<1>7. F(Acc(u))
  <2> HIDE DEF F
  <2> QED
    BY <1>5, <1>6
<1> DEFINE acc == Acc(u)
<1>8. DOMAIN acc = 0 .. N /\ \A i \in 0 .. N : acc[i] = IF i = 0 THEN 0 ELSE acc[i - 1] + u[i].weight
  <2> HIDE DEF acc
  <2>1. acc = [i \in 0 .. N |-> IF i = 0 THEN 0 ELSE acc[i - 1] + u[i].weight]
    BY <1>7 DEF acc
  <2> QED
    BY <2>1
<1> HIDE DEF acc
<1> DEFINE S == {i \in 0 .. N : acc[i] = f[i]}
<1>9. 0 \in S
  BY <1>1, <1>4, <1>8
<1>10. ASSUME NEW i \in 0 .. N - 1, i \in S PROVE i + 1 \in S
  <2>1. i + 1 \in 1 .. N /\ (i + 1) - 1 = i /\ i + 1 # 0 /\ i + 1 \in 0 .. N
    BY <1>1
  <2> QED
    BY <1>4, <1>8, <1>10, <2>1
<1>11. 0 .. N \subseteq S
  <2> HIDE DEF S
  <2> QED
    BY <1>1, <1>9, <1>10, InductUpTo
<1>12. acc \in [0 .. N -> Nat]
  <2>1. acc = [i \in 0 .. N |-> acc[i]]
    BY <1>7 DEF acc
  <2>2. \A i \in 0 .. N : acc[i] \in Nat
    BY <1>4, <1>11
  <2> QED
    BY <2>1, <2>2
<1>13. acc[0] = 0 /\ \A i \in 1 .. N : acc[i] = acc[i - 1] + u[i].weight
  <2>1. \A i \in 1 .. N : i \in 0 .. N /\ i # 0
    BY <1>1
  <2> QED
    BY <1>1, <1>8, <2>1
<1> QED
  BY <1>12, <1>13 DEF acc

LEMMA AccGrows ==
  ASSUME NEW u \in Lists, NEW i \in 0 .. Len(u), NEW j \in 0 .. Len(u), i <= j
  PROVE  Acc(u)[i] <= Acc(u)[j]
<1> DEFINE N == Len(u)
           acc == Acc(u)
           S == {k \in 0 .. N : k >= i => acc[i] <= acc[k]}
<1>1. /\ N \in Nat /\ acc \in [0 .. N -> Nat]
      /\ \A k \in 1 .. N : acc[k] = acc[k - 1] + u[k].weight /\ u[k].weight \in Nat
  BY AccIs, ListIs
<1> HIDE DEF acc
<1>2. 0 \in S
  BY <1>1
<1>3. ASSUME NEW k \in 0 .. N - 1, k \in S PROVE k + 1 \in S
  <2>1. /\ k + 1 \in 1 .. N /\ (k + 1) - 1 = k /\ k + 1 \in 0 .. N /\ k \in 0 .. N
        /\ i \in 0 .. N
    BY <1>1
  <2>2. acc[k] \in Nat /\ acc[i] \in Nat /\ acc[k + 1] \in Nat
    <3> HIDE DEF N
    <3> QED
      BY <1>1, <2>1
  <2>3. acc[k + 1] = acc[k] + u[k + 1].weight /\ u[k + 1].weight \in Nat
    BY <1>1, <2>1
  <2>4. acc[k + 1] >= acc[k]
    BY <2>2, <2>3
  <2>5. CASE k + 1 = i
    BY <2>1, <2>2, <2>5
  <2>6. CASE k + 1 > i
    <3>1. k >= i
      BY <2>6
    <3> QED
      BY <1>3, <2>1, <2>2, <2>4, <3>1
  <2> QED
    BY <1>1, <2>1, <2>5, <2>6
<1>4. 0 .. N \subseteq S
  <2> HIDE DEF S
  <2> QED
    BY <1>1, <1>2, <1>3, InductUpTo
<1> QED
  BY <1>4 DEF acc

LEMMA TotalIs ==
  ASSUME NEW u \in Lists
  PROVE  Total(u) \in Nat /\ \A i \in 0 .. Len(u) : Acc(u)[i] <= Total(u)
<1>1. Len(u) \in 0 .. Len(u) /\ Acc(u) \in [0 .. Len(u) -> Nat]
  BY AccIs, ListIs
<1>2. \A i \in 0 .. Len(u) : Acc(u)[i] <= Total(u)
  BY <1>1, AccGrows DEF Total
<1> QED
  BY <1>1, <1>2 DEF Total

\* What is dealt out has a weight.
LEMMA SharesIs ==
  ASSUME tables \in Tables, NEW p \in Profiles
  PROVE  Shares(p) \in Lists /\ Total(Shares(p)) \in Nat \ {0}
<1> DEFINE all == tables.wans[p]
           ones == [i \in DOMAIN all |-> [all[i] EXCEPT !.weight = 1]]
<1>1. all \in Lists /\ all # <<>>
  BY TablesAssumption DEF Lists, Entries
<1> HIDE DEF all
<1>2. Len(all) \in Nat \ {0} /\ DOMAIN all = 1 .. Len(all)
  BY <1>1 DEF Lists
<1>3. CASE Total(all) = 0
  <2>1. ASSUME NEW i \in DOMAIN all
        PROVE  /\ [all[i] EXCEPT !.weight = 1] \in Entries
               /\ [all[i] EXCEPT !.weight = 1].weight = 1
    <3>1. all[i] \in Entries
      BY <1>1, <1>2, <2>1, ListIs
    <3> QED
      BY <3>1 DEF Entries
  <2>2. ones \in [1 .. Len(all) -> Entries]
    BY <1>2, <2>1
  <2>3. ones \in Lists /\ Len(ones) = Len(all)
    BY <1>2, <2>2 DEF Lists
  <2>4. 1 \in 1 .. Len(ones) /\ ones[1].weight = 1 /\ 1 - 1 = 0
    BY <1>2, <2>1, <2>3
  <2>5. Shares(p) = ones
    BY <1>3 DEF Shares, all
  <2> HIDE DEF ones
  <2>6. Acc(ones)[1] = 1 /\ 1 \in 0 .. Len(ones)
    BY <2>3, <2>4, AccIs
  <2> QED
    BY <2>3, <2>5, <2>6, TotalIs
<1>4. CASE Total(all) # 0
  <2>1. Shares(p) = all
    BY <1>4 DEF Shares, all
  <2> QED
    BY <1>1, <1>4, <2>1, TotalIs
<1> QED
  BY <1>3, <1>4

\* The entry a slot falls to.
Falls(s, u, i) == i \in 1 .. Len(u) /\ Acc(u)[i - 1] <= s /\ s < Acc(u)[i]

LEMMA FallsOnce ==
  ASSUME NEW u \in Lists, NEW s \in Nat, NEW i, NEW j, Falls(s, u, i), Falls(s, u, j)
  PROVE  i = j
<1>1. Len(u) \in Nat /\ Acc(u) \in [0 .. Len(u) -> Nat]
  BY AccIs, ListIs
<1>2. ASSUME NEW a, NEW b, Falls(s, u, a), Falls(s, u, b), a < b PROVE FALSE
  <2>1. a \in 0 .. Len(u) /\ b - 1 \in 0 .. Len(u) /\ a <= b - 1
    BY <1>1, <1>2 DEF Falls
  <2>2. Acc(u)[a] <= Acc(u)[b - 1]
    BY <2>1, AccGrows
  <2>3. Acc(u)[a] \in Nat /\ Acc(u)[b - 1] \in Nat
    BY <1>1, <2>1
  <2> QED
    BY <1>2, <2>2, <2>3 DEF Falls
<1>3. i \in Int /\ j \in Int
  BY <1>1 DEF Falls
<1> QED
  BY <1>2, <1>3

LEMMA SlotIs ==
  ASSUME NEW u \in Lists, NEW s \in 0 .. Total(u) - 1
  PROVE  \E i : Falls(s, u, i) /\ WrrSlotToWan(s, u) = u[i].wan
<1> DEFINE First(i) == s < Acc(u)[i] /\ \A j \in 1 .. i - 1 : s >= Acc(u)[j]
           S == {i \in 1 .. Len(u) : s < Acc(u)[i]}
<1>1. /\ Len(u) \in Nat /\ Acc(u) \in [0 .. Len(u) -> Nat] /\ Acc(u)[0] = 0
      /\ Total(u) \in Nat /\ s \in Nat
  BY AccIs, ListIs, TotalIs
<1>2. Len(u) \in S
  <2>1. Len(u) # 0
    BY <1>1 DEF Total
  <2> QED
    BY <1>1, <2>1 DEF Total
<1>3. PICK i \in S : \A j \in S : i <= j
  <2>1. S \subseteq Nat
    OBVIOUS
  <2> HIDE DEF S
  <2> QED
    BY <1>2, <2>1, LeastNat
<1>4. i \in 1 .. Len(u) /\ First(i)
  <2>1. ASSUME NEW j \in 1 .. i - 1 PROVE s >= Acc(u)[j]
    <3>1. j \in 1 .. Len(u) /\ j \in 0 .. Len(u) /\ ~ (i <= j)
      BY <1>1, <1>3
    <3> QED
      BY <1>1, <1>3, <3>1
  <2> QED
    BY <1>3, <2>1
<1>5. DOMAIN u = 1 .. Len(u)
  BY DEF Lists
<1> DEFINE c == CHOOSE k \in DOMAIN u : First(k)
<1>6. c \in 1 .. Len(u) /\ First(c)
  <2> HIDE DEF First
  <2> QED
    BY <1>4, <1>5
<1>7. WrrSlotToWan(s, u) = u[c].wan
  BY DEF WrrSlotToWan
<1> HIDE DEF c
<1>8. Acc(u)[c - 1] <= s
  <2>1. CASE c = 1
    BY <1>1, <2>1
  <2>2. CASE c # 1
    <3>1. c - 1 \in 1 .. c - 1 /\ c - 1 \in 0 .. Len(u)
      BY <1>1, <1>6, <2>2
    <3> QED
      BY <1>1, <1>6, <3>1
  <2> QED
    BY <2>1, <2>2
<1> QED
  BY <1>6, <1>7, <1>8 DEF Falls

(***************************************************************************)
(* A round of consecutive values of the counter.                           *)
(***************************************************************************)
LEMMA ModType ==
  ASSUME NEW n \in Nat \ {0}, NEW a \in Nat
  PROVE  a % n \in 0 .. n - 1
OBVIOUS

LEMMA ModNext ==
  ASSUME NEW n \in Nat \ {0}, NEW a \in 0 .. n - 1
  PROVE  (a + 1) % n = IF a + 1 = n THEN 0 ELSE a + 1
<1>1. CASE a + 1 = n
  <2>1. n % n = 0
    OBVIOUS
  <2> QED
    BY <1>1, <2>1
<1>2. CASE a + 1 # n
  <2>1. a + 1 \in 0 .. n - 1
    BY <1>2
  <2>2. \A x \in 0 .. n - 1 : x % n = x
    OBVIOUS
  <2> QED
    BY <1>2, <2>1, <2>2
<1> QED
  BY <1>1, <1>2

\* Numbers that agree modulo n are n apart.
LEMMA ModApart ==
  ASSUME NEW n \in Nat \ {0}, NEW a \in Nat, NEW b \in Nat, a < b, a % n = b % n
  PROVE  b >= a + n
<1> DEFINE r == a % n
           j == a \div n
           k == b \div n
<1>1. r \in 0 .. n - 1 /\ j \in Int /\ k \in Int /\ a = n * j + r /\ b = n * k + r
  OBVIOUS
<1> HIDE DEF r, j, k
<1>2. j < k
  <2>1. SUFFICES ASSUME j >= k PROVE FALSE
    BY <1>1
  <2>2. n * j >= n * k
    BY <1>1, <2>1
  <2> QED
    BY <1>1, <2>2
<1>3. PICK d \in Nat : k = j + 1 + d
  <2>1. k - j - 1 \in Nat /\ k = j + 1 + (k - j - 1)
    BY <1>1, <1>2
  <2> QED
    BY <2>1
<1>4. n * k = n * j + n + n * d /\ n * d \in Nat
  BY <1>1, <1>3
<1> QED
  BY <1>1, <1>4

\* As many consecutive values as there are slots meet every slot once.
LEMMA RoundMeets ==
  ASSUME NEW n \in Nat \ {0}, NEW b \in Nat
  PROVE  /\ \A k \in 1 .. n : (b + k - 1) % n \in 0 .. n - 1
         /\ \A k, m \in 1 .. n : (b + k - 1) % n = (b + m - 1) % n => k = m
         /\ \A s \in 0 .. n - 1 : \E k \in 1 .. n : (b + k - 1) % n = s
<1> DEFINE f == [k \in 1 .. n |-> (b + k - 1) % n]
<1>1. \A k \in 1 .. n : (b + k - 1) % n \in 0 .. n - 1
  <2> SUFFICES ASSUME NEW k \in 1 .. n PROVE (b + k - 1) % n \in 0 .. n - 1
    OBVIOUS
  <2>1. b + k - 1 \in Nat
    OBVIOUS
  <2> QED
    BY <2>1, ModType
<1>2. \A k, m \in 1 .. n : (b + k - 1) % n = (b + m - 1) % n => k = m
  <2>1. ASSUME NEW k \in 1 .. n, NEW m \in 1 .. n, k < m,
               (b + k - 1) % n = (b + m - 1) % n
        PROVE  FALSE
    <3>1. b + k - 1 \in Nat /\ b + m - 1 \in Nat /\ b + k - 1 < b + m - 1
      BY <2>1
    <3>2. b + m - 1 >= (b + k - 1) + n
      BY <2>1, <3>1, ModApart
    <3> QED
      BY <3>2
  <2> QED
    BY <2>1
<1>3. f \in Injection(1 .. n, 0 .. n - 1)
  BY <1>1, <1>2 DEF Injection, IsInjective
<1>4. /\ IsFiniteSet(1 .. n) /\ Cardinality(1 .. n) = n
      /\ IsFiniteSet(0 .. n - 1) /\ Cardinality(0 .. n - 1) = n
  <2>1. /\ IsFiniteSet(1 .. n) /\ Cardinality(1 .. n) = IF 1 > n THEN 0 ELSE n - 1 + 1
        /\ IsFiniteSet(0 .. n - 1)
        /\ Cardinality(0 .. n - 1) = IF 0 > n - 1 THEN 0 ELSE (n - 1) - 0 + 1
    BY FS_Interval
  <2> QED
    BY <2>1
<1>5. f \in Surjection(1 .. n, 0 .. n - 1)
  <2> HIDE DEF f
  <2> QED
    BY <1>3, <1>4, FS_Injection
<1>6. \A s \in 0 .. n - 1 : \E k \in 1 .. n : f[k] = s
  BY <1>5 DEF Surjection
<1> QED
  BY <1>1, <1>2, <1>6

\* So that every WAN is picked for each of its turns.
LEMMA RoundDealt ==
  ASSUME NEW u \in Lists, Total(u) \in Nat \ {0}, NEW b \in Nat, NEW w
  PROVE  LET got == {k \in 1 .. Total(u) : WrrSlotToWan((b + k - 1) % Total(u), u) = w}
         IN  Cardinality(got) = Cardinality(Turns(u, w))
<1> DEFINE T == Total(u)
           S(k) == (b + k - 1) % T
           got == {k \in 1 .. T : WrrSlotToWan(S(k), u) = w}
           E(k) == CHOOSE i : Falls(S(k), u, i)
           f == [k \in got |-> <<E(k), S(k) - Acc(u)[E(k) - 1] + 1>>]
<1>1. /\ Len(u) \in Nat /\ DOMAIN u = 1 .. Len(u) /\ T \in Nat \ {0}
      /\ Acc(u) \in [0 .. Len(u) -> Nat]
      /\ \A i \in 1 .. Len(u) : /\ Acc(u)[i] = Acc(u)[i - 1] + u[i].weight
                                /\ u[i].weight \in Nat /\ Acc(u)[i] <= T
                                /\ i - 1 \in 0 .. Len(u) /\ i \in 0 .. Len(u)
  BY AccIs, ListIs, TotalIs
<1>2. /\ \A k \in 1 .. T : S(k) \in 0 .. T - 1
      /\ \A k, m \in 1 .. T : S(k) = S(m) => k = m
      /\ \A s \in 0 .. T - 1 : \E k \in 1 .. T : S(k) = s
  <2> HIDE DEF T
  <2> QED
    BY <1>1, RoundMeets
<1> HIDE DEF S, T
<1>3. ASSUME NEW k \in 1 .. T
      PROVE  Falls(S(k), u, E(k)) /\ WrrSlotToWan(S(k), u) = u[E(k)].wan
  <2>1. PICK i : Falls(S(k), u, i) /\ WrrSlotToWan(S(k), u) = u[i].wan
    BY <1>2, SlotIs DEF T
  <2>2. Falls(S(k), u, E(k))
    BY <2>1
  <2>3. E(k) = i
    <3> HIDE DEF E
    <3>1. S(k) \in Nat
      BY <1>1, <1>2
    <3> QED
      BY <2>1, <2>2, <3>1, FallsOnce
  <2> QED
    BY <2>1, <2>2, <2>3
<1> HIDE DEF E
<1>4. ASSUME NEW k \in got
      PROVE  /\ E(k) \in 1 .. Len(u) /\ u[E(k)].wan = w
             /\ S(k) - Acc(u)[E(k) - 1] + 1 \in 1 .. u[E(k)].weight
             /\ f[k] \in Turns(u, w)
  <2>1. k \in 1 .. T /\ WrrSlotToWan(S(k), u) = w
    OBVIOUS
  <2>2. /\ E(k) \in 1 .. Len(u) /\ u[E(k)].wan = w
        /\ Acc(u)[E(k) - 1] <= S(k) /\ S(k) < Acc(u)[E(k)] /\ S(k) \in Nat
    <3>1. Falls(S(k), u, E(k)) /\ u[E(k)].wan = w
      BY <1>3, <2>1
    <3>2. S(k) \in 0 .. T - 1
      BY <1>2, <2>1
    <3>3. S(k) \in Nat
      BY <1>1, <3>2
    <3> QED
      BY <3>1, <3>3 DEF Falls
  <2>3. /\ Acc(u)[E(k)] = Acc(u)[E(k) - 1] + u[E(k)].weight /\ u[E(k)].weight \in Nat
        /\ Acc(u)[E(k) - 1] \in Nat /\ Acc(u)[E(k)] <= T
    BY <1>1, <2>2
  <2>4. S(k) - Acc(u)[E(k) - 1] + 1 \in 1 .. u[E(k)].weight
    BY <2>2, <2>3
  <2>5. S(k) - Acc(u)[E(k) - 1] + 1 \in 1 .. T
    BY <1>1, <2>3, <2>4
  <2>6. <<E(k), S(k) - Acc(u)[E(k) - 1] + 1>> \in Turns(u, w)
    BY <1>1, <2>2, <2>4, <2>5 DEF Turns, T
  <2> QED
    BY <2>2, <2>4, <2>6
<1>5. \A k, m \in got : f[k] = f[m] => k = m
  <2> SUFFICES ASSUME NEW k \in got, NEW m \in got, f[k] = f[m] PROVE k = m
    OBVIOUS
  <2>1. E(k) = E(m) /\ S(k) - Acc(u)[E(k) - 1] + 1 = S(m) - Acc(u)[E(m) - 1] + 1
    OBVIOUS
  <2>2. k \in 1 .. T /\ m \in 1 .. T /\ S(k) \in Nat /\ S(m) \in Nat /\ Acc(u)[E(k) - 1] \in Nat
    BY <1>1, <1>2, <1>4
  <2>3. S(k) = S(m)
    BY <2>1, <2>2
  <2> QED
    BY <1>2, <2>2, <2>3
<1>6. \A t \in Turns(u, w) : \E k \in got : f[k] = t
  <2> SUFFICES ASSUME NEW t \in Turns(u, w) PROVE \E k \in got : f[k] = t
    OBVIOUS
  <2> DEFINE i == t[1]
             n == t[2]
             s == Acc(u)[i - 1] + n - 1
  <2>1. /\ i \in 1 .. Len(u) /\ n \in 1 .. T /\ u[i].wan = w /\ n <= u[i].weight
        /\ t = <<i, n>>
    BY <1>1 DEF Turns, T
  <2>2. /\ Acc(u)[i] = Acc(u)[i - 1] + u[i].weight /\ u[i].weight \in Nat
        /\ Acc(u)[i - 1] \in Nat /\ Acc(u)[i] <= T
    BY <1>1, <2>1
  <2>3. s \in 0 .. T - 1 /\ Falls(s, u, i)
    <3> HIDE DEF i, n
    <3>1. n \in Nat /\ n >= 1 /\ T \in Nat
      BY <1>1, <2>1
    <3>2. Acc(u)[i - 1] <= s /\ s < Acc(u)[i] /\ s \in 0 .. T - 1
      BY <2>1, <2>2, <3>1
    <3> QED
      BY <2>1, <3>2 DEF Falls
  <2>4. PICK k \in 1 .. T : S(k) = s
    <3> HIDE DEF s
    <3> QED
      BY <1>2, <2>3
  <2>5. E(k) = i
    <3> HIDE DEF s, i
    <3> QED
      BY <1>1, <1>3, <2>3, <2>4, FallsOnce
  <2>6. k \in got
    BY <1>3, <2>1, <2>4, <2>5
  <2>7. f[k] = <<i, n>>
    <3>1. S(k) - Acc(u)[i - 1] + 1 = n
      BY <2>1, <2>2, <2>4
    <3> QED
      BY <2>5, <2>6, <3>1
  <2> QED
    BY <2>1, <2>6, <2>7
<1>7. f \in Surjection(got, Turns(u, w)) /\ f \in Injection(got, Turns(u, w))
  <2>1. f \in [got -> Turns(u, w)]
    BY <1>4
  <2> HIDE DEF f, got
  <2> QED
    BY <1>5, <1>6, <2>1 DEF Surjection, Injection, IsInjective
<1>8. IsFiniteSet(got)
  <2>1. got \in SUBSET (1 .. T)
    OBVIOUS
  <2>2. IsFiniteSet(1 .. T)
    BY <1>1, FS_Interval
  <2> HIDE DEF got
  <2> QED
    BY <2>1, <2>2, FS_Subset
<1>9. Cardinality(got) = Cardinality(Turns(u, w))
  <2> HIDE DEF f, got
  <2> QED
    BY <1>7, <1>8, FS_Surjection
<1> QED
  BY <1>9 DEF T, S

(***************************************************************************)
(* The picks of a round are those of consecutive values of the counter,    *)
(* from the value b on that it had when the round began.                   *)
(***************************************************************************)
DealtFrom(b, picks, u) ==
  /\ picks \in Seq(WanIfs) /\ Len(picks) <= Total(u)
  /\ \A k \in 1 .. Len(picks) : picks[k] = WrrSlotToWan((b + k - 1) % Total(u), u)

\* Behind the last value the counter is 0 again.
Next0(b, n) == IF b + n = SeqWrap THEN 0 ELSE b + n

DealInv ==
  deal.profile \in Profiles /\ deal.picks # <<>> =>
    \E b \in 0 .. SeqWrap - 1 :
      /\ DealtFrom(b, deal.picks, Shares(deal.profile))
      /\ b + Len(deal.picks) <= SeqWrap
      /\ seq = Next0(b, Len(deal.picks))

LEMMA DealInit == Init => DealInv
BY DEF Init, DealInv

\* A pick begins a round or goes on with one, at the value behind its last.
LEMMA SelectKeeps ==
  ASSUME TypeOK, DealInv, NEW p \in Profiles, SelectWan(p), UNCHANGED tables
  PROVE  DealInv'
<1> DEFINE u == Shares(p)
           w == WrrSlotToWan(seq % Total(u), u)
           before == IF deal.profile = p /\ Len(deal.picks) < Total(u) /\ seq # 0
                     THEN deal.picks ELSE <<>>
<1>1. /\ tables \in Tables /\ SeqWrap \in Nat \ {0} /\ seq \in 0 .. SeqWrap - 1 /\ seq \in Nat
      /\ u \in Lists /\ Total(u) \in Nat \ {0} /\ Shares(p)' = u
  BY TimeAssumption, SharesIs DEF TypeOK, Shares
<1>2. CASE UNCHANGED <<seq, deal>>
  BY <1>2 DEF DealInv, Shares
<1>3. CASE /\ seq' = (seq + 1) % SeqWrap
           /\ deal' = [profile |-> p, picks |-> Append(before, w)]
  <2>1. w \in WanIfs
    <3>1. seq % Total(u) \in 0 .. Total(u) - 1
      <4> HIDE DEF u
      <4> QED
        BY <1>1, ModType
    <3>2. PICK i : Falls(seq % Total(u), u, i) /\ w = u[i].wan
      <4> HIDE DEF u
      <4> QED
        BY <1>1, <3>1, SlotIs
    <3> QED
      BY <1>1, <3>2, ListIs DEF Falls
  <2>2. PICK b \in 0 .. SeqWrap - 1 :
          DealtFrom(b, before, u) /\ Len(before) < Total(u) /\ b + Len(before) = seq
    <3>1. CASE /\ deal.profile = p /\ Len(deal.picks) < Total(u) /\ seq # 0
               /\ deal.picks # <<>>
      <4>1. before = deal.picks
        BY <3>1
      <4>2. PICK b \in 0 .. SeqWrap - 1 :
              /\ DealtFrom(b, deal.picks, u) /\ b + Len(deal.picks) <= SeqWrap
              /\ seq = Next0(b, Len(deal.picks))
        BY <3>1 DEF DealInv
      <4>3. b + Len(deal.picks) = seq
        <5>1. seq = IF b + Len(deal.picks) = SeqWrap THEN 0 ELSE b + Len(deal.picks)
          BY <4>2 DEF Next0
        <5> QED
          BY <3>1, <5>1
      <4> QED
        BY <3>1, <4>1, <4>2, <4>3
    <3>2. CASE ~ (/\ deal.profile = p /\ Len(deal.picks) < Total(u) /\ seq # 0
                  /\ deal.picks # <<>>)
      <4>1. before = <<>> /\ Len(<<>>) = 0 /\ <<>> \in Seq(WanIfs)
        BY <3>2
      <4> HIDE DEF u, before
      <4>2. Len(before) = 0 /\ before \in Seq(WanIfs)
        BY <4>1, Zenon
      <4>3. DealtFrom(seq, before, u)
        BY <1>1, <4>2 DEF DealtFrom
      <4> QED
        BY <1>1, <4>2, <4>3
    <3> QED
      BY <3>1, <3>2
  <2> DEFINE after == Append(before, w)
             n == Len(before)
  <2> HIDE DEF u, w, before
  <2>3. /\ after \in Seq(WanIfs) /\ Len(after) = n + 1 /\ n \in Nat
        /\ \A k \in 1 .. n : after[k] = before[k]
        /\ after[n + 1] = w
    BY <2>1, <2>2 DEF DealtFrom
  <2> HIDE DEF after, n
  <2>4. ASSUME NEW k \in 1 .. n + 1
        PROVE  after[k] = WrrSlotToWan((b + k - 1) % Total(u), u)
    <3>1. CASE k = n + 1
      <4>1. b + k - 1 = seq
        BY <2>2, <2>3, <3>1 DEF n
      <4> QED
        BY <2>3, <3>1, <4>1 DEF w
    <3>2. CASE k # n + 1
      <4>1. k \in 1 .. n
        BY <2>3, <3>2
      <4> QED
        BY <2>2, <2>3, <4>1 DEF DealtFrom, n
    <3> QED
      BY <3>1, <3>2
  <2>5. DealtFrom(b, after, u)
    <3>1. n + 1 <= Total(u)
      BY <1>1, <2>2, <2>3 DEF n
    <3> QED
      BY <2>3, <2>4, <3>1 DEF DealtFrom
  <2>6. b + Len(after) <= SeqWrap /\ seq' = Next0(b, Len(after))
    <3>1. b + Len(after) = seq + 1
      BY <1>1, <2>2, <2>3 DEF n
    <3>2. seq' = IF seq + 1 = SeqWrap THEN 0 ELSE seq + 1
      BY <1>1, <1>3, ModNext
    <3>3. seq + 1 <= SeqWrap
      BY <1>1
    <3> QED
      BY <3>1, <3>2, <3>3 DEF Next0
  <2>7. deal'.profile = p /\ deal'.picks = after
    BY <1>3 DEF after
  <2>8. DealtFrom(b, deal'.picks, Shares(deal.profile)')
    <3>1. Shares(deal.profile)' = u
      BY <1>1, <2>7 DEF Shares
    <3> QED
      BY <2>5, <2>7, <3>1
  <2>9. b + Len(deal'.picks) <= SeqWrap /\ seq' = Next0(b, Len(deal'.picks))
    BY <2>6, <2>7
  <2> QED
    BY <2>8, <2>9 DEF DealInv
<1> QED
  BY <1>2, <1>3 DEF SelectWan

LEMMA DealNext == ChoiceInv /\ DealInv /\ [Next]_vars => DealInv'
<1> SUFFICES ASSUME ChoiceInv, DealInv, [Next]_vars PROVE DealInv'
  OBVIOUS
<1>0. TypeOK
  BY DEF ChoiceInv
<1>1. ASSUME NEW p \in Profiles, OtherPacket(p) PROVE DealInv'
  BY <1>0, <1>1, SelectKeeps DEF OtherPacket
<1>2. ASSUME NEW c \in Conns, NEW fin \in BOOLEAN, Dequeue(c, fin) PROVE DealInv'
  <2>1. ProfileOf[c] \in Profiles
    BY ProfilesAssumption
  <2> QED
    BY <1>0, <1>2, <2>1, SelectKeeps DEF Dequeue
<1>3. CASE UNCHANGED <<tables, seq, deal>>
  BY <1>3 DEF DealInv, Shares
<1>4. ASSUME NEW b \in Tables, Reload(b) PROVE DealInv'
  BY <1>4 DEF Reload, DealInv
<1> QED
  BY ChoiceNextCases, <1>1, <1>2, <1>3, <1>4
     DEF Lookup, WorkerSet, Finish, Decrypt, RxSet, GcBegin, GcBucket, Close, Tick, vars

(***************************************************************************)
(* WeightsHonoured: wherever the counter that all profiles share stands    *)
(* when a round begins, whatever the number of WANs and their weights, and *)
(* whatever value the counter wraps round at, each WAN gets its weight in  *)
(* every whole round (flow_table.c:199-230, forwarder.c:636-656).          *)
(***************************************************************************)
THEOREM RoundsHonourWeights == Spec => []WeightsHonoured
<1>1. ChoiceInv /\ DealInv => WeightsHonoured
  <2> SUFFICES ASSUME ChoiceInv, DealInv, deal.profile \in Profiles,
                      Len(deal.picks) = Total(Shares(deal.profile)), NEW w \in WanIfs
               PROVE  Cardinality({k \in DOMAIN deal.picks : deal.picks[k] = w})
                        = Cardinality(Turns(Shares(deal.profile), w))
    BY DEF WeightsHonoured
  <2> DEFINE u == Shares(deal.profile)
  <2>1. u \in Lists /\ Total(u) \in Nat \ {0}
    BY SharesIs DEF ChoiceInv, TypeOK
  <2>2. PICK b \in 0 .. SeqWrap - 1 : DealtFrom(b, deal.picks, u)
    <3>1. deal.picks # <<>>
      BY <2>1
    <3> QED
      BY <3>1 DEF DealInv
  <2>3. b \in Nat
    BY TimeAssumption
  <2> HIDE DEF u
  <2>4. DOMAIN deal.picks = 1 .. Total(u)
    BY <2>2 DEF DealtFrom, u
  <2>5. {k \in DOMAIN deal.picks : deal.picks[k] = w}
          = {k \in 1 .. Total(u) : WrrSlotToWan((b + k - 1) % Total(u), u) = w}
    BY <2>2, <2>4 DEF DealtFrom, u
  <2> QED
    BY <2>1, <2>3, <2>5, RoundDealt DEF u
<1>2. Spec => []DealInv
  <2>1. Spec => []ChoiceInv
    BY ChoiceSafe
  <2> QED
    BY <2>1, DealInit, DealNext, PTL DEF Spec
<1> QED
  BY <1>1, <1>2, ChoiceSafe, PTL

-----------------------------------------------------------------------------
(***************************************************************************)
(* The TX rings.  The inductive invariant ties the frames that no kick has *)
(* offered to the count of pending packets that all senders share and the  *)
(* count to the senders that have still to flush.                          *)
(***************************************************************************)
\* What is not offered is counted as pending, and the places of the completion
\* ring are not exceeded.
Counted(r) ==
  /\ r.offered <= r.queued /\ r.queued - r.offered <= r.pending
  /\ r.air + r.done <= RingSize

SendInv ==
  /\ WanTypeOK
  /\ \A w \in Wans : Counted(tx[w]) /\ (tx[w].pending > 0 => \E s \in Senders : w \in used[s])

\* A record of rings, whatever its values.
IsRings(r) ==
  r \in [queued : {r.queued}, pending : {r.pending}, air : {r.air}, done : {r.done},
         offered : {r.offered}]

LEMMA RingsIn ==
  ASSUME NEW r, IsRings(r), r.queued \in 0 .. RingSize, r.pending \in 0 .. KickAt - 1,
         r.air \in 0 .. RingSize, r.done \in 0 .. RingSize, r.offered \in 0 .. RingSize
  PROVE  r \in Rings
BY DEF IsRings, Rings

-----------------------------------------------------------------------------
\* A kick, a sender's or one of poll(), and the preparation of a packet.
LEMMA OfferedIs ==
  ASSUME NEW r \in Rings, Counted(r), NEW k \in Offered(r)
  PROVE  k \in Rings /\ Counted(k) /\ k.offered = k.queued /\ k.pending = r.pending
<1>1. PICK n \in 0 .. r.queued :
        /\ r.air + r.done + n <= RingSize
        /\ k = [r EXCEPT !.queued = @ - n, !.air = @ + n, !.offered = r.queued - n]
  BY DEF Offered
<1>2. /\ r.queued \in 0 .. RingSize /\ r.air \in 0 .. RingSize /\ r.done \in 0 .. RingSize
      /\ r.pending \in 0 .. KickAt - 1 /\ RingSize \in Nat /\ KickAt \in Nat
  BY WanAssumption DEF Rings
<1>3. /\ k.queued = r.queued - n /\ k.air = r.air + n /\ k.offered = r.queued - n
      /\ k.done = r.done /\ k.pending = r.pending /\ IsRings(k)
  BY <1>1 DEF Rings, IsRings
<1>4. k \in Rings
  <2>1. /\ k.queued \in 0 .. RingSize /\ k.air \in 0 .. RingSize /\ k.done \in 0 .. RingSize
        /\ k.pending \in 0 .. KickAt - 1 /\ k.offered \in 0 .. RingSize
    BY <1>1, <1>2, <1>3
  <2> QED BY <1>3, <2>1, RingsIn
<1> QED BY <1>1, <1>2, <1>3, <1>4 DEF Counted

LEMMA KickedIs ==
  ASSUME NEW r, r \in Rings, Counted(r), NEW k \in Kicked(r)
  PROVE  k \in Rings /\ Counted(k) /\ k.pending = 0
<1>1. PICK o \in Offered(r) : k = [o EXCEPT !.pending = 0]
  BY DEF Kicked
<1>2. o \in Rings /\ Counted(o) /\ o.offered = o.queued
  BY OfferedIs
<1>3. k \in Rings /\ k.pending = 0 /\ k.offered = o.offered /\ k.queued = o.queued
      /\ k.air = o.air /\ k.done = o.done
  BY <1>1, <1>2, WanAssumption DEF Rings
<1>4. o.queued \in Nat
  BY <1>2 DEF Rings
<1> QED BY <1>2, <1>3, <1>4 DEF Counted

LEMMA ReadyIs ==
  ASSUME NEW r \in Rings, Counted(r), NEW k \in Ready(r)
  PROVE  k \in Rings /\ Counted(k) /\ (k.pending = 0 \/ k.pending = r.pending)
<1> DEFINE d == [r EXCEPT !.done = 0]
<1>1. /\ d \in Rings /\ d.queued = r.queued /\ d.pending = r.pending /\ d.air = r.air
      /\ d.offered = r.offered /\ d.done = 0
  BY WanAssumption DEF Rings
<1>2. Counted(d)
  BY <1>1, WanAssumption DEF Counted, Rings
<1>3. k = d \/ k \in Kicked(d)
  BY DEF Ready
<1> HIDE DEF d
<1> QED BY <1>1, <1>2, <1>3, KickedIs

LEMMA PutIs ==
  ASSUME NEW r \in Rings, Counted(r), ~ Full(r), NEW k \in Put(r)
  PROVE  k \in Rings /\ Counted(k)
<1> DEFINE q == [r EXCEPT !.queued = @ + 1, !.pending = @ + 1]
<1>0. /\ r.queued \in 0 .. RingSize /\ r.pending \in 0 .. KickAt - 1 /\ r.offered \in 0 .. RingSize
      /\ r.air \in 0 .. RingSize /\ r.done \in 0 .. RingSize
      /\ RingSize \in Nat /\ KickAt \in Nat \ {0}
  BY WanAssumption DEF Rings
<1>1. /\ q.queued = r.queued + 1 /\ q.pending = r.pending + 1
      /\ q.air = r.air /\ q.done = r.done /\ q.offered = r.offered /\ IsRings(q)
  BY DEF Rings, IsRings
<1>2. q.queued \in 0 .. RingSize
  BY <1>0, <1>1 DEF Full
<1>3. CASE q.pending >= KickAt
  <2>1. PICK n \in 0 .. q.queued :
          /\ q.air + q.done + n <= RingSize
          /\ k = [[q EXCEPT !.queued = @ - n, !.air = @ + n, !.offered = q.queued - n]
                    EXCEPT !.pending = 0]
    BY <1>3 DEF Put, Kicked, Offered
  <2>2. /\ k.queued = q.queued - n /\ k.air = q.air + n /\ k.offered = q.queued - n
        /\ k.done = q.done /\ k.pending = 0
    BY <2>1 DEF Rings
  <2>3. IsRings(k)
    BY <2>1 DEF Rings, IsRings
  <2>4. n \in Nat /\ n <= q.queued /\ k.queued \in 0 .. RingSize /\ k.air \in 0 .. RingSize
    BY <1>0, <1>1, <1>2, <2>1, <2>2
  <2>5. k \in Rings
    BY <1>0, <1>1, <2>2, <2>3, <2>4, RingsIn
  <2> QED BY <1>0, <1>1, <2>1, <2>2, <2>4, <2>5 DEF Counted
<1>4. CASE ~ (q.pending >= KickAt)
  <2>1. k = q
    BY <1>4 DEF Put
  <2>2. q \in Rings
    <3>1. q.pending \in 0 .. KickAt - 1
      BY <1>0, <1>1, <1>4
    <3> QED BY <1>0, <1>1, <1>2, <3>1, RingsIn
  <2>3. Counted(q)
    BY <1>0, <1>1 DEF Counted
  <2> QED BY <2>1, <2>2, <2>3
<1> QED BY <1>3, <1>4

-----------------------------------------------------------------------------
\* A step that changes one WAN's rings keeps the invariant if whoever has
\* packets pending there has still to flush.
LEMMA OneWan ==
  ASSUME SendInv, NEW w \in Wans, NEW r, r \in Rings, Counted(r), tx' = [tx EXCEPT ![w] = r],
         left' \in [Senders -> 0 .. MaxBurst], used' \in [Senders -> SUBSET Wans],
         r.pending > 0 => \E s \in Senders : w \in used'[s],
         \A v \in Wans \ {w}, s \in Senders : v \in used[s] => v \in used'[s]
  PROVE  SendInv'
<1>1. tx \in [Wans -> Rings]
  BY DEF SendInv, WanTypeOK
<1>2. tx' \in [Wans -> Rings] /\ tx'[w] = r /\ \A v \in Wans \ {w} : tx'[v] = tx[v]
  BY <1>1
<1>3. WanTypeOK'
  BY <1>2 DEF WanTypeOK
<1>4. ASSUME NEW v \in Wans
      PROVE  Counted(tx'[v]) /\ (tx'[v].pending > 0 => \E s \in Senders : v \in used'[s])
  <2>1. CASE v = w
    BY <1>2, <2>1
  <2>2. CASE v # w
    BY <1>2, <2>2 DEF SendInv
  <2> QED BY <2>1, <2>2
<1> QED BY <1>3, <1>4 DEF SendInv, Counted

LEMMA SendInit == WanInit => SendInv
<1> SUFFICES ASSUME WanInit PROVE SendInv
  OBVIOUS
<1>1. WanTypeOK
  BY WanAssumption DEF WanInit, WanTypeOK, Rings
<1>2. \A w \in Wans : Counted(tx[w]) /\ tx[w].pending = 0
  BY WanAssumption DEF WanInit, Counted
<1> QED BY <1>1, <1>2 DEF SendInv

LEMMA SendNext == SendInv /\ [WanNext]_wanVars => SendInv'
<1> SUFFICES ASSUME SendInv, [WanNext]_wanVars PROVE SendInv'
  OBVIOUS
<1>0. /\ WanTypeOK /\ \A w \in Wans : tx[w] \in Rings /\ Counted(tx[w])
      /\ \A w \in Wans : tx[w].pending > 0 => \E s \in Senders : w \in used[s]
  BY DEF SendInv, WanTypeOK
<1>1. ASSUME NEW s \in Senders, Begin(s) \/ Lose(s) PROVE SendInv'
  <2>1. left' \in [Senders -> 0 .. MaxBurst] /\ UNCHANGED <<used, tx>>
    BY <1>0, <1>1, WanAssumption DEF WanTypeOK, Begin, Lose, NextPacket
  <2> QED BY <1>0, <2>1 DEF SendInv, WanTypeOK
<1>2. ASSUME NEW s \in Senders, NEW w \in Wans, Send(s, w) PROVE SendInv'
  <2>1. PICK r \in Ready(tx[w]) : ~ Full(r) /\ \E q \in Put(r) : tx' = [tx EXCEPT ![w] = q]
    BY <1>2 DEF Send
  <2>2. r \in Rings /\ Counted(r)
    BY <1>0, ReadyIs
  <2>3. PICK q \in Put(r) : tx' = [tx EXCEPT ![w] = q]
    BY <2>1
  <2>4. q \in Rings /\ Counted(q)
    BY <2>1, <2>2, PutIs
  <2>5. left' \in [Senders -> 0 .. MaxBurst]
    BY <1>0, <1>2, WanAssumption DEF WanTypeOK, Send, NextPacket
  <2>6. /\ used' \in [Senders -> SUBSET Wans] /\ w \in used'[s]
        /\ \A v \in Wans \ {w}, u \in Senders : v \in used[u] => v \in used'[u]
    BY <1>0, <1>2 DEF WanTypeOK, Send
  <2> QED BY <2>3, <2>4, <2>5, <2>6, OneWan
<1>3. ASSUME NEW s \in Senders, NEW w \in Wans, Drop(s, w) PROVE SendInv'
  <2>1. PICK r \in Ready(tx[w]) : tx' = [tx EXCEPT ![w] = r]
    BY <1>3 DEF Drop
  <2>2. r \in Rings /\ Counted(r) /\ (r.pending = 0 \/ r.pending = tx[w].pending)
    BY <1>0, ReadyIs
  <2>3. left' \in [Senders -> 0 .. MaxBurst] /\ used' = used /\ used \in [Senders -> SUBSET Wans]
    BY <1>0, <1>3, WanAssumption DEF WanTypeOK, Drop, NextPacket
  <2>4. r.pending > 0 => \E u \in Senders : w \in used'[u]
    <3>1. r.pending > 0 => r.pending = tx[w].pending
      BY <2>2
    <3> QED BY <1>0, <2>3, <3>1
  <2>5. /\ used' \in [Senders -> SUBSET Wans]
        /\ \A v \in Wans \ {w}, u \in Senders : v \in used[u] => v \in used'[u]
    BY <2>3
  <2> QED BY <2>1, <2>2, <2>3, <2>4, <2>5, OneWan
<1>4. ASSUME NEW s \in Senders, NEW w \in Wans, Flush(s, w) PROVE SendInv'
  <2>1. PICK r \in (IF tx[w].pending > 0 THEN Kicked(tx[w]) ELSE {tx[w]}) : tx' = [tx EXCEPT ![w] = r]
    BY <1>4 DEF Flush
  <2>2. r \in Rings /\ Counted(r) /\ ~ (r.pending > 0)
    BY <1>0, <2>1, KickedIs
  <2>3. /\ left' = left /\ left \in [Senders -> 0 .. MaxBurst]
        /\ used' \in [Senders -> SUBSET Wans]
        /\ \A v \in Wans \ {w}, u \in Senders : v \in used[u] => v \in used'[u]
    BY <1>0, <1>4 DEF WanTypeOK, Flush
  <2>4. r.pending > 0 => \E u \in Senders : w \in used'[u]
    BY <2>2
  <2>5. left' \in [Senders -> 0 .. MaxBurst]
    BY <2>3
  <2> QED BY <2>1, <2>2, <2>3, <2>4, <2>5, OneWan
<1>5. ASSUME NEW w \in Wans, Complete(w) PROVE SendInv'
  <2> DEFINE r == [tx[w] EXCEPT !.air = @ - 1, !.done = @ + 1]
  <2>0. /\ tx[w].air \in 0 .. RingSize /\ tx[w].done \in 0 .. RingSize /\ RingSize \in Nat
        /\ tx[w].air > 0 /\ tx[w].air + tx[w].done <= RingSize
    BY <1>0, <1>5, WanAssumption DEF Rings, Counted, Complete
  <2>1. /\ r.air = tx[w].air - 1 /\ r.done = tx[w].done + 1 /\ r.queued = tx[w].queued
        /\ r.pending = tx[w].pending /\ r.offered = tx[w].offered /\ IsRings(r)
    BY <1>0 DEF Rings, IsRings
  <2>2. r \in Rings
    <3>1. /\ r.queued \in 0 .. RingSize /\ r.pending \in 0 .. KickAt - 1
          /\ r.offered \in 0 .. RingSize
      BY <1>0, <2>1 DEF Rings
    <3>2. r.air \in 0 .. RingSize /\ r.done \in 0 .. RingSize
      BY <2>0, <2>1
    <3> QED BY <2>1, <3>1, <3>2, RingsIn
  <2>3. Counted(r)
    BY <1>0, <2>0, <2>1 DEF Counted
  <2>4. tx' = [tx EXCEPT ![w] = r]
    BY <1>5 DEF Complete
  <2>5. UNCHANGED <<left, used>>
    BY <1>5 DEF Complete
  <2>6. left \in [Senders -> 0 .. MaxBurst] /\ used \in [Senders -> SUBSET Wans]
    BY <1>0 DEF WanTypeOK
  <2> HIDE DEF r
  <2> QED BY <1>0, <2>1, <2>2, <2>3, <2>4, <2>5, <2>6, OneWan
<1>6. ASSUME NEW w \in Wans, Poll(w) PROVE SendInv'
  <2>1. PICK r \in Offered(tx[w]) : tx' = [tx EXCEPT ![w] = r]
    BY <1>6 DEF Poll
  <2>2. r \in Rings /\ Counted(r) /\ r.pending = tx[w].pending
    BY <1>0, OfferedIs
  <2>3. /\ UNCHANGED <<left, used>>
        /\ left \in [Senders -> 0 .. MaxBurst] /\ used \in [Senders -> SUBSET Wans]
    BY <1>0, <1>6 DEF WanTypeOK, Poll
  <2> QED BY <1>0, <2>1, <2>2, <2>3, OneWan
<1>7. CASE UNCHANGED wanVars
  BY <1>0, <1>7 DEF wanVars, SendInv, WanTypeOK
<1> QED BY <1>1, <1>2, <1>3, <1>4, <1>5, <1>6, <1>7 DEF WanNext, Sender

LEMMA SendSafe == WanSpec => []SendInv
BY SendInit, SendNext, PTL DEF WanSpec

-----------------------------------------------------------------------------
\* The counters stay in range: pending_tx_count below the kick threshold, and
\* the kernel within the completion ring.
THEOREM WanTypeCorrect == WanSpec => []WanTypeOK
<1>1. SendInv => WanTypeOK
  BY DEF SendInv
<1> QED BY <1>1, SendSafe, PTL

\* No thread's frames stay in a WAN's TX ring unoffered: as long as there are
\* any, some thread has a flush of that WAN before it.
THEOREM NoneForgotten == WanSpec => []NothingForgotten
<1>1. SendInv => NothingForgotten
  <2> SUFFICES ASSUME SendInv, NEW w \in Wans, tx[w].offered < tx[w].queued
               PROVE  \E s \in Senders : w \in used[s]
    BY DEF NothingForgotten
  <2>1. /\ tx[w].offered \in Nat /\ tx[w].queued \in Nat /\ tx[w].pending \in Int
        /\ tx[w].queued - tx[w].offered <= tx[w].pending
    BY WanAssumption DEF SendInv, WanTypeOK, Rings, Counted
  <2> QED BY <2>1 DEF SendInv
<1> QED BY <1>1, SendSafe, PTL
=============================================================================
