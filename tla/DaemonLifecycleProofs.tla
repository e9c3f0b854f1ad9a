----------------------- MODULE DaemonLifecycleProofs ------------------------
(***************************************************************************)
(* Proofs about DaemonLifecycle for any set of profiles, any interfaces    *)
(* and any limit on the active profiles.  The inductive invariant says, in *)
(* each phase of the daemon thread, how the active ids relate to the       *)
(* active slot and to has_thread, and that a forwarder thread that is      *)
(* alive reads the active slot.                                            *)
(***************************************************************************)
EXTENDS DaemonLifecycle, SequenceTheorems, TLAPS

Phases == {"idle", "take", "apply", "join", "exited"}
Places == {"none", "start", "dead"} \cup Alive

Data ==
  /\ db \subseteq Profiles
  /\ pending \in Seq(Profiles) /\ batch \in Seq(Profiles)
  /\ active \in Seq(Profiles) /\ Len(active) <= MaxActive
  /\ slot \in [Slots -> IdLists]
  /\ activeSlot \in Slots /\ initSlot \in Slots
  /\ fwdCfg \in Slots \cup {NoCfg}
  /\ mpc \in Phases
  /\ fpc \in Places
  /\ runtime \in IdLists

Flags ==
  /\ hasThread \in BOOLEAN /\ unloading \in BOOLEAN /\ stopReq \in BOOLEAN
  /\ running \in BOOLEAN
  /\ drift \in BOOLEAN /\ raced \in BOOLEAN /\ stopped \in BOOLEAN /\ rearmed \in BOOLEAN

\* A list of active ids is applied: a load can be taken back.
ApplyInv ==
  mpc = "apply" =>
    /\ active # <<>>
    /\ unloading => hasThread
    /\ ~ unloading => (hasThread <=> Front(active) # <<>>)

\* What the active slot holds while there is a thread.
SlotInv ==
  hasThread /\ ~ drift =>
    /\ mpc \in {"idle", "take"} => slot[activeSlot] = active
    /\ mpc = "apply" /\ ~ unloading => slot[activeSlot] = Front(active)

\* What the forwarder thread works with.
ForwarderInv ==
  /\ fpc \in Alive => fwdCfg = activeSlot
  /\ fpc = "entered" /\ ~ raced => initSlot = activeSlot
  /\ fpc \in {"crypto", "check", "arm", "loop"} /\ ~ raced => runtime = slot[activeSlot]

Control ==
  /\ ApplyInv
  /\ mpc = "join" => hasThread
  /\ ThreadOwned
  /\ SlotInv
  /\ ForwarderInv

DaemonInv == Data /\ Flags /\ Control

-----------------------------------------------------------------------------
(***************************************************************************)
(* Lists of ids.                                                           *)
(***************************************************************************)
LEMMA IdListsAre == \A s : s \in IdLists <=> s \in Seq(Profiles) /\ Len(s) <= MaxActive
<1>1. MaxActive \in Nat
  BY DaemonAssumption
<1>2. ASSUME NEW s, s \in IdLists PROVE s \in Seq(Profiles) /\ Len(s) <= MaxActive
  <2>1. PICK n \in 0..MaxActive : s \in [1..n -> Profiles]
    BY <1>2 DEF IdLists
  <2> QED
    BY <1>1, <2>1
<1>3. ASSUME NEW s \in Seq(Profiles), Len(s) <= MaxActive PROVE s \in IdLists
  <2>1. Len(s) \in 0..MaxActive /\ s \in [1..Len(s) -> Profiles]
    BY <1>1, <1>3
  <2> QED
    BY <2>1 DEF IdLists
<1> QED
  BY <1>2, <1>3

\* The list a load started from is the front of the one it applies.
LEMMA FrontAppend ==
  ASSUME NEW s \in Seq(Profiles), NEW p \in Profiles
  PROVE  /\ Append(s, p) \in Seq(Profiles) /\ Append(s, p) # <<>>
         /\ Len(Append(s, p)) = Len(s) + 1
         /\ Front(Append(s, p)) = s
<1>1. /\ Append(s, p) \in Seq(Profiles) /\ Append(s, p) # <<>>
      /\ Len(Append(s, p)) = Len(s) + 1
  BY AppendProperties
<1>2. Front(Append(s, p)) = SubSeq(Append(s, p), 1, Len(s))
  BY <1>1 DEF Front
<1>3. SubSeq(Append(s, p), 1, Len(s)) = s
  OBVIOUS
<1> QED
  BY <1>1, <1>2, <1>3

LEMMA PartTyped ==
  ASSUME NEW s \in Seq(Profiles), NEW m \in 1 .. Len(s) + 1, NEW n \in 0 .. Len(s)
  PROVE  /\ SubSeq(s, m, n) \in Seq(Profiles)
         /\ Len(SubSeq(s, m, n)) = IF m <= n THEN n - m + 1 ELSE 0
<1>1. Len(s) \in Nat
  OBVIOUS
<1>2. \A i \in m .. n : i \in 1 .. Len(s)
  BY <1>1
<1>3. \A i \in m .. n : s[i] \in Profiles
  BY <1>2, ElementOfSeq
<1>4. m \in Int /\ n \in Int
  BY <1>1
<1> QED
  BY <1>3, <1>4, SubSeqProperties

LEMMA FrontTyped ==
  ASSUME NEW s \in Seq(Profiles), s # <<>>
  PROVE  Front(s) \in Seq(Profiles) /\ Len(Front(s)) = Len(s) - 1
<1> DEFINE n == Len(s) - 1
<1>1. Len(s) \in Nat \ {0} /\ n \in 0 .. Len(s) /\ 1 \in 1 .. Len(s) + 1 /\ n \in Nat
  OBVIOUS
<1> HIDE DEF n
<1>2. SubSeq(s, 1, n) \in Seq(Profiles) /\ Len(SubSeq(s, 1, n)) = IF 1 <= n THEN n - 1 + 1 ELSE 0
  BY <1>1, PartTyped
<1>3. Len(SubSeq(s, 1, n)) = n
  BY <1>1, <1>2
<1> QED
  BY <1>2, <1>3 DEF Front, n

LEMMA WithoutTyped ==
  ASSUME NEW s \in Seq(Profiles), NEW p, Contains(s, p)
  PROVE  Without(s, p) \in Seq(Profiles) /\ Len(Without(s, p)) = Len(s) - 1
<1> DEFINE k == CHOOSE i \in DOMAIN s : s[i] = p
           a == SubSeq(s, 1, k - 1)
           b == SubSeq(s, k + 1, Len(s))
<1>1. k \in 1 .. Len(s) /\ Len(s) \in Nat
  BY DEF Contains
<1> HIDE DEF k
<1>2. a \in Seq(Profiles) /\ Len(a) = k - 1
  <2>1. k - 1 \in 0 .. Len(s) /\ 1 \in 1 .. Len(s) + 1
    BY <1>1
  <2>2. a \in Seq(Profiles) /\ Len(a) = IF 1 <= k - 1 THEN k - 1 - 1 + 1 ELSE 0
    BY <2>1, PartTyped
  <2> QED
    BY <1>1, <2>2
<1>3. b \in Seq(Profiles) /\ Len(b) = Len(s) - k
  <2>1. k + 1 \in 1 .. Len(s) + 1 /\ Len(s) \in 0 .. Len(s)
    BY <1>1
  <2>2. b \in Seq(Profiles) /\ Len(b) = IF k + 1 <= Len(s) THEN Len(s) - (k + 1) + 1 ELSE 0
    BY <2>1, PartTyped
  <2> QED
    BY <1>1, <2>2
<1>4. Without(s, p) = a \o b
  BY DEF Without, RemoveAt, k
<1> HIDE DEF a, b
<1>5. a \o b \in Seq(Profiles) /\ Len(a \o b) = Len(a) + Len(b)
  BY <1>2, <1>3, ConcatProperties
<1> QED
  BY <1>1, <1>2, <1>3, <1>4, <1>5

-----------------------------------------------------------------------------
LEMMA DaemonNextCases ==
  ASSUME [Next]_vars
  PROVE  \/ \E p \in Profiles : EditProfile(p) \/ NotifyProfile(p)
         \/ ResetConnection \/ Signal
         \/ Poll \/ BatchDone \/ Load \/ UnloadUnknown \/ Unload \/ UnloadLast
         \/ BuildFails \/ Start \/ StartFails \/ ReloadRejected \/ Reload \/ Shutdown \/ Join
         \/ InitAborted \/ InitEnter \/ InitCrypto \/ InitDone \/ InitFails
         \/ RunCheck \/ RunArm \/ RunEnd
         \/ UNCHANGED vars
BY DEF Next, Daemon, Forwarder

LEMMA DaemonInit == Init => DaemonInv
<1> SUFFICES ASSUME Init PROVE DaemonInv
  OBVIOUS
<1>1. <<>> \in Seq(Profiles) /\ Len(<<>>) = 0 /\ 0 <= MaxActive
  BY DaemonAssumption
<1>2. <<>> \in IdLists
  <2>1. Len(<<>>) <= MaxActive
    BY <1>1
  <2> QED
    BY ONLY <1>1, <2>1, IdListsAre
<1>3. Data
  BY <1>1, <1>2 DEF Init, Data, Slots, Phases, Places
<1>4. Flags
  BY DEF Init, Flags
<1> QED
  BY <1>3, <1>4 DEF Init, DaemonInv, Control, ApplyInv, ThreadOwned, SlotInv, ForwarderInv, Alive

\* The ids of a list fit in a slot; a load adds one that does.
LEMMA ListsFit ==
  ASSUME Data
  PROVE  /\ active \in IdLists
         /\ Base \in Seq(Profiles) /\ Len(Base) <= MaxActive
         /\ batch # <<>> => Head(batch) \in Profiles /\ Tail(batch) \in Seq(Profiles)
BY IdListsAre, HeadTailProperties, DaemonAssumption DEF Data, Base

\* The steps that leave the list, the slots and the daemon's phase alone.
LEMMA DataNext == DaemonInv /\ [Next]_vars => Data'
<1> SUFFICES ASSUME DaemonInv, [Next]_vars PROVE Data'
  OBVIOUS
<1> USE DEF Data, Phases, Places, Alive, Slots, dbVars, daemonVars, fwdVars, history
<1>0. Data
  BY DEF DaemonInv
<1>fit. /\ active \in IdLists
        /\ Base \in Seq(Profiles) /\ Len(Base) <= MaxActive
        /\ batch # <<>> => Head(batch) \in Profiles /\ Tail(batch) \in Seq(Profiles)
  BY <1>0, ListsFit
<1>fail. ASSUME Fail, mpc = "apply" PROVE active' \in Seq(Profiles) /\ Len(active') <= MaxActive
  <2>1. active # <<>>
    BY <1>fail DEF DaemonInv, Control, ApplyInv
  <2>2. Front(active) \in Seq(Profiles) /\ Len(Front(active)) = Len(active) - 1
    BY <1>0, <2>1, FrontTyped
  <2> QED
    BY <1>0, <1>fail, <2>2, DaemonAssumption DEF Fail
<1>1. ASSUME NEW p \in Profiles, EditProfile(p) PROVE Data'
  BY <1>0, <1>1 DEF EditProfile
<1>2. ASSUME NEW p \in Profiles, NotifyProfile(p) PROVE Data'
  <2>1. Append(pending, p) \in Seq(Profiles)
    BY <1>0, AppendProperties
  <2> QED
    BY <1>0, <1>2, <2>1 DEF NotifyProfile
<1>3. CASE ResetConnection
  <2>1. <<>> \in Seq(Profiles)
    OBVIOUS
  <2> QED
    BY <1>0, <1>3, <2>1 DEF ResetConnection
<1>4. CASE Signal
  BY <1>0, <1>4 DEF Signal
<1>5. CASE Poll
  <2>1. <<>> \in Seq(Profiles)
    OBVIOUS
  <2> QED
    BY <1>0, <1>5, <2>1 DEF Poll
<1>6. CASE BatchDone
  BY <1>0, <1>6 DEF BatchDone
<1>7. CASE Load
  <2> DEFINE p == Head(batch)
  <2>1. p \in Profiles /\ Tail(batch) \in Seq(Profiles)
    BY <1>fit, <1>7 DEF Load
  <2>2. ~ Full => /\ Append(Base, p) \in Seq(Profiles)
                  /\ Len(Append(Base, p)) <= MaxActive
    BY <1>fit, <2>1, AppendProperties, DaemonAssumption DEF Full
  <2> QED
    BY <1>0, <1>fit, <1>7, <2>1, <2>2 DEF Load
<1>8. CASE UnloadUnknown
  BY <1>0, <1>fit, <1>8 DEF UnloadUnknown
<1>9. CASE Unload
  <2>1. /\ Without(active, Head(batch)) \in Seq(Profiles)
        /\ Len(Without(active, Head(batch))) = Len(active) - 1
    BY <1>0, <1>9, WithoutTyped DEF Unload
  <2>2. Len(active) - 1 <= MaxActive
    BY <1>0, DaemonAssumption
  <2> QED
    BY <1>0, <1>fit, <1>9, <2>1, <2>2 DEF Unload
<1>10. CASE UnloadLast
  <2>1. <<>> \in Seq(Profiles) /\ Len(<<>>) <= MaxActive
    BY DaemonAssumption
  <2> QED
    BY <1>0, <1>fit, <1>10, <2>1 DEF UnloadLast
<1>11. CASE BuildFails
  BY <1>0, <1>11, <1>fail DEF BuildFails, Fail
<1>12. CASE Start
  BY <1>0, <1>fit, <1>12 DEF Start, Built
<1>13. CASE StartFails
  BY <1>0, <1>fit, <1>13, <1>fail DEF StartFails, Built, Fail
<1>14. CASE ReloadRejected
  BY <1>0, <1>fit, <1>14, <1>fail DEF ReloadRejected, Built, Fail, Written, NextSlot
<1>15. CASE Reload
  BY <1>0, <1>fit, <1>15 DEF Reload, Built, Written, NextSlot, Rebuilt
<1>16. CASE Shutdown
  BY <1>0, <1>16 DEF Shutdown
<1>17. CASE Join
  BY <1>0, <1>17 DEF Join
<1>18. CASE InitAborted \/ InitEnter \/ InitCrypto \/ InitDone
  BY <1>0, <1>18 DEF InitAborted, InitEnter, InitCrypto, InitDone
<1>19. CASE InitFails \/ RunCheck \/ RunArm \/ RunEnd
  BY <1>0, <1>19 DEF InitFails, RunCheck, RunArm, RunEnd
<1>20. CASE UNCHANGED vars
  BY <1>0, <1>20 DEF vars
<1> QED
  BY DaemonNextCases, <1>1, <1>2, <1>3, <1>4, <1>5, <1>6, <1>7, <1>8, <1>9, <1>10, <1>11,
     <1>12, <1>13, <1>14, <1>15, <1>16, <1>17, <1>18, <1>19, <1>20

LEMMA FlagsNext == DaemonInv /\ [Next]_vars => Flags'
<1> SUFFICES ASSUME DaemonInv, [Next]_vars PROVE Flags'
  OBVIOUS
<1> USE DEF Flags, dbVars, daemonVars, fwdVars, history, Fail
<1>0. Flags
  BY DEF DaemonInv
<1>1. ASSUME NEW p \in Profiles, EditProfile(p) \/ NotifyProfile(p) PROVE Flags'
  BY <1>0, <1>1 DEF EditProfile, NotifyProfile
<1>2. CASE ResetConnection \/ Signal \/ Poll \/ BatchDone
  BY <1>0, <1>2 DEF ResetConnection, Signal, Poll, BatchDone
<1>3. CASE Load \/ UnloadUnknown \/ Unload \/ UnloadLast
  BY <1>0, <1>3 DEF Load, UnloadUnknown, Unload, UnloadLast
<1>4. CASE BuildFails \/ Start \/ StartFails
  BY <1>0, <1>4 DEF BuildFails, Start, StartFails
<1>5. CASE ReloadRejected \/ Reload
  BY <1>0, <1>5 DEF ReloadRejected, Reload
<1>6. CASE Shutdown \/ Join
  BY <1>0, <1>6 DEF Shutdown, Join
<1>7. CASE InitAborted \/ InitEnter \/ InitCrypto \/ InitDone
  BY <1>0, <1>7 DEF InitAborted, InitEnter, InitCrypto, InitDone
<1>8. CASE InitFails \/ RunCheck \/ RunArm \/ RunEnd
  BY <1>0, <1>8 DEF InitFails, RunCheck, RunArm, RunEnd
<1>9. CASE UNCHANGED vars
  BY <1>0, <1>9 DEF vars
<1> QED
  BY DaemonNextCases, <1>1, <1>2, <1>3, <1>4, <1>5, <1>6, <1>7, <1>8, <1>9

-----------------------------------------------------------------------------
(***************************************************************************)
(* The steps.  `Lists' is what the invariant says of the daemon thread.    *)
(***************************************************************************)
Lists == ApplyInv /\ (mpc = "join" => hasThread) /\ ThreadOwned /\ SlotInv

\* A load that fails is taken back, an unload that fails leaves a drift.
LEMMA FailKeepsLists ==
  ASSUME DaemonInv, mpc = "apply", Fail,
         UNCHANGED <<hasThread, activeSlot, fpc>>,
         hasThread => slot'[activeSlot] = slot[activeSlot]
  PROVE  Lists'
<1> USE DEF DaemonInv, Control, Fail
<1>1. ApplyInv' /\ (mpc = "join" => hasThread)'
  BY DEF ApplyInv
<1>2. hasThread <=> active' # <<>>
  BY DEF ApplyInv
<1>3. ThreadOwned'
  BY <1>2 DEF ThreadOwned
<1>4. SlotInv'
  BY DEF SlotInv
<1> QED
  BY <1>1, <1>3, <1>4 DEF Lists

LEMMA LoadKeepsLists == DaemonInv /\ Load => Lists'
<1> SUFFICES ASSUME DaemonInv, Load PROVE Lists'
  OBVIOUS
<1>0. Data
  BY DEF DaemonInv
<1>1. /\ mpc = "take" /\ batch # <<>>
      /\ UNCHANGED <<slot, activeSlot, hasThread, fpc, drift>>
  BY DEF Load, fwdVars, history
<1>2. /\ hasThread <=> active # <<>>
      /\ ~ hasThread => fpc \in {"none", "dead"}
      /\ hasThread /\ ~ drift => slot[activeSlot] = active
  BY <1>1 DEF DaemonInv, Control, ThreadOwned, SlotInv
<1>3. (hasThread <=> Base # <<>>) /\ (hasThread => Base = active)
  BY <1>2 DEF Base
<1>4. CASE active' = Base /\ UNCHANGED <<mpc, unloading>>
  BY <1>1, <1>2, <1>3, <1>4 DEF Lists, ApplyInv, ThreadOwned, SlotInv
<1>5. CASE active' = Append(Base, Head(batch)) /\ mpc' = "apply" /\ unloading' = FALSE
  <2>1. Base \in Seq(Profiles) /\ Head(batch) \in Profiles
    BY <1>0, <1>1, ListsFit
  <2>2. active' # <<>> /\ Front(active') = Base
    BY <1>5, <2>1, FrontAppend
  <2> QED
    BY <1>1, <1>2, <1>3, <1>5, <2>2 DEF Lists, ApplyInv, ThreadOwned, SlotInv
<1> QED
  BY <1>4, <1>5 DEF Load

LEMMA UnloadKeepsLists == DaemonInv /\ (UnloadUnknown \/ Unload \/ UnloadLast) => Lists'
<1> SUFFICES ASSUME DaemonInv, UnloadUnknown \/ Unload \/ UnloadLast PROVE Lists'
  OBVIOUS
<1> USE DEF fwdVars, history
<1>1. mpc = "take" /\ UNCHANGED <<slot, activeSlot, hasThread, fpc, drift>>
  BY DEF UnloadUnknown, Unload, UnloadLast
<1>2. /\ hasThread <=> active # <<>>
      /\ ~ hasThread => fpc \in {"none", "dead"}
      /\ hasThread /\ ~ drift => slot[activeSlot] = active
  BY <1>1 DEF DaemonInv, Control, ThreadOwned, SlotInv
<1>3. CASE UnloadUnknown
  BY <1>1, <1>2, <1>3 DEF UnloadUnknown, Lists, ApplyInv, ThreadOwned, SlotInv
<1>4. CASE Unload
  <2>1. active # <<>>
    <3>1. PICK i \in DOMAIN active : TRUE
      BY <1>4 DEF Unload, Contains, DaemonInv, Data
    <3> QED
      BY <3>1
  <2>2. active' # <<>> /\ mpc' = "apply" /\ unloading' = TRUE
    BY <1>4 DEF Unload
  <2> QED
    BY <1>1, <1>2, <2>1, <2>2 DEF Lists, ApplyInv, ThreadOwned, SlotInv
<1>5. CASE UnloadLast
  <2>1. active # <<>>
    BY <1>5 DEF UnloadLast
  <2>2. mpc' = "join" /\ hasThread'
    BY <1>1, <1>2, <1>5, <2>1 DEF UnloadLast
  <2> QED
    BY <1>1, <1>2, <2>2 DEF Lists, ApplyInv, ThreadOwned, SlotInv
<1> QED
  BY <1>3, <1>4, <1>5

LEMMA ApplyKeepsLists == DaemonInv /\ (BuildFails \/ Start \/ StartFails \/ ReloadRejected \/ Reload) => Lists'
<1> SUFFICES ASSUME DaemonInv, BuildFails \/ Start \/ StartFails \/ ReloadRejected \/ Reload PROVE Lists'
  OBVIOUS
<1> USE DEF fwdVars, history
<1>1. /\ mpc = "apply" /\ active # <<>>
      /\ slot \in [Slots -> IdLists] /\ activeSlot \in Slots
      /\ ~ hasThread => fpc \in {"none", "dead"}
  BY DEF BuildFails, Start, StartFails, ReloadRejected, Reload, Built,
         DaemonInv, Data, Control, ApplyInv, ThreadOwned
<1>2. NextSlot \in Slots /\ NextSlot # activeSlot
  BY <1>1 DEF Slots, NextSlot
<1>3. CASE BuildFails
  BY <1>1, <1>3, FailKeepsLists DEF BuildFails
<1>4. CASE Start
  <2>1. slot'[0] = active /\ activeSlot' = 0
    BY <1>1, <1>4 DEF Start, Slots
  <2>2. mpc' = "take" /\ hasThread' = TRUE /\ active' = active
    BY <1>4 DEF Start
  <2> QED
    BY <1>1, <2>1, <2>2 DEF Lists, ApplyInv, ThreadOwned, SlotInv
<1>5. CASE StartFails
  <2>1. mpc' = "take" /\ ~ hasThread /\ hasThread' = hasThread /\ fpc' = fpc
    BY <1>5 DEF StartFails, Fail
  <2>2. ~ unloading /\ Front(active) = <<>>
    BY <1>1, <2>1 DEF DaemonInv, Control, ApplyInv
  <2>3. active' = <<>>
    BY <1>5, <2>2 DEF StartFails, Fail
  <2> QED
    BY <1>1, <2>1, <2>3 DEF Lists, ApplyInv, ThreadOwned, SlotInv
<1>6. CASE ReloadRejected
  <2>1. slot'[activeSlot] = slot[activeSlot]
    BY <1>1, <1>2, <1>6 DEF ReloadRejected, Written
  <2> QED
    BY <1>1, <1>6, <2>1, FailKeepsLists DEF ReloadRejected
<1>7. CASE Reload
  <2>1. slot'[NextSlot] = active /\ activeSlot' = NextSlot
    BY <1>1, <1>2, <1>7 DEF Reload, Written
  <2>2. mpc' = "take" /\ hasThread /\ hasThread' = hasThread /\ active' = active
    BY <1>7 DEF Reload
  <2> QED
    BY <1>1, <2>1, <2>2 DEF Lists, ApplyInv, ThreadOwned, SlotInv
<1> QED
  BY <1>3, <1>4, <1>5, <1>6, <1>7

\* The other steps change the phase of the daemon thread or the place of the
\* forwarder thread, and no list.
LEMMA ListsNext == DaemonInv /\ [Next]_vars => Lists'
<1> SUFFICES ASSUME DaemonInv, [Next]_vars PROVE Lists'
  OBVIOUS
<1> USE DEF dbVars, daemonVars, fwdVars, history
<1>0. Lists
  BY DEF DaemonInv, Control, Lists
<1> USE DEF Lists, ApplyInv, ThreadOwned, SlotInv
<1>1. ASSUME NEW p \in Profiles, EditProfile(p) \/ NotifyProfile(p) PROVE Lists'
  BY <1>0, <1>1 DEF EditProfile, NotifyProfile
<1>2. CASE ResetConnection \/ Signal
  BY <1>0, <1>2 DEF ResetConnection, Signal
<1>3. CASE Poll \/ BatchDone
  BY <1>0, <1>3 DEF Poll, BatchDone
<1>4. CASE Shutdown
  BY <1>0, <1>4 DEF Shutdown
<1>5. CASE Join
  BY <1>0, <1>5 DEF Join
<1>6. CASE InitAborted \/ InitEnter \/ InitCrypto \/ InitDone
  BY <1>0, <1>6 DEF InitAborted, InitEnter, InitCrypto, InitDone
<1>7. CASE InitFails \/ RunCheck \/ RunArm \/ RunEnd
  BY <1>0, <1>7 DEF InitFails, RunCheck, RunArm, RunEnd
<1>8. CASE UNCHANGED vars
  BY <1>0, <1>8 DEF vars
<1> QED
  BY DaemonNextCases, LoadKeepsLists, UnloadKeepsLists, ApplyKeepsLists,
     <1>1, <1>2, <1>3, <1>4, <1>5, <1>6, <1>7, <1>8

\* A live forwarder thread reads the active slot, with contexts built for it.
LEMMA ForwarderNext == DaemonInv /\ [Next]_vars => ForwarderInv'
<1> SUFFICES ASSUME DaemonInv, [Next]_vars PROVE ForwarderInv'
  OBVIOUS
<1> USE DEF dbVars, daemonVars, fwdVars, history
<1>0. /\ ForwarderInv
      /\ slot \in [Slots -> IdLists] /\ activeSlot \in Slots
      /\ ~ hasThread => fpc \in {"none", "dead"}
  BY DEF DaemonInv, Control, Data, ThreadOwned
<1>n. NextSlot \in Slots /\ NextSlot # activeSlot
  BY <1>0 DEF Slots, NextSlot
<1> USE DEF ForwarderInv, Alive
<1>1. ASSUME NEW p \in Profiles, EditProfile(p) \/ NotifyProfile(p) PROVE ForwarderInv'
  BY <1>0, <1>1 DEF EditProfile, NotifyProfile
<1>2. CASE ResetConnection \/ Signal \/ Poll \/ BatchDone
  BY <1>0, <1>2 DEF ResetConnection, Signal, Poll, BatchDone
<1>3. CASE Load \/ UnloadUnknown \/ Unload \/ UnloadLast
  BY <1>0, <1>3 DEF Load, UnloadUnknown, Unload, UnloadLast
<1>4. CASE BuildFails \/ Shutdown \/ Join
  BY <1>0, <1>4 DEF BuildFails, Shutdown, Join
<1>5. CASE Start \/ StartFails
  <2>1. fpc' \notin Alive
    BY <1>0, <1>5 DEF Start, StartFails
  <2> QED
    BY <2>1
<1>6. CASE ReloadRejected
  <2>1. slot'[activeSlot] = slot[activeSlot]
    BY <1>0, <1>n, <1>6 DEF ReloadRejected, Written
  <2> QED
    BY <1>0, <1>6, <2>1 DEF ReloadRejected
<1>7. CASE Reload
  <2>1. /\ slot'[NextSlot] = active /\ activeSlot' = NextSlot /\ fwdCfg' = NextSlot
        /\ Written[activeSlot] = slot[activeSlot]
        /\ fpc' = fpc
    BY <1>0, <1>n, <1>7 DEF Reload, Written
  <2>2. ~ raced' => fpc # "entered" /\ (~ raced \/ Written[fwdCfg] # active)
    BY <1>7 DEF Reload
  <2>3. ASSUME fpc \in {"crypto", "check", "arm", "loop"}, ~ raced \/ Written[fwdCfg] # active
        PROVE  runtime' = active
    BY <1>0, <1>7, <2>1, <2>3 DEF Reload, Rebuilt
  <2> QED
    BY <2>1, <2>2, <2>3
<1>8. CASE InitAborted \/ InitEnter \/ InitCrypto \/ InitDone
  BY <1>0, <1>8 DEF InitAborted, InitEnter, InitCrypto, InitDone
<1>9. CASE InitFails \/ RunCheck \/ RunArm \/ RunEnd
  BY <1>0, <1>9 DEF InitFails, RunCheck, RunArm, RunEnd
<1>10. CASE UNCHANGED vars
  BY <1>0, <1>10 DEF vars
<1> QED
  BY DaemonNextCases, <1>1, <1>2, <1>3, <1>4, <1>5, <1>6, <1>7, <1>8, <1>9, <1>10

LEMMA DaemonNext == DaemonInv /\ [Next]_vars => DaemonInv'
BY DataNext, FlagsNext, ListsNext, ForwarderNext DEF DaemonInv, Control, Lists

LEMMA DaemonSafe == Spec => []DaemonInv
BY DaemonInit, DaemonNext, PTL DEF Spec

-----------------------------------------------------------------------------
(***************************************************************************)
(* TypeOK: no notification, failure or reload takes a list of ids past     *)
(* MAX_ACTIVE_PROFILE_IDS or puts a thread in a place it does not have     *)
(* (main.c:285-343).                                                       *)
(***************************************************************************)
THEOREM DaemonTypeCorrect == Spec => []TypeOK
<1>1. DaemonInv => TypeOK
  BY IdListsAre DEF DaemonInv, Data, Flags, TypeOK, Phases, Places
<1> QED
  BY <1>1, DaemonSafe, PTL

(***************************************************************************)
(* ThreadOwned: without has_thread no forwarder thread is there, and a     *)
(* thread belongs to some active profile (main.c:199-232, 328-329).        *)
(***************************************************************************)
THEOREM ThreadIsOwned == Spec => []ThreadOwned
<1>1. DaemonInv => ThreadOwned
  BY DEF DaemonInv, Control
<1> QED
  BY <1>1, DaemonSafe, PTL

(***************************************************************************)
(* InstalledIsActive: between two notifications a running forwarder works  *)
(* with the configuration of exactly the active profiles, unless an unload *)
(* could not be applied (main.c:242-343).                                  *)
(***************************************************************************)
THEOREM ActiveIsInstalled == Spec => []InstalledIsActive
<1>1. DaemonInv => InstalledIsActive
  BY DEF DaemonInv, Control, ThreadOwned, SlotInv, ForwarderInv, InstalledIsActive, Alive
<1> QED
  BY <1>1, DaemonSafe, PTL

(***************************************************************************)
(* RuntimeIsInstalled: the crypto contexts of a running forwarder were     *)
(* built for the policies it reads, unless a reload overtook               *)
(* forwarder_init() and none has built them anew since (forwarder.c:       *)
(* 272-320, 2487-2511).                                                    *)
(***************************************************************************)
THEOREM ContextsAreInstalled == Spec => []RuntimeIsInstalled
<1>1. DaemonInv => RuntimeIsInstalled
  BY DEF DaemonInv, Control, ForwarderInv, RuntimeIsInstalled, Alive
<1> QED
  BY <1>1, DaemonSafe, PTL

(***************************************************************************)
(* InUseSlotStable: the slot a live forwarder thread reads is never        *)
(* written (main.c:211-212, 250-251).                                      *)
(***************************************************************************)
THEOREM SlotInUseIsStable == Spec => InUseSlotStable
<1> DEFINE Stable == \A s \in Slots : fpc \in Alive /\ s = fwdCfg => UNCHANGED slot[s]
<1>1. DaemonInv /\ [Next]_vars => [Stable]_vars
  <2> SUFFICES ASSUME DaemonInv, [Next]_vars, fpc \in Alive, fwdCfg \in Slots
               PROVE  slot'[fwdCfg] = slot[fwdCfg]
    OBVIOUS
  <2>0. /\ fwdCfg = activeSlot /\ hasThread
        /\ slot \in [Slots -> IdLists] /\ activeSlot \in Slots
    BY DEF DaemonInv, Control, Data, ThreadOwned, ForwarderInv, Alive
  <2>1. NextSlot \in Slots /\ NextSlot # activeSlot
    BY <2>0 DEF Slots, NextSlot
  <2>2. CASE ReloadRejected \/ Reload
    BY <2>0, <2>1, <2>2 DEF ReloadRejected, Reload, Written
  <2>3. CASE Start \/ StartFails
    BY <2>0, <2>3 DEF Start, StartFails
  <2>4. CASE UNCHANGED slot
    BY <2>4
  <2>5. ReloadRejected \/ Reload \/ Start \/ StartFails \/ UNCHANGED slot
    BY DaemonNextCases
       DEF EditProfile, NotifyProfile, ResetConnection, Signal, Poll, BatchDone, Load,
           UnloadUnknown, Unload, UnloadLast, BuildFails, Shutdown, Join, InitAborted,
           InitEnter, InitCrypto, InitDone, InitFails, RunCheck, RunArm, RunEnd,
           vars, dbVars, daemonVars, fwdVars, history
  <2> QED
    BY <2>2, <2>3, <2>4, <2>5
<1> QED
  BY <1>1, DaemonSafe, PTL DEF Spec, InUseSlotStable

-----------------------------------------------------------------------------
(***************************************************************************)
(* Why a join returns: the thread it waits for has been told to stop, and  *)
(* has only so many steps left.                                            *)
(***************************************************************************)
\* There is a thread to wait for, and it finds running = 0 unless it has set
\* running itself after forwarder_stop().
JoinHeeded ==
  mpc = "join" => /\ fpc # "none" /\ stopped
                  /\ running => rearmed

StepsLeft ==
  [none |-> 0, dead |-> 0, loop |-> 1, arm |-> 2, check |-> 3, crypto |-> 4, entered |-> 5,
   start |-> 6]

\* Whoever steps while the daemon waits, the forwarder gets no new thread and
\* its thread does not go back.
JoinAdvances ==
  mpc = "join" => \/ UNCHANGED fpc
                  \/ StepsLeft[fpc'] < StepsLeft[fpc]

(***************************************************************************)
(* runtime_stop_forwarder() never waits for a thread that does not exist   *)
(* or was not told to stop (main.c:273-279), except for one whose          *)
(* forwarder_run() has set running after forwarder_stop() cleared it       *)
(* (forwarder.c:2837): such a thread runs on, and only a signal stops it.  *)
(***************************************************************************)
THEOREM JoinIsHeeded == Spec => []JoinHeeded
<1> DEFINE HeedInv == JoinHeeded /\ (hasThread => fpc # "none")
<1>1. Init => HeedInv
  BY DEF Init, JoinHeeded
<1>2. DaemonInv /\ HeedInv /\ [Next]_vars => HeedInv'
  <2> SUFFICES ASSUME DaemonInv, HeedInv, [Next]_vars PROVE HeedInv'
    OBVIOUS
  <2>0. mpc = "join" => hasThread
    BY DEF DaemonInv, Control
  <2>1. CASE UnloadLast \/ Shutdown
    BY <2>1 DEF UnloadLast, Shutdown, JoinHeeded, fwdVars
  <2>2. CASE Signal
    BY <2>2 DEF Signal, JoinHeeded, dbVars, daemonVars, fwdVars
  <2>3. CASE RunArm
    BY <2>3 DEF RunArm, JoinHeeded, dbVars, daemonVars
  <2>4. CASE InitAborted \/ InitEnter \/ InitCrypto \/ InitDone \/ InitFails \/ RunCheck \/ RunEnd
    BY <2>4 DEF InitAborted, InitEnter, InitCrypto, InitDone, InitFails, RunCheck, RunEnd,
       JoinHeeded, dbVars, daemonVars, history
  <2>5. CASE Start \/ StartFails \/ ReloadRejected \/ Reload \/ BuildFails
    BY <2>5 DEF Start, StartFails, ReloadRejected, Reload, BuildFails, Fail, JoinHeeded, fwdVars
  <2>6. CASE Poll \/ BatchDone \/ Load \/ UnloadUnknown \/ Unload \/ Join
    BY <2>6 DEF Poll, BatchDone, Load, UnloadUnknown, Unload, Join, JoinHeeded, fwdVars, history
  <2>7. CASE \/ UNCHANGED vars \/ ResetConnection
             \/ \E p \in Profiles : EditProfile(p) \/ NotifyProfile(p)
    BY <2>7 DEF vars, ResetConnection, EditProfile, NotifyProfile, JoinHeeded, daemonVars,
       fwdVars, history
  <2> QED
    BY DaemonNextCases, <2>1, <2>2, <2>3, <2>4, <2>5, <2>6, <2>7
<1>3. Spec => []HeedInv
  BY <1>1, <1>2, DaemonSafe, PTL DEF Spec
<1> QED
  BY <1>3, PTL

(***************************************************************************)
(* While it waits, the thread takes six steps at most before it is dead    *)
(* (forwarder.c:2277-2478, 2832-2862), and none of them, nor a             *)
(* notification, a signal or an edit meanwhile, gives it new ones.         *)
(***************************************************************************)
THEOREM JoinRunsOut == Spec => [][JoinAdvances]_vars
<1>1. [Next]_vars => [JoinAdvances]_vars
  <2> SUFFICES ASSUME [Next]_vars, mpc = "join", fpc' # fpc
               PROVE  StepsLeft[fpc'] < StepsLeft[fpc]
    BY DEF JoinAdvances
  <2>1. ~ (Start \/ StartFails \/ ReloadRejected \/ Reload)
    BY DEF Start, StartFails, ReloadRejected, Reload, Built
  <2>2. ~ (Poll \/ BatchDone \/ Load \/ UnloadUnknown \/ Unload \/ UnloadLast \/ BuildFails
           \/ Shutdown)
    BY DEF Poll, BatchDone, Load, UnloadUnknown, Unload, UnloadLast, BuildFails, Shutdown
  <2>3. ~ (Join \/ Signal \/ ResetConnection \/ UNCHANGED vars)
    BY DEF Join, Signal, ResetConnection, vars, fwdVars
  <2>4. ~ \E p \in Profiles : EditProfile(p) \/ NotifyProfile(p)
    BY DEF EditProfile, NotifyProfile, fwdVars
  <2>5. \/ InitAborted \/ InitEnter \/ InitCrypto \/ InitDone \/ InitFails \/ RunCheck \/ RunArm
        \/ RunEnd
    BY DaemonNextCases, <2>1, <2>2, <2>3, <2>4
  <2> QED
    BY <2>5 DEF InitAborted, InitEnter, InitCrypto, InitDone, InitFails, RunCheck, RunArm,
       RunEnd, StepsLeft
<1> QED
  BY <1>1, PTL DEF Spec
=============================================================================
