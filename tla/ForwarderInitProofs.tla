------------------------ MODULE ForwarderInitProofs -------------------------
(***************************************************************************)
(* Proofs about ForwarderInit for any interfaces, hosts and profiles.      *)
(* PrepareInv says that the LAN a peer is waited for is the one it is      *)
(* entered for, and relates what was decided once (initL2, the WANs told,  *)
(* the loops) to the configuration in use and to what reloads have changed *)
(* since.  ConfigsInv types what the merge of the profiles computes: its   *)
(* recursive functions are justified by induction on numbers, which        *)
(* NatLessThanWellFounded and WFMin give.  QueueInv counts the queues by   *)
(* what is set up, and UsedInv says what the loops start from.             *)
(***************************************************************************)
EXTENDS ForwarderInit, SequenceTheorems, WellFoundedInduction, TLAPS

MacTable == [Lans -> Macs]

\* The LANs and networks of a configuration do not matter here.
IsConf(c) ==
  /\ c \in [lans : {c.lans}, crypt : BOOLEAN, l2 : BOOLEAN, nets : {c.nets}, peer : MacTable]
  /\ c.l2 => c.crypt

IsList(s) == s \in Seq(ToSet(s))

Shapes ==
  /\ slots \in [0..1 -> {slots[0], slots[1]}]
  /\ IsConf(slots[0]) /\ IsConf(slots[1])
  /\ slot \in 0..1 /\ li \in Nat \ {0} /\ IsList(up)
  /\ file \in MacTable /\ ifmac \in MacTable
  /\ crypt \in BOOLEAN /\ initL2 \in BOOLEAN /\ clobbered \in BOOLEAN

\* A table has hosts at their own LANs, or such as strayed there.
RightMacs(table, s) ==
  \A l \in Lans : table[l] = NoMac \/ table[l] \in {h \in Hosts : HomeOf[h] = l \/ <<l, h>> \in s}

\* The socket that waits for a peer is bound to the LAN the loop is at.
CableInv ==
  ~ clobbered =>
    /\ RightMacs(file, strays) /\ RightMacs(ifmac, strays)
    /\ RightMacs(slots[0].peer, strays) /\ RightMacs(slots[1].peer, strays)
    /\ pc \in {"check", "recv"} => sock = slots[0].lans[li]

Working == Preparing \cup {"choose", "run"}

\* What was read of the configuration, and what has changed since.
CryptInv ==
  /\ pc = "begin" => slot = 0
  /\ pc \in Working => (crypt <=> slots[slot].crypt)
  /\ pc \in Working /\ slots[slot].l2 => initL2 \/ "l2" \in late
  /\ pc \in Preparing /\ initL2 => slots[0].crypt \/ "wiped" \in late
  /\ pc = "run" /\ loops = "plain" /\ crypt => "crypt" \in late

Excused == "l2" \in late \/ "wiped" \in late

\* The WANs that are set up know of layer 2.
WanInv ==
  \A i \in DOMAIN Wans :
    (pc = "wan" /\ i < li) \/ pc \in {"choose", "run"} =>
      /\ Wans[i] \in ToSet(up)
      /\ slots[slot].l2 => Wans[i] \in wanfake \/ Excused

PrepareInv == Shapes /\ CableInv /\ CryptInv /\ WanInv

-----------------------------------------------------------------------------
\* Configurations.
LEMMA MergedIs ==
  ASSUME NEW ids
  PROVE  IsConf(Merged(ids)) /\ (\A s : RightMacs(Merged(ids).peer, s))
<1>1. NoPeers \in MacTable /\ (\A s : RightMacs(NoPeers, s))
  BY DEF NoPeers, MacTable, Macs, RightMacs
<1>2. /\ Merged(ids).peer = NoPeers
      /\ Merged(ids).l2 <=> \E i \in DOMAIN ids : "l2" \in Layers[ids[i]]
      /\ Merged(ids).crypt <=> \E i \in DOMAIN ids : Layers[ids[i]] # {}
  BY DEF Merged
<1>3. Merged(ids).l2 => Merged(ids).crypt
  BY <1>2
<1>4. Merged(ids) \in [lans : {Merged(ids).lans}, crypt : BOOLEAN, l2 : BOOLEAN,
                       nets : {Merged(ids).nets}, peer : MacTable]
  BY <1>1 DEF Merged
<1> QED BY <1>1, <1>2, <1>3, <1>4 DEF IsConf

LEMMA EmptyIs == IsConf(Empty) /\ (\A s : RightMacs(Empty.peer, s))
BY DEF Empty, IsConf, NoPeers, MacTable, Macs, RightMacs

LEMMA MoreStrays ==
  ASSUME NEW t, NEW s, NEW u, s \subseteq u, RightMacs(t, s)
  PROVE  RightMacs(t, u)
BY DEF RightMacs

\* Another peer table, or other networks, leave the rest of a configuration.
LEMMA PeerSet ==
  ASSUME NEW c, IsConf(c), NEW f \in MacTable
  PROVE  LET d == [c EXCEPT !.peer = f]
         IN  IsConf(d) /\ d.peer = f /\ d.lans = c.lans /\ d.crypt = c.crypt /\ d.l2 = c.l2
BY DEF IsConf

LEMMA NetsSet ==
  ASSUME NEW c, IsConf(c), NEW n
  PROVE  LET d == [c EXCEPT !.nets = n]
         IN  IsConf(d) /\ d.peer = c.peer /\ d.lans = c.lans /\ d.crypt = c.crypt /\ d.l2 = c.l2
BY DEF IsConf

LEMMA ListAppend ==
  ASSUME NEW s, IsList(s), NEW x
  PROVE  IsList(Append(s, x)) /\ ToSet(Append(s, x)) = ToSet(s) \cup {x}
<1> DEFINE S == ToSet(s) \cup {x}
<1>1. s \in Seq(S) /\ x \in S
  BY DEF IsList
<1> HIDE DEF S
<1>2. /\ Append(s, x) \in Seq(S) /\ Len(Append(s, x)) = Len(s) + 1
      /\ \A i \in 1 .. Len(s) : Append(s, x)[i] = s[i]
      /\ Append(s, x)[Len(s) + 1] = x
  BY <1>1, AppendProperties
<1>3. Len(s) \in Nat /\ DOMAIN s = 1 .. Len(s) /\ DOMAIN Append(s, x) = 1 .. Len(s) + 1
  BY <1>1, <1>2
<1>4. ToSet(Append(s, x)) = S
  BY <1>2, <1>3 DEF ToSet, S
<1> QED BY <1>2, <1>4 DEF IsList, S


-----------------------------------------------------------------------------
(***************************************************************************)
(* The steps.                                                              *)
(***************************************************************************)
LEMMA PrepareNextCases ==
  ASSUME [Next]_<<bridge, vars>>
  PROVE  \/ \E p \in Profiles : Start(p)
         \/ pc \notin {"none", "ended"} /\ \E ids : Reload(ids)
         \/ Stop \/ Restart \/ Aborts \/ Begin \/ LoadPeers \/ NextLan \/ OpenFails \/ Check
         \/ LanUp \/ LanFails \/ LansDone \/ Install \/ WanUp \/ WanFails \/ WansDone \/ Run
         \/ RecvOther \/ \E h \in Hosts : RecvPeer(h) \/ CrashSaving(h)
         \/ UNCHANGED vars
BY DEF Next, Change, Load, Unload, Thread, Recv

\* A process that begins knows nothing.
Fresh ==
  /\ slots = [i \in 0..1 |-> Empty] /\ slot = 0 /\ li = 1 /\ up = <<>> /\ ifmac = NoPeers
  /\ crypt = FALSE /\ initL2 = FALSE /\ pc = "none"
  /\ clobbered \in BOOLEAN /\ file \in MacTable
  /\ ~ clobbered => RightMacs(file, strays)

LEMMA FreshInv == Fresh => PrepareInv
<1> SUFFICES ASSUME Fresh PROVE PrepareInv
  OBVIOUS
<1> USE DEF Fresh
<1>1. slots[0] = Empty /\ slots[1] = Empty /\ slots \in [0..1 -> {slots[0], slots[1]}]
  OBVIOUS
<1>2. NoPeers \in MacTable /\ (\A s : RightMacs(NoPeers, s)) /\ IsConf(Empty) /\ (\A s : RightMacs(Empty.peer, s))
  BY EmptyIs DEF NoPeers, MacTable, Macs, RightMacs
<1>3. IsList(up)
  BY DEF IsList
<1>4. Shapes
  BY <1>1, <1>2, <1>3 DEF Shapes
<1>5. CableInv
  BY <1>1, <1>2 DEF CableInv
<1>6. CryptInv /\ WanInv
  BY DEF CryptInv, WanInv, Working, Preparing
<1> QED BY <1>4, <1>5, <1>6 DEF PrepareInv

LEMMA FreshNext == Fresh' => PrepareInv'
BY FreshInv, PTL

LEMMA PrepareInit == Init => PrepareInv
<1> SUFFICES ASSUME Init PROVE PrepareInv
  OBVIOUS
<1>1. file \in MacTable /\ RightMacs(file, strays)
  BY DEF Init, NoPeers, MacTable, Macs, RightMacs
<1> QED BY <1>1, FreshInv DEF Init, Fresh

\* mac_save_to_file() writes hosts of the LANs it names.
LEMMA FilesKept ==
  ASSUME PrepareInv, NEW h \in Hosts, CrashSaving(h)
  PROVE  file' \in MacTable /\ (~ clobbered => RightMacs(file', strays'))
<1>1. PICK kept \in SUBSET Lans :
        file' = [l \in Lans |-> IF l \notin kept THEN NoMac
                                ELSE IF l = Cfg.lans[li] THEN h ELSE Known(Cfg)[l]]
  BY DEF CrashSaving
<1>2. Cfg.peer \in MacTable
  BY DEF PrepareInv, Shapes, IsConf, Cfg
<1>3. Known(Cfg) \in MacTable
  BY <1>2 DEF Known, MacTable, Macs
<1>4. file' \in MacTable
  BY <1>1, <1>3 DEF MacTable, Macs
<1>5. ASSUME ~ clobbered PROVE RightMacs(file', strays')
  <2>1. /\ RightMacs(Cfg.peer, strays) /\ strays \subseteq strays'
        /\ HomeOf[h] = Cfg.lans[li] \/ <<Cfg.lans[li], h>> \in strays'
    BY <1>5 DEF PrepareInv, CableInv, Cfg, CrashSaving, NewStrays
  <2>2. RightMacs(Known(Cfg), strays')
    BY <2>1 DEF RightMacs, Known
  <2> QED BY <1>1, <2>1, <2>2 DEF RightMacs
<1> QED BY <1>4, <1>5

LEMMA FreshKeeps ==
  ASSUME PrepareInv, Restart \/ \E h \in Hosts : CrashSaving(h)
  PROVE  PrepareInv'
<1>1. NewProcess /\ file' \in MacTable /\ (~ clobbered => RightMacs(file', strays'))
  <2>1. CASE Restart
    BY <2>1 DEF Restart, PrepareInv, Shapes, CableInv
  <2>2. CASE \E h \in Hosts : CrashSaving(h)
    BY <2>2, FilesKept DEF CrashSaving
  <2> QED BY <2>1, <2>2
<1>2. clobbered' \in BOOLEAN /\ clobbered' = clobbered
  BY <1>1 DEF NewProcess, PrepareInv, Shapes
<1>3. Fresh'
  BY <1>1, <1>2 DEF NewProcess, Fresh
<1> QED BY <1>3, FreshNext

\* The steps that leave the configurations alone.
LEMMA QuietCables ==
  ASSUME PrepareInv,
         Stop \/ Aborts \/ Begin \/ NextLan \/ OpenFails \/ Check \/ LanUp \/ LanFails \/ LansDone \/ WanUp
           \/ WanFails \/ WansDone \/ Run \/ RecvOther \/ UNCHANGED vars
  PROVE  Shapes' /\ CableInv' /\ UNCHANGED <<slots, slot, late>>
<1> USE DEF vars, procVars, sockVars, initVars, ifVars, histVars
<1>0. Shapes /\ CableInv
  BY DEF PrepareInv
<1>1. UNCHANGED <<slots, slot, late, file, ifmac, clobbered, strays>>
  <2>1. CASE NextLan
    BY <2>1 DEF NextLan
  <2>2. CASE Aborts \/ OpenFails \/ WanFails
    BY <2>2 DEF Aborts, OpenFails, WanFails, Quit
  <2>3. CASE Stop \/ RecvOther \/ UNCHANGED vars
    BY <2>3 DEF Stop, RecvOther
  <2>4. CASE Begin \/ Check \/ LanUp \/ LanFails \/ LansDone \/ WanUp \/ WansDone \/ Run
    BY <2>4 DEF Begin, Check, LanUp, LanFails, LansDone, WanUp, WansDone, Run
  <2> QED BY <2>1, <2>2, <2>3, <2>4
<1>2. li' \in Nat \ {0}
  <2>1. li \in Nat \ {0}
    BY <1>0 DEF Shapes
  <2>2. CASE NextLan
    <3>1. Open => li' = li
      BY Zenon DEF Open
    <3>2. li' \in {1, li, li + 1}
      BY <2>2, <3>1 DEF NextLan
    <3> QED BY <2>1, <3>2
  <2>3. CASE Aborts \/ OpenFails \/ WanFails
    BY <2>1, <2>3 DEF Aborts, OpenFails, WanFails, Quit
  <2>4. CASE Stop \/ RecvOther \/ UNCHANGED vars
    BY <2>1, <2>4 DEF Stop, RecvOther
  <2>5. CASE Begin \/ Check \/ LanUp \/ LanFails \/ LansDone \/ WanUp \/ WansDone \/ Run
    BY <2>1, <2>5 DEF Begin, Check, LanUp, LanFails, LansDone, WanUp, WansDone, Run
  <2> QED BY <2>2, <2>3, <2>4, <2>5
<1>3. IsList(up')
  <2>1. CASE up' = up
    BY <1>0, <2>1 DEF Shapes
  <2>2. CASE up' = <<>>
    BY <2>2 DEF IsList
  <2>3. CASE \E x : up' = Append(up, x)
    BY <1>0, <2>3, ListAppend DEF Shapes
  <2> QED
    BY <2>1, <2>2, <2>3 DEF Stop, Aborts, Quit, Begin, NextLan, Open, OpenFails, Check, LanUp, LanFails, LansDone,
                            WanUp, WanFails, WansDone, Run, RecvOther
<1>4. crypt' \in BOOLEAN /\ initL2' \in BOOLEAN
  BY <1>0 DEF Shapes, IsConf, Cfg, Stop, Aborts, Quit, Begin, NextLan, Open, OpenFails, Check, LanUp, LanFails,
              LansDone, WanUp, WanFails, WansDone, Run, RecvOther
<1>5. Shapes'
  BY <1>0, <1>1, <1>2, <1>3, <1>4 DEF Shapes
<1>6. pc' \in {"check", "recv"} =>
        sock' = slots[0].lans[li'] \/ (pc \in {"check", "recv"} /\ li' = li /\ sock' = sock)
  <2>1. CASE NextLan
    BY <2>1 DEF NextLan, Open, Cfg
  <2>2. CASE Check \/ RecvOther \/ Stop \/ UNCHANGED vars
    BY <2>2 DEF Check, RecvOther, Stop
  <2>3. CASE Aborts \/ Begin \/ OpenFails \/ LanUp \/ LanFails \/ LansDone \/ WanUp \/ WanFails
             \/ WansDone \/ Run
    BY <2>3 DEF Aborts, Quit, Begin, OpenFails, LanUp, LanFails, LansDone, WanUp, WanFails, WansDone, Run
  <2> QED BY <2>1, <2>2, <2>3
<1>7. CableInv'
  BY <1>0, <1>1, <1>6 DEF CableInv
<1> QED BY <1>1, <1>5, <1>7

LEMMA QuietCrypt ==
  ASSUME PrepareInv,
         Stop \/ Aborts \/ Begin \/ NextLan \/ OpenFails \/ Check \/ LanUp \/ LanFails \/ LansDone \/ WanUp
           \/ WanFails \/ WansDone \/ Run \/ RecvOther \/ UNCHANGED vars
  PROVE  CryptInv'
<1> USE DEF vars, procVars, sockVars, initVars, ifVars, histVars
<1>0. Shapes /\ CryptInv /\ UNCHANGED <<slots, slot, late>>
  BY QuietCables DEF PrepareInv
<1>1. CASE Begin
  <2>1. /\ pc' \in {"load", "lans"} /\ slot = 0 /\ initL2' = slots[0].l2 /\ crypt' = slots[0].crypt
    BY <1>0, <1>1 DEF Begin, CryptInv, Cfg
  <2>2. slots[0].l2 => slots[0].crypt
    BY <1>0 DEF Shapes, IsConf
  <2> QED BY <1>0, <2>1, <2>2 DEF CryptInv, Working
<1>2. CASE Run
  <2>1. pc = "choose" /\ pc' = "run" /\ loops' = (IF crypt THEN "crypt" ELSE "plain")
        /\ UNCHANGED <<crypt, initL2>>
    BY <1>2 DEF Run
  <2> QED BY <1>0, <2>1 DEF CryptInv, Working, Preparing
<1>3. CASE ~ Begin /\ ~ Run
  <2>1. UNCHANGED <<crypt, initL2, loops>>
    BY <1>3 DEF Stop, Aborts, Quit, NextLan, Open, OpenFails, Check, LanUp, LanFails, LansDone, WanUp, WanFails,
                WansDone, RecvOther
  <2>2. /\ pc' = pc \/ pc' = "ended" \/ (pc \in Preparing /\ pc' \in Preparing \cup {"choose"})
    BY <1>3 DEF Stop, Aborts, Quit, NextLan, Open, OpenFails, Check, LanUp, LanFails, LansDone, WanUp, WanFails,
                WansDone, RecvOther, Preparing
  <2> QED BY <1>0, <2>1, <2>2 DEF CryptInv, Working, Preparing
<1> QED BY <1>1, <1>2, <1>3

LEMMA QuietWans ==
  ASSUME PrepareInv,
         Stop \/ Aborts \/ Begin \/ NextLan \/ OpenFails \/ Check \/ LanUp \/ LanFails \/ LansDone \/ WanUp
           \/ WanFails \/ WansDone \/ Run \/ RecvOther \/ UNCHANGED vars
  PROVE  WanInv'
<1> USE DEF vars, procVars, sockVars, initVars, ifVars, histVars
<1>0. Shapes /\ CryptInv /\ WanInv /\ UNCHANGED <<slots, slot, late>>
  BY QuietCables DEF PrepareInv
<1> SUFFICES ASSUME NEW i \in DOMAIN Wans, (pc' = "wan" /\ i < li') \/ pc' \in {"choose", "run"}
             PROVE  /\ Wans[i] \in ToSet(up')
                    /\ slots[slot].l2 => Wans[i] \in wanfake' \/ Excused
  BY <1>0 DEF WanInv, Excused
<1>1. DOMAIN Wans = 1 .. Len(Wans) /\ Len(Wans) \in Nat /\ i \in 1 .. Len(Wans) /\ li \in Nat \ {0}
  BY <1>0, ReloadAssumption DEF Shapes
<1>2. CASE WanUp
  <2>1. /\ pc = "wan" /\ i < li + 1 /\ up' = Append(up, Wans[li])
        /\ wanfake' = (IF Layer2Told THEN wanfake \cup {Wans[li]} ELSE wanfake)
    BY <1>2, <1>1 DEF WanUp
  <2>2. ToSet(up') = ToSet(up) \cup {Wans[li]}
    BY <1>0, <2>1, ListAppend DEF Shapes
  <2>3. CASE i < li
    BY <1>0, <2>1, <2>2, <2>3 DEF WanInv
  <2>4. CASE i = li
    <3>1. slots[slot].l2 => slots[slot].crypt
      BY <1>0 DEF Shapes, IsConf
    <3>2. slots[slot].l2 /\ ~ Excused => Layer2Told
      BY <1>0, <2>1, <3>1 DEF CryptInv, Working, Preparing, Excused, Layer2Told, Cfg
    <3> QED BY <2>1, <2>2, <2>4, <3>2
  <2> QED BY <1>1, <2>1, <2>3, <2>4
<1>3. CASE WansDone
  BY <1>0, <1>1, <1>3 DEF WansDone, WanInv
<1>4. CASE ~ WanUp /\ ~ WansDone
  <2>1. /\ (pc' = "wan" => pc = "wan" /\ li' = li /\ UNCHANGED <<up, wanfake>>)
        /\ (pc' \in {"choose", "run"} => pc \in {"choose", "run"} /\ UNCHANGED <<up, wanfake>>)
    BY <1>4 DEF Stop, Aborts, Quit, Begin, NextLan, Open, OpenFails, Check, LanUp, LanFails, LansDone, WanFails,
                Run, RecvOther
  <2> QED BY <1>0, <2>1 DEF WanInv
<1> QED BY <1>2, <1>3, <1>4

\* runtime_start()
LEMMA StartKeeps ==
  ASSUME PrepareInv, NEW p \in Profiles, Start(p)
  PROVE  PrepareInv'
<1> DEFINE new == Merged(<<p>>)
<1>0. Shapes /\ CableInv
  BY DEF PrepareInv
<1>1. /\ pc' = "begin" /\ slot' = 0 /\ slots' = [slots EXCEPT ![0] = new]
      /\ UNCHANGED <<li, up, file, ifmac, crypt, initL2, clobbered, strays>>
  BY DEF Start, sockVars, ifVars, histVars
<1>2. IsConf(new) /\ (\A s : RightMacs(new.peer, s))
  BY MergedIs
<1> HIDE DEF new
<1>3. slots'[0] = new /\ slots'[1] = slots[1] /\ slots' \in [0..1 -> {slots'[0], slots'[1]}]
  BY <1>0, <1>1 DEF Shapes
<1>4. Shapes'
  BY <1>0, <1>1, <1>2, <1>3 DEF Shapes
<1>5. CableInv'
  BY <1>0, <1>1, <1>2, <1>3 DEF CableInv
<1>6. CryptInv' /\ WanInv'
  BY <1>1 DEF CryptInv, WanInv, Working, Preparing
<1> QED BY <1>4, <1>5, <1>6 DEF PrepareInv

\* forwarder_reload_config(): it writes the slot that is not in use, which may
\* be the one that initialisation works on.
LEMMA ReloadKeeps ==
  ASSUME PrepareInv, pc \notin {"none", "ended"}, NEW ids, Reload(ids)
  PROVE  PrepareInv'
<1> DEFINE new == Merged(ids)
           Accepted == pc # "begin" /\ new.lans = slots[slot].lans
<1>0. Shapes /\ CableInv /\ CryptInv /\ WanInv
  BY DEF PrepareInv
<1>1. /\ slots' = [slots EXCEPT ![1 - slot] = new]
      /\ clobbered' = (clobbered \/ (slot = 1 /\ pc \in Preparing))
      /\ UNCHANGED <<pc, li, sock, strays, initL2, ifmac, wanfake, loops, up, file>>
  BY DEF Reload, sockVars, initVars, ifVars
<1>2. Accepted => slot' = 1 - slot /\ crypt' = new.crypt /\ late' = late \cup LateChange(new)
  BY DEF Reload, Accepts
<1>3. ~ Accepted => slot' = slot /\ crypt' = crypt /\ late' = late \cup Wiped(new)
  BY DEF Reload, Accepts
<1>4. IsConf(new) /\ (\A s : RightMacs(new.peer, s))
  BY MergedIs
<1>5. new.crypt \in BOOLEAN /\ new.l2 \in BOOLEAN
  BY <1>4 DEF IsConf
<1>6. late \subseteq late' /\ (slot = 1 /\ pc \in Preparing /\ ~ new.crypt => "wiped" \in late')
  BY <1>2, <1>3 DEF Wiped, LateChange
<1>7. Accepted => pc # "begin"
  OBVIOUS
<1> HIDE DEF new, Accepted
<1>8. /\ slots'[1 - slot] = new /\ slots'[slot] = slots[slot]
      /\ slots' \in [0..1 -> {slots'[0], slots'[1]}]
      /\ slot \in 0..1 /\ slot' \in 0..1
  BY <1>0, <1>1, <1>2, <1>3 DEF Shapes
<1>9. Shapes'
  BY <1>0, <1>1, <1>2, <1>3, <1>4, <1>5, <1>8 DEF Shapes
<1>10. CableInv'
  <2> SUFFICES ASSUME ~ clobbered' PROVE CableInv'
    BY DEF CableInv
  <2>1. ~ clobbered /\ ~ (slot = 1 /\ pc \in Preparing)
    BY <1>0, <1>1 DEF Shapes
  <2>2. pc \in {"check", "recv"} => slots'[0] = slots[0]
    BY <1>8, <2>1 DEF Preparing
  <2>3. RightMacs(slots'[0].peer, strays') /\ RightMacs(slots'[1].peer, strays')
    <3>1. RightMacs(slots[slot].peer, strays) /\ RightMacs(new.peer, strays) /\ strays' = strays
      BY <1>0, <1>1, <1>4, <1>8, <2>1 DEF CableInv
    <3>2. RightMacs(slots'[slot].peer, strays) /\ RightMacs(slots'[1 - slot].peer, strays)
      BY <1>8, <3>1
    <3>3. slot = 0 \/ slot = 1
      BY <1>8
    <3>4. CASE slot = 0
      BY <3>1, <3>2, <3>4
    <3>5. CASE slot = 1
      BY <3>1, <3>2, <3>5
    <3> QED BY <3>3, <3>4, <3>5
  <2> QED BY <1>0, <1>1, <2>1, <2>2, <2>3 DEF CableInv
<1>11. CryptInv'
  <2>1. pc = "begin" => slot' = 0
    BY <1>0, <1>3, <1>7 DEF CryptInv
  <2>2. pc \in Working => (crypt' <=> slots'[slot'].crypt)
    BY <1>0, <1>2, <1>3, <1>8 DEF CryptInv
  <2>3. pc \in Working /\ slots'[slot'].l2 => initL2 \/ "l2" \in late'
    <3>1. CASE Accepted
      BY <1>2, <1>8, <3>1 DEF LateChange
    <3>2. CASE ~ Accepted
      BY <1>0, <1>3, <1>6, <1>8, <3>2 DEF CryptInv
    <3> QED BY <3>1, <3>2
  <2>4. pc \in Preparing /\ initL2 => slots'[0].crypt \/ "wiped" \in late'
    BY <1>0, <1>6, <1>8 DEF CryptInv
  <2>5. pc = "run" /\ loops = "plain" /\ crypt' => "crypt" \in late'
    <3>1. CASE Accepted
      <4>1. pc = "run" /\ crypt' /\ ~ crypt => "crypt" \in late'
        BY <1>2, <3>1 DEF LateChange
      <4> QED BY <1>0, <1>6, <4>1 DEF CryptInv
    <3>2. CASE ~ Accepted
      BY <1>0, <1>3, <1>6, <3>2 DEF CryptInv
    <3> QED BY <3>1, <3>2
  <2> QED BY <1>1, <2>1, <2>2, <2>3, <2>4, <2>5 DEF CryptInv
<1>12. WanInv'
  <2> SUFFICES ASSUME NEW i \in DOMAIN Wans, (pc = "wan" /\ i < li) \/ pc \in {"choose", "run"},
                      slots'[slot'].l2
               PROVE  Wans[i] \in wanfake \/ "l2" \in late' \/ "wiped" \in late'
    BY <1>0, <1>1 DEF WanInv, Excused
  <2>1. Wans[i] \in ToSet(up) /\ Wans[i] \notin Lans
    BY <1>0, ReloadAssumption DEF WanInv
  <2>2. CASE Accepted
    <3>1. new.l2
      BY <1>2, <1>8, <2>2
    <3>2. PICK j \in DOMAIN up : up[j] = Wans[i]
      BY <2>1 DEF ToSet
    <3>3. Wans[i] \notin wanfake => "l2" \in LateChange(new)
      BY <2>1, <3>1, <3>2 DEF LateChange
    <3> QED BY <1>2, <2>2, <3>3
  <2>3. CASE ~ Accepted
    BY <1>0, <1>3, <1>6, <1>8, <2>3 DEF WanInv, Excused
  <2> QED BY <2>2, <2>3
<1> QED BY <1>9, <1>10, <1>11, <1>12 DEF PrepareInv

\* The steps of the initialisation that complete its configuration.
LEMMA CompletedKeeps ==
  ASSUME PrepareInv, pc \in Preparing, pc' \in Preparing \cup {"ended"}, pc' = "wan" => li' = 1,
         pc' \notin {"check", "recv"},
         IsConf(slots'[0]), slots' = [slots EXCEPT ![0] = slots'[0]],
         slots'[0].crypt = slots[0].crypt, slots'[0].l2 = slots[0].l2,
         ~ clobbered => RightMacs(slots'[0].peer, strays') /\ RightMacs(file', strays') /\ RightMacs(ifmac', strays'),
         li' \in Nat \ {0}, file' \in MacTable, ifmac' \in MacTable, strays \subseteq strays',
         UNCHANGED <<slot, up, crypt, initL2, clobbered, late, wanfake, loops>>
  PROVE  PrepareInv'
<1>0. Shapes /\ CableInv /\ CryptInv /\ WanInv
  BY DEF PrepareInv
<1>1. slots'[1] = slots[1] /\ slots' \in [0..1 -> {slots'[0], slots'[1]}]
  BY <1>0 DEF Shapes
<1>2. Shapes'
  BY <1>0, <1>1 DEF Shapes
<1>3. CableInv'
  BY <1>0, <1>1, MoreStrays DEF CableInv
<1>4. slots'[slot].crypt = slots[slot].crypt /\ slots'[slot].l2 = slots[slot].l2
  BY <1>0, <1>1 DEF Shapes
<1>5. CryptInv'
  BY <1>0, <1>4 DEF CryptInv, Preparing, Working
<1>6. WanInv'
  <2>1. DOMAIN Wans = 1 .. Len(Wans)
    BY ReloadAssumption
  <2> QED BY <2>1 DEF WanInv, Preparing
<1> QED BY <1>2, <1>3, <1>5, <1>6 DEF PrepareInv

LEMMA LoadKeeps ==
  ASSUME PrepareInv, LoadPeers
  PROVE  PrepareInv'
<1> DEFINE loaded == FromFile(Cfg)
<1>0. Shapes /\ CableInv
  BY DEF PrepareInv
<1>1. /\ pc = "load" /\ pc' = "next" /\ li' = 1
      /\ slots' = [slots EXCEPT ![0] = [slots[0] EXCEPT !.peer = loaded]]
      /\ UNCHANGED <<slot, up, crypt, initL2, clobbered, late, wanfake, loops, file, ifmac, strays>>
  BY DEF LoadPeers, Cfg, sockVars, ifVars, histVars
<1>2. loaded \in MacTable /\ (~ clobbered => RightMacs(loaded, strays))
  <2>1. Cfg.peer \in MacTable /\ file \in MacTable
    BY <1>0 DEF Shapes, IsConf, Cfg
  <2>2. ~ clobbered => RightMacs(Cfg.peer, strays) /\ RightMacs(file, strays)
    BY <1>0 DEF CableInv, Cfg
  <2>3. loaded \in MacTable
    BY <2>1 DEF FromFile, MacTable
  <2> QED BY <2>2, <2>3 DEF FromFile, RightMacs
<1> HIDE DEF loaded
<1>3. slots'[0] = [slots[0] EXCEPT !.peer = loaded]
  BY <1>0, <1>1 DEF Shapes
<1>4. IsConf(slots[0])
  BY <1>0 DEF Shapes
<1>5. /\ IsConf(slots'[0]) /\ slots'[0].peer = loaded
      /\ slots'[0].crypt = slots[0].crypt /\ slots'[0].l2 = slots[0].l2
  BY <1>2, <1>3, <1>4, PeerSet
<1>6. file' \in MacTable /\ ifmac' \in MacTable /\ (~ clobbered => RightMacs(file', strays') /\ RightMacs(ifmac', strays'))
  BY <1>0, <1>1 DEF Shapes, CableInv
<1>7. slots' = [slots EXCEPT ![0] = slots'[0]]
  BY <1>1, <1>3
<1> QED
  BY <1>1, <1>2, <1>3, <1>5, <1>6, <1>7, CompletedKeeps DEF Preparing

LEMMA RecvPeerKeeps ==
  ASSUME PrepareInv, NEW h \in Hosts, RecvPeer(h)
  PROVE  PrepareInv'
<1> DEFINE learned == [slots[0].peer EXCEPT ![slots[0].lans[li]] = h]
<1>0. Shapes /\ CableInv
  BY DEF PrepareInv
<1>1. /\ pc = "recv" /\ pc' \in {"next", "ended"} /\ strays' \in {strays, NewStrays(h)}
      /\ UNCHANGED <<slot, up, crypt, initL2, clobbered, late, wanfake, loops, ifmac>>
  BY DEF RecvPeer, ifVars, histVars
<1>9. strays \subseteq strays'
  BY <1>1 DEF NewStrays
<1>2. ifmac' \in MacTable /\ (~ clobbered => RightMacs(ifmac', strays'))
  BY <1>0, <1>1, <1>9, MoreStrays DEF Shapes, CableInv
<1>3. IsConf(slots[0]) /\ slots[0].peer \in MacTable
  BY <1>0 DEF Shapes, IsConf
<1>4. CASE li <= Count
  <2>1. /\ slots' = [slots EXCEPT ![0] = [slots[0] EXCEPT !.peer = learned]]
        /\ file' = Known(slots'[0]) /\ li' = li + 1
    BY <1>4 DEF RecvPeer, Cfg
  <2>2. learned \in MacTable
    BY <1>3 DEF MacTable, Macs
  <2>3. ASSUME ~ clobbered PROVE RightMacs(learned, strays')
    <3>1. RightMacs(slots[0].peer, strays) /\ sock = slots[0].lans[li]
      BY <1>0, <1>1, <2>3 DEF CableInv
    <3>2. HomeOf[h] = slots[0].lans[li] \/ <<slots[0].lans[li], h>> \in strays'
      BY <1>4, <3>1 DEF RecvPeer, NewStrays, Cfg
    <3> QED BY <1>3, <1>9, <3>1, <3>2 DEF RightMacs, MacTable
  <2> HIDE DEF learned
  <2>4. slots'[0] = [slots[0] EXCEPT !.peer = learned]
    BY <1>0, <2>1 DEF Shapes
  <2>5. /\ IsConf(slots'[0]) /\ slots'[0].peer = learned
        /\ slots'[0].crypt = slots[0].crypt /\ slots'[0].l2 = slots[0].l2
    BY <1>3, <2>2, <2>4, PeerSet
  <2>6. file' \in MacTable
    BY <2>1, <2>2, <2>5 DEF Known, MacTable, Macs
  <2>7. ~ clobbered => RightMacs(file', strays')
    BY <2>1, <2>3, <2>5 DEF Known, RightMacs
  <2>8. li' \in Nat \ {0}
    BY <1>0, <2>1 DEF Shapes
  <2> QED
    BY <1>1, <1>2, <1>9, <2>1, <2>3, <2>4, <2>5, <2>6, <2>7, <2>8, CompletedKeeps DEF Preparing
<1>5. CASE ~ (li <= Count)
  <2>1. pc' = "ended" /\ UNCHANGED <<slots, file, li>>
    BY <1>5 DEF RecvPeer
  <2>2. slots' = [slots EXCEPT ![0] = slots'[0]]
    BY <1>0, <2>1 DEF Shapes
  <2>3. /\ file' \in MacTable /\ li' \in Nat \ {0}
        /\ ~ clobbered => RightMacs(slots'[0].peer, strays') /\ RightMacs(file', strays')
    BY <1>0, <1>9, <2>1, MoreStrays DEF Shapes, CableInv
  <2> QED BY <1>1, <1>2, <1>3, <1>9, <2>1, <2>2, <2>3, CompletedKeeps DEF Preparing
<1> QED BY <1>4, <1>5

LEMMA InstallKeeps ==
  ASSUME PrepareInv, Install
  PROVE  PrepareInv'
<1>0. Shapes /\ CableInv
  BY DEF PrepareInv
<1>1. /\ pc = "install" /\ pc' = "wan" /\ li' = 1
      /\ UNCHANGED <<slot, up, crypt, initL2, clobbered, late, wanfake, loops, file, strays>>
  BY DEF Install, sockVars, ifVars, histVars
<1>2. file' \in MacTable /\ (~ clobbered => RightMacs(file', strays'))
  BY <1>0, <1>1 DEF Shapes, CableInv
<1>3. IsConf(slots[0])
  BY <1>0 DEF Shapes
<1>4. CASE bridge
  <2>1. ifmac' = slots[slot].peer /\ slots' = slots
    BY <1>4 DEF Install
  <2>2. slots[slot].peer \in MacTable
    BY <1>0 DEF Shapes, IsConf
  <2>3. ~ clobbered => RightMacs(slots[0].peer, strays) /\ RightMacs(slots[slot].peer, strays)
    BY <1>0 DEF Shapes, CableInv
  <2>4. slots' = [slots EXCEPT ![0] = slots'[0]]
    BY <1>0, <2>1 DEF Shapes
  <2> QED BY <1>1, <1>2, <1>3, <2>1, <2>2, <2>3, <2>4, CompletedKeeps DEF Preparing
<1>5. CASE ~ bridge
  <2>1. PICK n \in Networks(Cfg) :
          slots' = [slots EXCEPT ![0] = [slots[0] EXCEPT !.nets = n]] /\ ifmac' = ifmac
    BY <1>5 DEF Install
  <2>2. slots'[0] = [slots[0] EXCEPT !.nets = n]
    BY <1>0, <2>1 DEF Shapes
  <2>3. /\ IsConf(slots'[0]) /\ slots'[0].peer = slots[0].peer
        /\ slots'[0].crypt = slots[0].crypt /\ slots'[0].l2 = slots[0].l2
    BY <1>3, <2>2, NetsSet
  <2>4. /\ ifmac' \in MacTable
        /\ ~ clobbered => RightMacs(ifmac', strays') /\ RightMacs(slots'[0].peer, strays')
    BY <1>0, <1>1, <2>1, <2>3 DEF Shapes, CableInv
  <2>5. slots' = [slots EXCEPT ![0] = slots'[0]]
    BY <2>1, <2>2
  <2> QED BY <1>1, <1>2, <2>1, <2>2, <2>3, <2>4, <2>5, CompletedKeeps DEF Preparing
<1> QED BY <1>4, <1>5

LEMMA PrepareNext == PrepareInv /\ [Next]_<<bridge, vars>> => PrepareInv'
<1> SUFFICES ASSUME PrepareInv, [Next]_<<bridge, vars>> PROVE PrepareInv'
  OBVIOUS
<1>1. CASE \E p \in Profiles : Start(p)
  BY <1>1, StartKeeps
<1>2. CASE pc \notin {"none", "ended"} /\ \E ids : Reload(ids)
  BY <1>2, ReloadKeeps
<1>3. CASE Restart \/ \E h \in Hosts : CrashSaving(h)
  BY <1>3, FreshKeeps
<1>4. CASE Stop \/ Aborts \/ Begin \/ NextLan \/ OpenFails \/ Check \/ LanUp \/ LanFails \/ LansDone \/ WanUp
             \/ WanFails \/ WansDone \/ Run \/ RecvOther \/ UNCHANGED vars
  BY <1>4, QuietCables, QuietCrypt, QuietWans DEF PrepareInv
<1>5. CASE LoadPeers
  BY <1>5, LoadKeeps
<1>6. CASE \E h \in Hosts : RecvPeer(h)
  BY <1>6, RecvPeerKeeps
<1>7. CASE Install
  BY <1>7, InstallKeeps
<1> QED BY <1>1, <1>2, <1>3, <1>4, <1>5, <1>6, <1>7, PrepareNextCases

LEMMA PrepareSafe == Spec => []PrepareInv
BY PrepareInit, PrepareNext, PTL DEF Spec

-----------------------------------------------------------------------------
\* No peer is entered for a LAN it is not on, however often the process was
\* restarted or crashed writing peer_mac.conf, unless its frame was queued at
\* that LAN's socket before the socket was bound, or a second reload wrote the
\* slot that initialisation works on.
THEOREM PeersOnTheirCable == Spec => []RightCable
<1>1. PrepareInv => RightCable
  <2> SUFFICES ASSUME PrepareInv, ~ clobbered, NEW l \in Lans
               PROVE  {file[l], ifmac[l], slots[0].peer[l], slots[1].peer[l]}
                        \subseteq {NoMac} \cup {h \in Hosts : HomeOf[h] = l \/ <<l, h>> \in strays}
    BY DEF RightCable
  <2> DEFINE Right(m) == m = NoMac \/ m \in {h \in Hosts : HomeOf[h] = l \/ <<l, h>> \in strays}
  <2>1. Right(file[l]) /\ Right(ifmac[l]) /\ Right(slots[0].peer[l]) /\ Right(slots[1].peer[l])
    BY DEF PrepareInv, CableInv, RightMacs
  <2> QED BY <2>1
<1> QED BY <1>1, PrepareSafe, PTL

\* Of the choices made once, before the loops run, none is wrong for the
\* configuration in use unless a reload came too late for it.
THEOREM ChoicesHold == Spec => []DecidedOnce
<1>1. PrepareInv => DecidedOnce
  <2> SUFFICES ASSUME PrepareInv, pc = "run"
               PROVE  /\ slots[slot].crypt /\ loops = "plain" => "crypt" \in late
                      /\ slots[slot].l2 => ToSet(Wans) \subseteq wanfake \/ late \cap {"l2", "wiped"} # {}
    BY DEF DecidedOnce
  <2>1. slots[slot].crypt /\ loops = "plain" => "crypt" \in late
    BY DEF PrepareInv, CryptInv, Working
  <2>2. slots[slot].l2 => ToSet(Wans) \subseteq wanfake \/ Excused
    BY DEF PrepareInv, WanInv, ToSet
  <2> QED BY <2>1, <2>2 DEF Excused
<1> QED BY <1>1, PrepareSafe, PTL

-----------------------------------------------------------------------------
(***************************************************************************)
(* Induction on numbers, from the well-foundedness of <, and the functions *)
(* it allows to define.                                                    *)
(***************************************************************************)
\* A set of numbers has a least one.
LEMMA LeastNat ==
  ASSUME NEW T, T \subseteq Nat, T # {}
  PROVE  \E n \in T : \A m \in T : n <= m
<1> DEFINE R == OpToRel(<, Nat)
<1>1. IsWellFoundedOn(R, Nat)
  BY NatLessThanWellFounded
<1>2. \A n, m \in Nat : <<m, n>> \in R <=> m < n
  BY DEF OpToRel
<1> HIDE DEF R
<1>3. PICK n \in T : \A m \in T : ~ (<<m, n>> \in R)
  BY <1>1, WFMin
<1>4. \A m \in T : n <= m
  <2> SUFFICES ASSUME NEW m \in T PROVE n <= m
    OBVIOUS
  <2>1. m \in Nat /\ n \in Nat /\ ~ (m < n)
    BY <1>2, <1>3
  <2> QED
    BY <2>1
<1> QED
  BY <1>4

\* Induction up to a number.
LEMMA InductUpTo ==
  ASSUME NEW N \in Nat, NEW S, 0 \in S, \A n \in 0 .. N - 1 : n \in S => n + 1 \in S
  PROVE  0 .. N \subseteq S
<1> SUFFICES ASSUME (0 .. N) \ S # {} PROVE FALSE
  OBVIOUS
<1>1. (0 .. N) \ S \subseteq Nat
  OBVIOUS
<1>2. PICK n \in (0 .. N) \ S : \A m \in (0 .. N) \ S : n <= m
  BY <1>1, LeastNat
<1>3. n # 0 /\ n - 1 \in 0 .. N - 1
  BY <1>2
<1>4. n - 1 \in S
  BY <1>2, <1>3
<1>5. (n - 1) + 1 = n
  BY <1>3
<1> QED
  BY <1>2, <1>3, <1>4, <1>5

\* A function may be defined by recursion: there is one that starts from b and
\* goes on by a step.
IsStep(step, N, T) == step \in [1 .. N -> [T -> T]]

Follows(f, b, step, N, T) ==
  f \in [0 .. N -> T] /\ f[0] = b /\ \A n \in 1 .. N : f[n] = step[n][f[n - 1]]

LEMMA RecursionExists ==
  ASSUME NEW N \in Nat, NEW T, NEW b \in T, NEW step, IsStep(step, N, T)
  PROVE  \E f : Follows(f, b, step, N, T)
<1> DEFINE Good(f, k) ==
      f \in [0 .. k -> T] /\ f[0] = b /\ \A n \in 1 .. k : f[n] = step[n][f[n - 1]]
           S == {k \in 0 .. N : \E f : Good(f, k)}
<1>1. 0 \in S
  <2> DEFINE g == [i \in 0 .. 0 |-> b]
  <2>1. Good(g, 0) /\ 0 \in 0 .. N
    OBVIOUS
  <2> HIDE DEF Good
  <2> QED
    BY <2>1
<1>2. ASSUME NEW k \in 0 .. N - 1, k \in S PROVE k + 1 \in S
  <2>1. PICK f : Good(f, k)
    BY <1>2
  <2> DEFINE g == [i \in 0 .. k + 1 |-> IF i = k + 1 THEN step[k + 1][f[k]] ELSE f[i]]
  <2>2. step[k + 1][f[k]] \in T
    <3>1. f[k] \in T /\ k + 1 \in 1 .. N
      BY <2>1
    <3> QED
      BY <3>1 DEF IsStep
  <2>3. /\ g \in [0 .. k + 1 -> T] /\ g[k + 1] = step[k + 1][f[k]]
        /\ \A i \in 0 .. k : g[i] = f[i]
    BY <2>1, <2>2
  <2> HIDE DEF g
  <2>4. \A n \in 1 .. k + 1 : g[n] = step[n][g[n - 1]]
    <3> SUFFICES ASSUME NEW n \in 1 .. k + 1 PROVE g[n] = step[n][g[n - 1]]
      OBVIOUS
    <3>1. CASE n = k + 1
      <4>1. n - 1 = k /\ g[k] = f[k]
        BY <2>3, <3>1
      <4> QED
        BY <2>3, <3>1, <4>1
    <3>2. CASE n # k + 1
      <4>1. n \in 1 .. k /\ n - 1 \in 0 .. k
        BY <3>2
      <4> QED
        BY <2>1, <2>3, <4>1
    <3> QED
      BY <3>1, <3>2
  <2>5. Good(g, k + 1)
    BY <2>1, <2>3, <2>4
  <2> QED
    BY <2>5
<1> HIDE DEF S
<1>3. 0 .. N \subseteq S
  BY <1>1, <1>2, InductUpTo
<1>4. N \in S
  BY <1>3
<1> QED
  BY <1>4 DEF S, Follows

-----------------------------------------------------------------------------
(***************************************************************************)
(* Merged lists of LANs.                                                   *)
(***************************************************************************)
LEMMA WithLanTyped ==
  ASSUME NEW s \in LanLists, NEW l \in Lans
  PROVE  WithLan(s, l) \in LanLists
<1>1. s \in Seq(Lans) /\ IsInjective(s) /\ DOMAIN s = 1 .. Len(s) /\ Len(s) \in Nat
  BY DEF LanLists
<1>2. CASE Contains(s, l)
  BY <1>2 DEF WithLan
<1>3. CASE ~ Contains(s, l)
  <2> DEFINE t == Append(s, l)
  <2>1. /\ t \in Seq(Lans) /\ DOMAIN t = 1 .. Len(s) + 1 /\ t[Len(s) + 1] = l
        /\ \A i \in 1 .. Len(s) : t[i] = s[i]
    BY <1>1, AppendProperties
  <2>2. \A i \in 1 .. Len(s) : t[i] # l
    BY <1>3, <2>1 DEF Contains
  <2> HIDE DEF t
  <2>3. IsInjective(t)
    <3> SUFFICES ASSUME NEW i \in 1 .. Len(s) + 1, NEW j \in 1 .. Len(s) + 1, t[i] = t[j]
                 PROVE  i = j
      BY <2>1 DEF IsInjective
    <3>1. CASE i \in 1 .. Len(s) /\ j \in 1 .. Len(s)
      BY <1>1, <2>1, <3>1 DEF IsInjective
    <3>2. CASE i = Len(s) + 1 \/ j = Len(s) + 1
      BY <1>1, <2>1, <2>2, <3>2
    <3> QED
      BY <1>1, <3>1, <3>2
  <2> QED
    BY <1>3, <2>1, <2>3 DEF LanLists, WithLan, t
<1> QED
  BY <1>2, <1>3

LEMMA WithLansTyped ==
  ASSUME NEW s \in LanLists, NEW t \in Seq(Lans)
  PROVE  WithLans(s, t) \in LanLists
<1> DEFINE N == Len(t)
           Is(f) == f = [n \in 0 .. N |-> IF n = 0 THEN s ELSE WithLan(f[n - 1], t[n])]
           merged == CHOOSE f : Is(f)
           step == [n \in 1 .. N |-> [r \in LanLists |-> WithLan(r, t[n])]]
<1>1. N \in Nat /\ \A n \in 1 .. N : t[n] \in Lans
  BY ElementOfSeq
<1>2. IsStep(step, N, LanLists)
  BY <1>1, WithLanTyped DEF IsStep
<1>3. \E f : Is(f)
  <2>0. PICK f : Follows(f, s, step, N, LanLists)
    <3> HIDE DEF step, N
    <3> QED
      BY <1>1, <1>2, RecursionExists
  <2>1. /\ f \in [0 .. N -> LanLists] /\ f[0] = s
        /\ \A n \in 1 .. N : f[n] = step[n][f[n - 1]]
    BY <2>0 DEF Follows
  <2>2. \A n \in 1 .. N : n - 1 \in 0 .. N /\ f[n] = WithLan(f[n - 1], t[n])
    <3> SUFFICES ASSUME NEW n \in 1 .. N PROVE n - 1 \in 0 .. N /\ f[n] = WithLan(f[n - 1], t[n])
      OBVIOUS
    <3>1. n - 1 \in 0 .. N /\ f[n - 1] \in LanLists
      BY <1>1, <2>1
    <3> QED
      BY <2>1, <3>1
  <2>3. \A n \in 0 .. N : f[n] = IF n = 0 THEN s ELSE WithLan(f[n - 1], t[n])
    BY <1>1, <2>1, <2>2
  <2>4. Is(f)
    BY <2>1, <2>3
  <2> QED
    BY <2>4
<1>4. Is(merged)
  BY <1>3
<1>5. WithLans(s, t) = merged[N]
  BY DEF WithLans
<1> HIDE DEF merged
<1>6. merged[0] = s /\ \A n \in 1 .. N : merged[n] = WithLan(merged[n - 1], t[n])
  BY <1>1, <1>4
<1> DEFINE S == {n \in 0 .. N : merged[n] \in LanLists}
<1>7. 0 \in S
  BY <1>1, <1>6
<1>8. ASSUME NEW n \in 0 .. N - 1, n \in S PROVE n + 1 \in S
  <2>1. n + 1 \in 1 .. N /\ (n + 1) - 1 = n /\ merged[n] \in LanLists
    BY <1>1, <1>8
  <2>2. merged[n + 1] = WithLan(merged[n], t[n + 1])
    BY <1>6, <2>1
  <2> QED
    BY <1>1, <2>1, <2>2, WithLanTyped
<1> HIDE DEF S
<1>9. 0 .. N \subseteq S
  BY <1>1, <1>7, <1>8, InductUpTo
<1> QED
  BY <1>1, <1>5, <1>9 DEF S

LEMMA EmptyList == <<>> \in LanLists
BY DEF LanLists, IsInjective

LEMMA MergedTyped ==
  ASSUME NEW ids \in Seq(Profiles)
  PROVE  MergedLans(ids) \in LanLists
<1> DEFINE N == Len(ids)
           Is(f) == f = [n \in 0 .. N |-> IF n = 0 THEN <<>>
                                          ELSE WithLans(f[n - 1], LansOf[ids[n]])]
           merged == CHOOSE f : Is(f)
           step == [n \in 1 .. N |-> [r \in LanLists |-> WithLans(r, LansOf[ids[n]])]]
<1>1. N \in Nat /\ \A n \in 1 .. N : LansOf[ids[n]] \in Seq(Lans)
  BY ElementOfSeq, ReloadAssumption
<1>2. IsStep(step, N, LanLists)
  BY <1>1, WithLansTyped DEF IsStep
<1>3. \E f : Is(f)
  <2> DEFINE none == <<>>
  <2>1. none \in LanLists
    BY EmptyList
  <2>2. PICK f : Follows(f, none, step, N, LanLists)
    <3> HIDE DEF step, N, none
    <3> QED
      BY <1>1, <1>2, <2>1, RecursionExists
  <2>3. /\ f \in [0 .. N -> LanLists] /\ f[0] = <<>>
        /\ \A n \in 1 .. N : f[n] = step[n][f[n - 1]]
    BY <2>2 DEF Follows
  <2>4. \A n \in 1 .. N : n - 1 \in 0 .. N /\ f[n] = WithLans(f[n - 1], LansOf[ids[n]])
    <3> SUFFICES ASSUME NEW n \in 1 .. N
                 PROVE  n - 1 \in 0 .. N /\ f[n] = WithLans(f[n - 1], LansOf[ids[n]])
      OBVIOUS
    <3>1. n - 1 \in 0 .. N /\ f[n - 1] \in LanLists
      BY <1>1, <2>3
    <3> QED
      BY <2>3, <3>1
  <2>5. \A n \in 0 .. N : f[n] = IF n = 0 THEN <<>> ELSE WithLans(f[n - 1], LansOf[ids[n]])
    BY <1>1, <2>3, <2>4
  <2>6. Is(f)
    BY <2>3, <2>5
  <2> QED
    BY <2>6
<1>4. Is(merged)
  BY <1>3
<1>5. MergedLans(ids) = merged[N]
  BY DEF MergedLans
<1> HIDE DEF merged
<1>6. /\ merged[0] = <<>>
      /\ \A n \in 1 .. N : merged[n] = WithLans(merged[n - 1], LansOf[ids[n]])
  BY <1>1, <1>4
<1> DEFINE S == {n \in 0 .. N : merged[n] \in LanLists}
<1>7. 0 \in S
  BY <1>1, <1>6, EmptyList
<1>8. ASSUME NEW n \in 0 .. N - 1, n \in S PROVE n + 1 \in S
  <2>1. n + 1 \in 1 .. N /\ (n + 1) - 1 = n /\ merged[n] \in LanLists
    BY <1>1, <1>8
  <2>2. merged[n + 1] = WithLans(merged[n], LansOf[ids[n + 1]])
    BY <1>6, <2>1
  <2> QED
    BY <1>1, <2>1, <2>2, WithLansTyped
<1> HIDE DEF S
<1>9. 0 .. N \subseteq S
  BY <1>1, <1>7, <1>8, InductUpTo
<1> QED
  BY <1>1, <1>5, <1>9 DEF S

-----------------------------------------------------------------------------
(***************************************************************************)
(* Configurations are of lists of LANs, and the active profiles a list.    *)
(***************************************************************************)
ConfigsInv == active \in Seq(Profiles) /\ slots \in [0..1 -> Config]

LEMMA MergedConfig ==
  ASSUME NEW ids \in Seq(Profiles)
  PROVE  Merged(ids) \in Config
<1>1. MergedLans(ids) \in LanLists
  BY MergedTyped
<1> QED
  BY <1>1 DEF Merged, Config, NoPeers, NoNets, Reaches, Macs

LEMMA EmptyConfig == Empty \in Config
BY EmptyList DEF Empty, Config, NoPeers, NoNets, Reaches, Macs

LEMMA ShortenedTyped ==
  ASSUME NEW s \in Seq(Profiles), NEW k \in DOMAIN s
  PROVE  RemoveAt(s, k) \in Seq(Profiles)
<1>1. k \in 1 .. Len(s) /\ Len(s) \in Nat /\ \A i \in 1 .. Len(s) : s[i] \in Profiles
  BY ElementOfSeq
<1>2. SubSeq(s, 1, k - 1) \in Seq(Profiles)
  <2>1. k - 1 \in Int /\ 1 \in Int /\ \A i \in 1 .. k - 1 : s[i] \in Profiles
    BY <1>1
  <2> QED
    BY <2>1, SubSeqProperties
<1>3. SubSeq(s, k + 1, Len(s)) \in Seq(Profiles)
  <2>1. k + 1 \in Int /\ Len(s) \in Int /\ \A i \in k + 1 .. Len(s) : s[i] \in Profiles
    BY <1>1
  <2> QED
    BY <2>1, SubSeqProperties
<1> QED
  BY <1>2, <1>3, ConcatProperties DEF RemoveAt

LEMMA ChangeCases ==
  ASSUME ConfigsInv, Change
  PROVE  /\ pc \notin {"none", "ended"}
         /\ \E ids \in Seq(Profiles) : Reload(ids) /\ active' \in Seq(Profiles)
<1>1. active \in Seq(Profiles) /\ pc \notin {"none", "ended"}
  BY DEF ConfigsInv, Change
<1>2. CASE \E p \in Profiles : Load(p)
  <2>1. PICK p \in Profiles : Load(p)
    BY <1>2
  <2>2. Append(active, p) \in Seq(Profiles)
    BY <1>1
  <2> QED
    BY <1>1, <2>1, <2>2 DEF Load
<1>3. CASE \E i \in DOMAIN active : Unload(i)
  <2>1. PICK i \in DOMAIN active : Unload(i)
    BY <1>3
  <2>2. RemoveAt(active, i) \in Seq(Profiles)
    BY <1>1, <2>1, ShortenedTyped
  <2> QED
    BY <1>1, <2>1, <2>2 DEF Unload
<1> QED
  BY <1>2, <1>3 DEF Change

LEMMA AllNextCases ==
  ASSUME ConfigsInv, [Next]_<<bridge, vars>>
  PROVE  /\ UNCHANGED bridge
         /\ \/ \E p \in Profiles : Start(p)
            \/ /\ pc \notin {"none", "ended"}
               /\ \E ids \in Seq(Profiles) : Reload(ids) /\ active' \in Seq(Profiles)
            \/ Stop \/ Restart \/ Aborts \/ Begin \/ LoadPeers \/ NextLan \/ OpenFails \/ Check
            \/ LanUp \/ LanFails \/ LansDone \/ Install \/ WanUp \/ WanFails \/ WansDone \/ Run
            \/ RecvOther \/ \E h \in Hosts : RecvPeer(h) \/ CrashSaving(h)
            \/ UNCHANGED vars
BY ChangeCases DEF Next, Thread, Recv

LEMMA ConfigsNext == PrepareInv /\ ConfigsInv /\ [Next]_<<bridge, vars>> => ConfigsInv'
<1> SUFFICES ASSUME PrepareInv, ConfigsInv, [Next]_<<bridge, vars>> PROVE ConfigsInv'
  OBVIOUS
<1> USE DEF vars, procVars, sockVars, initVars, ifVars, histVars
<1>0. /\ active \in Seq(Profiles) /\ slots \in [0..1 -> Config] /\ slot \in 0..1
      /\ file \in MacTable /\ \A i \in 0..1 : slots[i].peer \in MacTable
  BY DEF ConfigsInv, PrepareInv, Shapes, IsConf
<1>1. ASSUME NEW p \in Profiles, Start(p) PROVE ConfigsInv'
  <2> DEFINE d == Merged(<<p>>)
  <2>1. <<p>> \in Seq(Profiles) /\ active' = <<p>> /\ slots' = [slots EXCEPT ![0] = d]
    BY <1>1 DEF Start
  <2>2. d \in Config
    BY <2>1, MergedConfig
  <2> HIDE DEF d
  <2> QED
    BY <1>0, <2>1, <2>2 DEF ConfigsInv
<1>2. ASSUME NEW ids \in Seq(Profiles), Reload(ids), active' \in Seq(Profiles) PROVE ConfigsInv'
  <2> DEFINE d == Merged(ids)
  <2>1. 1 - slot \in 0..1 /\ slots' = [slots EXCEPT ![1 - slot] = d]
    BY <1>0, <1>2 DEF Reload
  <2>2. d \in Config
    BY MergedConfig
  <2> HIDE DEF d
  <2> QED
    BY <1>0, <1>2, <2>1, <2>2 DEF ConfigsInv
<1>3. CASE Restart \/ \E h \in Hosts : CrashSaving(h)
  <2>1. active' = <<>> /\ slots' = [i \in 0..1 |-> Empty]
    BY <1>3 DEF Restart, CrashSaving, NewProcess
  <2> QED
    BY <2>1, EmptyConfig DEF ConfigsInv
<1>4. CASE LoadPeers
  <2>1. /\ slots' = [slots EXCEPT ![0] = [slots[0] EXCEPT !.peer = FromFile(slots[0])]]
        /\ active' = active
    BY <1>4 DEF LoadPeers, Cfg
  <2>2. FromFile(slots[0]) \in MacTable
    BY <1>0 DEF FromFile, MacTable
  <2>3. [slots[0] EXCEPT !.peer = FromFile(slots[0])] \in Config
    <3> DEFINE f == FromFile(slots[0])
               c == slots[0]
    <3>1. c \in Config /\ f \in [Lans -> Macs]
      BY <1>0, <2>2 DEF MacTable
    <3> HIDE DEF f, c
    <3>2. [c EXCEPT !.peer = f] \in Config
      BY <3>1 DEF Config
    <3> QED
      BY <3>2 DEF f, c
  <2> DEFINE d == [slots[0] EXCEPT !.peer = FromFile(slots[0])]
  <2>4. d \in Config /\ slots' = [slots EXCEPT ![0] = d] /\ active' \in Seq(Profiles)
    BY <1>0, <2>1, <2>3
  <2> HIDE DEF d
  <2> QED
    BY <1>0, <2>4 DEF ConfigsInv
<1>5. ASSUME NEW h \in Hosts, RecvPeer(h) PROVE ConfigsInv'
  <2>1. CASE li <= Count
    <3> DEFINE f == [slots[0].peer EXCEPT ![slots[0].lans[li]] = h]
               c == slots[0]
    <3>1. slots' = [slots EXCEPT ![0] = [c EXCEPT !.peer = f]] /\ active' = active
      BY <1>5, <2>1 DEF RecvPeer, Cfg
    <3>2. c \in Config /\ f \in [Lans -> Macs]
      <4>1. h \in Macs /\ slots[0] \in Config /\ slots[0].peer \in [Lans -> Macs]
        BY <1>0, <1>5 DEF MacTable, Macs
      <4> QED
        BY <4>1
    <3> HIDE DEF f, c
    <3>3. [c EXCEPT !.peer = f] \in Config
      BY <3>2 DEF Config
    <3> DEFINE d == [c EXCEPT !.peer = f]
    <3>4. d \in Config /\ slots' = [slots EXCEPT ![0] = d] /\ active' \in Seq(Profiles)
      BY <1>0, <3>1, <3>3
    <3> HIDE DEF d
    <3> QED
      BY <1>0, <3>4 DEF ConfigsInv
  <2>2. CASE ~ (li <= Count)
    BY <1>0, <1>5, <2>2 DEF RecvPeer, ConfigsInv
  <2> QED
    BY <2>1, <2>2
<1>6. CASE Install
  <2>1. CASE ~ bridge
    <3> DEFINE c == slots[0]
    <3>1. PICK n \in Networks(c) :
            slots' = [slots EXCEPT ![0] = [c EXCEPT !.nets = n]] /\ active' = active
      BY <1>6, <2>1 DEF Install, Cfg
    <3>2. c \in Config /\ n \in [Lans -> Reaches]
      BY <1>0, <3>1 DEF Networks
    <3> HIDE DEF c
    <3>3. [c EXCEPT !.nets = n] \in Config
      BY <3>2 DEF Config
    <3> DEFINE d == [c EXCEPT !.nets = n]
    <3>4. d \in Config /\ slots' = [slots EXCEPT ![0] = d] /\ active' \in Seq(Profiles)
      BY <1>0, <3>1, <3>3
    <3> HIDE DEF d
    <3> QED
      BY <1>0, <3>4 DEF ConfigsInv
  <2>2. CASE bridge
    BY <1>0, <1>6, <2>2 DEF Install, ConfigsInv
  <2> QED
    BY <2>1, <2>2
<1>7. CASE \/ Stop \/ Aborts \/ Begin \/ NextLan \/ OpenFails \/ Check \/ LanUp \/ LanFails \/ LansDone \/ WanUp
           \/ WanFails \/ WansDone \/ Run \/ RecvOther \/ UNCHANGED vars
  <2>1. UNCHANGED <<active, slots>>
    BY <1>7 DEF Stop, Aborts, Quit, Begin, NextLan, Open, OpenFails, Check, LanUp, LanFails, LansDone, WanUp,
                WanFails, WansDone, Run, RecvOther
  <2> QED
    BY <2>1 DEF ConfigsInv
<1> QED
  BY <1>1, <1>2, <1>3, <1>4, <1>5, <1>6, <1>7, AllNextCases

LEMMA ConfigsSafe == Spec => []ConfigsInv
<1>1. Init => ConfigsInv
  BY EmptyConfig DEF Init, ConfigsInv
<1> QED
  BY <1>1, ConfigsNext, PrepareSafe, PTL DEF Spec

-----------------------------------------------------------------------------
(***************************************************************************)
(* The queues: one for each interface that is set up, none when the thread *)
(* is gone.                                                                *)
(***************************************************************************)
QueueInv ==
  /\ queues \in [Ifaces -> -1..1] /\ ToSet(up) \subseteq Ifaces /\ badLans \subseteq Lans
  /\ pc # "ended" =>
       badLans = {} /\ \A i \in Ifaces : queues[i] = IF i \in ToSet(up) THEN 1 ELSE 0
  /\ pc = "ended" =>
       ToSet(up) = {} /\ \A i \in Ifaces : queues[i] = 0 \/ (i \in badLans /\ queues[i] = -1)
  /\ pc \in {"none", "begin", "load", "next", "check", "recv"} => ToSet(up) = {}
  /\ pc \in {"lans", "install"} => ToSet(up) \subseteq Lans
  /\ pc = "wan" => \A i \in DOMAIN Wans : Wans[i] \in ToSet(up) => i < li

LEMMA NoneUp == ToSet(<<>>) = {}
BY DEF ToSet

\* A process that begins has set up nothing.
LEMMA QueuesFresh == NewProcess => QueueInv'
<1> SUFFICES ASSUME NewProcess PROVE QueueInv'
  OBVIOUS
<1>1. queues' = [i \in Ifaces |-> 0] /\ badLans' = {} /\ pc' = "none" /\ ToSet(up') = {}
  BY NoneUp DEF NewProcess
<1> QED
  BY <1>1 DEF QueueInv

\* interface_cleanup() of what is set up leaves nothing.
LEMMA CleanedUp ==
  ASSUME QueueInv, pc # "ended"
  PROVE  Cleanup = [i \in Ifaces |-> 0]
<1>1. \A i \in Ifaces : (IF i \in ToSet(up) THEN queues[i] - 1 ELSE queues[i]) = 0
  BY DEF QueueInv
<1> QED
  BY <1>1 DEF Cleanup

LEMMA QueuesQuit ==
  ASSUME QueueInv, pc # "ended", Quit
  PROVE  QueueInv'
<1>1. queues' = [i \in Ifaces |-> 0] /\ ToSet(up') = {} /\ pc' = "ended" /\ badLans' = {}
  BY CleanedUp, NoneUp DEF Quit, QueueInv
<1> QED
  BY <1>1 DEF QueueInv

LEMMA QueuesLanUp ==
  ASSUME PrepareInv, ConfigsInv, QueueInv, LanUp
  PROVE  QueueInv'
<1> DEFINE lan == slots[0].lans[li]
<1>1. /\ pc = "lans" /\ pc' = "lans" /\ lan \notin ToSet(up) /\ up' = Append(up, lan)
      /\ queues' = [queues EXCEPT ![lan] = @ + 1] /\ badLans' = badLans
  BY DEF LanUp, Cfg
<1>2. lan \in Lans
  <2>1. li \in Nat \ {0} /\ li <= Len(slots[0].lans)
    BY DEF LanUp, Count, Cfg, PrepareInv, Shapes
  <2>2. slots[0].lans \in Seq(Lans)
    BY DEF ConfigsInv, Config, LanLists
  <2> QED
    BY <2>1, <2>2, ElementOfSeq
<1> HIDE DEF lan
<1>3. ToSet(up') = ToSet(up) \cup {lan}
  BY <1>1, ListAppend DEF PrepareInv, Shapes
<1>4. lan \in Ifaces /\ queues[lan] = 0
  BY <1>1, <1>2 DEF QueueInv, Ifaces
<1>5. queues' \in [Ifaces -> -1..1]
  BY <1>1, <1>4 DEF QueueInv
<1>6. \A i \in Ifaces : queues'[i] = IF i \in ToSet(up') THEN 1 ELSE 0
  BY <1>1, <1>3, <1>4 DEF QueueInv
<1> QED
  BY <1>1, <1>2, <1>3, <1>4, <1>5, <1>6 DEF QueueInv

\* Freed by err_queues and again by interface_cleanup(), which comes too late.
LEMMA QueuesLanFails ==
  ASSUME PrepareInv, ConfigsInv, QueueInv, LanFails
  PROVE  QueueInv'
<1> DEFINE lan == slots[0].lans[li]
<1>1. /\ pc = "lans" /\ pc' = "ended" /\ ToSet(up') = {}
      /\ \/ queues' = Cleanup /\ badLans' = badLans
         \/ queues' = [Cleanup EXCEPT ![lan] = @ - 1] /\ badLans' = badLans \cup {lan}
  BY NoneUp DEF LanFails, Cfg
<1>2. lan \in Lans
  <2>1. li \in Nat \ {0} /\ li <= Len(slots[0].lans)
    BY DEF LanFails, Count, Cfg, PrepareInv, Shapes
  <2>2. slots[0].lans \in Seq(Lans)
    BY DEF ConfigsInv, Config, LanLists
  <2> QED
    BY <2>1, <2>2, ElementOfSeq
<1> HIDE DEF lan
<1>3. Cleanup = [i \in Ifaces |-> 0] /\ badLans = {} /\ lan \in Ifaces
  BY <1>1, <1>2, CleanedUp DEF QueueInv, Ifaces
<1> QED
  BY <1>1, <1>2, <1>3 DEF QueueInv

LEMMA QueuesWanUp ==
  ASSUME PrepareInv, QueueInv, WanUp
  PROVE  QueueInv'
<1> DEFINE wan == Wans[li]
<1>1. /\ pc = "wan" /\ pc' = "wan" /\ up' = Append(up, wan) /\ li' = li + 1
      /\ queues' = [queues EXCEPT ![wan] = @ + 1] /\ badLans' = badLans
  BY DEF WanUp
<1>2. DOMAIN Wans = 1 .. Len(Wans) /\ li \in DOMAIN Wans /\ wan \in ToSet(Wans)
  BY ReloadAssumption DEF WanUp, PrepareInv, Shapes, ToSet
<1>3. \A i \in DOMAIN Wans : Wans[i] = wan => i = li
  BY <1>2, ReloadAssumption DEF IsInjective
<1>4. wan \in Ifaces /\ wan \notin ToSet(up)
  BY <1>1, <1>2 DEF QueueInv, Ifaces
<1> HIDE DEF wan
<1>5. ToSet(up') = ToSet(up) \cup {wan}
  BY <1>1, ListAppend DEF PrepareInv, Shapes
<1>6. queues[wan] = 0
  BY <1>1, <1>4 DEF QueueInv
<1>7. queues' \in [Ifaces -> -1..1]
  BY <1>1, <1>4, <1>6 DEF QueueInv
<1>8. \A i \in Ifaces : queues'[i] = IF i \in ToSet(up') THEN 1 ELSE 0
  BY <1>1, <1>4, <1>5, <1>6 DEF QueueInv
<1>9. \A i \in DOMAIN Wans : Wans[i] \in ToSet(up') => i < li'
  BY <1>1, <1>2, <1>3, <1>5 DEF QueueInv
<1> QED
  BY <1>1, <1>4, <1>5, <1>7, <1>8, <1>9 DEF QueueInv

LEMMA QueueNext == PrepareInv /\ ConfigsInv /\ QueueInv /\ [Next]_<<bridge, vars>> => QueueInv'
<1> SUFFICES ASSUME PrepareInv, ConfigsInv, QueueInv, [Next]_<<bridge, vars>> PROVE QueueInv'
  OBVIOUS
<1> USE DEF vars, procVars, sockVars, initVars, ifVars, histVars
<1>1. CASE Restart \/ \E h \in Hosts : CrashSaving(h)
  BY <1>1, QueuesFresh DEF Restart, CrashSaving
<1>2. CASE Aborts \/ OpenFails \/ WanFails
  BY <1>2, QueuesQuit DEF Aborts, OpenFails, WanFails
<1>3. CASE LanUp
  BY <1>3, QueuesLanUp
<1>4. CASE LanFails
  BY <1>4, QueuesLanFails
<1>5. CASE WanUp
  BY <1>5, QueuesWanUp
<1>6. CASE \E h \in Hosts : RecvPeer(h)
  <2>1. /\ pc = "recv" /\ pc' \in {"next", "ended"} /\ UNCHANGED <<queues, up, badLans>>
    BY <1>6 DEF RecvPeer
  <2>2. badLans = {} /\ ToSet(up) = {} /\ \A i \in Ifaces : queues[i] = 0
    BY <2>1 DEF QueueInv
  <2> QED
    BY <2>1, <2>2 DEF QueueInv
<1>7. CASE Install
  <2>1. pc = "install" /\ pc' = "wan" /\ UNCHANGED <<queues, up, badLans>>
    BY <1>7 DEF Install
  <2>2. \A i \in DOMAIN Wans : Wans[i] \notin ToSet(up)
    BY <2>1, ReloadAssumption DEF QueueInv
  <2> QED
    BY <2>1, <2>2 DEF QueueInv
<1>8. CASE pc \notin {"none", "ended"} /\ \E ids \in Seq(Profiles) : Reload(ids)
  BY <1>8 DEF Reload, QueueInv
<1>9. CASE \/ \E p \in Profiles : Start(p)
           \/ Stop \/ Begin \/ LoadPeers \/ NextLan \/ Check \/ LansDone \/ WansDone \/ Run
           \/ RecvOther \/ UNCHANGED vars
  <2>1. /\ UNCHANGED <<queues, up, badLans>>
        /\ \/ pc' = pc /\ (pc = "wan" => li' = li)
           \/ /\ pc' \in {"begin", "load", "next", "check", "recv", "lans"}
              /\ pc \in {"none", "begin", "load", "next", "check", "recv"}
           \/ pc = "lans" /\ pc' = "install"
           \/ pc \in {"wan", "choose"} /\ pc' \in {"choose", "run"}
    BY <1>9 DEF Start, Stop, Begin, LoadPeers, NextLan, Open, Check, LansDone, WansDone, Run, RecvOther
  <2> QED
    BY <2>1 DEF QueueInv
<1> QED
  BY <1>1, <1>2, <1>3, <1>4, <1>5, <1>6, <1>7, <1>8, <1>9, AllNextCases

LEMMA QueueSafe == Spec => []QueueInv
<1>1. Init => QueueInv
  BY NoneUp DEF Init, QueueInv
<1> QED
  BY <1>1, QueueNext, ConfigsSafe, PrepareSafe, PTL DEF Spec

\* Wherever forwarder_init() fails or is stopped, and when the forwarder ends,
\* every queue has been freed once, but for a LAN whose XDP program could not be
\* attached.
THEOREM EveryQueueFreed == Spec => []QueuesFreed
<1>1. QueueInv => QueuesFreed
  BY DEF QueueInv, QueuesFreed
<1> QED
  BY <1>1, QueueSafe, PTL

-----------------------------------------------------------------------------
(***************************************************************************)
(* The remaining types.                                                    *)
(***************************************************************************)
PlacesInv ==
  /\ pc \in {"none", "begin", "load", "next", "check", "recv", "lans", "install", "wan", "choose",
             "run", "ended"}
  /\ bridge \in BOOLEAN /\ running \in BOOLEAN /\ reloaded \in BOOLEAN
  /\ wanfake \subseteq ToSet(Wans) /\ loops \in {"none", "plain", "crypt"}
  /\ sock \in Lans \cup {Closed} /\ early \in BOOLEAN /\ late \subseteq {"crypt", "l2", "wiped"}
  /\ unread \subseteq Lans /\ strays \subseteq Lans \X Hosts

LEMMA PlacesFresh == NewProcess /\ bridge' \in BOOLEAN /\ strays' \subseteq Lans \X Hosts => PlacesInv'
BY DEF NewProcess, PlacesInv

\* The LAN the loop is at.
LEMMA LanOfLoop ==
  ASSUME PrepareInv, ConfigsInv
  PROVE  /\ Count \in Nat /\ li \in Nat \ {0}
         /\ li <= Count => Cfg.lans[li] \in Lans
<1>1. li \in Nat \ {0} /\ slots[0].lans \in Seq(Lans)
  BY DEF ConfigsInv, Config, LanLists, PrepareInv, Shapes
<1> QED
  BY <1>1, ElementOfSeq DEF Count, Cfg

LEMMA PlacesReload ==
  ASSUME PlacesInv, NEW ids, Reload(ids), UNCHANGED bridge
  PROVE  PlacesInv'
<1> DEFINE new == Merged(ids)
<1>1. UNCHANGED <<running, pc, sock, early, strays, unread, wanfake, loops>>
  BY DEF Reload, initVars, sockVars
<1>2. Wiped(new) \subseteq {"crypt", "l2", "wiped"}
  BY DEF Wiped
<1>3. LateChange(new) \subseteq {"crypt", "l2", "wiped"}
  <2> HIDE DEF new
  <2> QED
    BY <1>2 DEF LateChange
<1>4. late' \in {late \cup Wiped(new), late \cup LateChange(new)}
      /\ reloaded' \in {TRUE, reloaded}
  <2>1. CASE Accepts(ids)
    BY <2>1 DEF Reload
  <2>2. CASE ~ Accepts(ids)
    BY <2>2 DEF Reload
  <2> QED
    BY <2>1, <2>2
<1> HIDE DEF new
<1>5. late' \subseteq {"crypt", "l2", "wiped"} /\ reloaded' \in BOOLEAN
  BY <1>2, <1>3, <1>4 DEF PlacesInv
<1> QED
  BY <1>1, <1>5 DEF PlacesInv

LEMMA PlacesNext == PrepareInv /\ ConfigsInv /\ PlacesInv /\ [Next]_<<bridge, vars>> => PlacesInv'
<1> SUFFICES ASSUME PrepareInv, ConfigsInv, PlacesInv, [Next]_<<bridge, vars>> PROVE PlacesInv'
  OBVIOUS
<1> USE DEF vars, procVars, sockVars, initVars, ifVars, histVars
<1>0. UNCHANGED bridge /\ bridge' \in BOOLEAN
  BY AllNextCases DEF PlacesInv
<1>1. CASE Restart
  BY <1>0, <1>1, PlacesFresh DEF Restart, PlacesInv
<1>2. CASE pc \notin {"none", "ended"} /\ \E ids \in Seq(Profiles) : Reload(ids)
  BY <1>0, <1>2, PlacesReload
<1>3. CASE NextLan
  <2>1. UNCHANGED <<running, reloaded, wanfake, loops, late, unread, strays>>
        /\ pc' \in {"next", "lans", "check"} /\ early' \in BOOLEAN
        /\ (sock' = sock \/ (li <= Count /\ sock' = Cfg.lans[li]))
    <3>1. UNCHANGED <<running, reloaded, wanfake, loops, late, unread, strays>>
      BY <1>3 DEF NextLan
    <3>2. CASE Open
      <4>1. (Cardinality(strays) < MaxStrays) \in BOOLEAN
        OBVIOUS
      <4>2. early' \in BOOLEAN
        BY <3>2, <4>1, Zenon DEF Open
      <4>3. li <= Count \/ (sock' = sock /\ pc' = "lans")
        BY <1>3, LanOfLoop DEF NextLan
      <4> QED BY <3>1, <3>2, <4>2, <4>3 DEF Open
    <3>3. CASE ~ Open
      BY <1>3, <3>1, <3>3 DEF NextLan, PlacesInv
    <3> QED BY <3>2, <3>3
  <2> QED
    BY <1>0, <2>1, LanOfLoop DEF PlacesInv
<1>4. CASE WanUp
  <2>1. Wans[li] \in ToSet(Wans)
    BY <1>4, ReloadAssumption DEF WanUp, PrepareInv, Shapes, ToSet
  <2> QED
    BY <1>0, <1>4, <2>1 DEF WanUp, PlacesInv
<1>5. CASE \E h \in Hosts : RecvPeer(h)
  <2>1. PICK h \in Hosts : RecvPeer(h)
    BY <1>5
  <2>2. strays' = strays \/ (li <= Count /\ strays' = NewStrays(h))
    BY <2>1 DEF RecvPeer
  <2>3. strays' \subseteq Lans \X Hosts
    BY <2>2, LanOfLoop DEF NewStrays, PlacesInv
  <2> QED
    BY <1>0, <2>1, <2>3 DEF RecvPeer, PlacesInv
<1>6. CASE \E h \in Hosts : CrashSaving(h)
  <2>1. PICK h \in Hosts : CrashSaving(h)
    BY <1>6
  <2>2. strays' \subseteq Lans \X Hosts
    BY <2>1, LanOfLoop DEF CrashSaving, NewStrays, PlacesInv
  <2> QED
    BY <1>0, <2>1, <2>2, PlacesFresh DEF CrashSaving
<1>7. CASE Run
  BY <1>0, <1>7 DEF Run, PlacesInv
<1>8. CASE Install
  <2>1. unread' = unread \/ unread' \subseteq ToSet(Cfg.lans)
    BY <1>8 DEF Install
  <2>2. slots[0].lans \in Seq(Lans)
    BY DEF ConfigsInv, Config, LanLists
  <2>3. ToSet(Cfg.lans) \subseteq Lans
    BY <2>2, ElementOfSeq DEF ToSet, Cfg
  <2> QED
    BY <1>0, <1>8, <2>1, <2>3 DEF Install, PlacesInv
<1>9. CASE \/ \E p \in Profiles : Start(p)
           \/ Stop \/ Aborts \/ Begin \/ LoadPeers \/ OpenFails \/ Check \/ LanUp \/ LanFails
           \/ LansDone \/ WanFails \/ WansDone \/ RecvOther \/ UNCHANGED vars
  <2>1. /\ UNCHANGED <<reloaded, wanfake, loops, late, sock, unread, strays>>
        /\ running' \in {running, FALSE} /\ early' \in {early, FALSE}
        /\ pc' \in {pc, "begin", "load", "check", "recv", "lans", "next", "install", "wan", "choose",
                    "ended"}
    BY <1>9 DEF Start, Stop, Aborts, Quit, Begin, LoadPeers, OpenFails, Check, LanUp, LanFails,
                LansDone, WanFails, WansDone, RecvOther
  <2> QED
    BY <1>0, <2>1 DEF PlacesInv
<1> QED
  BY <1>1, <1>2, <1>3, <1>4, <1>5, <1>6, <1>7, <1>8, <1>9, AllNextCases

LEMMA PlacesSafe == Spec => []PlacesInv
<1>1. Init => PlacesInv
  BY ReloadAssumption DEF Init, PlacesInv
<1> QED
  BY <1>1, PlacesNext, ConfigsSafe, PrepareSafe, PTL DEF Spec

\* Every variable keeps its type; a configuration has distinct LANs, also after
\* any sequence of notifications and reloads, and no queue is allocated twice
\* for an interface or freed more than once too often.
THEOREM Typed == Spec => []TypeOK
<1>1. PrepareInv /\ ConfigsInv /\ QueueInv /\ PlacesInv => TypeOK
  BY DEF PrepareInv, Shapes, MacTable, ConfigsInv, QueueInv, PlacesInv, TypeOK
<1> QED
  BY <1>1, PrepareSafe, ConfigsSafe, QueueSafe, PlacesSafe, PTL

-----------------------------------------------------------------------------
(***************************************************************************)
(* Delivery to the LANs: until a reload, the loops use the configuration   *)
(* that initialisation completed.                                          *)
(***************************************************************************)
Completed ==
  IF bridge THEN ifmac = slots[0].peer
            ELSE \A l \in ToSet(slots[0].lans) : l \notin unread => slots[0].nets[l] = "lan"

UsedInv == ~ reloaded => slot = 0 /\ (pc \in {"wan", "choose", "run"} => Completed)

LEMMA UsedNext == PrepareInv /\ ConfigsInv /\ UsedInv /\ [Next]_<<bridge, vars>> => UsedInv'
<1> SUFFICES ASSUME PrepareInv, ConfigsInv, UsedInv, [Next]_<<bridge, vars>>, ~ reloaded'
             PROVE  UsedInv'
  BY DEF UsedInv
<1> USE DEF vars, procVars, sockVars, initVars, ifVars, histVars
<1>0. UNCHANGED bridge /\ slots \in [0..1 -> Config]
  BY AllNextCases DEF ConfigsInv
<1>1. CASE Restart \/ (\E h \in Hosts : CrashSaving(h)) \/ \E p \in Profiles : Start(p)
  <2>1. slot' = 0 /\ pc' \in {"none", "begin"}
    BY <1>1 DEF Restart, CrashSaving, NewProcess, Start
  <2> QED
    BY <2>1 DEF UsedInv
<1>2. CASE pc \notin {"none", "ended"} /\ \E ids \in Seq(Profiles) : Reload(ids)
  <2>1. PICK ids \in Seq(Profiles) : Reload(ids)
    BY <1>2
  <2>2. ~ Accepts(ids) /\ ~ reloaded
    BY <2>1 DEF Reload
  <2> DEFINE new == Merged(ids)
  <2>3. slot' = slot /\ slots' = [slots EXCEPT ![1 - slot] = new] /\ UNCHANGED <<pc, ifmac, unread>>
    BY <2>1, <2>2 DEF Reload
  <2> HIDE DEF new
  <2>4. slot = 0 /\ slots'[0] = slots[0]
    BY <1>0, <2>2, <2>3 DEF UsedInv
  <2> QED
    BY <1>0, <2>2, <2>3, <2>4 DEF UsedInv, Completed
<1>3. CASE Install
  <2>1. slot' = slot /\ reloaded' = reloaded /\ pc' = "wan" /\ slot = 0
    BY <1>3 DEF Install, UsedInv
  <2>2. CASE bridge
    <3>1. ifmac' = slots[slot].peer /\ UNCHANGED slots
      BY <1>3, <2>2 DEF Install
    <3> QED
      BY <1>0, <2>1, <2>2, <3>1 DEF UsedInv, Completed
  <2>3. CASE ~ bridge
    <3>1. PICK n \in Networks(Cfg) :
            /\ slots' = [slots EXCEPT ![0] = [slots[0] EXCEPT !.nets = n]]
            /\ unread' = {l \in ToSet(Cfg.lans) : n[l] # "lan"}
      BY <1>3, <2>3 DEF Install
    <3>2. slots'[0] = [slots[0] EXCEPT !.nets = n] /\ slots[0] \in Config
      BY <1>0, <3>1
    <3>3. slots'[0].nets = n /\ slots'[0].lans = slots[0].lans
      BY <3>2 DEF Config
    <3>4. Completed'
      BY <1>0, <2>3, <3>1, <3>3 DEF Completed, Cfg
    <3> QED
      BY <2>1, <3>4 DEF UsedInv
  <2> QED
    BY <2>2, <2>3
<1>4. CASE LoadPeers \/ \E h \in Hosts : RecvPeer(h)
  <2>1. slot' = slot /\ reloaded' = reloaded /\ pc' \in {"next", "ended"}
    BY <1>4 DEF LoadPeers, RecvPeer
  <2> QED
    BY <2>1 DEF UsedInv
<1>5. CASE \/ Stop \/ Aborts \/ Begin \/ NextLan \/ OpenFails \/ Check \/ LanUp \/ LanFails \/ LansDone \/ WanUp
           \/ WanFails \/ WansDone \/ Run \/ RecvOther \/ UNCHANGED vars
  <2>1. /\ UNCHANGED <<slots, slot, ifmac, unread, reloaded>>
        /\ pc' \in {"wan", "choose", "run"} => pc \in {"wan", "choose", "run"}
    BY <1>5 DEF Stop, Aborts, Quit, Begin, NextLan, Open, OpenFails, Check, LanUp, LanFails, LansDone, WanUp,
                WanFails, WansDone, Run, RecvOther
  <2> QED
    BY <1>0, <2>1 DEF UsedInv, Completed
<1> QED
  BY <1>1, <1>2, <1>3, <1>4, <1>5, AllNextCases

LEMMA UsedSafe == Spec => []UsedInv
<1>1. Init => UsedInv
  BY DEF Init, UsedInv
<1> QED
  BY <1>1, UsedNext, ConfigsSafe, PrepareSafe, PTL DEF Spec

\* If interface k is the first that fits host h, it is found.
LEMMA LocalIs ==
  ASSUME slots[slot].lans \in Seq(Lans), NEW h, NEW k \in DOMAIN slots[slot].lans,
         Fits(slots[slot], k, h), \A i \in 1 .. (k - 1) : ~ Fits(slots[slot], i, h)
  PROVE  LocalFor(h) = slots[slot].lans[k]
<1> DEFINE c == slots[slot]
           fit == {i \in DOMAIN c.lans : Fits(c, i, h)}
           first == CHOOSE i \in fit : \A j \in fit : i <= j
<1>1. fit \subseteq Nat \ {0} /\ k \in fit
  OBVIOUS
<1>2. first \in fit /\ first <= k
  <2> HIDE DEF fit
  <2>1. \E i \in fit : \A j \in fit : i <= j
    BY <1>1, LeastNat
  <2> QED
    BY <1>1, <2>1
<1>3. first = k
  <2> HIDE DEF first
  <2>1. first \in Nat \ {0} /\ k \in Nat \ {0} /\ Fits(c, first, h)
    BY <1>1, <1>2
  <2> QED
    BY <1>2, <2>1
<1>4. LocalFor(h) = IF fit = {} THEN "drop" ELSE c.lans[first]
  BY DEF LocalFor
<1> QED
  BY <1>1, <1>3, <1>4

\* Until a reload a bridged frame for the peer of a LAN goes to that LAN, if no
\* peer was taken from another interface, and a packet for a host goes to the
\* host's LAN, if the networks up to that LAN could be read: for any number of
\* LANs, however their peers were found.
THEOREM DeliveredRight == Spec => []DeliveredUntilReload
<1>1. PrepareInv /\ ConfigsInv /\ UsedInv => DeliveredUntilReload
  <2> SUFFICES ASSUME PrepareInv, ConfigsInv, UsedInv, ~ reloaded, pc = "run"
               PROVE  ToItsVlan /\ (~ clobbered /\ strays = {} => TransparentL2)
    BY DEF DeliveredUntilReload, TransparentL2, ToItsVlan
  <2>1. /\ slot = 0 /\ Completed /\ slots[slot].lans \in Seq(Lans) /\ IsInjective(slots[slot].lans)
        /\ ~ clobbered => RightMacs(slots[slot].peer, strays)
    BY DEF UsedInv, ConfigsInv, Config, LanLists, PrepareInv, CableInv
  <2>2. /\ \A i \in DOMAIN slots[slot].lans : slots[slot].lans[i] \in Lans
        /\ Len(slots[slot].lans) \in Nat
        /\ DOMAIN slots[slot].lans = 1 .. Len(slots[slot].lans)
    BY <2>1, ElementOfSeq
  <2>3. \A i, j \in DOMAIN slots[slot].lans : slots[slot].lans[i] = slots[slot].lans[j] => i = j
    BY <2>1 DEF IsInjective
  <2>4. ASSUME bridge, ~ clobbered, strays = {},
               NEW l \in ToSet(slots[slot].lans), ifmac[l] # NoMac
        PROVE  LocalFor(ifmac[l]) = l
    <3>1. PICK k \in DOMAIN slots[slot].lans : slots[slot].lans[k] = l
      BY DEF ToSet
    <3>2. ifmac = slots[slot].peer /\ l \in Lans
      BY <2>1, <2>2, <2>4, <3>1 DEF Completed
    <3>3. \A m \in Lans : slots[slot].peer[m] = ifmac[l] => m = l
      BY <2>1, <2>4, <3>2 DEF RightMacs
    <3>4. Fits(slots[slot], k, ifmac[l])
      BY <2>4, <3>1, <3>2 DEF Fits
    <3>5. \A i \in 1 .. (k - 1) : ~ Fits(slots[slot], i, ifmac[l])
      <4> SUFFICES ASSUME NEW i \in 1 .. (k - 1) PROVE ~ Fits(slots[slot], i, ifmac[l])
        OBVIOUS
      <4>1. i \in DOMAIN slots[slot].lans /\ i # k
        BY <2>2
      <4>2. slots[slot].lans[i] \in Lans /\ slots[slot].lans[i] # l
        BY <2>2, <2>3, <3>1, <4>1
      <4> QED
        BY <2>4, <3>3, <4>2 DEF Fits
    <3> QED
      BY <2>1, <3>1, <3>4, <3>5, LocalIs
  <2>5. ASSUME ~ bridge, NEW h \in Hosts, NEW k \in DOMAIN slots[slot].lans,
               HomeOf[h] = slots[slot].lans[k],
               \A i \in 1 .. k : slots[slot].lans[i] \notin unread
        PROVE  LocalFor(h) = slots[slot].lans[k]
    <3>1. \A i \in 1 .. k : i \in DOMAIN slots[slot].lans /\ slots[slot].nets[slots[slot].lans[i]] = "lan"
      BY <2>1, <2>2, <2>5 DEF Completed, ToSet
    <3>2. Fits(slots[slot], k, h)
      BY <2>2, <2>5, <3>1 DEF Fits
    <3>3. \A i \in 1 .. (k - 1) : ~ Fits(slots[slot], i, h)
      <4> SUFFICES ASSUME NEW i \in 1 .. (k - 1) PROVE ~ Fits(slots[slot], i, h)
        OBVIOUS
      <4>1. i \in 1 .. k /\ i # k
        BY <2>2
      <4>2. slots[slot].lans[i] # HomeOf[h]
        BY <2>3, <2>5, <3>1, <4>1
      <4> QED
        BY <2>5, <3>1, <4>1, <4>2 DEF Fits
    <3> QED
      BY <2>1, <3>2, <3>3, LocalIs
  <2> QED
    BY <2>4, <2>5 DEF TransparentL2, ToItsVlan
<1> QED
  BY <1>1, PrepareSafe, ConfigsSafe, UsedSafe, PTL
=============================================================================
