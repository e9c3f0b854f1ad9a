--------------------------- MODULE ForwarderInit ----------------------------
(***************************************************************************)
(* What the packet paths are built on, and what of it a hot reload renews. *)
(* forwarder_init() (forwarder.c) completes the configuration it is given  *)
(* with what only the machine knows: the network of each LAN or, when the  *)
(* WANs are bridged, the address of the peer on each LAN, read from a file *)
(* or taken from the first frame (bridge_mac.c).  It sets up an AF_XDP     *)
(* queue on each interface (interface.c), tells the XDP program of the     *)
(* WANs whether there are layer-2 policies, and forwarder_run() chooses    *)
(* the packet loops.  forwarder_reload_config() replaces the configuration *)
(* by one read from the database, with the same interfaces.                *)
(*                                                                         *)
(* The initialisation runs in the forwarder's thread; main.c reloads from  *)
(* another one, before, while and after.  NE_LOCAL_MAC_PRELOAD, which adds *)
(* peers as the file does, is unset.                                       *)
(***************************************************************************)
EXTENDS Integers, Sequences, FiniteSets, SequencesExt

CONSTANTS
  Lans,      \* local interfaces
  Profiles,  \* profile ids
  LansOf,    \* LansOf[p]: the interfaces of profile p, in order
  Layers,    \* Layers[p]: the layers p's policies encrypt at, {} without policies
  Wans,      \* the WAN interfaces every profile has, in order
  Bridges,   \* the values of config_wan_bridge_mode() considered
  Hosts,     \* hosts on the LANs and WANs; also their MAC addresses
  HomeOf,    \* HomeOf[h]: the interface on whose cable host h is
  NoMac,     \* the zero address, or one that is no peer's
  MaxStrays  \* bound: peers taken from frames of other interfaces

ASSUME ReloadAssumption ==
  /\ \A p \in Profiles : LansOf[p] \in Seq(Lans) /\ LansOf[p] # <<>>
  /\ \A p \in Profiles : Layers[p] \subseteq {"l2", "l3", "l4"}
  /\ Wans \in Seq(ToSet(Wans)) /\ \A i \in DOMAIN Wans : Wans[i] \notin Lans
  /\ IsInjective(Wans)  \* append_wan_unique()
  /\ Bridges \subseteq BOOLEAN /\ NoMac \notin Hosts /\ MaxStrays \in Nat
  /\ \A h \in Hosts : HomeOf[h] \in Lans \cup ToSet(Wans)

VARIABLES
  bridge,   \* config_wan_bridge_mode(): the WANs have no dst_ip
  active,   \* main.c: active_ids
  slots,    \* main.c: cfg_slots
  slot,     \* main.c: active_slot; fwd->cfg points to it once initialised
  running,  \* forwarder.c: running
  pc,       \* where the forwarder's thread is
  li,       \* index of the loop over the interfaces
  sock,     \* mac_wait_first_packet(): the LAN its socket is bound to, when waiting
  early,    \* the next frame the socket has was queued before bind()
  initL2,   \* forwarder_init(): has_encrypt_l2
  crypt,    \* forwarder.c: crypto_enabled
  up,       \* the interfaces set up, fwd->locals and fwd->wans
  queues,   \* by interface: how often its queue was allocated less how often freed
  badLans,  \* history: LANs whose XDP program could not be attached
  ifmac,    \* fwd->locals[].dst_mac, by LAN
  file,     \* peer_mac.conf, by LAN
  wanfake,  \* the WANs whose XDP program was told the layer-2 ethertype
  loops,    \* the packet loops forwarder_run() chose
  unread,   \* history: LANs whose network could not be read
  strays,   \* history: LAN and peer taken from a frame of another interface
  reloaded, \* history: a reload since the start of the process
  late,     \* history: what a reload changed after initialisation read it
  clobbered \* history: a reload wrote the slot that initialisation worked on

procVars == <<active, slots, slot, running>>
sockVars == <<sock, early, strays>>
initVars == <<pc, li, sockVars, initL2, ifmac, wanfake, loops, unread>>
ifVars   == <<up, queues, badLans>>
histVars == <<reloaded, late, clobbered>>
vars == <<procVars, initVars, ifVars, crypt, file, histVars>>

Ifaces == Lans \cup ToSet(Wans)

Macs == Hosts \cup {NoMac}
Closed == "closed"
NoPeers == [l \in Lans |-> NoMac]

\* What a netmask and network make of a LAN: nothing is known and every address
\* matches, the LAN's addresses match, or none but that of the interface.
Reaches == {"any", "lan", "self"}
NoNets == [l \in Lans |-> "any"]

\* append_local_unique()
WithLan(s, l) == IF Contains(s, l) THEN s ELSE Append(s, l)

\* merge_one_config() for a profile with the LANs t.
WithLans(s, t) ==
  LET merged[n \in 0 .. Len(t)] == IF n = 0 THEN s ELSE WithLan(merged[n - 1], t[n])
  IN  merged[Len(t)]

\* build_merged_config(): the LANs of the active profiles; neither their
\* networks nor their peers are in the database.
MergedLans(ids) ==
  LET merged[n \in 0 .. Len(ids)] ==
        IF n = 0 THEN <<>> ELSE WithLans(merged[n - 1], LansOf[ids[n]])
  IN  merged[Len(ids)]

Merged(ids) ==
  [lans  |-> MergedLans(ids),
   crypt |-> \E i \in DOMAIN ids : Layers[ids[i]] # {},
   l2    |-> \E i \in DOMAIN ids : "l2" \in Layers[ids[i]],
   nets  |-> NoNets,
   peer  |-> NoPeers]

Empty == [lans |-> <<>>, crypt |-> FALSE, l2 |-> FALSE, nets |-> NoNets, peer |-> NoPeers]

-----------------------------------------------------------------------------
(***************************************************************************)
(* main.c                                                                  *)
(***************************************************************************)
\* The first profile: runtime_start() creates the forwarder's thread.
Start(p) ==
  /\ pc = "none" /\ running
  /\ active' = <<p>>
  /\ slots' = [slots EXCEPT ![0] = Merged(<<p>>)]
  /\ slot' = 0
  /\ pc' = "begin"
  /\ UNCHANGED <<running, li, sockVars, initL2, ifmac, wanfake, loops, unread, crypt, ifVars, file,
                 histVars>>

\* forwarder_init() still reads and writes the configuration it was given.
Preparing == {"load", "next", "check", "recv", "lans", "install", "wan"}

\* Fault: the slots are numbered on, not used in turn.
ReloadNext(ids) ==
  /\ slots[slot].lans = Merged(ids).lans /\ pc # "begin"
  /\ slots' = [slots EXCEPT ![1 - slot] = Merged(ids)]
  /\ slot' = slot + 1
  /\ UNCHANGED <<running, initVars, crypt, ifVars, file, histVars>>

\* A configuration without encryption is written to the slot initialisation
\* works on: it finds no layer-2 ethertype there.
Wiped(new) == IF slot = 1 /\ pc \in Preparing /\ ~ new.crypt THEN {"wiped"} ELSE {}

\* What a configuration brings that was decided without it.
LateChange(new) ==
  Wiped(new)
  \cup (IF pc = "run" /\ new.crypt /\ ~ crypt THEN {"crypt"} ELSE {})
  \cup (IF new.l2 /\ (~ initL2 \/ \E i \in DOMAIN up : up[i] \notin Lans \cup wanfake)
         THEN {"l2"} ELSE {})

\* forwarder_reload_config() refuses before initialisation and if the
\* interfaces change.
Accepts(ids) == pc # "begin" /\ Merged(ids).lans = slots[slot].lans

\* What forwarder_reload_config() changes besides the configuration.  One that
\* is refused stays behind in the other slot.
Reload(ids) ==
  LET new == Merged(ids) IN
  /\ slots' = [slots EXCEPT ![1 - slot] = new]
  /\ IF Accepts(ids)
     THEN /\ slot' = 1 - slot
          /\ crypt' = new.crypt
          /\ reloaded' = TRUE
          /\ late' = late \cup LateChange(new)
     ELSE /\ late' = late \cup Wiped(new)
          /\ UNCHANGED <<slot, crypt, reloaded>>
  /\ clobbered' = (clobbered \/ (slot = 1 /\ pc \in Preparing))
  /\ UNCHANGED <<running, initVars, ifVars, file>>

\* handle_profile_notify() for one profile more or less: one that cannot be
\* loaded is forgotten again, one that is gone stays forgotten.
Load(p) ==
  /\ p \in Profiles \ ToSet(active)
  /\ LET ids == Append(active, p)
     IN Reload(ids) /\ active' = IF Accepts(ids) THEN ids ELSE active

Unload(i) ==
  /\ Len(active) > 1
  /\ LET ids == RemoveAt(active, i) IN Reload(ids) /\ active' = ids

Change ==
  /\ pc \notin {"none", "ended"} /\ running
  /\ (\E p \in Profiles : Load(p)) \/ (\E i \in DOMAIN active : Unload(i))

\* SIGTERM: forwarder_stop()
Stop ==
  /\ pc \notin {"none", "ended"} /\ running
  /\ running' = FALSE
  /\ UNCHANGED <<active, slots, slot, initVars, crypt, ifVars, file, histVars>>

\* The process ends, or crashes, and is started again.
NewProcess ==
  /\ active' = <<>> /\ slots' = [i \in 0..1 |-> Empty] /\ slot' = 0 /\ running' = TRUE
  /\ pc' = "none" /\ li' = 1 /\ sock' = Closed /\ early' = FALSE /\ initL2' = FALSE
  /\ ifmac' = NoPeers /\ unread' = {}
  /\ wanfake' = {} /\ loops' = "none" /\ crypt' = FALSE
  /\ up' = <<>> /\ queues' = [i \in Ifaces |-> 0] /\ badLans' = {}
  /\ reloaded' = FALSE /\ late' = {} /\ UNCHANGED clobbered

Restart == pc # "none" /\ NewProcess /\ UNCHANGED <<file, strays>>

-----------------------------------------------------------------------------
(***************************************************************************)
(* forwarder_init(), which works on the slot it was given, slot 0, and     *)
(* forwarder_run()                                                         *)
(***************************************************************************)
Cfg == slots[0]
Count == Len(Cfg.lans)

\* Fault: the LANs alone are cleaned up.
CleanupLans == [i \in Ifaces |-> IF i \in ToSet(up) \cap Lans THEN queues[i] - 1 ELSE queues[i]]

\* interface_cleanup() of what is set up: err_wans, err_locals, or
\* forwarder_cleanup() after forwarder_run().
Cleanup == [i \in Ifaces |-> IF i \in ToSet(up) THEN queues[i] - 1 ELSE queues[i]]

Quit ==
  /\ pc' = "ended"
  /\ queues' = Cleanup
  /\ up' = <<>>
  /\ UNCHANGED <<procVars, li, sockVars, initL2, ifmac, wanfake, loops, unread, crypt, badLans, file, histVars>>

\* Fault: the packet loops do not look at running.
AbortsInInit == ~ running /\ pc \in {"begin", "check", "lans", "install", "wan", "choose"} /\ Quit

\* forwarder_should_stop() on entry, for every interface, and before running.
Aborts == ~ running /\ pc \in {"begin", "check", "lans", "install", "wan", "choose", "run"} /\ Quit

Begin ==
  /\ pc = "begin" /\ running
  /\ initL2' = Cfg.l2
  /\ crypt' = Cfg.crypt
  /\ pc' = IF bridge THEN "load" ELSE "lans"
  /\ UNCHANGED <<procVars, li, sockVars, ifmac, wanfake, loops, unread, ifVars, file, histVars>>

\* Fault: the lines of the file are taken in the order of the interfaces.
FromFileByPosition(c) ==
  LET saved == SelectSeq(SetToSeq(Lans), LAMBDA l : file[l] # NoMac)
  IN  [l \in Lans |->
         IF \E i \in DOMAIN c.lans : c.lans[i] = l /\ i <= Len(saved)
         THEN file[saved[CHOOSE i \in DOMAIN c.lans : c.lans[i] = l]] ELSE c.peer[l]]

\* mac_load_from_file(): a line counts if the configuration has its interface.
FromFile(c) ==
  [l \in Lans |-> IF l \in ToSet(c.lans) /\ file[l] # NoMac THEN file[l] ELSE c.peer[l]]

LoadPeers ==
  /\ pc = "load"
  /\ slots' = [slots EXCEPT ![0].peer = FromFile(Cfg)]
  /\ li' = 1
  /\ pc' = "next"
  /\ UNCHANGED <<active, slot, running, sockVars, initL2, ifmac, wanfake, loops, unread, crypt, ifVars, file, histVars>>

\* mac_wait_first_packet() opens a socket for the frames of every interface and
\* binds it to one: it may have queued others in between.
Open ==
  /\ pc' = "check"
  /\ sock' = Cfg.lans[li] /\ early' \in {FALSE, Cardinality(strays) < MaxStrays}
  /\ UNCHANGED li

\* Fault: after an interface whose peer is known, the search starts over.
NextLanOver ==
  /\ pc = "next"
  /\ IF li > Count
     THEN pc' = "lans" /\ li' = 1 /\ UNCHANGED <<sock, early>>
     ELSE IF Cfg.peer[Cfg.lans[li]] # NoMac
          THEN li' = 1 /\ UNCHANGED <<pc, sock, early>>
          ELSE Open
  /\ UNCHANGED <<procVars, strays, initL2, ifmac, wanfake, loops, unread, crypt, ifVars, file,
                 histVars>>

\* The next interface without a peer, if any.
NextLan ==
  /\ pc = "next"
  /\ IF li > Count
     THEN pc' = "lans" /\ li' = 1 /\ UNCHANGED <<sock, early>>
     ELSE IF Cfg.peer[Cfg.lans[li]] # NoMac
          THEN li' = li + 1 /\ UNCHANGED <<pc, sock, early>>
          ELSE Open
  /\ UNCHANGED <<procVars, strays, initL2, ifmac, wanfake, loops, unread, crypt, ifVars, file,
                 histVars>>

\* The interface is gone, or its socket cannot be opened or bound.
OpenFails ==
  /\ pc = "next" /\ li <= Count
  /\ Cfg.peer[Cfg.lans[li]] = NoMac
  /\ Quit

\* mac_wait_first_packet(): not stopped, so it blocks in recv() ...
Check ==
  /\ pc = "check" /\ running
  /\ pc' = "recv"
  /\ UNCHANGED <<procVars, li, sockVars, initL2, ifmac, wanfake, loops, unread, crypt, ifVars, file, histVars>>

\* ... until there is a frame; if its source is no peer's, it waits again.
RecvOther ==
  /\ pc = "recv"
  /\ pc' = "check"
  /\ early' \in {early, FALSE}
  /\ UNCHANGED <<procVars, li, sock, strays, initL2, ifmac, wanfake, loops, unread, crypt, ifVars, file,
                 histVars>>

\* mac_set_peer(), mac_save_to_file(): the file is written anew with what this
\* configuration knows.
Known(c) == [l \in Lans |-> IF l \in ToSet(c.lans) THEN c.peer[l] ELSE NoMac]

\* recv() returns a frame of its interface or, of those queued first, of any.
Hears(h) == HomeOf[h] = sock \/ early

NewStrays(h) == IF HomeOf[h] = sock THEN strays ELSE strays \cup {<<Cfg.lans[li], h>>}

RecvPeer(h) ==
  /\ pc = "recv" /\ Hears(h)
  /\ sock' = Closed /\ early' = FALSE
  /\ IF li <= Count
     THEN /\ slots' = [slots EXCEPT ![0].peer[Cfg.lans[li]] = h]
          /\ file' = Known(slots'[0])
          /\ strays' = NewStrays(h)
          /\ li' = li + 1
          /\ pc' = "next"
     ELSE pc' = "ended" /\ UNCHANGED <<slots, file, strays, li>>
  /\ UNCHANGED <<active, slot, running, initL2, ifmac, wanfake, loops, unread, crypt, ifVars, histVars>>

\* A crash between fopen(), which truncates the file, and fclose().
CrashSaving(h) ==
  /\ pc = "recv" /\ Hears(h) /\ li <= Count
  /\ \E kept \in SUBSET Lans :
       file' = [l \in Lans |-> IF l \notin kept THEN NoMac
                               ELSE IF l = Cfg.lans[li] THEN h ELSE Known(Cfg)[l]]
  /\ strays' = NewStrays(h)
  /\ NewProcess

\* interface_init_local(): memory, umem, socket, XDP program attached.  An
\* interface that has a socket already refuses another one.
LanUp ==
  /\ pc = "lans" /\ running /\ li <= Count
  /\ Cfg.lans[li] \notin ToSet(up)
  /\ up' = Append(up, Cfg.lans[li])
  /\ queues' = [queues EXCEPT ![Cfg.lans[li]] = @ + 1]
  /\ li' = li + 1
  /\ UNCHANGED <<procVars, pc, sockVars, initL2, ifmac, wanfake, loops, unread, crypt, badLans, file, histVars>>

\* It fails before the queue is complete, undoing what it did, or on attaching
\* the program: err_queues frees the queue and leaves it to interface_cleanup(),
\* which forwarder_init() calls (2384) and which frees it again.
LanFails ==
  /\ pc = "lans" /\ running /\ li <= Count
  /\ \/ queues' = Cleanup /\ UNCHANGED badLans
     \/ /\ Cfg.lans[li] \notin ToSet(up)
        /\ queues' = [Cleanup EXCEPT ![Cfg.lans[li]] = @ - 1]
        /\ badLans' = badLans \cup {Cfg.lans[li]}
  /\ up' = <<>>
  /\ pc' = "ended"
  /\ UNCHANGED <<procVars, li, sockVars, initL2, ifmac, wanfake, loops, unread, crypt, file, histVars>>

LansDone ==
  /\ pc = "lans" /\ li > Count
  /\ pc' = "install"
  /\ UNCHANGED <<procVars, li, sockVars, initL2, ifmac, wanfake, loops, unread, crypt, ifVars, file, histVars>>

\* arp_init_for_local() may fail, and then the LAN's network is not asked for, or
\* local_config_fill_ipv4_from_iface() finds no address, or no netmask.
Networks(c) ==
  {n \in [Lans -> Reaches] : \A l \in Lans : l \notin ToSet(c.lans) => n[l] = c.nets[l]}

\* Fault: the networks of the LANs are not read.
InstallNoNets ==
  /\ pc = "install" /\ running
  /\ IF bridge THEN ifmac' = slots[slot].peer ELSE UNCHANGED ifmac
  /\ pc' = "wan" /\ li' = 1
  /\ UNCHANGED <<procVars, sockVars, initL2, wanfake, loops, unread, crypt, ifVars, file, histVars>>

\* bridge_mac_install() copies from fwd->cfg; routed, the configuration that
\* initialisation was given is completed, as far as that goes.
Install ==
  /\ pc = "install" /\ running
  /\ IF bridge
     THEN ifmac' = slots[slot].peer /\ UNCHANGED <<slots, unread>>
     ELSE /\ \E n \in Networks(Cfg) :
               /\ slots' = [slots EXCEPT ![0].nets = n]
               /\ unread' = {l \in ToSet(Cfg.lans) : n[l] # "lan"}
          /\ UNCHANGED ifmac
  /\ pc' = "wan" /\ li' = 1
  /\ UNCHANGED <<active, slot, running, sockVars, initL2, wanfake, loops, crypt, ifVars, file, histVars>>

\* wan_fake4 # 0.  The ethertype is read from the slot that initialisation was
\* given, which the merge fills in if there is encryption.
Layer2Told == crypt /\ initL2 /\ Cfg.crypt

\* interface_init_wan_rx(), which sets wan_config_map
WanUp ==
  /\ pc = "wan" /\ running /\ li <= Len(Wans)
  /\ up' = Append(up, Wans[li])
  /\ queues' = [queues EXCEPT ![Wans[li]] = @ + 1]
  /\ wanfake' = IF Layer2Told THEN wanfake \cup {Wans[li]} ELSE wanfake
  /\ li' = li + 1
  /\ UNCHANGED <<procVars, pc, sockVars, initL2, ifmac, loops, unread, crypt, badLans, file, histVars>>

\* Whatever fails, interface_init_wan_rx() frees it and nobody else does.
WanFails ==
  /\ pc = "wan" /\ running /\ li <= Len(Wans)
  /\ Quit

WansDone ==
  /\ pc = "wan" /\ li > Len(Wans)
  /\ pc' = "choose"
  /\ UNCHANGED <<procVars, li, sockVars, initL2, ifmac, wanfake, loops, unread, crypt, ifVars, file, histVars>>

\* Fault: the loops are those of the configuration initialisation was given.
RunGiven ==
  /\ pc = "choose" /\ running
  /\ loops' = IF Cfg.crypt THEN "crypt" ELSE "plain"
  /\ pc' = "run"
  /\ UNCHANGED <<procVars, li, sockVars, initL2, ifmac, wanfake, unread, crypt, ifVars, file, histVars>>

\* forwarder_run(); encrypt_layer is 3 in every merged configuration.  A stop
\* between its check and running = 1 is DaemonLifecycle's subject.
Run ==
  /\ pc = "choose" /\ running
  /\ loops' = IF crypt THEN "crypt" ELSE "plain"
  /\ pc' = "run"
  /\ UNCHANGED <<procVars, li, sockVars, initL2, ifmac, wanfake, unread, crypt, ifVars, file, histVars>>

Thread ==
  \/ Aborts \/ Begin \/ LoadPeers \/ NextLan \/ OpenFails \/ Check
  \/ LanUp \/ LanFails \/ LansDone \/ Install \/ WanUp \/ WanFails \/ WansDone \/ Run

-----------------------------------------------------------------------------
Init ==
  /\ bridge \in Bridges
  /\ active = <<>> /\ slots = [i \in 0..1 |-> Empty] /\ slot = 0 /\ running = TRUE
  /\ pc = "none" /\ li = 1 /\ sock = Closed /\ early = FALSE /\ initL2 = FALSE
  /\ ifmac = NoPeers /\ unread = {} /\ strays = {}
  /\ wanfake = {} /\ loops = "none" /\ crypt = FALSE
  /\ file = NoPeers
  /\ up = <<>> /\ queues = [i \in Ifaces |-> 0] /\ badLans = {}
  /\ reloaded = FALSE /\ late = {} /\ clobbered = FALSE

Recv == RecvOther \/ \E h \in Hosts : RecvPeer(h)

Next ==
  /\ UNCHANGED bridge
  /\ \/ \E p \in Profiles : Start(p)
     \/ Change \/ Stop \/ Restart
     \/ Thread \/ Recv
     \/ \E h \in Hosts : CrashSaving(h)

\* The thread is scheduled; every LAN keeps sending, and its hosts among others.
Fairness ==
  WF_vars(Thread) /\ WF_vars(Recv) /\ \A l \in Lans :
    SF_vars(\E h \in Hosts : HomeOf[h] = sock /\ sock = l /\ RecvPeer(h))

Spec == Init /\ [][Next]_<<bridge, vars>> /\ Fairness

-----------------------------------------------------------------------------
LanLists == {s \in Seq(Lans) : IsInjective(s)}

Config ==
  [lans : LanLists, crypt : BOOLEAN, l2 : BOOLEAN, nets : [Lans -> Reaches],
   peer : [Lans -> Macs]]

TypeOK ==
  /\ active \in Seq(Profiles) /\ slot \in 0..1 /\ running \in BOOLEAN
  /\ slots \in [0..1 -> Config]
  /\ pc \in {"none", "begin", "load", "next", "check", "recv", "lans", "install", "wan", "choose",
             "run", "ended"}
  /\ bridge \in BOOLEAN /\ ToSet(up) \subseteq Ifaces /\ badLans \subseteq Lans
  /\ queues \in [Ifaces -> -1..1]
  /\ li \in Nat /\ initL2 \in BOOLEAN /\ crypt \in BOOLEAN
  /\ ifmac \in [Lans -> Macs] /\ file \in [Lans -> Macs]
  /\ wanfake \subseteq ToSet(Wans) /\ loops \in {"none", "plain", "crypt"}
  /\ sock \in Lans \cup {Closed} /\ early \in BOOLEAN /\ clobbered \in BOOLEAN
  /\ unread \subseteq Lans /\ strays \subseteq Lans \X Hosts
  /\ reloaded \in BOOLEAN /\ late \subseteq {"crypt", "l2", "wiped"}

\* The LAN a packet from a WAN for host h goes to, as forwarder_rx_pick_local()
\* finds it: bridge_mac_local_for_dmac() or config_find_local_for_ip().  An
\* unknown network, netmask 0, matches every address.
Fits(c, i, h) ==
  LET l == c.lans[i] IN
  IF bridge THEN c.peer[l] = h ELSE c.nets[l] = "any" \/ (c.nets[l] = "lan" /\ l = HomeOf[h])

LocalFor(h) ==
  LET c == slots[slot]
      fit == {i \in DOMAIN c.lans : Fits(c, i, h)}
  IN  IF fit = {} THEN "drop" ELSE c.lans[CHOOSE i \in fit : \A j \in fit : i <= j]

(***************************************************************************)
(* sql_options/30_bridge_l2_ne1.sql:1: "NE1 bridge: WAN without dst_ip     *)
(* (transparent L2), MAC learn on LAN."  A frame for the peer of a LAN     *)
(* reaches that LAN.                                                       *)
(***************************************************************************)
TransparentL2 ==
  pc = "run" /\ bridge =>
    \A l \in ToSet(slots[slot].lans) : ifmac[l] # NoMac => LocalFor(ifmac[l]) = l

(***************************************************************************)
(* sql_options/40_bypass_bond_ne1.sql:1-3: "bypass only, 2 VLAN LANs",     *)
(* "enp7s0.9 192.168.9.2 -> 192.168.182.2", "enp7s0.10 192.168.10.2 ->     *)
(* 192.168.180.2".  What comes back for a host goes to the VLAN it is on,  *)
(* if the networks of its LAN and of those listed before could be read.    *)
(***************************************************************************)
ToItsVlan ==
  pc = "run" /\ ~ bridge =>
    LET lans == slots[slot].lans
    IN  \A h \in Hosts, k \in DOMAIN lans :
          HomeOf[h] = lans[k] /\ (\A i \in 1 .. k : lans[i] \notin unread) => LocalFor(h) = lans[k]

(***************************************************************************)
(* As long as nothing was reloaded, packets from a WAN reach the LAN of    *)
(* their destination, bridged or not, whether the peers were learned, read *)
(* from the file, or both.  (A file that a clobbered initialisation wrote  *)
(* stays wrong, and so does one with a peer that is on another interface.) *)
(***************************************************************************)
DeliveredUntilReload ==
  ~ reloaded => ToItsVlan /\ (~ clobbered /\ strays = {} => TransparentL2)

(***************************************************************************)
(* A LAN's peer is a host of that LAN, or one whose frame the socket had   *)
(* queued before it was bound (bridge_mac.c:184-205), also after the file  *)
(* outlived crashes and configurations with other interfaces: else a frame *)
(* is dropped, never put on the wrong cable.  Unless a second reload wrote *)
(* the slot initialisation works on.                                       *)
(***************************************************************************)
RightCable ==
  ~ clobbered => \A l \in Lans : {file[l], ifmac[l], slots[0].peer[l], slots[1].peer[l]}
                    \subseteq {NoMac} \cup {h \in Hosts : HomeOf[h] = l \/ <<l, h>> \in strays}

(***************************************************************************)
(* Two choices are made once, before the loops run, and no reload revises  *)
(* them: which loops run, and whether the XDP program of the WANs hands    *)
(* over the frames that layer-2 policies produce (2424, 2840).  Packets of *)
(* a policy leave unencrypted, or such frames are missed, only if a reload *)
(* brought policies that need the other choice when it had been made, or   *)
(* wrote a configuration without ethertype where the choice looks for it.  *)
(***************************************************************************)
DecidedOnce ==
  pc = "run" =>
    /\ slots[slot].crypt /\ loops = "plain" => "crypt" \in late
    /\ slots[slot].l2 => ToSet(Wans) \subseteq wanfake \/ late \cap {"l2", "wiped"} # {}

\* forwarder_init() frees the queues it has set up when a later interface fails
\* or a stop comes, forwarder_cleanup() those of a forwarder that ran: each once,
\* except that of a LAN whose XDP program could not be attached, which is freed
\* twice.
QueuesFreed ==
  pc = "ended" => \A i \in Ifaces : queues[i] = 0 \/ i \in badLans

\* forwarder_stop() ends the thread wherever it is, a frame arriving on the LAN
\* it waits for; main.c joins it.
StopHeeded == ~ running ~> pc \in {"ended", "none"}

\* Every LAN sending, initialisation ends and the loops run.
GetsRunning == pc = "begin" ~> pc \in {"run", "ended", "none"}

\* The thread never hangs before the loops run, with or without a stop: each
\* peer is waited for once and each wait can be left.
Settles == StopHeeded /\ GetsRunning
=============================================================================
