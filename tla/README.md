# TLA+ specifications of the network encryptor

The program is a Linux daemon (`src/main.c`, `src/src/`) that encrypts traffic between LAN and
WAN interfaces with AF_XDP sockets. It is told by PostgreSQL notifications which *profiles* to
serve, merges them to one configuration, forwards packets on many threads, and replaces the
configuration under traffic. The modules here model its concurrent core; paths below are
relative to the repository, `forwarder.c` is `src/src/core/forwarder.c`, and so on.

## 1. The system

### Threads

| thread | code | what it does |
|---|---|---|
| daemon | `main()` | LISTEN/NOTIFY loop, loads and unloads profiles, starts, reloads, stops the forwarder |
| forwarder | `forwarder_thread_main()` | `forwarder_init()`, then `forwarder_run()`, which starts and joins the others |
| RX, one per LAN queue | `local_queue_thread_*()` | receives from the LAN, queues jobs for the worker (or encrypts itself at layer 2) |
| worker | `worker_thread()` | takes jobs, selects policy and WAN, encrypts, splits, sends, gives the frame back |
| WAN, one per WAN queue | `wan_queue_thread_*()` | receives from the WAN, reassembles, decrypts, sends to the LAN |
| gc | `gc_thread()` | sweeps fragment tables, flow table, pins, statistics |
| ARP listener | `wan_arp.c` | learns next-hop MAC addresses |

### Components

**Hot-reload gate** (`forwarder.c` 83-96, 199-337, 2480-2526; `main.c` 244-271).
State: `g_reload_pause`, `g_inflight_packets`, `fwd->cfg` (a pointer to one of two slots),
`crypto_enabled`, the crypto contexts, the TCP pins. Packet threads bracket a batch or job with
`packet_critical_enter/leave()`, the daemon raises the pause, waits for zero, swaps. Hard: a flag
and a counter read in opposite orders by two sides, with acquire/release atomics only; a fast
path that does not wait. Correct when a reload excludes packet sections, a section sees one
policy set, no pin outlives its list, and neither side waits for ever.

**Daemon and forwarder lifecycle** (`main.c`; `forwarder.c` 2277-2478, 2832-2862).
State: active ids, `runtime_state` (two slots, active slot, `has_thread`), `running`,
`g_stop_requested`. Operations: load, unload, start, reload, stop, join, signal. Hard: a reload
while init is under way, failures with partial roll-back, stop racing start. Correct when the
active set, the configuration in use, the contexts and the thread stay in step, a loaded profile
is served, and a join returns.

**Worker ring and frames** (`forwarder.c` 760-777, 1399-1457, 1993-2272; `interface.c`
1302-1361). State: a locked ring of jobs, the RX and fill rings of each socket. Hard: a frame has
exactly one owner while it moves between kernel, RX thread, ring and worker; the fill ring has
two producers and no lock. Correct when frames are neither lost nor doubled, the ring is a
bounded FIFO queue, and shutdown does not hang.

**Fragmentation** (`fragment.c`). State: packet-id counter, a table of first halves per layer.
Operations: split, try to reassemble, sweep. Hard: loss, duplication, reordering, ids that go
round, table collisions, a sweep without lock, unsigned time. Correct when only halves of one
packet are combined, once and in time, and a waiting half is not dropped without a reason.

**TCP policy pins** (`forwarder.c` 339-580, 2050-2270). A hash table, a lock per bucket, that keeps the
policy index a TCP flow was first matched with, or that of its peer's last packet split at layer 3; set,
looked up, aged, removed on FIN/RST, swept, cleared by a reload. Hard: three kinds of thread, a clock read
before the lock, look-up and setting under separate holds. Correct when a connection stays on the policy it
was pinned to and is forgotten when it is over.

**Policy selection and crypto tables** (`db/config.c` 200-362, `forwarder.c` 57-69, 190-337,
`crypto_dispatch.c`). State: the merged configuration, one crypto context per policy, the index from
(action, wire id) to a policy, and the same tables of an earlier configuration with the end of a grace
period. Operations: choose the policy of a LAN packet, find that of a WAN packet, rebuild on init and
reload. Hard: wire ids are never exchanged, each gateway computes them; contexts are copied across
reloads; the id is searched for in the packet. Correct when a packet that one gateway encrypts under a
policy both have is decrypted by the other with that policy's key, whatever each loaded before.

**WAN selection and flow table** (`flow_table.c`). Weighted round robin per packet over the profile's
WANs, from one counter that all profiles share; for packets without a profile or WAN, a table from flow
to WAN with byte windows, a lock per bucket, ageing. Correct when each WAN gets its share.

**Loading and merging of profiles** (`db_config.c`, `db_runtime.c`). Rows are expanded to policies,
policies with one key get one wire id, profiles are merged: interfaces without doubles, index maps, wire
ids made unique, limits. A merge with any policy runs the loops of layers 3 and 4, which treat layer 2
too; `forwarder_run_l2()` is not reached.

**WAN packet path** (`forwarder.c` 1100-1990). Batches are received, classified, reassembled,
decrypted with the current and, in a grace period, the previous contexts, sent to a LAN and released as a
whole. Correct when a frame is given back once and a packet gets to the LAN its host is on.

**Transmission** (`interface.c` 1363-1558). Slots handed out round robin, the TX ring, kicks in batches,
a count of pending packets that all senders to an interface share. Hard: a thread's flush resets the count
another looks at; the kernel takes what it likes. Correct when no queued packet's slot is written again, no
queued frame is left without a kick to come, and a full ring does not stay full.

**ARP cache** (`wan_arp.c`). An open-addressing table that packet threads look up and a listener fills,
kept in a file; a packet without an entry is dropped and asks. With policies, a LAN keeps the MAC of the
first of their hosts that is found at the start, and every packet gets it in place of the one looked up. Hard:
collisions, a full table, lost requests, a crash while the file is written. Correct when the table is a map and
packets get through.

**Bridge MAC learning** (`bridge_mac.c`). When the WANs are bridged, initialisation learns the peer of each LAN
from a file or from a first frame, which it waits for in `recv()`; a packet from a WAN goes to the LAN whose
peer it is for. Hard: a socket that hears every interface until it is bound; reloads, before, while and after,
read a configuration from the database that knows no peers. Correct when frames go to the right LAN and a stop
is heeded.

**Socket and XDP set-up** (`interface.c`, `forwarder_init()`). Interfaces are set up in order and taken
down on every failure. Correct when each queue is freed once.

**Nonces, key slots and packet parameters** (`packet_crypto.c`). Mode, nonce length and wire id are
thread-local, the layer (`g_encrypt_layer`) and the nonce counter are shared by all threads.

**Packet encryption** (`crypto_*.c`), **XDP programs and their maps** (`src/bpf`, `interface.c`), **database
I/O** (`db_config.c`, `db_env.c`), **diagnostics**, **schema and scripts**, **vendored libbpf/libxdp**.

### Interactions

The daemon calls `forwarder_reload_config()` while packet threads read what it replaces: they meet only in the
gate and in the locks of the pin buckets; what `forwarder_init()` derived from the first configuration is not
derived again. RX threads and worker meet in the worker ring and in the fill rings. WAN threads, worker and gc
meet in the pins, WAN threads and gc in the fragment tables, WAN threads and the listener in the ARP cache, all
who send to an interface in its TX ring. Stop reaches the packet threads through `running` only.

## 2. Modules

| module | models | composes / refines |
|---|---|---|
| `ReloadGate` | the hot-reload gate and an encrypting packet section | |
| `DaemonLifecycle` | `main.c` and the life of the forwarder thread | uses a reload as one step, which `ReloadGate` opens |
| `ForwarderInit` | `forwarder_init()`, `bridge_mac.c`, interface set-up, and reloads beside them | opens what `DaemonLifecycle` takes as one step, init |
| `JobQueue` | what the worker ring promises: a bounded FIFO queue | abstract specification |
| `WorkerRing` | RX threads, ring, worker, fill rings index by index | implements `JobQueue` |
| `PacketChoice` | the worker's choice of WAN and, through the pins, of policy | its reload happens between sections, as `ReloadGate` shows |
| `FragReassembly` | sender's split, network, table of halves, sweeps | |
| `PolicyTables` | loading and merging of policies, crypto tables, choice of the policy of a packet | one gateway; its peers are the packets they may send |
| `ArpMap` | what the ARP cache promises: a map with limited room, and its file | abstract specification |
| `ArpCache` | the table, its file, requests, the listener | its table implements `ArpMap` |
| `LanDelivery` | WAN thread in routed mode, decrypting or not: batch, MAC, TX ring of the LAN | EXTENDS `ArpCache` |
| `WanSend` | sending to WANs by many threads: TX and completion rings, kicks, flushes | its WANs are chosen as in `PacketChoice`, its slots as in `LanDelivery` |
| `*Proofs` | inductive invariants and theorems of `ReloadGate`, `DaemonLifecycle`, `WorkerRing`, `FragReassembly`, `PolicyTables`, `LanDelivery`, `ForwarderInit`, and in `WanPathProofs` of `PacketChoice` and `WanSend` | each EXTENDS its module |
| `MC*` | instances for TLC | |

Definitions marked *Fault* are not part of any specification: each is a definition next to it as a
plausible bug would have it, kept to see that the properties notice.

**ReloadGate.** A configuration is a record of what the reload decision tells apart: policy set
with keys (`crypto_runtime_changed()`), counts (`forwarding_runtime_changed()`), interfaces
(`same_topology()`). `pause`/`inflight` are the two atomics; each load, increment and decrement is
a step. With `BufferedStores` the daemon's release store may stay in a store buffer (`pauseBuf`)
while the following acquire load of the counter is executed, which both C11 release/acquire and
x86 allow; increments are locked instructions and never buffered, and the daemon's later stores
drain behind it. A packet section reads `crypto_enabled` and the policy (`Select`), computes the
index into `fwd->cfg` for the context (`Resolve`), reads the parameters through the pointer
(`Params`) and pins the index (`PinIndex`, `PinSet`), so a configuration that changes in the middle
is seen in every mixture. `overtaken` is a history variable: sections a reload did not wait for,
because of the fast path or of the store buffer.

**DaemonLifecycle.** One action per branch of the main loop, `handle_profile_notify()`,
`load_profile_and_run()`, `apply_active_configs()`, `runtime_start/stop`, and per observable step of
`forwarder_thread_main()`: entry and assignment of `fwd->cfg`, contexts built, last check,
`running = 1`. Failures of database, init and `pthread_create()` are constants. The administrator
edits the table and notifies at any time. `drift`, `raced`, `stopped`, `rearmed` are history; `raced` ends
with the next reload that builds the contexts anew.

**ForwarderInit.** `pc` is where the forwarder's thread is: one action per pass of the loop over LANs that
learns peers, per interface set up, and per choice made once. A configuration is a record of its LANs, whether
it encrypts and at layer 2, and the two things the machine adds: the peers and the networks. `Reload` writes the
other of the two slots, which `main.c` does even when the configuration is then refused, and `forwarder_init()`
goes on completing slot 0, the one it was given. Crashes may fall between opening and closing `peer_mac.conf`.
The socket that waits for a peer is opened for the frames of every interface and bound afterwards: in `early` it
has frames from before, and then `RecvPeer` may get one of any interface (`strays` is history). `Install` reads
the networks as far as that goes: a LAN whose ARP set-up fails keeps none, one without netmask matches every
address (`unread` is history). A profile that is unloaded stays out of the list of active ones even if the
reload without it is refused, as in `handle_profile_notify()`; a profile that cannot be added is taken off
again. The WANs of the merge are distinct, as `append_wan_unique()` makes them. `Fits` and `LocalFor` choose the
LAN of a packet as `forwarder_rx_pick_local()` does.

**WorkerRing.** The ring operations are atomic (they hold `ring->lock`); each load and store of the
libxdp producer ring is a step. `Wrap` keeps indices modulo twice the ring's size in place of 2^32.
Processing of a job is one step: each of its paths ends at `release_local`. `clash` is history: two
threads were giving frames to one fill ring at once.

**PacketChoice.** A hold of a bucket's lock is one step (`Lookup`, `WorkerSet`, `Finish`, `RxSet`, `GcBucket`),
the reading of the clock before it another; times are kept as ages, so that the model is finite without a bound
on time, and the difference the sweep computes is unsigned. One bucket holds one connection: what shares a
bucket is a chain searched by key. `Decrypt` stands for the two ways in which a WAN thread comes to know a
policy: from the half that completes a packet split at layer 3, and from decrypted bytes that pass for a layer-4
header; other packets have been decrypted in place when their id is looked for. `told` is history: the policy
the peer split a packet under, while packets of the connection are frequent enough. `Acc` adds the weights up as
the loop of `wrr_slot_to_wan()` does. `deal` is history: the WANs dealt to one profile since the last round
began; a round begins anew when the counter wraps. SSH packets at layer 4, fragments and layer-2 frames set no
pin in the code and are `OtherPacket`.

**FragReassembly.** A half is `<<packet, 0 or 1>>`; the network is the set of halves under way and a
half is consumed or stays as a duplicate. Times are compared as unsigned numbers modulo `Width`. The
three layers differ in their table; the guess of the protocol at layer 3, a function of one packet's bytes, is
left out (see the observations). `came`, `waiting`, `inPass` are history.

**PolicyTables.** A row of `ne_policies` is a record of what decides its fate: action, key, mode, nonce length,
database id, number of copies (the product of its address and port lists), protocol, and the flows it matches.
`LoadProfile`, `MergedConfig` and `Rebuild` are the loader, the merge and `rebuild_crypto_runtime()`; `Selected`
chooses the policy of a LAN packet, `Received` says what becomes of a WAN packet: it follows
`wan_queue_thread_l3l4()` through the recognition of fragments, the extraction of the id, the look-up and the
retry with the tables of before, and layer 4's look at what layer 2 or 3 has decrypted. Ciphers are abstracted
to whether key, mode and nonce length agree. A packet carries its policy's parameters, an `alias`, any byte that
may be where another nonce length would look, and a `chance`, what its data happen to look like: the code knows
a fragment by one magic byte (`MagicAt`), which the ciphertext of a whole layer-2 packet or the payload of one
at layer 3 may hold too, and a layer-4 packet by its magic and id. Reload is one step (`ReloadGate` opens it),
the daemon's failures are in `DaemonLifecycle`. The loops of loader and merge are recursive functions over the
rows, policies, interfaces and profiles in their order. Every profile has at least one policy, so that
encryption is on in every merge. `replaced` is history: the tables before the latest reload.

**ArpCache, LanDelivery.** The table is a function from indices to entries, probed as in the code. The
listener's turn is one step, except that it opens (and truncates) the file in one and writes it in another,
between which the process may end. `LanDelivery` adds the initialisation of the LAN (`Resolve` asks for the
hosts of the policies, `Sync` keeps the MAC of the first that is known in `primary`), the MAC a packet is queued
with (`Written`: `primary` if there is one), the hot reload that clears it, and the WAN thread, one step per
packet of its batch: it misses and asks, or queues the packet in the next slot, kicks when the ring is full or
enough is pending, gives up, and releases the batch. The kernel takes any number of queued frames at a kick, the
sockets being bound with `XDP_COPY`. `IsArpMap` is stated in `LanDelivery`, so that the cache is shown to be a
map amid deliveries and restarts.

**WanSend.** The rings of a WAN are a record of counts: frames in the TX ring, `pending_tx_count`, frames in
the kernel's hands, entries of the completion ring. Slots are chosen as in `LanDelivery`, so that only their
number matters here. A hold of `tx_lock` is one step (`Send`, `Drop`, `Flush`); a sender remembers the WANs it
queued packets for (`wan_used`) and flushes them after its batch, or, as the worker, after its job. `Kicked`
is a `sendto()`, after which the kernel takes any number of frames that fit the completion ring; `Poll` is
the `poll()` of the WAN's RX thread, which makes the kernel look at the ring too. `offered` is history: how
many of the queued frames some kick has offered. What the model leaves out is that the same RX thread drains
the completion ring, without `tx_lock`, when it finds its fill ring full (`interface.c` 1350). The
definitions that every module has are `WanInit`, `WanNext`, `WanSpec` and `WanTypeOK` here, so that
`WanPathProofs` can extend this module and `PacketChoice` together.

## 3. Model checking

All runs use `Spec` of their module (`WanSpec` in `wan_send`). Deadlock checking is off where the system may
really stop: the daemon exits, the threads end, or the bounded environment has sent everything.

| run | shows | bounds |
|---|---|---|
| `reload_gate_sc` | reload excludes sections, sections are consistent, pins are current | 2 threads, 3 policy sets (one of them "off"), 2 shapes, 2 topologies, 2 reloads |
| `reload_gate_tso` | with a store buffer, reloads return and batches are processed | 2 threads, 2 policy sets, 2 reloads |
| `daemon_safety` | active ids, installed configuration, contexts and thread stay in step; a slot in use is not written | 3 profiles (2 share interfaces), 2 active at most, 1 pending message, all failures |
| `daemon_live` | loads are served before the first stop, joins return | 2 profiles, no failures |
| `daemon_restart` | *violated:* the finding below | 2 profiles, 1 active |
| `forwarder_init` | packets reach their LAN until a reload, a peer is on its LAN's cable or was heard before the socket was bound, decisions made once hold up to what a reload brought late, queues are freed once; a stop is heeded, init ends | 2 LANs with a host each, 3 profiles, 2 WANs, 1 stray frame, any networks unread, bridged or not |
| `worker_ring` | one owner per frame, no entry shown before it is written, frames return, threads end, the ring is a bounded queue | 1 LAN, 2 frames, rings of 2 |
| `packet_choice` | connections stay on the layer-3 policy their peer last split a packet under, WANs get their share, connections that are over are forgotten | 1 connection, 1 WAN thread, 2 profiles, 3 WANs, 4 configurations |
| `frag_halves` | halves combined belong together, once, in time; none dropped or swept without reason | 2 peers, 3 packets, ids modulo 2, 1 entry, 1 duplicate |
| `policy_tables` | wire ids are unique, peers are understood unless a packet looks like what it is not, stale packets are not mistaken, a later profile changes no packet's policy | 3 profiles, 3 keys, 3 nonce lengths, wire ids up to 8, 6 policies, grace of 2 ticks |
| `lan_delivery` | the cache is a map, slots stay intact, frames come back once, packets get through | 3 neighbours in a cache of 2, two of one hash; no policies, or 2 policy hosts; rings and slots of 2; 1 restart |
| `wan_send` | no queued frame is forgotten, frames go out again and again | 2 senders, 2 WANs (one with an RX thread that may never poll), rings of 2, kick at 2, batches of 2 |

The type invariant of every module that has a run is a theorem; those of `forwarder_init`, `policy_tables` and
`lan_delivery`, which say most about what the recursive functions compute, are in their runs as well. Theorems
too are the safety properties of the gate with a store buffer: the run for it checks what cannot be proved,
liveness. `FramesSafe` joins `FrameOwned` and `WrittenBeforeShown`, both of which a clash breaks; `Settles`
joins `StopHeeded` and `GetsRunning`.

Why the bounds are enough. In the gate all threads run the same code and interact only through the two atomics:
one thread in its section and one that knocks cover the pairs, two reloads cover the alternation of slots and
the way back to a former policy set; the theorems below do away with the bound for safety. In the lifecycle, two
active profiles out of three are the least for a full set, a last and a not last unload, and a rejected load;
the two that share interfaces can be reloaded, the third is rejected. In initialisation, two LANs are the least
for a peer on the wrong one and a second interface that fails after a first, and one stray frame is enough to
put a peer on the wrong cable and in the file; the three profiles have no policy, one at layer 3, and ones at
layers 2 and 4, the first and the last with one LAN less, so that every choice is brought late by some reload,
and accepted and rejected reloads occur in every phase; with two WANs a reload may come between the settings of
their XDP programs. In the ring, 2 frames are the least that can clash, and a ring of 2 holds one job, so that a
full ring and the wrap are met at once; that the order of more jobs is kept is the theorem `RingIsJobQueue`, for
every size. For the pins, a connection is a bucket of its own and connections meet nowhere but in the sweep, so
that one is enough; the theorem has any number. The configurations encrypt, bypass or ignore it, or switch
encryption off; a timeout of 2 and readings up to 1 old are the least at which a reading is late and a pin not
yet expired; weights 1:2 beside a WAN without weight, a WAN that is listed twice beside another, and a single
WAN, with the counter modulo 7, no multiple of a total, so that rounds begin at every value of the counter and
meet its wrap, which is excused. In reassembly two ids and one entry make ids go round and entries collide with
three packets; layers have tables of their own and do not interact, so `frag_halves` has one. In the tables, two
profiles share a LAN and a third has it besides another one: both kinds of hot load (accepted, rejected) occur,
in every order; the rows have equal ids, an id out of range, keys shared within and across profiles, a bypass, a
row of two copies, and an edit that changes keys, ids and nonce lengths; three profiles need more than six
places, so that the limit is met. Packets need no state: the invariant quantifies over every packet of every
peer. In delivery, three neighbours and room for two are the least for a collision and a full table; of the two
policy hosts one is the destination, so that the MAC kept is the right one, another's, or none; rings of two
frames make a batch, a full ring and a frame displaced from the fill ring; the number of slots equals that of
ring entries, the loader's default and the tightest it accepts; the theorem has all others. In sending, two
threads are the least that reset each other's count, two WANs the least of which one may be forgotten; with a
ring of two and a kick at two the ring is found full with packets pending and with none.

### Fairness

`ReloadGate`: every packet thread that is at work, the daemon and the store buffer make progress (preemptive
scheduling; the drain loop yields). Packets need not arrive. `DaemonLifecycle`: the daemon and the forwarder
thread are scheduled; for the forwarder this includes that bridged LANs carry a packet, because
`mac_wait_first_packet()` waits for one in `recv()` (`bridge_mac.c` 205). `ForwarderInit` says this openly: the
thread is scheduled, and every LAN keeps sending (`SF` for a frame of one of its hosts); on a silent LAN a stop
would not be seen. `WorkerRing`: the threads are scheduled; `poll()` has a timeout, so `RecvNone` is enabled
whenever no frame is there. `PacketChoice`: the worker and WAN threads are scheduled, `gc_thread()` wakes up
again and again (`SF`, since a reload may switch encryption off and on, and the sweep does nothing while it is
off), time goes by. `LanDelivery`: the initialisation of the LAN, the WAN thread and the listener's writing are
scheduled; a driver that is kicked again and again takes frames; packets for a destination keep coming, and a
request asked for again and again is answered and heard once (`SF`: any of them may be lost any number of
times). `WanSend`: senders are scheduled, packets for every WAN keep coming, drivers complete what they took,
and take frames if senders kick them again and again; so does a poll, except by the RX thread of a WAN in
`Busy`, which may find packets each time and never poll. `FragReassembly` and `PolicyTables` state no liveness:
the network may lose everything, and nobody has to load a profile.

### What the properties excuse

* *Fast path* (`forwarder.c` 2487-2493): a reload that changes nothing the comparison looks at does not
  wait. A section it overtakes may take the pointer from one slot and compute the index against the
  other; the index is then out of range and the packet is sent in the clear.
* *Store buffer:* the gate would need a sequentially consistent fence between the store of the pause
  and the load of the counter. Sections that slip through are in `overtaken`.
* *Lost stop* (`rearmed`): a stop between the last check and `running = 1` is overwritten.
* *Raced reload* (`raced`): a reload during `forwarder_init()` has its contexts overwritten, and those in use
  do not match until the next reload that builds them anew.
* *Drift:* an unload whose reload fails leaves the profile configured until the next reload.
* *Clash* (`FramesSafe`): RX thread and worker produce into one fill ring without a
  lock (`interface.c` 1347), although `xsk.h` 137 has the producer submit only what is written: one may
  submit an entry the other has not written yet, and frames are lost or doubled.
* *Reloaded* (`DeliveredUntilReload`): the configuration a reload installs knows neither peers nor
  networks. See the observations.
* *Clobbered* (`RightCable`): a second reload writes slot 0 while `forwarder_init()` completes it, and
  the peer learned for one LAN is entered for another.
* *Late* (`DecidedOnce`): a reload that brings the first policy, or the first of layer 2, after the choice
  was made, or that writes a configuration without encryption to slot 0 while initialisation still reads the
  layer-2 ethertype from there (`forwarder.c` 2424).
* *Strays* (`RightCable`, `DeliveredUntilReload`): the peer of a LAN was taken from a frame that the socket had
  queued before it was bound (`bridge_mac.c` 184-205).
* *Unread networks* (`DeliveredUntilReload`): a LAN whose network could not be read, and those listed after it
  (`forwarder.c` 2403-2418).
* *Bad LANs* (`QueuesFreed`): a LAN whose XDP program cannot be attached (see the observations).
* *Overlapped settings, raced sweep* (`FollowsPeer`): a packet of the worker looked up before the peer's
  was handled, and set after; a pin touched after the sweep read the clock, whose age is then negative,
  and unsigned; decrypted bytes that pass for the id of a layer-4 policy, which then replaces the pin.
* *Mixed rounds* (`WeightsHonoured`): a round that packets of another profile interrupt, or the wrap of the
  64-bit counter, is not counted.
* *Different peers, ids that went round:* the receiver knows the 16-bit id only.
* *gc pass* (`inPass`): the unlocked sweep compares with a time read before; a half that came since is
  younger than "now", the unsigned difference is huge, and the half is cleared.
* *Mistakable* (`PeersUnderstood`): whole layer-2 packets whose ciphertext has the magic byte of a fragment, and
  packets of layers 2 and 3 whose plaintext passes for one of a layer-4 policy, if there is one.
* *Several nonce lengths* at a layer: the id is looked for at the place each policy's own length gives, so
  that a byte of a nonce may pass for an id (`crypto_dispatch.c` 63).
* *Fragments at layer 4*: their index is read with the nonce length of the first policy of the merge
  (`fragment.c` 531), so that those of another length are dropped nearly always.
* *Missed* (`FrameOnce`): in the thread that does not decrypt, a packet without a MAC has its frame given back
  twice (`forwarder.c` 1205, 1227).
* *Full cache, torn MAC, another's MAC* (`Delivered`): a neighbour that finds no room is never delivered to, nor
  one whose MAC was read wrong after a crash and is never heard again, nor, as long as no reload comes, one on
  a LAN that writes the MAC of another host over that of every packet.
* *Busy* (`GoesOut`): the RX thread of a WAN always finds packets. Once the ring is full with none pending, no
  sender kicks it (`interface.c` 1384) and every packet for the WAN is dropped until that thread polls.

### Finding

`daemon_restart`: after the last profile was unloaded `running` stays 0; later loads report success
and no forwarder runs (`main.c` 285 against `forwarder.c` 2278).

### Observations

Met while modelling; each is in the model, or excused above. Without the excuse, TLC finds a
counterexample in the run named.

* `forwarder_init`: after a hot reload a bridged forwarder drops the frames for every peer, and a routed
  one with two LANs takes all packets for the first, because the peers and networks that initialisation
  added are not in the configuration read anew. `sql_options/30_bridge_l2_ne1.sql` 1 promises "NE1 bridge:
  WAN without dst_ip (transparent L2), MAC learn on LAN.", `40_bypass_bond_ne1.sql` 1-3 "bypass only, 2
  VLAN LANs" with a destination for each.
* `forwarder_init`: `mac_wait_first_packet()` opens its socket for the frames of all interfaces, binds it
  afterwards (`bridge_mac.c` 184, 193) and does not look where a frame came in: a host of another interface may
  become a LAN's peer and is saved as such.
* `forwarder_init`: a LAN whose ARP set-up fails is only warned about (`forwarder.c` 2403-2418), and that
  `local_config_fill_ipv4_from_iface()` fails is not noticed (2409): without netmask a LAN matches every address
  and takes the packets of all LANs listed after it.
* `forwarder_init`: when the program of a LAN cannot be attached, its queue is freed at once and again by
  the clean-up of `forwarder_init()` (`interface.c` 568-576).
* `policy_tables`: the grace period of 60 s (`forwarder.c` 69) is never armed by a hot reload: only
  `forwarder_init()` saves the tables (2302), a reload (2511) does not, and packets of the policies before
  it are not decrypted.
* `policy_tables`: a fragment is known by one byte. A whole layer-2 packet with that byte at the beginning of its
  ciphertext, 1 of 256, is dropped or passed on as it is (`fragment.c` 344, `crypto_layer2.c` 120-122);
  `crypto_layer3_encrypt()` takes a packet whose payload byte is 0x5C for encrypted and sends it in the clear
  (`crypto_layer3.c` 91-93); with a layer-4 policy, what layers 2 and 3 have decrypted is looked at once more.
* `packet_choice`: a connection follows its peer's policy only if the peer splits packets at layer 3. `wire_pkt`
  is `pkt` (`forwarder.c` 1668), so that a whole packet is plaintext when its policy id is extracted (1831,
  1906), and what is found is not an id of its policy.
* `packet_choice`: packets after a FIN, the FIN of a bypassed connection, and failed encryptions leave or
  set a pin that only the sweep removes. Two profiles whose packets alternate see every other value
  of the shared counter (`flow_table.h` 45), so that one of two equal WANs may get all the packets of one.
* `lan_delivery`: ARP entries never age; a MAC that a crash cut short in the file is used until the
  neighbour is heard again, and nothing asks for it.
* `lan_delivery`: in the default build (`config.h` 8-16) `interface_send_to_local_batch_queue()` writes
  `local_cfg->dst_mac`, that of one policy host (`forwarder.c` 2411), over the MAC that was just looked up
  (`interface.c` 1516-1525), so that with policies packets for the other hosts of a LAN go to that one.
* `wan_send`: a full TX ring of a WAN is kicked only when packets are pending (`interface.c` 1384), not, as
  that of a LAN, in every turn; frames that the last kick left wait for `poll()` of the WAN's RX thread.
* Not in a run: a UDP packet split at layer 3 is put together as TCP if its fifth data byte is 0x50 or more,
  because TCP is guessed first (`fragment.c` 188 against `fragment.h` 18 and 29).
* Not in a run: `g_encrypt_layer` is one variable for all threads; `decrypt_packet_auto_l2()` sets it
  and decrypts by it (`forwarder.c` 812-813), so that a layer-2 frame may be treated at another layer
  and lost. Sending passes the layer explicitly.

## 4. Proofs

Every theorem holds for all values of the constants that satisfy the named assumptions of its module,
which TLC evaluates in the runs. Each is proved along one inductive invariant, listed by its parts.

`ReloadGateProofs` (`GateAssumption`; any finite set of threads):

* `TypeCorrect`: `Spec => []TypeOK`;
* `GateExcludes`: `Spec => []ReloadExclusive`;
* `SectionsConsistent`: `Spec => []SectionConsistent`;
* `PinsStayCurrent`: `~ BufferedStores /\ Spec => []PinsCurrent`;
* `NoWaitUnanswered`: `Spec => []WaitsJustified`, and `DrainRunsOut`: `Spec => [][DrainAdvances]_vars`.

The inductive invariant `GateInv` adds what the properties do not say: `CountInv`, that
`g_inflight_packets` is the number of threads between increment and decrement (without it a zero tells
the daemon nothing); `PauseInv`, where the daemon's last store is, in memory or in the buffer, in each
phase; `SlotInv` and `RuntimeInv`, which slot is installed and for which policy set the contexts were
built; `ClearInv` and `SectionInv`, what a section has read so far. Exclusion then follows: when the
daemon reads 0 nobody is counted (`NobodyCounted`); afterwards a thread that passes the second check
reads pause = 0, which `PauseInv` allows only while the store is buffered, and the thread is then
overtaken. Section consistency follows because what a section has read can change only in a quiet phase
or on the fast path. Pins need one more invariant (a pin set in a section is of the installed set; pins
that survive a reload that switches encryption off are cleared by the one that switches it on again)
and hold without store buffer only: an overtaken section may pin an old index after the clearing.
The last two are what `ReloadReturns` and `BatchProcessed` rest on besides the scheduler: the daemon waits
for a count that some thread will take down, a thread for a pause that the daemon is on its way to release,
and while the daemon waits each step of a thread counts down (`Left`).

`DaemonLifecycleProofs` (`DaemonAssumption`): `DaemonTypeCorrect`, `ThreadIsOwned` (`ThreadOwned`),
`ActiveIsInstalled` (`InstalledIsActive`), `ContextsAreInstalled` (`RuntimeIsInstalled`) and
`SlotInUseIsStable` (the action property `InUseSlotStable`). `DaemonInv` adds `ApplyInv`: while a list of
ids is applied it is one longer than the list in use, or an unload is under way and there is a thread
(without it a roll-back could not be shown to restore what is installed); `SlotInv`: what the active slot
holds in each phase; `ForwarderInv`: a thread that is alive reads the active slot, which makes the slots a
reload may write the ones not in use. `JoinIsHeeded` (`Spec => []JoinHeeded`) and `JoinRunsOut`
(`Spec => [][JoinAdvances]_vars`) are what `JoinReturns` rests on: the thread that is joined exists, was told
to stop and finds `running` 0 unless it has set it itself (the window `RunCheck` to `RunArm`), and no step of
anybody gives it more than the steps it has left.

`WorkerRingProofs` (`RingAssumption`): `RingTypeCorrect`, `RingIsJobQueue` and `FramesAreSafe` (`FramesSafe`).
`RingIsJobQueue` says that `WorkerRing` implements `JobQueue` under the mapping of the slots between head and
tail to a sequence. `RingInv` says that frames in the hands and rings of a LAN are of that LAN (`OwnFrames`;
else a refused frame might be one that is queued), who holds a frame when (`HandInv`), and that only frames lie
between head and tail (`QueueInv`). `QueuedPut`, `QueuedTake` and `QueuedFull` are the arithmetic of a ring with
one slot left empty, for every size. The proof does not need the absence of clashes: the fill rings may lose
frames, the queue does not. `FramesAreSafe` does, as its property says. Its invariant `SafeInv` adds to
`RingInv` that one thread at most gives back to a fill ring (`SoleInv`), how the ring's indices stand to each
other and to the thread's own in each phase of it (`PhaseInv`), that worker and RX thread give back and hold a
batch only where their code does (`WorkerInv`, `BatchInv`), and that every frame is held once (`OwnedInv`). That
an entry which is written is none of those the kernel may take follows from `OwnedInv` in turn: the frames the
kernel sees and the one that is given back differ, and a LAN has only as many as its ring has entries (`Room`, a
pigeonhole argument). The steps then move one frame from a sequence to another (`HeldArrive` ... `HeldSubmit`),
by lemmas on how often an element occurs in a sequence (`CountAppend`, `CountTail`, `CountSplit`) and on the
entries between two indices that run modulo twice the size (`VisTake`, `VisKeep`, `VisPut`). `ThreadsRunOut`
(`Spec => [][StopAdvances]_vars`) is what `ThreadsEnd` rests on: after `forwarder_stop()`, `running` stays 0,
and what a thread still has to do (`StepsLeft`, at most seven steps per frame of a batch) decreases with every
step of it and by no other.

`FragReassemblyProofs` (`FragAssumption`): `FragTypeCorrect`, `CombinedMatch` (`HalvesMatch`), `NoHalfDropped`
(`NoneDropped`) and `FirstHalvesKept` (the action property `HalvesKept`). `FragInv` ties the table to the
history: an entry in use holds a packet that waits, with the time it came, in the slot of its id (`EntryInv`),
and whoever waits is there (`WaitingInv`); ids count a gateway's packets modulo `IdSpace` (`IdInv`), so that
two packets with one id and peer are a whole round apart (`ModApart`); what the sweep found expired is too old
or came during the sweep (`SweepInv`, `ExpiredMeans`, the unsigned difference).

`WanPathProofs`, about `PacketChoice` (`TablesAssumption`, `ProfilesAssumption`, `PinAssumption`,
`TimeAssumption`): `ChoiceTypeCorrect` and `PinFollowsPeer` (`FollowsPeer`). `ChoiceInv` adds that a pin is at
most `Skew` older than the connection's last packet since the peer split one, so that the sweep cannot find it
expired while packets are frequent, that its policy can be used while encryption is on, so that no look-up drops
it (both `PinInv`), and that no packet is under way while encryption is off (`BusyInv`). `RoundsHonourWeights`
(`WeightsHonoured`): the places of a list of WANs are dealt consecutive stretches of `0 .. Total - 1`, each as
long as its weight (`Falls`, `SlotIs`, from what `Acc` is, `AccIs`). `DealInv` says that the picks of a round
under way are those of consecutive values of the counter; as many consecutive values as the total meet every
remainder once (`RoundMeets`), which maps the picks of a full round one to one to the remainders (`RoundDealt`),
wherever the round began.

`WanPathProofs`, about `WanSend` (`WanAssumption`): `WanTypeCorrect` (`WanTypeOK`) and `NoneForgotten`
(`NothingForgotten`). `SendInv` adds that frames queued since the last kick are counted as pending, that what
the kernel holds and what it has completed fit the completion ring (so that completing cannot overflow it), and
that while packets are pending some sender has the WAN among those it will flush: a flush takes the WAN from one
sender's set and zeroes the count for all, so that none of the others is needed any more.

`PolicyTablesProofs` (`TablesAssumption`: of the numbers, that there are no fewer wire ids than places for
policies): `TablesTypeCorrect` (`TypeOK`), `IdsUnique` (`WireIdsUnique`), `PeersDecrypted` (`PeersUnderstood`),
`StaleRefused` (`StaleNotMistaken`) and `SelectionUndisturbed` (the action property `HotLoadKeepsSelection`),
for any profiles, rows and limits. Two facts carry them. A merge is a function of its sources, and the merge of
a longer list goes on from that of its beginning (`MergedIs`, `MergedBegins`); its ids are unique because a
merge with room for another policy has a free id (`IdFree`, a pigeonhole argument). And the crypto runtime is a
function of the policies alone, although reloads copy contexts from the runtime before: a context that is copied
belongs to an equal policy, and so holds the key one would derive (`RebuildIs`). `TablesInv` says that the
configuration is the merge of its sources and fits, that the runtime is that of its policies, and that the
tables of an earlier run are empty, since a second start is refused. Peers then agree on every policy both have,
and unique ids lead index and scan to it; that a packet, unless it is mistakable, is seen as the whole or the
fragment it is, is `FragmentsSeen`, and that it is then decrypted, `Decrypted`; a selected policy keeps its
place when profiles are appended to the merge and its interfaces stay. `StaleRefused` rests on the last part of
`TablesInv`, that no grace period is ever active (see the observations).

`LanDeliveryProofs` (`DeliveryAssumption`, `CacheAssumption`): `SlotsIntact` (`SlotIntact`), `FramesOnce`
(`FrameOnce`), `CacheIsMap` (`IsArpMap`, the refinement of `ArpMap`) and `DeliveryTypeCorrect` (`TypeOK`).
`TxInv` says that the slots in the ring are the last ones handed out, in order; slots at most `TxRing <= Half`
apart differ modulo `Half`. `FrameInv` says that fill ring, RX ring and batch hold every frame once between
them, until the thread that does not decrypt misses. `CacheInv` says that each entry of the cache is where the
probing for its address ends (`Tables`), so that no address has two; that a table stays such a one when an entry
is set, because nothing is ever removed and no probing passes an empty entry; and that the file names an address
once. `LoadedIs`, `PrintedIs` and `LeavingsAre` say what the loops that read and write the file, and a crash
between them, leave: with these every step of the cache is one of the map, or none. For the types,
`FirstKnownIs` says that what a LAN keeps is a MAC of the cache.

`ForwarderInitProofs` (`ReloadAssumption`): `PeersOnTheirCable` (`RightCable`), `ChoicesHold` (`DecidedOnce`),
`EveryQueueFreed` (`QueuesFreed`), `DeliveredRight` (`DeliveredUntilReload`) and `Typed` (`TypeOK`), for any
interfaces, hosts and profiles, bridged or not. `PrepareInv` adds that the socket that waits for a frame is
bound to the LAN the loop is at, so that the peer learned is one of the LAN it is entered for, or a stray
(`CableInv`); how `crypto_enabled` and what was read at the start of initialisation relate to the configuration
in use and to what reloads have changed since (`CryptInv`); and that each WAN already set up knows of layer 2 if
the configuration has it (`WanInv`), which a reload between two WANs breaks only under one of the excuses.
`ConfigsInv` says that the slots hold merges, whose LANs are distinct interfaces; `QueueInv` that the queues are
those of the interfaces set up, in each phase, and none once the thread has ended; `UsedInv` that the loops
start from slot 0, completed with the peers or with the networks that could be read, until a reload; `PlacesInv`
is the rest of the types.

*Recursion and induction.* What `Acc`, `Loaded`, `Printed`, `MergedLans`, `LoadProfile` or `MergedConfig`
compute takes induction on the length of a sequence, and first that the recursive function exists. Both are
proved from `NatLessThanWellFounded` and `WFMin`, whose parameters are sets: a set of numbers has a least
element (`LeastNat`), a set with 0 that is closed under successor up to N has all numbers up to N
(`InductUpTo`), and a step function on a set has an iteration (`RecursionExists`).

Model-checked only: liveness. `Settles`, `Delivered`, `GoesOut` and the like need fairness and ENABLED, which
the prover does not handle. For the loops that wait (`ReloadReturns`, `BatchProcessed`, `JoinReturns`,
`ThreadsEnd`) the theorems above prove the part that is safety, for every size: that the one waited for is
there and has been told, and that a number decreases. That whoever can step eventually does is the
fairness TLC assumes. `LoadedMeansServed` does not hold (see the finding).

## 5. Plan

In order of importance.

1. The drain of a WAN's completion ring by its RX thread, beside the senders' (`WanSend`), index by index.
2. `g_encrypt_layer`: a packet's treatment in `PolicyTables` in two steps, with another thread between.

## 6. Not modelled

* Byte layouts and OpenSSL calls, SQL queries and their parsing, logging and diagnostics, command-line
  parsing, schema and scripts: data conversion or I/O without state that these properties depend on.
* *Nonces and key slots:* the three slots hold one key and `packet_crypto_update_keys()` does nothing; the
  counter is a fetch-and-add that every `packet_crypto_init()` sets to 0. No receiver looks at counters, so
  that what a repeated one means is a question about the cipher.
* *The flow table:* `flow_table_get_wan()` is reached only by packets without a profile or
  whose profile has no WAN, and the loader refuses both. Its sweep and its wrapping counter
  (`flow_table.c` 111) run on an empty table.
* *Code that nothing reaches:* `local_queue_thread_l2()`, `wan_queue_thread_l2()`, `forwarder_run_l2()`,
  `forwarder_run_l4()` (every merge sets `encrypt_layer` to 3), `flow_table_get_wan_profile()`,
  `flow_table_add_bytes()`, `config_select_wan_for_profile()`, `bridge_mac_sync_cfg_to_iface()`, and the
  variants of receiving and sending without queues (`interface.c` 906-1300).
* *XDP programs:* per-packet tests without state; `xdp_redirect.c` reads none of the encrypt maps that the
  program fills.
* `NE_LOCAL_MAC_PRELOAD`, whose lines act as those of `peer_mac.conf`; the repair of checksums; statistics.
* libbpf and libxdp are vendored headers; of them `xsk.h`'s producer ring is modelled.
