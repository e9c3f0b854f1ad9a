----------------------------- MODULE ReloadGate -----------------------------
(***************************************************************************)
(* The hot-reload gate of the forwarder (src/src/core/forwarder.c): packet *)
(* threads bracket every batch or job with packet_critical_enter() and     *)
(* packet_critical_leave(); the daemon thread replaces the configuration   *)
(* with forwarder_reload_config(), which raises g_reload_pause and waits   *)
(* until g_inflight_packets is 0 before it touches what packets read.      *)
(*                                                                         *)
(* A configuration is abstracted to what the reload decisions and an       *)
(* encrypting packet section tell apart: `crypto', everything that         *)
(* crypto_runtime_changed() compares (CryptoOff when crypto_enabled is 0), *)
(* `shape', the counts forwarding_runtime_changed() compares, and `topo',  *)
(* the interface names same_topology() compares.                           *)
(***************************************************************************)
EXTENDS Integers, FiniteSets

CONSTANTS
  Threads,         \* the packet threads: RX threads and the worker
  Cryptos,         \* policy sets with their keys, plus CryptoOff
  CryptoOff,       \* the policy set of a configuration with crypto_enabled = 0
  Shapes,          \* values of (profile_count, local_count, wan_count)
  Topos,           \* interface lists
  NoPin,           \* "no TCP policy pin"
  BufferedStores,  \* TRUE: a release store may stay in a store buffer (x86)
  MaxReloads       \* bound on the number of reloads explored

ASSUME GateAssumption ==
  /\ IsFiniteSet(Threads)
  /\ CryptoOff \in Cryptos
  /\ NoPin \notin Cryptos
  /\ BufferedStores \in BOOLEAN
  /\ MaxReloads \in Nat

Configs == [crypto : Cryptos, shape : Shapes, topo : Topos]
Slots   == {0, 1}
NoStore == 2          \* the store buffer holds no store to g_reload_pause

VARIABLES
  slot,        \* runtime_state.cfg_slots
  activeSlot,  \* runtime_state.active_slot
  fwdCfg,      \* forwarder.cfg, as a slot number
  cryptoOn,    \* crypto_enabled
  runtime,     \* the policy set the crypto contexts were built for
  pin,         \* the policy set a TCP flow's pinned index was taken from
  pause,       \* g_reload_pause, as the packet threads see it
  pauseBuf,    \* a store to g_reload_pause that only its writer sees yet
  inflight,    \* g_inflight_packets
  mpc,         \* where the daemon thread is in apply_active_configs()
  reloads,     \* reloads started (bounded by MaxReloads)
  tpc,         \* where each packet thread is
  cp,          \* slot the thread's selected policy pointer points into
  sel,         \* policy set the policy was selected from
  ctx,         \* policy set of the crypto context the packet is encrypted with
  par,         \* policy set of the parameters set for the encryption
  clear,       \* threads that send the packet of this section unencrypted
  overtaken    \* history: threads whose section a reload did not wait for

reloadVars == <<slot, activeSlot, fwdCfg, cryptoOn, runtime, mpc, reloads>>
gateVars   == <<pause, pauseBuf, inflight>>
threadVars == <<tpc, cp, sel, ctx, par, clear>>
vars == <<reloadVars, gateVars, threadVars, pin, overtaken>>

-----------------------------------------------------------------------------
\* The thread is counted in g_inflight_packets.
Counted == {"check", "back", "select", "resolve", "params", "pin", "pinset", "send"}
\* The thread executes the body of its section.
Body    == {"select", "resolve", "params", "pin", "pinset", "send"}
InBody  == {t \in Threads : tpc[t] \in Body}

\* The daemon thread owns the configuration: inflight was read as 0 and the
\* pause is not lifted yet.
Quiet == {"swap", "flags", "rebuild", "unpin", "unpause"}

CurrentCrypto == slot[fwdCfg].crypto

(***************************************************************************)
(* packet_critical_enter() and packet_critical_leave().  fetch_add and     *)
(* fetch_sub are locked instructions: they never stay in a store buffer.   *)
(***************************************************************************)
\* A batch was received or a job dequeued; both happen before the gate.
Receive(t) ==
  /\ tpc[t] = "out"
  /\ tpc' = [tpc EXCEPT ![t] = "poll"]
  /\ UNCHANGED <<reloadVars, gateVars, cp, sel, ctx, par, clear, pin, overtaken>>

\* Fault: the waiting thread keeps knocking instead of watching the pause.
EnterPollBusy(t) ==
  /\ tpc[t] = "poll"
  /\ tpc' = [tpc EXCEPT ![t] = "count"]
  /\ UNCHANGED <<reloadVars, gateVars, cp, sel, ctx, par, clear, pin, overtaken>>

EnterPoll(t) ==
  /\ tpc[t] = "poll"
  /\ pause = 0
  /\ tpc' = [tpc EXCEPT ![t] = "count"]
  /\ UNCHANGED <<reloadVars, gateVars, cp, sel, ctx, par, clear, pin, overtaken>>

EnterCount(t) ==
  /\ tpc[t] = "count"
  /\ inflight' = inflight + 1
  /\ tpc' = [tpc EXCEPT ![t] = "check"]
  /\ UNCHANGED <<reloadVars, pause, pauseBuf, cp, sel, ctx, par, clear, pin, overtaken>>

\* Fault: g_reload_pause is not read again after the increment.
EnterCheckOnce(t) ==
  /\ tpc[t] = "check"
  /\ tpc' = [tpc EXCEPT ![t] = "select"]
  /\ UNCHANGED <<reloadVars, gateVars, cp, sel, ctx, par, clear, pin, overtaken>>

\* A thread that passes while the pause is still in the daemon's store buffer
\* runs its section although the reload has begun: it is overtaken.
EnterCheck(t) ==
  /\ tpc[t] = "check"
  /\ tpc' = [tpc EXCEPT ![t] = IF pause = 0 THEN "select" ELSE "back"]
  /\ overtaken' = IF pause = 0 /\ pauseBuf = 1 THEN overtaken \cup {t} ELSE overtaken
  /\ UNCHANGED <<reloadVars, gateVars, cp, sel, ctx, par, clear, pin>>

\* Fault: the thread gives up instead of waiting for the pause to end.
EnterBackDrop(t) ==
  /\ tpc[t] = "back"
  /\ inflight' = inflight - 1
  /\ tpc' = [tpc EXCEPT ![t] = "out"]
  /\ UNCHANGED <<reloadVars, pause, pauseBuf, cp, sel, ctx, par, clear, pin, overtaken>>

EnterBack(t) ==
  /\ tpc[t] = "back"
  /\ inflight' = inflight - 1
  /\ tpc' = [tpc EXCEPT ![t] = "poll"]
  /\ UNCHANGED <<reloadVars, pause, pauseBuf, cp, sel, ctx, par, clear, pin, overtaken>>

Leave(t) ==
  /\ tpc[t] = "send"
  /\ inflight' = inflight - 1
  /\ tpc' = [tpc EXCEPT ![t] = "out"]
  /\ clear' = clear \ {t}
  /\ overtaken' = overtaken \ {t}
  /\ UNCHANGED <<reloadVars, pause, pauseBuf, cp, sel, ctx, par, pin>>

(***************************************************************************)
(* The section of a packet a policy with an encrypting action matches, in  *)
(* worker_thread() and local_queue_thread_l2().  The later re-reads of     *)
(* crypto_enabled (2098, 2128) are left out: they could differ from the    *)
(* first only in a section that a pausing reload overtook.                 *)
(***************************************************************************)
\* crypto_enabled is read, then the TCP pin (an index) or the policy list of
\* fwd->cfg yields a pointer into the current slot.
Select(t) ==
  /\ tpc[t] = "select"
  /\ IF cryptoOn
     THEN /\ cp' = [cp EXCEPT ![t] = fwdCfg]
          /\ sel' = [sel EXCEPT ![t] = CurrentCrypto]
          /\ tpc' = [tpc EXCEPT ![t] = "resolve"]
          /\ UNCHANGED clear
     ELSE /\ clear' = clear \cup {t}
          /\ sel' = [sel EXCEPT ![t] = CryptoOff]
          /\ tpc' = [tpc EXCEPT ![t] = "send"]
          /\ UNCHANGED cp
  /\ UNCHANGED <<reloadVars, gateVars, ctx, par, pin, overtaken>>

\* pi = cp - fwd->cfg->policies: the two slots lie 375 policies apart, so a
\* pointer into the other slot is never an index below MAX_CRYPTO_POLICIES
\* and the packet takes the bypass.
Resolve(t) ==
  /\ tpc[t] = "resolve"
  /\ IF cp[t] = fwdCfg
     THEN /\ ctx' = [ctx EXCEPT ![t] = runtime]
          /\ tpc' = [tpc EXCEPT ![t] = "params"]
          /\ UNCHANGED clear
     ELSE /\ clear' = clear \cup {t}
          /\ tpc' = [tpc EXCEPT ![t] = "send"]
          /\ UNCHANGED ctx
  /\ UNCHANGED <<reloadVars, gateVars, cp, sel, par, pin, overtaken>>

\* apply_crypto_params_from_policy(cp) reads the policy again.
Params(t) ==
  /\ tpc[t] = "params"
  /\ par' = [par EXCEPT ![t] = slot[cp[t]].crypto]
  /\ tpc' = [tpc EXCEPT ![t] = "pin"]
  /\ UNCHANGED <<reloadVars, gateVars, cp, sel, ctx, clear, pin, overtaken>>

\* For a TCP packet the index is computed once more ...
PinIndex(t) ==
  /\ tpc[t] = "pin"
  /\ \/ cp[t] = fwdCfg /\ tpc' = [tpc EXCEPT ![t] = "pinset"]
     \/ tpc' = [tpc EXCEPT ![t] = "send"]
  /\ UNCHANGED <<reloadVars, gateVars, cp, sel, ctx, par, clear, pin, overtaken>>

\* ... and tcp_policy_pin_set() stores it under the bucket lock.
PinSet(t) ==
  /\ tpc[t] = "pinset"
  /\ pin' = IF cryptoOn THEN sel[t] ELSE pin
  /\ tpc' = [tpc EXCEPT ![t] = "send"]
  /\ UNCHANGED <<reloadVars, gateVars, cp, sel, ctx, par, clear, overtaken>>

\* tcp_policy_pin_gc() from the gc thread, which does not pass the gate; or
\* tcp_policy_pin_remove() when a packet of the flow carried FIN or RST.
PinDrop ==
  /\ cryptoOn
  /\ pin # NoPin
  /\ pin' = NoPin
  /\ UNCHANGED <<reloadVars, gateVars, threadVars, overtaken>>

Packet(t) ==
  \/ EnterPoll(t) \/ EnterCount(t) \/ EnterCheck(t) \/ EnterBack(t)
  \/ Select(t) \/ Resolve(t) \/ Params(t) \/ PinIndex(t) \/ PinSet(t) \/ Leave(t)

(***************************************************************************)
(* apply_active_configs() and forwarder_reload_config(), daemon thread.    *)
(***************************************************************************)
CryptoChanged(a, b) == a.crypto # b.crypto
ShapeChanged(a, b)  == a.shape # b.shape
SameTopology(a, b)  == a.topo = b.topo
NextSlot == 1 - activeSlot

\* rt->cfg_slots[next_slot] = *merged_cfg, before the gate is asked.
WriteSlot(c) ==
  /\ mpc = "idle"
  /\ reloads < MaxReloads
  /\ reloads' = reloads + 1
  /\ slot' = [slot EXCEPT ![NextSlot] = c]
  /\ mpc' = "compare"
  /\ UNCHANGED <<activeSlot, fwdCfg, cryptoOn, runtime, gateVars, threadVars, pin, overtaken>>

\* "topology changed; hot reload rejected"
Refuse ==
  /\ mpc = "compare"
  /\ ~ SameTopology(slot[fwdCfg], slot[NextSlot])
  /\ mpc' = "idle"
  /\ UNCHANGED <<slot, activeSlot, fwdCfg, cryptoOn, runtime, reloads, gateVars,
                 threadVars, pin, overtaken>>

\* Nothing the comparison looks at has changed: the pointer is replaced
\* without a pause, and the sections that are running are not waited for.
FastSwap ==
  /\ mpc = "compare"
  /\ SameTopology(slot[fwdCfg], slot[NextSlot])
  /\ ~ CryptoChanged(slot[fwdCfg], slot[NextSlot])
  /\ ~ ShapeChanged(slot[fwdCfg], slot[NextSlot])
  /\ fwdCfg' = NextSlot
  /\ activeSlot' = NextSlot
  /\ mpc' = "idle"
  /\ overtaken' = overtaken \cup InBody
  /\ UNCHANGED <<slot, cryptoOn, runtime, reloads, gateVars, threadVars, pin>>

StorePause(v) ==
  IF BufferedStores
  THEN pauseBuf = NoStore /\ pauseBuf' = v /\ UNCHANGED pause
  ELSE pause' = v /\ UNCHANGED pauseBuf

\* The store buffer drains in its own time; later stores of the daemon wait
\* behind this one.
FlushPause ==
  /\ pauseBuf # NoStore
  /\ pause' = pauseBuf
  /\ pauseBuf' = NoStore
  /\ UNCHANGED <<reloadVars, inflight, threadVars, pin, overtaken>>

RaisePause ==
  /\ mpc = "compare"
  /\ SameTopology(slot[fwdCfg], slot[NextSlot])
  /\ \/ CryptoChanged(slot[fwdCfg], slot[NextSlot])
     \/ ShapeChanged(slot[fwdCfg], slot[NextSlot])
  /\ StorePause(1)
  /\ mpc' = "drain"
  /\ UNCHANGED <<slot, activeSlot, fwdCfg, cryptoOn, runtime, reloads, inflight,
                 threadVars, pin, overtaken>>

\* while (g_inflight_packets > 0) sched_yield();
Drain ==
  /\ mpc = "drain"
  /\ inflight = 0
  /\ mpc' = "swap"
  /\ UNCHANGED <<slot, activeSlot, fwdCfg, cryptoOn, runtime, reloads, gateVars,
                 threadVars, pin, overtaken>>

\* fwd->cfg = cfg.  Whether the crypto runtime is rebuilt was decided from the
\* old configuration; if not, crypto_enabled is assigned the value it has.
Swap ==
  /\ mpc = "swap"
  /\ pauseBuf = NoStore
  /\ fwdCfg' = NextSlot
  /\ mpc' = IF CryptoChanged(slot[fwdCfg], slot[NextSlot]) THEN "flags" ELSE "unpause"
  /\ UNCHANGED <<slot, activeSlot, cryptoOn, runtime, reloads, gateVars,
                 threadVars, pin, overtaken>>

SetFlags ==
  /\ mpc = "flags"
  /\ cryptoOn' = (CurrentCrypto # CryptoOff)
  /\ mpc' = IF CurrentCrypto # CryptoOff THEN "rebuild" ELSE "unpause"
  /\ UNCHANGED <<slot, activeSlot, fwdCfg, runtime, reloads, gateVars,
                 threadVars, pin, overtaken>>

\* Fault: the contexts of the replaced policy set are kept.
RebuildSkip ==
  /\ mpc = "rebuild"
  /\ mpc' = "unpin"
  /\ UNCHANGED <<slot, activeSlot, fwdCfg, cryptoOn, runtime, reloads, gateVars,
                 threadVars, pin, overtaken>>

\* rebuild_crypto_runtime(cfg)
Rebuild ==
  /\ mpc = "rebuild"
  /\ runtime' = CurrentCrypto
  /\ mpc' = "unpin"
  /\ UNCHANGED <<slot, activeSlot, fwdCfg, cryptoOn, reloads, gateVars,
                 threadVars, pin, overtaken>>

\* Fault: the pins survive the new policy set.
UnpinSkip ==
  /\ mpc = "unpin"
  /\ mpc' = "unpause"
  /\ UNCHANGED <<slot, activeSlot, fwdCfg, cryptoOn, runtime, reloads, gateVars,
                 threadVars, pin, overtaken>>

\* tcp_policy_pin_clear_all()
Unpin ==
  /\ mpc = "unpin"
  /\ pin' = NoPin
  /\ mpc' = "unpause"
  /\ UNCHANGED <<slot, activeSlot, fwdCfg, cryptoOn, runtime, reloads, gateVars,
                 threadVars, overtaken>>

\* The pause is lifted, the call returns 0 and active_slot follows.
Unpause ==
  /\ mpc = "unpause"
  /\ StorePause(0)
  /\ activeSlot' = NextSlot
  /\ mpc' = "idle"
  /\ UNCHANGED <<slot, fwdCfg, cryptoOn, runtime, reloads, inflight, threadVars,
                 pin, overtaken>>

Daemon == Refuse \/ FastSwap \/ RaisePause \/ Drain \/ Swap \/ SetFlags \/ Rebuild \/ Unpin \/ Unpause

-----------------------------------------------------------------------------
\* forwarder_init() has completed with the configuration in slot 0; slot 1 is
\* not read before it is written.
Init ==
  /\ \E c \in Configs : slot = [s \in Slots |-> c]
  /\ activeSlot = 0
  /\ fwdCfg = 0
  /\ cryptoOn = (slot[0].crypto # CryptoOff)
  /\ runtime = slot[0].crypto
  /\ pin = NoPin
  /\ pause = 0
  /\ pauseBuf = NoStore
  /\ inflight = 0
  /\ mpc = "idle"
  /\ reloads = 0
  /\ tpc = [t \in Threads |-> "out"]
  /\ cp = [t \in Threads |-> 0]
  /\ sel = [t \in Threads |-> CryptoOff]
  /\ ctx = [t \in Threads |-> CryptoOff]
  /\ par = [t \in Threads |-> CryptoOff]
  /\ clear = {}
  /\ overtaken = {}

Next ==
  \/ \E t \in Threads : Receive(t) \/ Packet(t)
  \/ PinDrop
  \/ \E c \in Configs : WriteSlot(c)
  \/ Daemon
  \/ FlushPause

\* Threads are scheduled fairly by the kernel, and a store buffer drains.
\* Nothing makes a packet arrive or a configuration change.
Fairness ==
  /\ \A t \in Threads : WF_vars(Packet(t))
  /\ WF_vars(Daemon)
  /\ WF_vars(FlushPause)

Spec == Init /\ [][Next]_vars /\ Fairness

-----------------------------------------------------------------------------
TypeOK ==
  /\ slot \in [Slots -> Configs]
  /\ activeSlot \in Slots
  /\ fwdCfg \in Slots
  /\ cryptoOn \in BOOLEAN
  /\ runtime \in Cryptos
  /\ pin \in Cryptos \cup {NoPin}
  /\ pause \in {0, 1}
  /\ pauseBuf \in {0, 1, NoStore}
  /\ inflight \in Int
  /\ mpc \in {"idle", "compare", "drain"} \cup Quiet
  /\ reloads \in Nat
  /\ tpc \in [Threads -> {"out", "poll", "count"} \cup Counted]
  /\ cp \in [Threads -> Slots]
  /\ sel \in [Threads -> Cryptos]
  /\ ctx \in [Threads -> Cryptos]
  /\ par \in [Threads -> Cryptos]
  /\ clear \subseteq Threads
  /\ overtaken \subseteq Threads

(***************************************************************************)
(* While the daemon thread replaces the configuration, the crypto runtime  *)
(* and the pins (forwarder.c:2499-2519), no packet section is running.     *)
(* The only exception is a section that read g_reload_pause as 0 while the *)
(* daemon's store to it was not visible yet.                               *)
(***************************************************************************)
ReloadExclusive ==
  mpc \in Quiet => \A t \in InBody : BufferedStores /\ t \in overtaken

(***************************************************************************)
(* A section that no reload overtook sends its packet with one policy set  *)
(* throughout: the one its policy came from gives the crypto context and   *)
(* the parameters (worker_thread(), forwarder.c:2064-2081), and the packet *)
(* leaves unencrypted exactly when that set has encryption off.            *)
(***************************************************************************)
SectionConsistent ==
  \A t \in Threads \ overtaken :
    tpc[t] = "send" =>
      IF t \in clear THEN sel[t] = CryptoOff
                     ELSE sel[t] # CryptoOff /\ ctx[t] = sel[t] /\ par[t] = sel[t]

(***************************************************************************)
(* A pinned policy index was taken from the policy list it is looked up in *)
(* (tcp_policy_pin_lookup() at forwarder.c:563 trusts the index), although *)
(* pins outlive reloads that leave the crypto runtime alone and reloads    *)
(* that switch encryption off.                                             *)
(***************************************************************************)
PinsCurrent ==
  mpc \notin Quiet /\ cryptoOn /\ pin # NoPin => pin = CurrentCrypto

\* The drain loop of forwarder_reload_config() ends, whatever the packet
\* threads do: a reload that has begun always returns.
ReloadReturns == mpc # "idle" ~> mpc = "idle"

\* A received batch is processed: packet_critical_enter() does not keep a
\* thread out for ever (with finitely many reloads).
BatchProcessed == \A t \in Threads : tpc[t] = "poll" ~> tpc[t] = "send"
=============================================================================
