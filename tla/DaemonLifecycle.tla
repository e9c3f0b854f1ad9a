-------------------------- MODULE DaemonLifecycle --------------------------
(***************************************************************************)
(* The daemon of src/main.c: NOTIFY xdp_start messages load and unload     *)
(* profiles, the first load starts the forwarder thread, later ones reload *)
(* the running forwarder, and the removal of the last profile or SIGINT or *)
(* SIGTERM stops it.  Three actors run concurrently: the daemon thread,    *)
(* the forwarder thread and, outside the program, the administrator who    *)
(* edits the table of profiles and sends notifications.                    *)
(*                                                                         *)
(* A merged configuration is abstracted to the list of profile ids it was  *)
(* built from, and the LAN and WAN interfaces of a profile to one name;    *)
(* every profile has policies of its own.                                  *)
(* How a reload excludes the packet threads is in ReloadGate: here         *)
(* forwarder_reload_config() is one step.                                  *)
(***************************************************************************)
EXTENDS Integers, Sequences, SequencesExt

CONSTANTS
  Profiles,     \* profile ids
  Iface,        \* the interfaces of a profile
  NoCfg,        \* forwarder.cfg is NULL
  MaxActive,    \* MAX_ACTIVE_PROFILE_IDS
  MaxPending,   \* bound on the notifications under way
  InitMayFail,  \* TRUE: forwarder_init() may fail on an interface
  DbMayFail     \* TRUE: a connection to the database may fail

ASSUME DaemonAssumption ==
  /\ MaxActive \in Nat \ {0} /\ MaxPending \in Nat
  /\ InitMayFail \in BOOLEAN /\ DbMayFail \in BOOLEAN
  /\ NoCfg \notin {0, 1}

Slots == {0, 1}

VARIABLES
  db,          \* ids in the table ne_profiles (external)
  pending,     \* notifications the connection has not delivered (external)
  batch,       \* notifications PQnotifies() still has to return
  active,      \* active_ids
  slot,        \* runtime_state.cfg_slots
  activeSlot,  \* runtime_state.active_slot
  hasThread,   \* runtime_state.has_thread
  mpc,         \* where the daemon thread is
  unloading,   \* the configuration is applied after a delete
  stopReq,     \* g_stop_requested
  running,     \* forwarder.c: running
  fpc,         \* where the forwarder thread is
  initSlot,    \* the slot forwarder_init() was called with
  fwdCfg,      \* forwarder.cfg, as a slot number
  runtime,     \* the list of ids the crypto contexts were built from
  drift,       \* history: an unload was not applied
  raced,       \* history: a reload ran before init built the contexts, and none has
               \* built them since
  stopped,     \* history: forwarder_stop() was called
  rearmed      \* history: running was set after forwarder_stop() cleared it

dbVars     == <<db, pending>>
daemonVars == <<batch, active, slot, activeSlot, hasThread, mpc, unloading>>
fwdVars    == <<fpc, initSlot, fwdCfg, runtime>>
history    == <<drift, raced, stopped, rearmed>>
vars == <<dbVars, daemonVars, stopReq, running, fwdVars, history>>

-----------------------------------------------------------------------------
(***************************************************************************)
(* The administrator, the database and its connection.                     *)
(***************************************************************************)
EditProfile(p) ==
  /\ db' = IF p \in db THEN db \ {p} ELSE db \cup {p}
  /\ UNCHANGED <<pending, daemonVars, stopReq, running, fwdVars, history>>

\* `network-encryptor -id p'
NotifyProfile(p) ==
  /\ Len(pending) < MaxPending
  /\ pending' = Append(pending, p)
  /\ UNCHANGED <<db, daemonVars, stopReq, running, fwdVars, history>>

\* The LISTEN connection is lost and reset: what was under way is gone.
ResetConnection ==
  /\ DbMayFail
  /\ mpc = "idle"
  /\ pending # <<>>
  /\ pending' = <<>>
  /\ UNCHANGED <<db, daemonVars, stopReq, running, fwdVars, history>>

\* on_stop_signal(), on whichever thread.  One signal is modelled.
Signal ==
  /\ ~ stopReq
  /\ stopReq' = TRUE
  /\ running' = FALSE
  /\ stopped' = TRUE
  /\ UNCHANGED <<dbVars, daemonVars, fwdVars, drift, raced, rearmed>>

-----------------------------------------------------------------------------
(***************************************************************************)
(* The daemon thread: the main loop and handle_profile_notify().           *)
(***************************************************************************)
\* An id is in the list once at most.
Without(ids, p) == RemoveAt(ids, CHOOSE i \in DOMAIN ids : ids[i] = p)

\* The interfaces of a merged configuration, in order of first occurrence
\* (append_local_unique(), append_wan_unique()).
Interfaces(ids) ==
  FoldLeft(LAMBDA ifs, p : IF Contains(ifs, Iface[p]) THEN ifs ELSE Append(ifs, Iface[p]),
           <<>>, ids)

Poll ==
  /\ mpc = "idle"
  /\ ~ stopReq
  /\ pending # <<>>
  /\ batch' = pending
  /\ pending' = <<>>
  /\ mpc' = "take"
  /\ UNCHANGED <<db, active, slot, activeSlot, hasThread, unloading, stopReq,
                 running, fwdVars, history>>

BatchDone ==
  /\ mpc = "take"
  /\ batch = <<>>
  /\ mpc' = "idle"
  /\ UNCHANGED <<dbVars, batch, active, slot, activeSlot, hasThread, unloading,
                 stopReq, running, fwdVars, history>>

\* load_profile_and_run() up to apply_active_configs(): without a thread the
\* set starts empty; an active id or a full set ends the call here.
Base == IF hasThread THEN active ELSE <<>>

Full == Len(Base) >= MaxActive

Load ==
  /\ mpc = "take"
  /\ batch # <<>>
  /\ Head(batch) \in db
  /\ batch' = Tail(batch)
  /\ IF Contains(Base, Head(batch)) \/ Full
     THEN active' = Base /\ UNCHANGED <<mpc, unloading>>
     ELSE active' = Append(Base, Head(batch)) /\ mpc' = "apply" /\ unloading' = FALSE
  /\ UNCHANGED <<dbVars, slot, activeSlot, hasThread, stopReq, running, fwdVars, history>>

\* ne_profile_id_exists() gives the same answer for a profile that is gone
\* and for a connection that failed.
Gone(p) == p \notin db \/ DbMayFail

\* An id that is not active is skipped.
UnloadUnknown ==
  /\ mpc = "take"
  /\ batch # <<>>
  /\ Gone(Head(batch))
  /\ ~ Contains(active, Head(batch))
  /\ batch' = Tail(batch)
  /\ UNCHANGED <<dbVars, active, slot, activeSlot, hasThread, mpc, unloading,
                 stopReq, running, fwdVars, history>>

Unload ==
  /\ mpc = "take"
  /\ batch # <<>>
  /\ Gone(Head(batch))
  /\ Contains(active, Head(batch))
  /\ batch' = Tail(batch)
  /\ active' = Without(active, Head(batch))
  /\ active' # <<>>
  /\ mpc' = "apply"
  /\ unloading' = TRUE
  /\ UNCHANGED <<dbVars, slot, activeSlot, hasThread, stopReq, running, fwdVars, history>>

\* Fault: the forwarder is joined without being told to stop.
UnloadLastSilent ==
  /\ mpc = "take"
  /\ batch # <<>>
  /\ Gone(Head(batch))
  /\ active = <<Head(batch)>>
  /\ batch' = Tail(batch)
  /\ active' = <<>>
  /\ mpc' = IF hasThread THEN "join" ELSE "take"
  /\ UNCHANGED <<dbVars, slot, activeSlot, hasThread, unloading, stopReq, running,
                 stopped, fwdVars, drift, raced, rearmed>>

\* The last profile: runtime_stop_forwarder() up to pthread_join().
UnloadLast ==
  /\ mpc = "take"
  /\ batch # <<>>
  /\ Gone(Head(batch))
  /\ active = <<Head(batch)>>
  /\ batch' = Tail(batch)
  /\ active' = <<>>
  /\ IF hasThread
     THEN mpc' = "join" /\ running' = FALSE /\ stopped' = TRUE
     ELSE UNCHANGED <<mpc, running, stopped>>
  /\ UNCHANGED <<dbVars, slot, activeSlot, hasThread, unloading, stopReq, fwdVars,
                 drift, raced, rearmed>>

(***************************************************************************)
(* apply_active_configs().  A load that fails takes its profile, the last  *)
(* of the list, out again; an unload that fails does not put it back.      *)
(***************************************************************************)
\* Fault: a load that failed stays in the set of active profiles.
FailKept ==
  /\ mpc' = "take"
  /\ UNCHANGED active
  /\ drift' = (drift \/ unloading)
  /\ unloading' = FALSE

Fail ==
  /\ mpc' = "take"
  /\ active' = IF unloading THEN active ELSE Front(active)
  /\ drift' = (drift \/ unloading)
  /\ unloading' = FALSE

\* build_merged_config() fails: a profile is gone, or the database is.
BuildFails ==
  /\ mpc = "apply"
  /\ DbMayFail \/ \E p \in ToSet(active) : p \notin db
  /\ Fail
  /\ UNCHANGED <<dbVars, batch, slot, activeSlot, hasThread, stopReq,
                 running, fwdVars, raced, stopped, rearmed>>

Built == mpc = "apply" /\ ToSet(active) \subseteq db

\* runtime_start()
Start ==
  /\ Built
  /\ ~ hasThread
  /\ activeSlot' = 0
  /\ slot' = [slot EXCEPT ![0] = active]
  /\ hasThread' = TRUE
  /\ fpc' = "start"
  /\ mpc' = "take"
  /\ drift' = FALSE
  /\ unloading' = FALSE
  /\ UNCHANGED <<dbVars, batch, active, stopReq, running, initSlot, fwdCfg,
                 runtime, raced, stopped, rearmed>>

\* pthread_create() fails.
StartFails ==
  /\ InitMayFail
  /\ Built
  /\ ~ hasThread
  /\ activeSlot' = 0
  /\ slot' = [slot EXCEPT ![0] = active]
  /\ Fail
  /\ UNCHANGED <<dbVars, batch, hasThread, stopReq, running, fwdVars,
                 raced, stopped, rearmed>>

\* Fault: the slot in use is written.
NextSlotSame == activeSlot

NextSlot == 1 - activeSlot

\* The slots after rt->cfg_slots[next_slot] = *merged_cfg.
Written == [slot EXCEPT ![NextSlot] = active]

\* forwarder_reload_config() returns 0: forwarder.cfg is set, and its
\* interfaces are those of the new configuration.
Accepted == fwdCfg # NoCfg /\ Interfaces(Written[fwdCfg]) = Interfaces(active)

ReloadRejected ==
  /\ Built
  /\ hasThread
  /\ ~ Accepted
  /\ slot' = Written
  /\ Fail
  /\ UNCHANGED <<dbVars, batch, activeSlot, hasThread, stopReq, running,
                 fwdVars, raced, stopped, rearmed>>

\* Fault: the crypto contexts are kept when policies change.
RebuiltNever == runtime

\* The policies compared are those of the slots after the write.
Rebuilt == IF Written[fwdCfg] # active THEN active ELSE runtime

Reload ==
  /\ Built
  /\ hasThread
  /\ Accepted
  /\ slot' = Written
  /\ fwdCfg' = NextSlot
  /\ runtime' = Rebuilt
  /\ activeSlot' = NextSlot
  /\ raced' = (fpc = "entered" \/ (raced /\ Written[fwdCfg] = active))
  /\ mpc' = "take"
  /\ drift' = FALSE
  /\ unloading' = FALSE
  /\ UNCHANGED <<dbVars, batch, active, hasThread, stopReq, running, fpc,
                 initSlot, stopped, rearmed>>

\* The main loop ends: runtime_stop_forwarder(), or nothing to stop.
Shutdown ==
  /\ mpc = "idle"
  /\ stopReq
  /\ IF hasThread
     THEN mpc' = "join" /\ running' = FALSE /\ stopped' = TRUE
     ELSE mpc' = "exited" /\ UNCHANGED <<running, stopped>>
  /\ UNCHANGED <<dbVars, batch, active, slot, activeSlot, hasThread, unloading,
                 stopReq, fwdVars, drift, raced, rearmed>>

\* Fault: the thread is detached instead of joined.
JoinDetached ==
  /\ mpc = "join"
  /\ hasThread' = FALSE
  /\ mpc' = IF active # <<>> THEN "exited" ELSE "take"
  /\ UNCHANGED <<dbVars, batch, active, slot, activeSlot, unloading, stopReq, running,
                 fwdVars, history>>

\* pthread_join() returns.  The set of active profiles is empty exactly when
\* the join was asked for by an unload.
Join ==
  /\ mpc = "join"
  /\ fpc = "dead"
  /\ hasThread' = FALSE
  /\ mpc' = IF active # <<>> THEN "exited" ELSE "take"
  /\ UNCHANGED <<dbVars, batch, active, slot, activeSlot, unloading, stopReq, running,
                 fwdVars, history>>

Daemon ==
  \/ Poll \/ BatchDone \/ Load \/ UnloadUnknown \/ Unload \/ UnloadLast
  \/ BuildFails \/ Start \/ StartFails \/ ReloadRejected \/ Reload \/ Shutdown \/ Join

-----------------------------------------------------------------------------
(***************************************************************************)
(* forwarder_thread_main().  forwarder_init() checks `running' again and   *)
(* again; the checks that matter are the first, which comes before         *)
(* anything is touched, and the last, in forwarder_run().                  *)
(***************************************************************************)
InitAborted ==
  /\ fpc = "start"
  /\ ~ running
  /\ fpc' = "dead"
  /\ UNCHANGED <<dbVars, daemonVars, stopReq, running, initSlot, fwdCfg, runtime, history>>

InitEnter ==
  /\ fpc = "start"
  /\ running
  /\ initSlot' = activeSlot
  /\ fwdCfg' = activeSlot
  /\ fpc' = "entered"
  /\ raced' = FALSE
  /\ UNCHANGED <<dbVars, daemonVars, stopReq, running, runtime, drift, stopped, rearmed>>

\* The contexts are built for the configuration init was called with.
InitCrypto ==
  /\ fpc = "entered"
  /\ runtime' = slot[initSlot]
  /\ fpc' = "crypto"
  /\ UNCHANGED <<dbVars, daemonVars, stopReq, running, initSlot, fwdCfg, history>>

\* The interfaces are up; in bridge mode every LAN has carried a packet.
InitDone ==
  /\ fpc = "crypto"
  /\ fpc' = "check"
  /\ UNCHANGED <<dbVars, daemonVars, stopReq, running, initSlot, fwdCfg, runtime, history>>

InitFails ==
  /\ fpc = "crypto"
  /\ InitMayFail \/ ~ running
  /\ fpc' = "dead"
  /\ UNCHANGED <<dbVars, daemonVars, stopReq, running, initSlot, fwdCfg, runtime, history>>

\* The last forwarder_should_stop() ...
RunCheck ==
  /\ fpc = "check"
  /\ fpc' = IF running THEN "arm" ELSE "dead"
  /\ UNCHANGED <<dbVars, daemonVars, stopReq, running, initSlot, fwdCfg, runtime, history>>

\* ... and running = 1 in forwarder_run().
RunArm ==
  /\ fpc = "arm"
  /\ running' = TRUE
  /\ rearmed' = (rearmed \/ ~ running)
  /\ fpc' = "loop"
  /\ UNCHANGED <<dbVars, daemonVars, stopReq, initSlot, fwdCfg, runtime, drift, raced, stopped>>

\* The loops see running = 0, the threads are joined and cleaned up after.
RunEnd ==
  /\ fpc = "loop"
  /\ ~ running
  /\ fpc' = "dead"
  /\ UNCHANGED <<dbVars, daemonVars, stopReq, running, initSlot, fwdCfg, runtime, history>>

Forwarder ==
  InitAborted \/ InitEnter \/ InitCrypto \/ InitDone \/ InitFails \/ RunCheck \/ RunArm \/ RunEnd

-----------------------------------------------------------------------------
Init ==
  /\ db \in SUBSET Profiles
  /\ pending = <<>>
  /\ batch = <<>>
  /\ active = <<>>
  /\ slot = [s \in Slots |-> <<>>]
  /\ activeSlot = 0
  /\ hasThread = FALSE
  /\ mpc = "idle"
  /\ unloading = FALSE
  /\ stopReq = FALSE
  /\ running = TRUE
  /\ fpc = "none"
  /\ initSlot = 0
  /\ fwdCfg = NoCfg
  /\ runtime = <<>>
  /\ drift = FALSE
  /\ raced = FALSE
  /\ stopped = FALSE
  /\ rearmed = FALSE

Next ==
  \/ \E p \in Profiles : EditProfile(p) \/ NotifyProfile(p)
  \/ ResetConnection
  \/ Signal
  \/ Daemon
  \/ Forwarder

\* Both threads are scheduled; for the forwarder thread this includes that
\* every bridged LAN carries a packet, which mac_wait_first_packet() needs.
Fairness == WF_vars(Daemon) /\ WF_vars(Forwarder)

Spec == Init /\ [][Next]_vars /\ Fairness

-----------------------------------------------------------------------------
IdLists == UNION {[1..n -> Profiles] : n \in 0..MaxActive}
Alive   == {"entered", "crypto", "check", "arm", "loop"}

TypeOK ==
  /\ db \subseteq Profiles
  /\ pending \in Seq(Profiles) /\ batch \in Seq(Profiles)
  /\ active \in IdLists
  /\ slot \in [Slots -> IdLists]
  /\ activeSlot \in Slots /\ initSlot \in Slots
  /\ fwdCfg \in Slots \cup {NoCfg}
  /\ mpc \in {"idle", "take", "apply", "join", "exited"}
  /\ fpc \in {"none", "start", "dead"} \cup Alive
  /\ runtime \in IdLists
  /\ {hasThread, unloading, stopReq, running, drift, raced, stopped, rearmed} \subseteq BOOLEAN

(***************************************************************************)
(* Between two notifications, a running forwarder works with the merged    *)
(* configuration of exactly the active profiles, in their order: rejected  *)
(* loads are rolled back (main.c:299-302), and one unload that could not   *)
(* be applied (main.c:331-334) is made good by the next reload.            *)
(***************************************************************************)
InstalledIsActive ==
  mpc \in {"idle", "take"} /\ fpc = "loop" /\ ~ drift => slot[fwdCfg] = active

(***************************************************************************)
(* The configuration the forwarder reads is never written while its thread *)
(* is alive, neither by the reload of the other slot (main.c:250-251) nor  *)
(* by a new start in slot 0 (main.c:211-212).                              *)
(***************************************************************************)
InUseSlotStable == [][\A s \in Slots : fpc \in Alive /\ s = fwdCfg => UNCHANGED slot[s]]_vars

(***************************************************************************)
(* Without has_thread there is no forwarder thread, so that a new start    *)
(* and free(rt) find runtime_state unused; and a thread always belongs to  *)
(* some active profile, whose removal will stop it (main.c:328-329).       *)
(***************************************************************************)
ThreadOwned ==
  /\ ~ hasThread => fpc \in {"none", "dead"}
  /\ mpc \notin {"join", "exited"} => (hasThread <=> active # <<>>) \/ mpc = "apply"

(***************************************************************************)
(* The crypto contexts of a running forwarder were built for the policies  *)
(* it reads, whatever loads and unloads came in while it was starting.  A  *)
(* reload that ran before forwarder_init() had built its own contexts is   *)
(* excused up to the next one that builds them anew (forwarder.c:2511).    *)
(***************************************************************************)
RuntimeIsInstalled ==
  fpc = "loop" /\ ~ raced => runtime = slot[fwdCfg]

Loaded(p)  == mpc \in {"idle", "take"} /\ Contains(active, p)
Serving(p) == fpc = "loop" /\ running /\ Contains(slot[fwdCfg], p)

\* Until the forwarder is stopped for the first time, a profile whose load
\* was reported as done is served, unless it is unloaded first.
LoadServed ==
  \A p \in Profiles : Loaded(p) ~> Serving(p) \/ ~ Contains(active, p) \/ stopped

\* pthread_join() in runtime_stop_forwarder() returns, unless forwarder_run()
\* sets running after forwarder_stop() has cleared it.
JoinReturns == mpc = "join" ~> mpc # "join" \/ rearmed

\* main.c:285 says of load_profile_and_run() "0 = loaded": a profile whose
\* load returned 0 comes to be served, unless it is unloaded or the daemon
\* is told to stop.
LoadedMeansServed ==
  \A p \in Profiles : Loaded(p) ~> Serving(p) \/ ~ Contains(active, p) \/ stopReq
=============================================================================
