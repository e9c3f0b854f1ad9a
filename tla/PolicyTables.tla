---------------------------- MODULE PolicyTables ----------------------------
(***************************************************************************)
(* Which policy and which key a packet is treated with.  The active        *)
(* profiles are merged into one configuration (db_config.c, db_runtime.c), *)
(* in which every policy gets a one-byte wire id; the forwarder builds     *)
(* from it one crypto context per policy and the index (action, wire id)   *)
(* -> policy (forwarder.c).  A LAN packet gets the policy of the first     *)
(* profile of its LAN (config.c).  A WAN packet carries the wire id its    *)
(* sender gave the policy; the receiver looks the id up in its own index,  *)
(* then, while a grace period lasts, in tables saved earlier               *)
(* (crypto_dispatch.c).                                                    *)
(*                                                                         *)
(* One gateway is modelled with its tables.  Its peer runs the same        *)
(* program: it needs no state here, since what it may have sent is the     *)
(* set of packets of a merge it may have loaded.  A reload is one step:    *)
(* that packets see it so is what ReloadGate is about; when the daemon     *)
(* starts, reloads and stops the forwarder is DaemonLifecycle's.           *)
(***************************************************************************)
EXTENDS Integers, Sequences, FiniteSets, SequencesExt

CONSTANTS
  Profiles,     \* profile ids
  Lans,         \* LAN (and with them WAN) interfaces
  Flows,        \* <<address pair, protocol>>, as far as policies tell them apart
  Keys,         \* encryption keys
  Data,         \* Data[p]: the versions of p's rows an administrator stores
  LansOf,       \* LansOf[p]: the interfaces of the profile, in order
  NoKey,        \* a policy row without an encryption key
  MaxWire,      \* the largest wire id (255)
  MaxPolicies,  \* MAX_CRYPTO_POLICIES (128)
  Grace         \* POLICY_RELOAD_GRACE_MS in clock ticks

Actions == {"l2", "l3", "l4"}

(***************************************************************************)
(* A row of ne_policies: `copies' is the number of combinations of its     *)
(* address and port lists, `flows' what these match in either direction.   *)
(***************************************************************************)
Rows ==
  [action : Actions \cup {"bypass"}, db : Nat, key : Keys \cup {NoKey},
   mode : {"gcm", "ctr"}, nonce : {4, 8, 12, 16},
   copies : Nat \ {0}, anyProto : BOOLEAN, flows : SUBSET Flows]

ASSUME TablesAssumption ==
  /\ MaxPolicies \in Nat \ {0} /\ MaxWire \in Nat /\ MaxPolicies <= MaxWire
  /\ Grace \in Nat
  /\ LansOf \in [Profiles -> Seq(Lans) \ {<<>>}]
  /\ Data \in [Profiles -> Seq(Seq(Rows) \ {<<>>}) \ {<<>>}]

VARIABLES
  version,  \* version of each profile's rows in the database
  active,   \* active_ids
  up,       \* the forwarder runs
  stopped,  \* it was stopped: `running' is 0 and forwarder_init() refuses
  cfg,      \* fwd->cfg
  rt,       \* g_active_policies, g_policy_crypto_ctx and the index
  prev,     \* g_prev_*
  grace,    \* ticks until g_prev_policy_grace_until_ms
  replaced  \* history: rt before the latest reload that rebuilt it, and the
            \* ticks left of a grace period from there on

vars == <<version, active, up, stopped, cfg, rt, prev, grace, replaced>>

Wire == 1..MaxWire

-----------------------------------------------------------------------------
(***************************************************************************)
(* Loading a profile: load_profiles_and_policies().                        *)
(***************************************************************************)
\* The first free id, 0 if there is none.
FirstFree(used) ==
  IF Wire \subseteq used THEN 0
  ELSE CHOOSE j \in Wire \ used : \A k \in Wire \ used : j <= k

\* alloc_wire_policy_id()
AllocWireId(db, used) == IF db \in Wire \ used THEN db ELSE FirstFree(used)

\* One row: a bypass policy has wire id 0, policies with the same key share
\* one (ne_wire_id_for_encrypt_key()).  acc.ids maps keys to ids.
RowId(r, acc) ==
  IF r.action = "bypass" THEN 0
  ELSE LET same == {e \in acc.ids : e.key = r.key}
       IN IF same # {} THEN (CHOOSE e \in same : TRUE).id
          ELSE AllocWireId(r.db, {e.id : e \in acc.ids})

LoadRow(acc, r) ==
  LET id == RowId(r, acc)
      cp == [db |-> r.db, id |-> id, action |-> r.action, mode |-> r.mode,
             nonce |-> r.nonce, anyProto |-> r.anyProto, flows |-> r.flows,
             key |-> IF r.action = "bypass" THEN NoKey ELSE r.key]
  IN [ids |-> IF r.action = "bypass" THEN acc.ids
              ELSE acc.ids \cup {[key |-> r.key, id |-> id]},
      policies |-> acc.policies \o [i \in 1..r.copies |-> cp]]

LoadProfile(p, v) ==
  LET after[n \in 0 .. Len(Data[p][v])] ==
        IF n = 0 THEN [ids |-> {}, policies |-> <<>>] ELSE LoadRow(after[n - 1], Data[p][v][n])
  IN  after[Len(Data[p][v])].policies

-----------------------------------------------------------------------------
(***************************************************************************)
(* Merging the active profiles: build_merged_config().                     *)
(***************************************************************************)
EmptyCfg == [lans |-> <<>>, profiles |-> <<>>, policies |-> <<>>]

UsedIds(policies) == {policies[i].id : i \in DOMAIN policies} \cap Wire

\* Fault: an id another policy of the merge has is not noticed.
AppendPolicyAsIs(policies, cp) ==
  Append(policies, [cp EXCEPT !.id = IF cp.id \in Wire THEN cp.id ELSE FirstFree(UsedIds(policies))])

\* append_policy_unique(): an id that is out of range or taken is replaced.
AppendPolicy(policies, cp) ==
  Append(policies, [cp EXCEPT !.id = AllocWireId(cp.id, UsedIds(policies))])

AppendPolicies(policies, own) ==
  LET after[n \in 0 .. Len(own)] ==
        IF n = 0 THEN policies ELSE AppendPolicy(after[n - 1], own[n])
  IN  after[Len(own)]

AppendLan(lans, lan) == IF Contains(lans, lan) THEN lans ELSE Append(lans, lan)

AppendLans(lans, own) ==
  LET after[n \in 0 .. Len(own)] == IF n = 0 THEN lans ELSE AppendLan(after[n - 1], own[n])
  IN  after[Len(own)]

\* merge_one_config()
MergeOne(out, src) ==
  LET own == LoadProfile(src.id, src.ver)
      n   == Len(out.policies)
  IN [lans     |-> AppendLans(out.lans, LansOf[src.id]),
      policies |-> AppendPolicies(out.policies, own),
      profiles |-> Append(out.profiles,
                     [id |-> src.id, ver |-> src.ver, lans |-> ToSet(LansOf[src.id]),
                      policies |-> [i \in 1..Len(own) |-> n + i]])]

\* The rows of each active profile are read when the merge is built.
MergedConfig(sources) ==
  LET after[n \in 0 .. Len(sources)] ==
        IF n = 0 THEN EmptyCfg ELSE MergeOne(after[n - 1], sources[n])
  IN  after[Len(sources)]

\* Otherwise the merge fails; a policy that fits always gets an id, as there
\* are no fewer ids than places.
Fits(c) == Len(c.policies) <= MaxPolicies

Sources(ids) == [i \in 1..Len(ids) |-> [id |-> ids[i], ver |-> version[ids[i]]]]
SourcesOf(c) == [i \in 1..Len(c.profiles) |->
                   [id |-> c.profiles[i].id, ver |-> c.profiles[i].ver]]

-----------------------------------------------------------------------------
(***************************************************************************)
(* The crypto runtime: rebuild_crypto_runtime().                           *)
(***************************************************************************)
EmptyRt == [policies |-> <<>>, keys |-> <<>>, index |-> [x \in Actions \X Wire |-> 0]]

\* Fault: a context is kept for a policy that got a new key.
SameCryptoPolicyAnyKey(a, b) == [a EXCEPT !.key = b.key] = b

SameCryptoPolicy(a, b) == a = b

\* The positions of the ready contexts are those whose key is not NoKey.
Usable(cp) == cp.action # "bypass" /\ cp.key # NoKey

\* The context of a policy that was in the old runtime is copied, another
\* one is derived from the policy's key.
ContextKey(old, cp) ==
  LET same == {i \in DOMAIN old.policies :
                 old.keys[i] # NoKey /\ SameCryptoPolicy(old.policies[i], cp)}
  IN IF ~ Usable(cp) THEN NoKey
     ELSE IF same # {} THEN old.keys[CHOOSE i \in same : \A j \in same : i <= j]
     ELSE cp.key

\* The index holds the first policy of an action with the id.
Rebuild(old, policies) ==
  [policies |-> policies,
   keys     |-> [i \in 1..Len(policies) |-> ContextKey(old, policies[i])],
   index    |-> [x \in Actions \X Wire |->
                   LET at == {i \in DOMAIN policies :
                                Usable(policies[i]) /\ <<policies[i].action, policies[i].id>> = x}
                   IN IF at = {} THEN 0 ELSE CHOOSE i \in at : \A j \in at : i <= j]]

-----------------------------------------------------------------------------
(***************************************************************************)
(* Choosing the policy of a LAN packet.                                    *)
(***************************************************************************)
\* Fault: the profile loaded last takes precedence.
FirstOfLast(S) == IF S = {} THEN 0 ELSE CHOOSE i \in S : \A j \in S : j <= i

FirstOf(S) == IF S = {} THEN 0 ELSE CHOOSE i \in S : \A j \in S : i <= j

\* config_select_profile_for_local()
ProfileForLan(c, lan) == FirstOf({i \in DOMAIN c.profiles : lan \in c.profiles[i].lans})

\* config_select_crypto_policy(): policies of a protocol of their own first.
PolicyFor(c, pi, flow) ==
  LET pass(any) == {i \in ToSet(c.profiles[pi].policies) :
                      c.policies[i].anyProto = any /\ flow \in c.policies[i].flows}
  IN IF pass(FALSE) # {} THEN FirstOf(pass(FALSE)) ELSE FirstOf(pass(TRUE))

\* crypto_select_policy_for_local(); 0 if no policy applies.
Selected(c, lan, flow) ==
  LET pi == ProfileForLan(c, lan)
  IN IF pi = 0 THEN 0 ELSE PolicyFor(c, pi, flow)

-----------------------------------------------------------------------------
(***************************************************************************)
(* A packet, whole or one of two fragments, that a peer sends under the    *)
(* policy cp with its usable key.  `alias' is the byte at the place where  *)
(* a packet of another kind or with another nonce length would have its    *)
(* wire id or its fragment index: a byte of the nonce or of the            *)
(* ciphertext.  `chance' tells what its data happen to look like:          *)
(*   "frag"  the byte at the place of a fragment's magic, where the sender *)
(*           writes none, is that magic: ciphertext at layer 2; at layer 3 *)
(*           data to be encrypted, and the packet is sent as it is         *)
(*   "l4"    what is left when layer 2 or 3 is taken off has the magic and *)
(*           the wire id of a policy of layer 4                            *)
(***************************************************************************)
Chances == {"none", "frag", "l4"}

Packet(cp, alias, frag, chance) ==
  [action |-> cp.action, id |-> cp.id, key |-> cp.key, mode |-> cp.mode, nonce |-> cp.nonce,
   alias |-> alias, frag |-> frag, chance |-> chance,
   clear |-> cp.action = "l3" /\ ~ frag /\ chance = "frag",
   half |-> FALSE, spoiled |-> FALSE]   \* what the receiver has made of it

\* Whether the magic byte of a fragment is where the policy cp would have it.
MagicAt(pk, cp) ==
  IF cp.nonce = pk.nonce THEN pk.frag \/ (pk.action = "l2" /\ pk.chance = "frag")
  ELSE pk.chance = "frag"

\* Decrypting with a policy's parameters and a key, in place, as a whole
\* packet or as a fragment: both look for the magic byte first, and layer 2
\* calls it a success to leave alone what looks like a fragment.  GCM notices
\* a wrong key; CTR does not, but layer 2 wants a whole packet to have an
\* IPv4 header.
Decrypt(pk, cp, key) ==
  LET whole2 == pk.action = "l2" /\ ~ pk.half
  IN IF pk.half # MagicAt(pk, cp) THEN IF whole2 THEN "raw" ELSE "fail"
     ELSE IF /\ ~ pk.spoiled /\ pk.half = pk.frag
             /\ key = pk.key /\ cp.mode = pk.mode /\ cp.nonce = pk.nonce THEN "plain"
     ELSE IF cp.mode = "gcm" \/ whole2 \/ (pk.spoiled /\ pk.action = "l3") THEN "fail"
     ELSE "garbage"

\* Fault: the id that is found is not compared.
ExtractIdAny(c, pk) ==
  LET sees == {i \in DOMAIN c.policies : c.policies[i].action = pk.action}
  IN IF sees = {} THEN 0 ELSE c.policies[FirstOf(sees)].id

\* crypto_l3_extract_policy_id(), crypto_l4_extract_policy_id_ipv4(): the
\* first policy of the current configuration that finds its own id at the
\* place its own nonce length gives; 0 if there is none.
ExtractId(c, pk) ==
  LET sees == {i \in DOMAIN c.policies :
                 /\ c.policies[i].action = pk.action
                 /\ c.policies[i].id = IF c.policies[i].nonce = pk.nonce THEN pk.id ELSE pk.alias}
  IN IF sees = {} THEN 0 ELSE c.policies[FirstOf(sees)].id

\* The policy of the table t that is used for the packet, 0 if there is none.
Entry(t, pk, id) ==
  LET i == t.index[<<pk.action, id>>]
  IN IF i = 0 THEN 0
     ELSE IF pk.action = "l4" /\ t.policies[i].nonce # pk.nonce THEN 0 ELSE i

Attempt(t, pk, id) ==
  LET i == Entry(t, pk, id)
  IN IF i = 0 THEN "none" ELSE Decrypt(pk, t.policies[i], t.keys[i])

GraceActive == grace > 0 /\ prev.policies # <<>>

Outcome(attempt) == IF attempt \in {"none", "fail"} THEN "drop" ELSE attempt

\* decrypt_packet_auto_l2(), forwarder_resolve_l*_decrypt_ctx(): the previous
\* table is for ids the current one does not have.
ResolveThenDecrypt(pk, id) ==
  IF Entry(rt, pk, id) # 0 THEN Outcome(Attempt(rt, pk, id))
  ELSE IF GraceActive THEN Outcome(Attempt(prev, pk, id))
  ELSE "drop"

\* crypto_decrypt_packet_auto_by_action(): the previous table is also tried
\* when decryption failed, on a buffer that the first attempt overwrote.
DecryptByAction(pk, id) ==
  LET first == Attempt(rt, pk, id)
  IN IF first \in {"plain", "garbage"} THEN first
     ELSE IF GraceActive
     THEN Outcome(Attempt(prev, [pk EXCEPT !.spoiled = (first = "fail")], id))
     ELSE "drop"

\* frag_is_fragment_l*(): the magic byte is looked for where each policy of
\* the layer has it, at layers 3 and 4 with that policy's id.  The index is
\* read with the nonce length of the policy found, at layer 3 of the first one
\* whose id was found, at layer 4 of the first policy of the configuration,
\* and an index above 1 means "no fragment".
IsFragment(c, pk) ==
  LET own   == {i \in DOMAIN c.policies : c.policies[i].action = pk.action}
      seen  == {i \in own : pk.action = "l2" \/
                  c.policies[i].id = IF c.policies[i].nonce = pk.nonce THEN pk.id ELSE pk.alias}
      found == {i \in seen : MagicAt(pk, c.policies[i])}
      read  == CASE pk.action = "l2" -> FirstOf(found)
                 [] pk.action = "l3" -> FirstOf(seen)
                 [] OTHER -> 1
  IN /\ found # {}
     /\ (pk.frag /\ c.policies[read].nonce = pk.nonce) \/ pk.alias <= 1

\* The policy of layer 4 whose packet the plaintext is taken for, 0 if none.
LooksLike(c, pk) ==
  IF pk.chance # "l4" THEN 0 ELSE FirstOf({i \in DOMAIN c.policies : c.policies[i].action = "l4"})

\* Layer 4 is tried on what layer 2 or 3 has decrypted too.
ThroughLayer4(pk, result) ==
  LET i == LooksLike(cfg, pk)
  IN IF result # "plain" \/ pk.action = "l4" \/ i = 0 THEN result
     ELSE IF cfg.policies[i].mode = "gcm" THEN "drop" ELSE "garbage"

\* What becomes of a packet from the WAN: its plaintext is passed on, the
\* packet is dropped, or it is passed on with what a wrong key made of it
\* ("garbage") or as it is ("raw").
Received(pk) ==
  LET id == IF pk.action = "l2" THEN pk.id ELSE ExtractId(cfg, pk)
  IN IF pk.clear THEN "plain"
     ELSE ThroughLayer4(pk,
       IF IsFragment(cfg, pk) THEN ResolveThenDecrypt([pk EXCEPT !.half = TRUE], id)
       ELSE IF pk.action = "l2" THEN ResolveThenDecrypt(pk, id)
       ELSE IF id = 0 THEN "raw"
       ELSE DecryptByAction(pk, id))

-----------------------------------------------------------------------------
(***************************************************************************)
(* The administrator and the daemon.                                       *)
(***************************************************************************)
Init ==
  /\ version = [p \in Profiles |-> 1]
  /\ active = <<>> /\ up = FALSE /\ stopped = FALSE
  /\ cfg = EmptyCfg /\ rt = EmptyRt /\ prev = EmptyRt /\ grace = 0
  /\ replaced = [rt |-> EmptyRt, left |-> 0]

\* The rows of a profile are changed in the database.
Edit(p) ==
  /\ \E v \in DOMAIN Data[p] : v # version[p] /\ version' = [version EXCEPT ![p] = v]
  /\ UNCHANGED <<active, up, stopped, cfg, rt, prev, grace, replaced>>

\* The first profile: runtime_start() and forwarder_init(), which saves the
\* tables of the run before.  There is none: once the forwarder was stopped,
\* forwarder_init() returns at once (DaemonLifecycle, LoadedMeansServed).
Start(p) ==
  /\ ~ up /\ ~ stopped
  /\ LET new == MergedConfig(Sources(<<p>>))
     IN /\ Fits(new)
        /\ active' = <<p>> /\ up' = TRUE /\ cfg' = new
        /\ prev' = rt
        /\ grace' = IF rt.policies = <<>> THEN 0 ELSE Grace
        /\ rt' = Rebuild(rt, new.policies)
  /\ UNCHANGED <<version, stopped, replaced>>

\* Fault: only the number of policies is compared.
CryptoRuntimeChangedCount(new) == Len(cfg.policies) # Len(new.policies)

\* crypto_runtime_changed()
CryptoRuntimeChanged(new) ==
  \/ Len(cfg.policies) # Len(new.policies)
  \/ \E i \in DOMAIN cfg.policies : ~ SameCryptoPolicy(cfg.policies[i], new.policies[i])

\* The merge succeeds and has the same interfaces (same_topology()).
Accepted(new) == Fits(new) /\ new.lans = cfg.lans

\* forwarder_reload_config(): the runtime is left alone if nothing it is
\* made from has changed.
HotReload(new) ==
  /\ Accepted(new)
  /\ cfg' = new
  /\ IF CryptoRuntimeChanged(new)
     THEN /\ rt' = Rebuild(rt, new.policies)
          /\ replaced' = [rt |-> rt, left |-> Grace]
     ELSE UNCHANGED <<rt, replaced>>

\* load_profile_and_run(): a profile that cannot be added is forgotten.
Load(p) ==
  /\ up /\ ~ Contains(active, p)
  /\ active' = Append(active, p)
  /\ HotReload(MergedConfig(Sources(active')))
  /\ UNCHANGED <<version, up, stopped, prev, grace>>

Without(ids, p) == RemoveAt(ids, CHOOSE i \in DOMAIN ids : ids[i] = p)

\* handle_profile_notify() for a profile that is gone: it stays forgotten
\* even if the remaining ones cannot be reloaded.
Unload(p) ==
  /\ up /\ Contains(active, p) /\ Len(active) > 1
  /\ active' = Without(active, p)
  /\ LET new == MergedConfig(Sources(active'))
     IN HotReload(new) \/ (~ Accepted(new) /\ UNCHANGED <<cfg, rt, replaced>>)
  /\ UNCHANGED <<version, up, stopped, prev, grace>>

Stop ==
  /\ up /\ Len(active) = 1
  /\ active' = <<>> /\ up' = FALSE /\ stopped' = TRUE
  /\ UNCHANGED <<version, cfg, rt, prev, grace, replaced>>

Earlier(t) == IF t = 0 THEN 0 ELSE t - 1

Tick ==
  /\ grace > 0 \/ replaced.left > 0
  /\ grace' = Earlier(grace)
  /\ replaced' = [replaced EXCEPT !.left = Earlier(@)]
  /\ UNCHANGED <<version, active, up, stopped, cfg, rt, prev>>

Next ==
  \/ \E p \in Profiles : Edit(p) \/ Start(p) \/ Load(p) \/ Unload(p)
  \/ Stop
  \/ Tick

Spec == Init /\ [][Next]_vars

-----------------------------------------------------------------------------
(***************************************************************************)
(* Properties.                                                             *)
(***************************************************************************)
\* The tables have the form the forwarder relies on: the contexts and the
\* index belong to the same list of policies, and the index only points to
\* policies with a context.
TableOK(t) ==
  /\ Len(t.policies) <= MaxPolicies /\ Len(t.keys) = Len(t.policies)
  /\ \A x \in Actions \X Wire :
       t.index[x] # 0 => t.index[x] \in DOMAIN t.keys /\ t.keys[t.index[x]] # NoKey

TypeOK ==
  /\ \A p \in Profiles : version[p] \in DOMAIN Data[p]
  /\ ToSet(active) \subseteq Profiles /\ up = (active # <<>>) /\ stopped \in BOOLEAN
  /\ TableOK(rt) /\ TableOK(prev)
  /\ grace \in 0..Grace /\ replaced.left \in 0..Grace
  /\ up => rt.policies = cfg.policies

\* append_policy_unique(): whatever ids the profiles ask for and however many
\* policies share a key, no two policies of a merge have the same wire id,
\* bypass policies included.  The index and the scan that finds the id in a
\* packet both take the first policy that matches.
WireIdsUnique ==
  \A i, j \in DOMAIN cfg.policies :
    /\ cfg.policies[i].id \in Wire
    /\ i # j => cfg.policies[i].id # cfg.policies[j].id

\* What a peer may have loaded that has the same profiles in the same order
\* as this gateway, but is some of them behind or one ahead.
PeerConfigs ==
  LET own == SourcesOf(cfg)
  IN {MergedConfig(SubSeq(own, 1, n)) : n \in 0..Len(own)}
     \cup {MergedConfig(Append(own, [id |-> p, ver |-> version[p]])) : p \in Profiles}

OneNonceLength(c, action) ==
  \A i, j \in DOMAIN c.policies :
    c.policies[i].action = action /\ c.policies[j].action = action
      => c.policies[i].nonce = c.policies[j].nonce

Mistakable(cp, frag, chance) ==
  \/ frag /\ cp.action = "l4" /\ cfg.policies[1].nonce # cp.nonce
  \/ ~ frag /\ cp.action = "l2" /\ chance = "frag"
  \/ cp.action # "l4" /\ chance = "l4" /\ \E i \in DOMAIN cfg.policies : cfg.policies[i].action = "l4"

\* Wire ids are not exchanged: both gateways compute them when they merge.
\* A packet encrypted under a policy both have is decrypted correctly, whole
\* or in fragments, whichever of the two loaded the later profiles first and
\* whatever reloads rebuilt, copied or left alone in between, provided the
\* policies of its layer have one nonce length, and for a fragment at layer
\* 4 the first policy of the merge has it too.  Excused are the packets that
\* are taken for what they are not: whole ones of layer 2 with the magic byte
\* of a fragment in their ciphertext, and those of layers 2 and 3 in whose
\* plaintext layer 4 sees a packet of its own.
PeersUnderstood ==
  up => \A c \in PeerConfigs : \A i \in DOMAIN c.policies \cap DOMAIN cfg.policies :
          Usable(c.policies[i]) /\ OneNonceLength(cfg, c.policies[i].action)
            => \A alias \in 0..MaxWire, frag \in BOOLEAN, chance \in Chances :
                 \/ Received(Packet(c.policies[i], alias, frag, chance)) = "plain"
                 \/ Mistakable(c.policies[i], frag, chance)

\* A profile that is loaded while the forwarder runs changes the policy and
\* the key of no LAN packet: same_topology() asks that its interfaces are in
\* use already, and the first profile of a LAN is the one that counts.
HotLoadKeepsSelection ==
  [][up /\ up' /\ IsPrefix(SourcesOf(cfg), SourcesOf(cfg')) =>
       \A lan \in Lans, flow \in Flows :
         LET i == Selected(cfg, lan, flow)
         IN /\ Selected(cfg', lan, flow) = i
            /\ i # 0 => rt'.policies[i] = rt.policies[i] /\ rt'.keys[i] = rt.keys[i]]_vars

\* Until the peer reloads too, packets come in under policies this gateway no
\* longer has.  Their wire ids unused, they are dropped, passed on as they are
\* or decrypted with their own key, but never with another one into something
\* that is passed on: the scan for the id (crypto_dispatch.c:56-91) and the
\* index (forwarder.c:787-964) agree, when nonce lengths do not differ.
StaleNotMistaken ==
  up /\ replaced.left > 0 =>
    \A i \in DOMAIN replaced.rt.policies :
      LET cp == replaced.rt.policies[i]
      IN /\ Usable(cp) /\ rt.index[<<cp.action, cp.id>>] = 0
         /\ OneNonceLength([cfg EXCEPT !.policies = Append(@, cp)], cp.action)
         => \A alias \in 0..MaxWire, frag \in BOOLEAN, chance \in Chances :
              Received(Packet(cp, alias, frag, chance)) # "garbage"
=============================================================================
