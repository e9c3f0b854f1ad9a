------------------------------ MODULE ArpCache ------------------------------
(***************************************************************************)
(* The ARP cache of a local interface (wan_arp.c): an open-addressing      *)
(* table that packet threads look up and a listener thread fills from the  *)
(* replies it hears, kept in a file over restarts.  Nothing is ever        *)
(* removed or replaced by age: last_seen_sec is written and not read.      *)
(* A packet for an unknown neighbour is dropped, with a request sent.      *)
(***************************************************************************)
EXTENDS Integers, Sequences, FiniteSets, SequencesExt

CONSTANTS
  Ips,    \* addresses of neighbours
  Macs,   \* their MACs
  MacOf,  \* MacOf[ip]: the neighbour's MAC
  Hash,   \* arp_hash(), modulo Size
  Size,   \* ARP_CACHE_SIZE
  Torn,   \* the MAC read from a line of which the last byte is cut
  NoMac,
  Empty   \* an entry whose ip is 0

ASSUME CacheAssumption ==
  /\ Size \in Nat \ {0}
  /\ MacOf \in [Ips -> Macs] /\ IsInjective(MacOf)
  /\ Hash \in [Ips -> 0 .. Size - 1]
  /\ Torn \notin Macs /\ NoMac \notin Macs \cup {Torn}
  /\ Empty \notin [ip : Ips, mac : Macs \cup {Torn}]

VARIABLES
  table,  \* arp_cache.entries
  dirty,  \* arp_cache.persist_dirty
  file,   \* the lines of arp_<ifname>.txt
  saving, \* the listener has opened the file and not written it
  asked   \* addresses with a request on the wire

arpVars == <<table, dirty, file, saving, asked>>

Lines == [ip : Ips, mac : Macs \cup {Torn}]
Index == 0 .. Size - 1
NoTable == [i \in Index |-> Empty]

-----------------------------------------------------------------------------
Probes == [ip \in Ips |-> [i \in 1 .. Size |-> (Hash[ip] + i - 1) % Size]]

\* The entry at which the probing for an address ends, the first that is free or
\* its own; Size if there is none.
ProbedAt(t, ip) ==
  LET ends == {i \in 1 .. Size : t[Probes[ip][i]] = Empty \/ t[Probes[ip][i]].ip = ip}
  IN IF ends = {} THEN Size ELSE Probes[ip][Min(ends)]

\* arp_cache_lookup()
CacheLookup(t, ip) ==
  LET i == ProbedAt(t, ip)
  IN IF i = Size \/ t[i] = Empty THEN NoMac ELSE t[i].mac

\* Fault: an entry that is taken is overwritten, not passed over.
InsertFirst(t, ip, mac) == [t EXCEPT ![Hash[ip]] = [ip |-> ip, mac |-> mac]]

\* arp_cache_insert(); a full table stays as it is.
Insert(t, ip, mac) ==
  IF ProbedAt(t, ip) = Size THEN t
                            ELSE [t EXCEPT ![ProbedAt(t, ip)] = [ip |-> ip, mac |-> mac]]

\* arp_cache_load()
Loaded(lines) ==
  LET after[n \in 0 .. Len(lines)] ==
        IF n = 0 THEN NoTable ELSE Insert(after[n - 1], lines[n].ip, lines[n].mac)
  IN  after[Len(lines)]

\* The lines arp_cache_save() prints.
Printed(t) ==
  LET printed[n \in 0 .. Size] ==
        IF n = 0 THEN <<>>
        ELSE IF t[n - 1] = Empty THEN printed[n - 1] ELSE Append(printed[n - 1], t[n - 1])
  IN  printed[Size]

-----------------------------------------------------------------------------
(***************************************************************************)
(* The network: a request or its reply may be lost, and a neighbour may    *)
(* reply unasked.  A reply that comes while the file is written waits in   *)
(* the socket, so that nothing is lost for good before the listener reads. *)
(***************************************************************************)
Lose(ip) ==
  /\ ip \in asked /\ ~saving
  /\ asked' = asked \ {ip}
  /\ UNCHANGED <<table, dirty, file, saving>>

\* A turn of arp_listener_thread(): insert the neighbour, and start saving if
\* the last save is two seconds ago.  fopen(path, "w") empties the file.
Hear(ip) ==
  /\ ~saving
  /\ asked' = asked \ {ip}
  /\ table' = Insert(table, ip, MacOf[ip])
  /\ dirty' = (dirty \/ ProbedAt(table, ip) # Size)
  /\ saving' \in {FALSE, dirty'}
  /\ file' = IF saving' THEN <<>> ELSE file

Answer(ip) == ip \in asked /\ Hear(ip)

\* The listener sees a stop after a frame that is no reply, and saves.
SaveAtStop ==
  /\ dirty /\ ~saving
  /\ saving' = TRUE
  /\ file' = <<>>
  /\ UNCHANGED <<table, dirty, asked>>

SaveWrite ==
  /\ saving
  /\ file' = Printed(table)
  /\ dirty' = FALSE
  /\ saving' = FALSE
  /\ UNCHANGED <<table, asked>>

\* What a crash leaves of a file: whole lines, and part of one more.  A line
\* cut within its last byte is read as another MAC; cut before, not at all.
Leavings ==
  IF ~saving THEN {file}
  ELSE LET all == Printed(table)
           firsts == {SubSeq(all, 1, n) : n \in 0 .. Len(all)}
       IN firsts \cup {[f EXCEPT ![Len(f)].mac = Torn] : f \in firsts \ {<<>>}}

\* The process ends, at whatever point, and arp_init_for_local() runs anew.
ArpRestart(left) ==
  /\ left \in Leavings
  /\ file' = left
  /\ table' = Loaded(left)
  /\ dirty' = FALSE
  /\ saving' = FALSE
  /\ asked' = {}

\* Fault: a packet without a MAC is dropped and nothing asked.
AskNot(ip) == UNCHANGED arpVars

\* A packet thread finds no MAC: arp_send_request().
Ask(ip) == asked' = asked \cup {ip} /\ UNCHANGED <<table, dirty, file, saving>>

ArpInit ==
  /\ table = NoTable
  /\ dirty = FALSE
  /\ file = <<>>
  /\ saving = FALSE
  /\ asked = {}

ArpTypeOK ==
  /\ table \in [Index -> Lines \cup {Empty}]
  /\ dirty \in BOOLEAN
  /\ file \in Seq(Lines) /\ Len(file) <= Size
  /\ saving \in BOOLEAN
  /\ asked \subseteq Ips

-----------------------------------------------------------------------------
\* What lookups find, and what the file holds.
Found == {[ip |-> ip, mac |-> CacheLookup(table, ip)] : ip \in Ips}
Neighbours == {e \in Found : e.mac # NoMac}

Map == INSTANCE ArpMap WITH map <- Neighbours, disk <- ToSet(file), Room <- Size
=============================================================================
