------------------------------- MODULE ArpMap -------------------------------
(***************************************************************************)
(* What the neighbour cache of an interface promises: entries for at most  *)
(* Room addresses, one for each, that never replace those of another, and  *)
(* a file that a restart reads them back from.  A crash while the file is  *)
(* written leaves some of its lines, one perhaps torn.                     *)
(***************************************************************************)
EXTENDS Integers, FiniteSets

CONSTANTS Ips, Macs, Torn, Room

VARIABLES map, disk

vars == <<map, disk>>

Entries == [ip : Ips, mac : Macs]

Init == map = {} /\ disk = {}

\* A neighbour is recorded, if there is room, and the file perhaps opened.
Put(e) ==
  /\ e \in Entries
  /\ map' = {m \in map : m.ip # e.ip} \cup {e}
  /\ Cardinality(map') <= Room
  /\ disk' \in {disk, {}}

Open == disk' = {} /\ UNCHANGED map
Save == disk' = map /\ UNCHANGED map

\* A file that was being written.
Part(lines) ==
  LET cut == lines \ map
  IN /\ Cardinality(cut) <= 1
     /\ \A c \in cut : c.mac = Torn /\ \E m \in map : m.ip = c.ip

Restart ==
  /\ \/ disk' = disk
     \/ disk = {} /\ Part(disk')
  /\ map' = disk'

Next == Open \/ Save \/ Restart \/ \E e \in map' : Put(e)

Spec == Init /\ [][Next]_vars
=============================================================================
