--------------------------- MODULE MCPolicyTables ---------------------------
\* PolicyTables for TLC.  Profiles a and b have one LAN, c has another one
\* besides: loaded first, c lets both be added to it, up to MaxPolicies.
\* Profile a is edited: its second version has another key, other wire ids,
\* and a policy of layer 3 with another nonce length than b's.  Two policies
\* of b share a key (and, until the merge, a wire id) in its first version; its policy of
\* layer 4 has the nonce length of the others in the second version only.
EXTENDS PolicyTables

CONSTANTS a, b, c, x, y, k1, k2, k3

MCFlows == {"tcp", "udp"}

Row(db, action, key, mode, nonce, copies, anyProto, flows) ==
  [db |-> db, action |-> action, key |-> key, mode |-> mode, nonce |-> nonce,
   copies |-> copies, anyProto |-> anyProto, flows |-> flows]

RowsA1 ==
  <<Row(1, "l2", k1, "gcm", 12, 2, FALSE, {"tcp"}),
    Row(2, "bypass", NoKey, "gcm", 12, 1, TRUE, {"tcp", "udp"})>>

RowsA2 ==
  <<Row(1, "l2", k2, "gcm", 12, 1, FALSE, {"tcp"}),
    Row(2, "bypass", NoKey, "gcm", 12, 1, TRUE, {"tcp", "udp"}),
    Row(6, "l3", k1, "gcm", 8, 1, FALSE, {"udp"})>>

RowsB(key, nonce) ==
  <<Row(3, "l3", key, "gcm", 12, 1, TRUE, {"tcp", "udp"}),
    Row(300, "l3", k2, "gcm", 12, 1, FALSE, {"udp"}),
    Row(4, "l4", k3, "ctr", nonce, 1, FALSE, {"tcp"})>>

RowsC ==
  <<Row(5, "l2", k3, "gcm", 12, 1, TRUE, {"udp"}),
    Row(7, "l3", k3, "ctr", 12, 1, FALSE, {"tcp"})>>

MCData == a :> <<RowsA1, RowsA2>> @@ b :> <<RowsB(k2, 8), RowsB(k1, 12)>> @@ c :> <<RowsC>>
MCLansOf == a :> <<x>> @@ b :> <<x>> @@ c :> <<x, y>>
=============================================================================
