--------------------------- MODULE MCPacketChoice ---------------------------
\* Profile a deals two to one and leaves a WAN without weight out; profile b has
\* the same two WANs and no weights.  One connection of a; a reload changes its
\* policy (encrypted, bypassed, none) and the weights, or switches encryption off.
\* The peer splits packets under policy 2, or 1, and 1 is at layer 4 to begin with.
\* In one configuration a WAN of a is listed twice.
EXTENDS PacketChoice

W(w, n) == [wan |-> w, weight |-> n]
MCProfiles == {"a", "b"}
MCProfileOf == [c \in Conns |-> "a"]
MCTables == {
  [crypt |-> TRUE, sel |-> [c \in Conns |-> 1], bypass |-> {3}, ready |-> {1, 2},
   l3 |-> {2}, l4 |-> {1},
   wans |-> [a |-> <<W("w1", 1), W("w3", 0), W("w2", 2)>>, b |-> <<W("w1", 0), W("w2", 0)>>]],
  [crypt |-> TRUE, sel |-> [c \in Conns |-> 3], bypass |-> {3}, ready |-> {2},
   l3 |-> {2}, l4 |-> {},
   wans |-> [a |-> <<W("w2", 5)>>, b |-> <<W("w1", 0), W("w2", 0)>>]],
  [crypt |-> TRUE, sel |-> [c \in Conns |-> NoPolicy], bypass |-> {}, ready |-> {1},
   l3 |-> {1}, l4 |-> {},
   wans |-> [a |-> <<W("w1", 1), W("w3", 1), W("w1", 1)>>, b |-> <<W("w2", 1)>>]],
  [crypt |-> FALSE, sel |-> [c \in Conns |-> NoPolicy], bypass |-> {}, ready |-> {},
   l3 |-> {}, l4 |-> {},
   wans |-> [a |-> <<W("w1", 1), W("w2", 0), W("w3", 1)>>, b |-> <<W("w1", 0), W("w2", 0)>>]]}
=============================================================================
