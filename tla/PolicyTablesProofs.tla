------------------------- MODULE PolicyTablesProofs -------------------------
(***************************************************************************)
(* Proofs about PolicyTables, for any profiles, rows and limits.           *)
(*                                                                         *)
(* A merge is a function of its sources (which profile, which version) and *)
(* goes on from the merge of a part of them: MergedIs, MergedBegins.  The  *)
(* crypto runtime is a function of its policies, whatever contexts reloads *)
(* copied into it: RebuildIs.  TablesInv says that both hold in every      *)
(* state, and that the runtime is that of the configuration; the five      *)
(* theorems follow from it:                                                *)
(*   TablesTypeCorrect     TypeOK                                          *)
(*   IdsUnique             WireIdsUnique                                   *)
(*   PeersDecrypted        PeersUnderstood                                 *)
(*   StaleRefused          StaleNotMistaken                                *)
(*   SelectionUndisturbed  HotLoadKeepsSelection                           *)
(***************************************************************************)
EXTENDS PolicyTables, FiniteSetTheorems, SequenceTheorems, WellFoundedInduction, TLAPS

(***************************************************************************)
(* Induction on numbers, from the well-foundedness of <, and the functions *)
(* it allows to define.                                                    *)
(***************************************************************************)
\* A set of numbers has a least one.
LEMMA LeastNat ==
  ASSUME NEW T, T \subseteq Nat, T # {}
  PROVE  \E n \in T : \A m \in T : n <= m
<1> DEFINE R == OpToRel(<, Nat)
<1>1. IsWellFoundedOn(R, Nat)
  BY NatLessThanWellFounded
<1>2. \A n, m \in Nat : <<m, n>> \in R <=> m < n
  BY DEF OpToRel
<1> HIDE DEF R
<1>3. PICK n \in T : \A m \in T : ~ (<<m, n>> \in R)
  BY <1>1, WFMin
<1>4. \A m \in T : n <= m
  <2> SUFFICES ASSUME NEW m \in T PROVE n <= m
    OBVIOUS
  <2>1. m \in Nat /\ n \in Nat /\ ~ (m < n)
    BY <1>2, <1>3
  <2> QED
    BY <2>1
<1> QED
  BY <1>4

\* Induction up to a number.
LEMMA InductUpTo ==
  ASSUME NEW N \in Nat, NEW S, 0 \in S, \A n \in 0 .. N - 1 : n \in S => n + 1 \in S
  PROVE  0 .. N \subseteq S
<1> SUFFICES ASSUME (0 .. N) \ S # {} PROVE FALSE
  OBVIOUS
<1>1. (0 .. N) \ S \subseteq Nat
  OBVIOUS
<1>2. PICK n \in (0 .. N) \ S : \A m \in (0 .. N) \ S : n <= m
  BY <1>1, LeastNat
<1>3. n # 0 /\ n - 1 \in 0 .. N - 1
  BY <1>2
<1>4. n - 1 \in S
  BY <1>2, <1>3
<1>5. (n - 1) + 1 = n
  BY <1>3
<1> QED
  BY <1>2, <1>3, <1>4, <1>5

\* A function may be defined by recursion: there is one that starts from b and
\* goes on by a step.
IsStep(step, N, T) == step \in [1 .. N -> [T -> T]]

Follows(f, b, step, N, T) ==
  f \in [0 .. N -> T] /\ f[0] = b /\ \A n \in 1 .. N : f[n] = step[n][f[n - 1]]

LEMMA RecursionExists ==
  ASSUME NEW N \in Nat, NEW T, NEW b \in T, NEW step, IsStep(step, N, T)
  PROVE  \E f : Follows(f, b, step, N, T)
<1> DEFINE Good(f, k) ==
      f \in [0 .. k -> T] /\ f[0] = b /\ \A n \in 1 .. k : f[n] = step[n][f[n - 1]]
           S == {k \in 0 .. N : \E f : Good(f, k)}
<1>1. 0 \in S
  <2> DEFINE g == [i \in 0 .. 0 |-> b]
  <2>1. Good(g, 0) /\ 0 \in 0 .. N
    OBVIOUS
  <2> HIDE DEF Good
  <2> QED
    BY <2>1
<1>2. ASSUME NEW k \in 0 .. N - 1, k \in S PROVE k + 1 \in S
  <2>1. PICK f : Good(f, k)
    BY <1>2
  <2> DEFINE g == [i \in 0 .. k + 1 |-> IF i = k + 1 THEN step[k + 1][f[k]] ELSE f[i]]
  <2>2. step[k + 1][f[k]] \in T
    <3>1. f[k] \in T /\ k + 1 \in 1 .. N
      BY <2>1
    <3> QED
      BY <3>1 DEF IsStep
  <2>3. /\ g \in [0 .. k + 1 -> T] /\ g[k + 1] = step[k + 1][f[k]]
        /\ \A i \in 0 .. k : g[i] = f[i]
    BY <2>1, <2>2
  <2> HIDE DEF g
  <2>4. \A n \in 1 .. k + 1 : g[n] = step[n][g[n - 1]]
    <3> SUFFICES ASSUME NEW n \in 1 .. k + 1 PROVE g[n] = step[n][g[n - 1]]
      OBVIOUS
    <3>1. CASE n = k + 1
      <4>1. n - 1 = k /\ g[k] = f[k]
        BY <2>3, <3>1
      <4> QED
        BY <2>3, <3>1, <4>1
    <3>2. CASE n # k + 1
      <4>1. n \in 1 .. k /\ n - 1 \in 0 .. k
        BY <3>2
      <4> QED
        BY <2>1, <2>3, <4>1
    <3> QED
      BY <3>1, <3>2
  <2>5. Good(g, k + 1)
    BY <2>1, <2>3, <2>4
  <2> QED
    BY <2>5
<1> HIDE DEF S
<1>3. 0 .. N \subseteq S
  BY <1>1, <1>2, InductUpTo
<1>4. N \in S
  BY <1>3
<1> QED
  BY <1>4 DEF S, Follows

-----------------------------------------------------------------------------
(***************************************************************************)
(* The rows of a profile.                                                  *)
(***************************************************************************)
Ids == 0 .. MaxWire

Pols ==
  [db : Nat, id : Ids, action : Actions \cup {"bypass"}, mode : {"gcm", "ctr"},
   nonce : {4, 8, 12, 16}, anyProto : BOOLEAN, flows : SUBSET Flows, key : Keys \cup {NoKey}]

Accs == [ids : SUBSET [key : Keys \cup {NoKey}, id : Ids], policies : Seq(Pols)]

\* An id is given that is free, if there is one.
LEMMA AllocIs ==
  ASSUME NEW db, NEW used
  PROVE  /\ AllocWireId(db, used) \in Ids
         /\ ~ (Wire \subseteq used) => AllocWireId(db, used) \in Wire \ used
<1> DEFINE free == Wire \ used
<1>1. Wire \subseteq Ids /\ 0 \in Ids /\ Wire \subseteq Nat
  BY TablesAssumption DEF Wire, Ids
<1>2. CASE Wire \subseteq used
  <2>1. FirstFree(used) = 0 /\ ~ (db \in free)
    BY <1>2 DEF FirstFree
  <2> QED
    BY <1>1, <1>2, <2>1 DEF AllocWireId
<1>3. CASE ~ (Wire \subseteq used)
  <2>1. free # {} /\ free \subseteq Nat
    BY <1>1, <1>3
  <2>2. \E j \in free : \A k \in free : j <= k
    <3> HIDE DEF free
    <3> QED
      BY <2>1, LeastNat
  <2>3. FirstFree(used) = CHOOSE j \in free : \A k \in free : j <= k
    BY <1>3 DEF FirstFree
  <2>4. FirstFree(used) \in free
    BY <2>2, <2>3
  <2>5. AllocWireId(db, used) \in free
    BY <2>4 DEF AllocWireId
  <2> QED
    BY <1>1, <2>5
<1> QED
  BY <1>2, <1>3

LEMMA RowTyped ==
  ASSUME NEW acc \in Accs, NEW r \in Rows
  PROVE  LoadRow(acc, r) \in Accs
<1> DEFINE id == RowId(r, acc)
           cp == [db |-> r.db, id |-> id, action |-> r.action, mode |-> r.mode,
                  nonce |-> r.nonce, anyProto |-> r.anyProto, flows |-> r.flows,
                  key |-> IF r.action = "bypass" THEN NoKey ELSE r.key]
           copies == [i \in 1..r.copies |-> cp]
<1>1. id \in Ids
  <2>1. CASE r.action = "bypass"
    BY <2>1, TablesAssumption DEF RowId, Ids
  <2>2. CASE r.action # "bypass"
    <3> DEFINE same == {e \in acc.ids : e.key = r.key}
    <3>1. CASE same = {}
      BY <2>2, <3>1, AllocIs DEF RowId
    <3>2. CASE same # {}
      <4>1. (CHOOSE e \in same : TRUE) \in acc.ids
        BY <3>2
      <4>2. (CHOOSE e \in same : TRUE).id \in Ids
        BY <4>1 DEF Accs
      <4> QED
        BY <2>2, <3>2, <4>2 DEF RowId
    <3> QED
      BY <3>1, <3>2
  <2> QED
    BY <2>1, <2>2
<1> HIDE DEF id
<1>2. cp \in Pols
  BY <1>1 DEF Pols, Rows
<1>3. r.copies \in Nat
  BY DEF Rows
<1> HIDE DEF cp
<1>4. copies \in Seq(Pols)
  BY <1>2, <1>3
<1> HIDE DEF copies
<1>5. acc.policies \o copies \in Seq(Pols)
  BY <1>4, ConcatProperties DEF Accs
<1>6. [key |-> r.key, id |-> id] \in [key : Keys \cup {NoKey}, id : Ids]
  BY <1>1 DEF Rows
<1>7. LoadRow(acc, r) =
        [ids |-> IF r.action = "bypass" THEN acc.ids ELSE acc.ids \cup {[key |-> r.key, id |-> id]},
         policies |-> acc.policies \o copies]
  BY DEF LoadRow, copies, cp, id
<1> QED
  BY <1>5, <1>6, <1>7 DEF Accs

\* A version of a profile that the database holds.
Srcs == {s \in [id : Profiles, ver : Nat] : s.ver \in DOMAIN Data[s.id]}

LEMMA RowsOf ==
  ASSUME NEW p \in Profiles, NEW v \in DOMAIN Data[p]
  PROVE  /\ v \in Nat
         /\ Data[p][v] \in Seq(Rows) /\ \A n \in 1 .. Len(Data[p][v]) : Data[p][v][n] \in Rows
<1>1. Data[p] \in Seq(Seq(Rows) \ {<<>>})
  BY TablesAssumption
<1>2. v \in Nat /\ Data[p][v] \in Seq(Rows) \ {<<>>}
  BY <1>1, ElementOfSeq
<1> QED
  BY <1>2, ElementOfSeq

LEMMA ProfileTyped ==
  ASSUME NEW p \in Profiles, NEW v \in DOMAIN Data[p]
  PROVE  LoadProfile(p, v) \in Seq(Pols)
<1> DEFINE rows == Data[p][v]
           N == Len(rows)
           base == [ids |-> {}, policies |-> <<>>]
           Is(a) == a = [n \in 0 .. N |-> IF n = 0 THEN base ELSE LoadRow(a[n - 1], rows[n])]
           after == CHOOSE a : Is(a)
           step == [n \in 1 .. N |-> [x \in Accs |-> LoadRow(x, rows[n])]]
<1>1. rows \in Seq(Rows) /\ N \in Nat /\ \A n \in 1 .. N : rows[n] \in Rows
  BY RowsOf
<1>2. base \in Accs
  BY DEF Accs
<1> HIDE DEF rows, N, base
<1>3. IsStep(step, N, Accs)
  BY <1>1, RowTyped DEF IsStep
<1>4. PICK a : Follows(a, base, step, N, Accs)
  <2> HIDE DEF step
  <2> QED
    BY <1>1, <1>2, <1>3, RecursionExists
<1>5. Is(a)
  <2>1. /\ a \in [0 .. N -> Accs] /\ a[0] = base
        /\ \A n \in 1 .. N : a[n] = step[n][a[n - 1]]
    BY <1>4 DEF Follows
  <2>2. \A n \in 1 .. N : a[n] = LoadRow(a[n - 1], rows[n])
    <3> SUFFICES ASSUME NEW n \in 1 .. N PROVE a[n] = LoadRow(a[n - 1], rows[n])
      OBVIOUS
    <3>1. n - 1 \in 0 .. N /\ a[n - 1] \in Accs
      BY <1>1, <2>1
    <3> QED
      BY <2>1, <3>1
  <2>3. \A n \in 0 .. N : a[n] = IF n = 0 THEN base ELSE LoadRow(a[n - 1], rows[n])
    BY <1>1, <2>1, <2>2
  <2> QED
    BY <2>1, <2>3
<1>6. Is(after)
  BY <1>5
<1>7. LoadProfile(p, v) = after[N].policies
  BY DEF LoadProfile, rows, N, base
<1> HIDE DEF after
<1>8. after[0] = base /\ \A n \in 1 .. N : after[n] = LoadRow(after[n - 1], rows[n])
  BY <1>1, <1>6
<1> DEFINE S == {n \in 0 .. N : after[n] \in Accs}
<1>9. 0 \in S
  BY <1>1, <1>2, <1>8
<1>10. ASSUME NEW n \in 0 .. N - 1, n \in S PROVE n + 1 \in S
  <2>1. n + 1 \in 1 .. N /\ (n + 1) - 1 = n /\ n + 1 \in 0 .. N
    BY <1>1
  <2>2. after[n + 1] = LoadRow(after[n], rows[n + 1])
    BY <1>8, <2>1
  <2> QED
    BY <1>1, <1>10, <2>1, <2>2, RowTyped
<1> HIDE DEF S
<1>11. N \in S
  <2>1. 0 .. N \subseteq S
    BY <1>1, <1>9, <1>10, InductUpTo
  <2> QED
    BY <1>1, <2>1
<1> QED
  BY <1>7, <1>11 DEF S, Accs

-----------------------------------------------------------------------------
(***************************************************************************)
(* Appending the policies and LANs of a profile to a merge.                *)
(***************************************************************************)
\* t begins with what s is.
Begins(s, t) == Len(s) <= Len(t) /\ \A i \in 1 .. Len(s) : t[i] = s[i]

IdsOK(ps) ==
  \A i, j \in DOMAIN ps : ps[i].id \in Wire /\ (i # j => ps[i].id # ps[j].id)

\* A merge with fewer policies than MaxPolicies leaves an id free.
LEMMA IdFree ==
  ASSUME NEW ps \in Seq(Pols), Len(ps) < MaxPolicies
  PROVE  ~ (Wire \subseteq UsedIds(ps))
<1> SUFFICES ASSUME Wire \subseteq UsedIds(ps) PROVE FALSE
  OBVIOUS
<1> DEFINE D == {i \in 1 .. Len(ps) : ps[i].id \in Wire}
           f == [i \in D |-> ps[i].id]
<1>1. Len(ps) \in Nat /\ DOMAIN ps = 1 .. Len(ps) /\ MaxWire \in Nat /\ Len(ps) < MaxWire
  BY TablesAssumption
<1>2. IsFiniteSet(1 .. Len(ps)) /\ Cardinality(1 .. Len(ps)) = Len(ps) /\ Cardinality(Wire) = MaxWire
  <2>1. \A k \in Nat : IsFiniteSet(1 .. k) /\ Cardinality(1 .. k) = k
    <3> SUFFICES ASSUME NEW k \in Nat PROVE IsFiniteSet(1 .. k) /\ Cardinality(1 .. k) = k
      OBVIOUS
    <3>1. /\ IsFiniteSet(1 .. k)
          /\ Cardinality(1 .. k) = IF 1 > k THEN 0 ELSE k - 1 + 1
      BY FS_Interval
    <3> QED
      BY <3>1
  <2> QED
    BY <1>1, <2>1 DEF Wire
<1>3. IsFiniteSet(D) /\ Cardinality(D) <= Len(ps)
  BY <1>2, FS_Subset
<1>4. f \in Surjection(D, Wire)
  BY <1>1 DEF Surjection, UsedIds
<1> HIDE DEF f, D
<1>5. Cardinality(Wire) <= Cardinality(D) /\ Cardinality(D) \in Nat
  BY <1>3, <1>4, FS_Surjection, FS_CardinalityType
<1> QED
  BY <1>1, <1>2, <1>3, <1>5

LEMMA AppendPolicyIs ==
  ASSUME NEW ps \in Seq(Pols), NEW cp \in Pols
  PROVE  LET r == AppendPolicy(ps, cp)
         IN  /\ r \in Seq(Pols) /\ Len(r) = Len(ps) + 1 /\ Begins(ps, r)
             /\ IdsOK(ps) /\ Len(r) <= MaxPolicies => IdsOK(r)
<1> DEFINE id == AllocWireId(cp.id, UsedIds(ps))
           x == [cp EXCEPT !.id = id]
           r == AppendPolicy(ps, cp)
           m == Len(ps)
<1>1. id \in Ids /\ (~ (Wire \subseteq UsedIds(ps)) => id \in Wire \ UsedIds(ps))
  BY AllocIs
<1> HIDE DEF id
<1>2. x \in Pols /\ x.id = id
  BY <1>1 DEF Pols
<1>3. r = Append(ps, x)
  BY DEF AppendPolicy, id
<1> HIDE DEF x, r
<1>4. /\ m \in Nat /\ r \in Seq(Pols) /\ Len(r) = m + 1 /\ DOMAIN r = 1 .. m + 1
      /\ DOMAIN ps = 1 .. m /\ r[m + 1] = x /\ \A i \in 1 .. m : r[i] = ps[i]
  BY <1>2, <1>3, AppendProperties
<1>5. ASSUME IdsOK(ps), Len(r) <= MaxPolicies PROVE IdsOK(r)
  <2>1. m < MaxPolicies
    BY <1>4, <1>5, TablesAssumption
  <2>2. id \in Wire \ UsedIds(ps)
    BY <1>1, <2>1, IdFree
  <2>3. \A i \in 1 .. m : ps[i].id \in Wire /\ ps[i].id # id
    BY <1>4, <1>5, <2>2 DEF IdsOK, UsedIds
  <2> SUFFICES ASSUME NEW i \in 1 .. m + 1, NEW j \in 1 .. m + 1
               PROVE  r[i].id \in Wire /\ (i # j => r[i].id # r[j].id)
    BY <1>4 DEF IdsOK
  <2>4. CASE i \in 1 .. m /\ j \in 1 .. m
    BY <1>4, <1>5, <2>4 DEF IdsOK
  <2>5. CASE i = m + 1 /\ j \in 1 .. m
    BY <1>2, <1>4, <2>2, <2>3, <2>5
  <2>6. CASE i \in 1 .. m /\ j = m + 1
    BY <1>2, <1>4, <2>2, <2>3, <2>6
  <2>7. CASE i = m + 1 /\ j = m + 1
    BY <1>2, <1>4, <2>2, <2>7
  <2> QED
    BY <1>4, <2>4, <2>5, <2>6, <2>7
<1>6. Begins(ps, r)
  BY <1>4 DEF Begins
<1> QED
  BY <1>4, <1>5, <1>6 DEF r

LEMMA BeginsOn ==
  ASSUME NEW T, NEW s \in Seq(T), NEW t \in Seq(T), NEW u \in Seq(T), Begins(s, t), Begins(t, u)
  PROVE  Begins(s, u)
<1>1. Len(s) \in Nat /\ Len(t) \in Nat /\ Len(u) \in Nat
  OBVIOUS
<1> QED
  BY <1>1 DEF Begins

LEMMA AppendPoliciesIs ==
  ASSUME NEW ps \in Seq(Pols), NEW own \in Seq(Pols)
  PROVE  LET r == AppendPolicies(ps, own)
         IN  /\ r \in Seq(Pols) /\ Len(r) = Len(ps) + Len(own) /\ Begins(ps, r)
             /\ IdsOK(ps) /\ Len(r) <= MaxPolicies => IdsOK(r)
<1> DEFINE N == Len(own)
           Is(a) == a = [n \in 0 .. N |-> IF n = 0 THEN ps ELSE AppendPolicy(a[n - 1], own[n])]
           after == CHOOSE a : Is(a)
           step == [n \in 1 .. N |-> [x \in Seq(Pols) |-> AppendPolicy(x, own[n])]]
<1>1. N \in Nat /\ \A n \in 1 .. N : own[n] \in Pols
  BY ElementOfSeq
<1> HIDE DEF N
<1>3. IsStep(step, N, Seq(Pols))
  BY <1>1, AppendPolicyIs DEF IsStep
<1>4. PICK a : Follows(a, ps, step, N, Seq(Pols))
  <2> HIDE DEF step
  <2> QED
    BY <1>1, <1>3, RecursionExists
<1>5. Is(a)
  <2>1. /\ a \in [0 .. N -> Seq(Pols)] /\ a[0] = ps
        /\ \A n \in 1 .. N : a[n] = step[n][a[n - 1]]
    BY <1>4 DEF Follows
  <2>2. \A n \in 1 .. N : a[n] = AppendPolicy(a[n - 1], own[n])
    <3> SUFFICES ASSUME NEW n \in 1 .. N PROVE a[n] = AppendPolicy(a[n - 1], own[n])
      OBVIOUS
    <3>1. n - 1 \in 0 .. N /\ a[n - 1] \in Seq(Pols)
      BY <1>1, <2>1
    <3> QED
      BY <2>1, <3>1
  <2>3. \A n \in 0 .. N : a[n] = IF n = 0 THEN ps ELSE AppendPolicy(a[n - 1], own[n])
    BY <1>1, <2>1, <2>2
  <2> QED
    BY <2>1, <2>3
<1>6. Is(after)
  BY <1>5
<1>7. AppendPolicies(ps, own) = after[N]
  BY DEF AppendPolicies, N
<1> HIDE DEF after
<1>8. after[0] = ps /\ \A n \in 1 .. N : after[n] = AppendPolicy(after[n - 1], own[n])
  BY <1>1, <1>6
<1> DEFINE Good(r, n) == /\ r \in Seq(Pols) /\ Len(r) = Len(ps) + n /\ Begins(ps, r)
                         /\ IdsOK(ps) /\ Len(r) <= MaxPolicies => IdsOK(r)
           S == {n \in 0 .. N : Good(after[n], n)}
<1>9. 0 \in S
  BY <1>1, <1>8 DEF Begins
<1>10. ASSUME NEW n \in 0 .. N - 1, n \in S PROVE n + 1 \in S
  <2> DEFINE p == after[n]
             r == after[n + 1]
  <2>1. n + 1 \in 1 .. N /\ (n + 1) - 1 = n /\ n + 1 \in 0 .. N
    BY <1>1
  <2>2. r = AppendPolicy(p, own[n + 1]) /\ own[n + 1] \in Pols /\ Good(p, n)
    BY <1>1, <1>8, <1>10, <2>1
  <2> HIDE DEF p, r
  <2>3. /\ r \in Seq(Pols) /\ Len(r) = Len(p) + 1 /\ Begins(p, r)
        /\ IdsOK(p) /\ Len(r) <= MaxPolicies => IdsOK(r)
    BY <2>2, AppendPolicyIs
  <2>4. Len(p) \in Nat /\ Len(ps) \in Nat /\ Len(r) = Len(ps) + (n + 1) /\ Len(p) <= Len(r)
    BY <2>2, <2>3
  <2>5. Begins(ps, r)
    BY <2>2, <2>3, BeginsOn
  <2>6. IdsOK(ps) /\ Len(r) <= MaxPolicies => IdsOK(r)
    BY <2>2, <2>3, <2>4, TablesAssumption
  <2>7. Good(r, n + 1)
    BY <2>3, <2>4, <2>5, <2>6
  <2> HIDE DEF Good
  <2> QED
    BY <2>1, <2>7 DEF r
<1> HIDE DEF S
<1>11. N \in S
  <2>1. 0 .. N \subseteq S
    BY <1>1, <1>9, <1>10, InductUpTo
  <2> QED
    BY <1>1, <2>1
<1> QED
  BY <1>7, <1>11 DEF S, N

LEMMA AppendLanIs ==
  ASSUME NEW ls \in Seq(Lans), NEW l \in Lans
  PROVE  LET r == AppendLan(ls, l) IN r \in Seq(Lans) /\ ToSet(r) = ToSet(ls) \cup {l}
<1>1. DOMAIN ls = 1 .. Len(ls) /\ Len(ls) \in Nat
  OBVIOUS
<1>2. CASE Contains(ls, l)
  BY <1>1, <1>2 DEF AppendLan, Contains, ToSet
<1>3. CASE ~ Contains(ls, l)
  <2> DEFINE r == Append(ls, l)
             m == Len(ls)
  <2>1. /\ r \in Seq(Lans) /\ Len(r) = m + 1 /\ DOMAIN r = 1 .. m + 1
        /\ r[m + 1] = l /\ \A i \in 1 .. m : r[i] = ls[i]
    BY AppendProperties
  <2>2. 1 .. m + 1 = (1 .. m) \cup {m + 1}
    BY <1>1
  <2> HIDE DEF r
  <2>3. ToSet(r) = ToSet(ls) \cup {l}
    BY <1>1, <2>1, <2>2 DEF ToSet
  <2> QED
    BY <1>3, <2>1, <2>3 DEF AppendLan, r
<1> QED
  BY <1>2, <1>3

LEMMA AppendLansIs ==
  ASSUME NEW ls \in Seq(Lans), NEW own \in Seq(Lans)
  PROVE  LET r == AppendLans(ls, own)
         IN  r \in Seq(Lans) /\ ToSet(r) = ToSet(ls) \cup ToSet(own)
<1> DEFINE N == Len(own)
           Is(a) == a = [n \in 0 .. N |-> IF n = 0 THEN ls ELSE AppendLan(a[n - 1], own[n])]
           after == CHOOSE a : Is(a)
           step == [n \in 1 .. N |-> [x \in Seq(Lans) |-> AppendLan(x, own[n])]]
<1>1. N \in Nat /\ DOMAIN own = 1 .. N /\ \A n \in 1 .. N : own[n] \in Lans
  BY ElementOfSeq
<1> HIDE DEF N
<1>3. IsStep(step, N, Seq(Lans))
  BY <1>1, AppendLanIs DEF IsStep
<1>4. PICK a : Follows(a, ls, step, N, Seq(Lans))
  <2> HIDE DEF step
  <2> QED
    BY <1>1, <1>3, RecursionExists
<1>5. Is(a)
  <2>1. /\ a \in [0 .. N -> Seq(Lans)] /\ a[0] = ls
        /\ \A n \in 1 .. N : a[n] = step[n][a[n - 1]]
    BY <1>4 DEF Follows
  <2>2. \A n \in 1 .. N : a[n] = AppendLan(a[n - 1], own[n])
    <3> SUFFICES ASSUME NEW n \in 1 .. N PROVE a[n] = AppendLan(a[n - 1], own[n])
      OBVIOUS
    <3>1. n - 1 \in 0 .. N /\ a[n - 1] \in Seq(Lans)
      BY <1>1, <2>1
    <3> QED
      BY <2>1, <3>1
  <2>3. \A n \in 0 .. N : a[n] = IF n = 0 THEN ls ELSE AppendLan(a[n - 1], own[n])
    BY <1>1, <2>1, <2>2
  <2> QED
    BY <2>1, <2>3
<1>6. Is(after)
  BY <1>5
<1>7. AppendLans(ls, own) = after[N]
  BY DEF AppendLans, N
<1> HIDE DEF after
<1>8. after[0] = ls /\ \A n \in 1 .. N : after[n] = AppendLan(after[n - 1], own[n])
  BY <1>1, <1>6
<1> DEFINE Good(r, n) == r \in Seq(Lans) /\ ToSet(r) = ToSet(ls) \cup {own[k] : k \in 1 .. n}
           S == {n \in 0 .. N : Good(after[n], n)}
<1>9. 0 \in S
  BY <1>1, <1>8
<1>10. ASSUME NEW n \in 0 .. N - 1, n \in S PROVE n + 1 \in S
  <2> DEFINE p == after[n]
             r == after[n + 1]
  <2>1. n + 1 \in 1 .. N /\ (n + 1) - 1 = n /\ n + 1 \in 0 .. N
    BY <1>1
  <2>2. r = AppendLan(p, own[n + 1]) /\ own[n + 1] \in Lans /\ Good(p, n)
    BY <1>1, <1>8, <1>10, <2>1
  <2> HIDE DEF p, r
  <2>3. r \in Seq(Lans) /\ ToSet(r) = ToSet(p) \cup {own[n + 1]}
    BY <2>2, AppendLanIs
  <2>4. {own[k] : k \in 1 .. n + 1} = {own[k] : k \in 1 .. n} \cup {own[n + 1]}
    <3>1. 1 .. n + 1 = (1 .. n) \cup {n + 1}
      BY <1>1
    <3> QED
      BY <3>1
  <2>5. Good(r, n + 1)
    BY <2>2, <2>3, <2>4
  <2> HIDE DEF Good
  <2> QED
    BY <2>1, <2>5 DEF r
<1> HIDE DEF S
<1>11. N \in S
  <2>1. 0 .. N \subseteq S
    BY <1>1, <1>9, <1>10, InductUpTo
  <2> QED
    BY <1>1, <2>1
<1>12. ToSet(own) = {own[k] : k \in 1 .. N}
  BY <1>1 DEF ToSet
<1> QED
  BY <1>7, <1>11, <1>12 DEF S

-----------------------------------------------------------------------------
(***************************************************************************)
(* Merges.                                                                 *)
(***************************************************************************)
Profs == [id : Profiles, ver : Nat, lans : SUBSET Lans, policies : Seq(Nat)]
Cfgs == [lans : Seq(Lans), profiles : Seq(Profs), policies : Seq(Pols)]

\* A merge goes on from another one.
Extends(c, d) == Begins(c.policies, d.policies) /\ Begins(c.profiles, d.profiles)

\* The profiles are those of the sources, in order; they name policies of the
\* merge, and all of its LANs; wire ids are unique if the policies fit.
MergeOK(c, s, n) ==
  /\ c \in Cfgs /\ Len(c.profiles) = n
  /\ \A i \in 1 .. n : c.profiles[i].id = s[i].id /\ c.profiles[i].ver = s[i].ver
  /\ \A i \in 1 .. n : ToSet(c.profiles[i].policies) \subseteq 1 .. Len(c.policies)
  /\ ToSet(c.lans) = UNION {c.profiles[i].lans : i \in 1 .. n}
  /\ Len(c.policies) <= MaxPolicies => IdsOK(c.policies)

LEMMA EmptyOK ==
  ASSUME NEW s
  PROVE  MergeOK(EmptyCfg, s, 0)
<1>1. EmptyCfg \in Cfgs
  BY DEF EmptyCfg, Cfgs
<1>2. ToSet(<<>>) = {} /\ 1 .. 0 = {}
  BY DEF ToSet
<1>3. IdsOK(<<>>)
  BY DEF IdsOK
<1>4. EmptyCfg.profiles = <<>> /\ EmptyCfg.lans = <<>> /\ EmptyCfg.policies = <<>>
  BY DEF EmptyCfg
<1> QED
  BY <1>1, <1>2, <1>3, <1>4 DEF MergeOK

LEMMA MergeOneIs ==
  ASSUME NEW out \in Cfgs, NEW src \in Srcs
  PROVE  LET r == MergeOne(out, src)
             m == Len(out.profiles)
         IN  /\ r \in Cfgs /\ Extends(out, r) /\ Len(r.profiles) = m + 1
             /\ r.profiles[m + 1].id = src.id /\ r.profiles[m + 1].ver = src.ver
             /\ ToSet(r.profiles[m + 1].policies) \subseteq 1 .. Len(r.policies)
             /\ ToSet(r.lans) = ToSet(out.lans) \cup r.profiles[m + 1].lans
             /\ IdsOK(out.policies) /\ Len(r.policies) <= MaxPolicies => IdsOK(r.policies)
<1> DEFINE own == LoadProfile(src.id, src.ver)
           n == Len(out.policies)
           m == Len(out.profiles)
           ps == AppendPolicies(out.policies, own)
           ls == AppendLans(out.lans, LansOf[src.id])
           at == [i \in 1 .. Len(own) |-> n + i]
           pr == [id |-> src.id, ver |-> src.ver, lans |-> ToSet(LansOf[src.id]), policies |-> at]
           qs == Append(out.profiles, pr)
<1>1. /\ src.id \in Profiles /\ src.ver \in Nat /\ src.ver \in DOMAIN Data[src.id]
      /\ out.lans \in Seq(Lans) /\ out.profiles \in Seq(Profs) /\ out.policies \in Seq(Pols)
  BY DEF Srcs, Cfgs
<1>2. own \in Seq(Pols) /\ LansOf[src.id] \in Seq(Lans)
  BY <1>1, ProfileTyped, TablesAssumption
<1>3. MergeOne(out, src) = [lans |-> ls, policies |-> ps, profiles |-> qs]
  BY DEF MergeOne
<1> HIDE DEF own
<1>4. /\ ps \in Seq(Pols) /\ Len(ps) = n + Len(own) /\ Begins(out.policies, ps)
      /\ IdsOK(out.policies) /\ Len(ps) <= MaxPolicies => IdsOK(ps)
  BY <1>1, <1>2, AppendPoliciesIs
<1>5. ls \in Seq(Lans) /\ ToSet(ls) = ToSet(out.lans) \cup ToSet(LansOf[src.id])
  BY <1>1, <1>2, AppendLansIs
<1>6. ToSet(LansOf[src.id]) \in SUBSET Lans
  <2>1. \A i \in 1 .. Len(LansOf[src.id]) : LansOf[src.id][i] \in Lans
    BY <1>2, ElementOfSeq
  <2>2. DOMAIN LansOf[src.id] = 1 .. Len(LansOf[src.id])
    BY <1>2
  <2> QED
    BY <2>1, <2>2 DEF ToSet
<1>7. at \in Seq(Nat) /\ ToSet(at) \subseteq 1 .. Len(ps)
  <2>1. n \in Nat /\ Len(own) \in Nat
    BY <1>1, <1>2
  <2>2. at \in [1 .. Len(own) -> Nat] /\ \A i \in 1 .. Len(own) : at[i] \in 1 .. Len(ps)
    BY <1>4, <2>1
  <2> QED
    BY <2>1, <2>2 DEF ToSet
<1> HIDE DEF at, ps, ls, n
<1>8. pr \in Profs
  BY <1>1, <1>6, <1>7 DEF Profs
<1>9. pr.id = src.id /\ pr.ver = src.ver /\ pr.lans = ToSet(LansOf[src.id]) /\ pr.policies = at
  OBVIOUS
<1> HIDE DEF pr
<1>10. /\ qs \in Seq(Profs) /\ Len(qs) = m + 1 /\ qs[m + 1] = pr
       /\ \A i \in 1 .. m : qs[i] = out.profiles[i]
       /\ m \in Nat
  BY <1>1, <1>8, AppendProperties
<1> HIDE DEF qs
<1>11. Begins(out.profiles, qs)
  BY <1>10 DEF Begins
<1> DEFINE r == MergeOne(out, src)
<1>12. r \in Cfgs /\ r.lans = ls /\ r.policies = ps /\ r.profiles = qs
  BY <1>3, <1>4, <1>5, <1>10 DEF Cfgs
<1> HIDE DEF r
<1>13. Extends(out, r)
  BY <1>4, <1>11, <1>12 DEF Extends
<1> QED
  BY <1>4, <1>5, <1>7, <1>9, <1>10, <1>12, <1>13 DEF r

LEMMA MergeOneOK ==
  ASSUME NEW s \in Seq(Srcs), NEW n \in 0 .. Len(s) - 1, NEW c, MergeOK(c, s, n)
  PROVE  MergeOK(MergeOne(c, s[n + 1]), s, n + 1) /\ Extends(c, MergeOne(c, s[n + 1]))
<1> DEFINE r == MergeOne(c, s[n + 1])
<1>1. s[n + 1] \in Srcs /\ c \in Cfgs /\ Len(c.profiles) = n /\ n \in Nat
  <2>1. n + 1 \in 1 .. Len(s)
    OBVIOUS
  <2> QED
    BY <2>1, ElementOfSeq DEF MergeOK
<1>2. /\ r \in Cfgs /\ Extends(c, r) /\ Len(r.profiles) = n + 1
      /\ r.profiles[n + 1].id = s[n + 1].id /\ r.profiles[n + 1].ver = s[n + 1].ver
      /\ ToSet(r.profiles[n + 1].policies) \subseteq 1 .. Len(r.policies)
      /\ ToSet(r.lans) = ToSet(c.lans) \cup r.profiles[n + 1].lans
      /\ IdsOK(c.policies) /\ Len(r.policies) <= MaxPolicies => IdsOK(r.policies)
  BY <1>1, MergeOneIs
<1> HIDE DEF r
<1>3. \A i \in 1 .. n : r.profiles[i] = c.profiles[i]
  BY <1>1, <1>2 DEF Extends, Begins
<1>4. Len(c.policies) \in Nat /\ Len(r.policies) \in Nat /\ Len(c.policies) <= Len(r.policies)
  BY <1>1, <1>2 DEF Cfgs, Extends, Begins
<1>5. \A i \in 1 .. n + 1 : i \in 1 .. n \/ i = n + 1
  BY <1>1
<1>6. \A i \in 1 .. n + 1 : r.profiles[i].id = s[i].id /\ r.profiles[i].ver = s[i].ver
  BY <1>2, <1>3, <1>5 DEF MergeOK
<1>7. \A i \in 1 .. n + 1 : ToSet(r.profiles[i].policies) \subseteq 1 .. Len(r.policies)
  <2>1. 1 .. Len(c.policies) \subseteq 1 .. Len(r.policies)
    BY <1>4
  <2>2. ASSUME NEW i \in 1 .. n PROVE ToSet(r.profiles[i].policies) \subseteq 1 .. Len(r.policies)
    BY <1>3, <2>1 DEF MergeOK
  <2> QED
    BY <1>2, <1>5, <2>2
<1>8. ToSet(r.lans) = UNION {r.profiles[i].lans : i \in 1 .. n + 1}
  <2>1. ToSet(c.lans) = UNION {r.profiles[i].lans : i \in 1 .. n}
    <3>1. {r.profiles[i].lans : i \in 1 .. n} = {c.profiles[i].lans : i \in 1 .. n}
      BY <1>3
    <3> QED
      BY <3>1 DEF MergeOK
  <2>2. {r.profiles[i].lans : i \in 1 .. n + 1} =
          {r.profiles[i].lans : i \in 1 .. n} \cup {r.profiles[n + 1].lans}
    <3>1. 1 .. n + 1 = (1 .. n) \cup {n + 1}
      BY <1>1
    <3> QED
      BY <3>1
  <2> QED
    BY <1>2, <2>1, <2>2
<1>9. Len(r.policies) <= MaxPolicies => IdsOK(r.policies)
  BY <1>2, <1>4, TablesAssumption DEF MergeOK
<1>10. MergeOK(r, s, n + 1)
  BY <1>2, <1>6, <1>7, <1>8, <1>9 DEF MergeOK
<1> QED
  BY <1>2, <1>10 DEF r

\* The merges of the first sources.
Runs(a, s) ==
  /\ a[0] = EmptyCfg /\ \A n \in 1 .. Len(s) : a[n] = MergeOne(a[n - 1], s[n])

LEMMA MergeRun ==
  ASSUME NEW s \in Seq(Srcs)
  PROVE  \E a : Runs(a, s) /\ MergedConfig(s) = a[Len(s)]
<1> DEFINE N == Len(s)
           Is(a) == a = [n \in 0 .. N |-> IF n = 0 THEN EmptyCfg ELSE MergeOne(a[n - 1], s[n])]
           after == CHOOSE a : Is(a)
           step == [n \in 1 .. N |-> [x \in Cfgs |-> MergeOne(x, s[n])]]
<1>1. N \in Nat /\ \A n \in 1 .. N : s[n] \in Srcs
  BY ElementOfSeq
<1> HIDE DEF N
<1>2. EmptyCfg \in Cfgs
  BY EmptyOK DEF MergeOK
<1>3. IsStep(step, N, Cfgs)
  BY <1>1, MergeOneIs DEF IsStep
<1>4. PICK a : Follows(a, EmptyCfg, step, N, Cfgs)
  <2> HIDE DEF step
  <2> QED
    BY <1>1, <1>2, <1>3, RecursionExists
<1>5. Is(a)
  <2>1. /\ a \in [0 .. N -> Cfgs] /\ a[0] = EmptyCfg
        /\ \A n \in 1 .. N : a[n] = step[n][a[n - 1]]
    BY <1>4 DEF Follows
  <2>2. \A n \in 1 .. N : a[n] = MergeOne(a[n - 1], s[n])
    <3> SUFFICES ASSUME NEW n \in 1 .. N PROVE a[n] = MergeOne(a[n - 1], s[n])
      OBVIOUS
    <3>1. n - 1 \in 0 .. N /\ a[n - 1] \in Cfgs
      BY <1>1, <2>1
    <3> QED
      BY <2>1, <3>1
  <2>3. \A n \in 0 .. N : a[n] = IF n = 0 THEN EmptyCfg ELSE MergeOne(a[n - 1], s[n])
    BY <1>1, <2>1, <2>2
  <2> QED
    BY <2>1, <2>3
<1>6. Is(after)
  BY <1>5
<1>7. MergedConfig(s) = after[N]
  BY DEF MergedConfig, N
<1> HIDE DEF after
<1>8. after[0] = EmptyCfg /\ \A n \in 1 .. N : after[n] = MergeOne(after[n - 1], s[n])
  BY <1>1, <1>6
<1> QED
  BY <1>7, <1>8 DEF Runs, N

LEMMA RunsOK ==
  ASSUME NEW s \in Seq(Srcs), NEW a, Runs(a, s)
  PROVE  /\ \A n \in 0 .. Len(s) : MergeOK(a[n], s, n)
         /\ \A n \in 0 .. Len(s) - 1 : Extends(a[n], a[n + 1])
<1> DEFINE N == Len(s)
           S == {n \in 0 .. N : MergeOK(a[n], s, n)}
<1>1. N \in Nat
  OBVIOUS
<1>2. ASSUME NEW n \in 0 .. N - 1 PROVE a[n + 1] = MergeOne(a[n], s[n + 1])
  <2>1. n + 1 \in 1 .. N /\ (n + 1) - 1 = n
    BY <1>1
  <2> QED
    BY <2>1 DEF Runs
<1>3. 0 \in S
  BY <1>1, EmptyOK DEF Runs
<1>4. ASSUME NEW n \in 0 .. N - 1, n \in S PROVE n + 1 \in S
  <2>1. n + 1 \in 0 .. N
    BY <1>1
  <2> QED
    BY <1>2, <1>4, <2>1, MergeOneOK
<1>5. 0 .. N \subseteq S
  <2> HIDE DEF S, N
  <2> QED
    BY <1>1, <1>3, <1>4, InductUpTo
<1>6. ASSUME NEW n \in 0 .. N - 1 PROVE Extends(a[n], a[n + 1])
  <2>1. n \in 0 .. N
    BY <1>1
  <2> QED
    BY <1>2, <1>5, <2>1, MergeOneOK
<1> QED
  BY <1>5, <1>6

\* A merge is what its profiles say.
LEMMA MergedIs ==
  ASSUME NEW s \in Seq(Srcs)
  PROVE  MergeOK(MergedConfig(s), s, Len(s))
<1>1. PICK a : Runs(a, s) /\ MergedConfig(s) = a[Len(s)]
  BY MergeRun
<1>2. Len(s) \in 0 .. Len(s)
  OBVIOUS
<1> QED
  BY <1>1, <1>2, RunsOK

LEMMA SourcesAre ==
  ASSUME NEW s \in Seq(Srcs)
  PROVE  SourcesOf(MergedConfig(s)) = s
<1> DEFINE c == MergedConfig(s)
           u == SourcesOf(c)
<1>1. /\ Len(s) \in Nat /\ Len(c.profiles) = Len(s)
      /\ \A i \in 1 .. Len(s) : c.profiles[i].id = s[i].id /\ c.profiles[i].ver = s[i].ver
  BY MergedIs DEF MergeOK
<1> HIDE DEF c
<1>2. u = [i \in 1 .. Len(s) |-> [id |-> c.profiles[i].id, ver |-> c.profiles[i].ver]]
  BY <1>1 DEF SourcesOf
<1>3. \A i \in 1 .. Len(s) : s[i] \in Srcs /\ s[i] = [id |-> s[i].id, ver |-> s[i].ver]
  <2>1. \A i \in 1 .. Len(s) : s[i] \in Srcs
    BY ElementOfSeq
  <2> QED
    BY <2>1 DEF Srcs
<1>4. \A i \in 1 .. Len(s) : u[i] = s[i]
  BY <1>1, <1>2, <1>3
<1>5. s = [i \in 1 .. Len(s) |-> s[i]]
  OBVIOUS
<1>6. u = s
  BY <1>1, <1>2, <1>4, <1>5
<1> QED
  BY <1>6 DEF c

\* Two merges agree as far as their sources do.
LEMMA MergedBegins ==
  ASSUME NEW s \in Seq(Srcs), NEW n \in 0 .. Len(s)
  PROVE  Extends(MergedConfig(SubSeq(s, 1, n)), MergedConfig(s))
<1> DEFINE N == Len(s)
           t == SubSeq(s, 1, n)
<1>1. N \in Nat /\ n \in Nat /\ n <= N
  OBVIOUS
<1>2. t \in Seq(Srcs) /\ Len(t) = n /\ \A i \in 1 .. n : t[i] = s[i]
  <2>1. \A i \in 1 .. n : s[i] \in Srcs
    BY <1>1, ElementOfSeq
  <2> QED
    BY <1>1, <2>1, SubSeqProperties
<1> HIDE DEF t
<1>3. PICK a : Runs(a, s) /\ MergedConfig(s) = a[N]
  BY MergeRun
<1>4. PICK b : Runs(b, t) /\ MergedConfig(t) = b[n]
  BY <1>2, MergeRun
<1>5. b[n] = a[n]
  <2> DEFINE S == {k \in 0 .. n : b[k] = a[k]}
  <2>1. 0 \in S
    BY <1>1, <1>3, <1>4 DEF Runs
  <2>2. ASSUME NEW k \in 0 .. n - 1, k \in S PROVE k + 1 \in S
    <3>1. k + 1 \in 1 .. n /\ k + 1 \in 1 .. N /\ (k + 1) - 1 = k /\ k + 1 \in 0 .. n
      BY <1>1
    <3> QED
      BY <1>2, <1>3, <1>4, <2>2, <3>1 DEF Runs
  <2> HIDE DEF S
  <2>3. 0 .. n \subseteq S
    BY <1>1, <2>1, <2>2, InductUpTo
  <2>4. n \in S
    BY <1>1, <2>3
  <2> QED
    BY <2>4 DEF S
<1>6. Extends(a[n], a[N])
  <2> DEFINE S == {k \in 0 .. N - n : Extends(a[n], a[n + k])}
  <2>0. /\ \A k \in 0 .. N : a[k] \in Cfgs
        /\ \A k \in 0 .. N - 1 : Extends(a[k], a[k + 1])
    BY <1>3, RunsOK DEF MergeOK
  <2>1. 0 \in S
    <3>1. a[n] \in Cfgs /\ n + 0 = n /\ 0 \in 0 .. N - n
      BY <1>1, <2>0
    <3>2. Extends(a[n], a[n])
      BY <3>1 DEF Extends, Begins, Cfgs
    <3> QED
      BY <3>1, <3>2
  <2>2. ASSUME NEW k \in 0 .. (N - n) - 1, k \in S PROVE k + 1 \in S
    <3>1. /\ n + k \in 0 .. N - 1 /\ n + k \in 0 .. N /\ (n + k) + 1 = n + (k + 1)
          /\ n + (k + 1) \in 0 .. N /\ k + 1 \in 0 .. N - n
      BY <1>1
    <3>2. Extends(a[n], a[n + k]) /\ Extends(a[n + k], a[n + (k + 1)])
      BY <2>0, <2>2, <3>1
    <3>3. a[n] \in Cfgs /\ a[n + k] \in Cfgs /\ a[n + (k + 1)] \in Cfgs
      BY <2>0, <3>1
    <3>4. Extends(a[n], a[n + (k + 1)])
      BY <3>2, <3>3, BeginsOn DEF Extends, Cfgs
    <3> QED
      BY <3>1, <3>4
  <2> HIDE DEF S
  <2>3. N - n \in Nat
    BY <1>1
  <2>4. 0 .. N - n \subseteq S
    <3> DEFINE d == N - n
    <3>1. d \in Nat /\ \A k \in 0 .. d - 1 : k \in S => k + 1 \in S
      BY <2>2, <2>3
    <3> HIDE DEF d
    <3>2. 0 .. d \subseteq S
      BY <2>1, <3>1, InductUpTo
    <3> QED
      BY <3>2 DEF d
  <2>5. N - n \in S /\ n + (N - n) = N
    BY <1>1, <2>3, <2>4
  <2> QED
    BY <2>5 DEF S
<1> QED
  BY <1>3, <1>4, <1>5, <1>6 DEF t

-----------------------------------------------------------------------------
(***************************************************************************)
(* The crypto runtime is a function of its policies: copied contexts hold  *)
(* the keys that derived ones would.                                       *)
(***************************************************************************)
KeysFor(ps) == [i \in 1 .. Len(ps) |-> IF Usable(ps[i]) THEN ps[i].key ELSE NoKey]

IndexAt(ps, x) ==
  {i \in DOMAIN ps : Usable(ps[i]) /\ <<ps[i].action, ps[i].id>> = x}

RtFor(ps) ==
  [policies |-> ps, keys |-> KeysFor(ps),
   index |-> [x \in Actions \X Wire |-> FirstOf(IndexAt(ps, x))]]

RtOK(t) ==
  t.policies \in Seq(Pols) /\ Len(t.policies) <= MaxPolicies /\ t = RtFor(t.policies)

(***************************************************************************)
(* The inductive invariant.  The forwarder is started once at most, so the *)
(* tables of an earlier run are empty ones and no grace period begins.     *)
(***************************************************************************)
CfgOK(c) ==
  SourcesOf(c) \in Seq(Srcs) /\ c = MergedConfig(SourcesOf(c)) /\ Fits(c)

TablesInv ==
  /\ version \in [Profiles -> Nat] /\ \A p \in Profiles : version[p] \in DOMAIN Data[p]
  /\ active \in Seq(Profiles) /\ up = (active # <<>>) /\ stopped \in BOOLEAN
  /\ CfgOK(cfg) /\ RtOK(rt)
  /\ replaced = [rt |-> replaced.rt, left |-> replaced.left]
  /\ RtOK(replaced.rt) /\ replaced.left \in 0 .. Grace
  /\ up => rt.policies = cfg.policies
  /\ ~ up /\ ~ stopped => rt = EmptyRt
  /\ prev = EmptyRt /\ grace = 0

LEMMA FirstOfIs ==
  ASSUME NEW S, S \subseteq Nat
  PROVE  /\ S = {} => FirstOf(S) = 0
         /\ S # {} => FirstOf(S) \in S /\ \A j \in S : FirstOf(S) <= j
<1>1. CASE S = {}
  BY <1>1 DEF FirstOf
<1>2. CASE S # {}
  <2>1. \E i \in S : \A j \in S : i <= j
    BY <1>2, LeastNat
  <2> QED
    BY <1>2, <2>1 DEF FirstOf
<1> QED
  BY <1>1, <1>2

LEMMA RtIs ==
  ASSUME NEW ps \in Seq(Pols)
  PROVE  LET t == RtFor(ps)
         IN  /\ t.policies = ps /\ t.keys = KeysFor(ps)
             /\ \A x \in Actions \X Wire : t.index[x] = FirstOf(IndexAt(ps, x))
             /\ Len(t.keys) = Len(ps) /\ DOMAIN t.keys = 1 .. Len(ps)
             /\ \A i \in 1 .. Len(ps) : t.keys[i] = IF Usable(ps[i]) THEN ps[i].key ELSE NoKey
<1> DEFINE t == RtFor(ps)
           n == Len(ps)
<1>1. n \in Nat
  OBVIOUS
<1>2. t.policies = ps /\ t.keys = KeysFor(ps)
  BY DEF RtFor
<1>3. \A x \in Actions \X Wire : t.index[x] = FirstOf(IndexAt(ps, x))
  BY DEF RtFor
<1> HIDE DEF t
<1>4. /\ DOMAIN KeysFor(ps) = 1 .. n
      /\ \A i \in 1 .. n : KeysFor(ps)[i] = IF Usable(ps[i]) THEN ps[i].key ELSE NoKey
  BY DEF KeysFor
<1>5. Len(KeysFor(ps)) = n
  BY <1>1, <1>4
<1> QED
  BY <1>2, <1>3, <1>4, <1>5 DEF t

LEMMA RebuildIs ==
  ASSUME NEW old, RtOK(old), NEW ps \in Seq(Pols)
  PROVE  Rebuild(old, ps) = RtFor(ps)
<1> DEFINE n == Len(ps)
           ops == old.policies
<1>1. /\ ops \in Seq(Pols) /\ n \in Nat /\ DOMAIN ps = 1 .. n
      /\ DOMAIN ops = 1 .. Len(ops) /\ Len(ops) \in Nat
  BY DEF RtOK
<1>2. \A i \in DOMAIN ops : old.keys[i] = IF Usable(ops[i]) THEN ops[i].key ELSE NoKey
  <2>1. old = RtFor(ops)
    BY DEF RtOK
  <2> HIDE DEF ops
  <2> QED
    BY <1>1, <2>1, RtIs
<1>3. ASSUME NEW i \in 1 .. n
      PROVE  ContextKey(old, ps[i]) = IF Usable(ps[i]) THEN ps[i].key ELSE NoKey
  <2> DEFINE same == {k \in DOMAIN ops : old.keys[k] # NoKey /\ SameCryptoPolicy(ops[k], ps[i])}
             least == CHOOSE k \in same : \A j \in same : k <= j
  <2>1. CASE ~ Usable(ps[i])
    BY <2>1 DEF ContextKey
  <2>2. CASE Usable(ps[i]) /\ same = {}
    BY <2>2 DEF ContextKey
  <2>3. CASE Usable(ps[i]) /\ same # {}
    <3>1. ContextKey(old, ps[i]) = old.keys[least]
      BY <2>3 DEF ContextKey
    <3>2. same \subseteq Nat
      BY <1>1
    <3>3. \E k \in same : \A j \in same : k <= j
      <4> HIDE DEF same
      <4> QED
        BY <2>3, <3>2, LeastNat
    <3>4. least \in same
      BY <3>3
    <3>5. ops[least] = ps[i] /\ least \in DOMAIN ops
      BY <3>4 DEF SameCryptoPolicy
    <3> HIDE DEF least
    <3>6. old.keys[least] = ps[i].key
      BY <1>2, <2>3, <3>5
    <3> QED
      BY <2>3, <3>1, <3>6
  <2> QED
    BY <2>1, <2>2, <2>3
<1>4. [i \in 1 .. n |-> ContextKey(old, ps[i])] = KeysFor(ps)
  BY <1>3 DEF KeysFor
<1>5. \A x \in Actions \X Wire :
        FirstOf(IndexAt(ps, x)) =
          LET at == {i \in DOMAIN ps : Usable(ps[i]) /\ <<ps[i].action, ps[i].id>> = x}
          IN IF at = {} THEN 0 ELSE CHOOSE i \in at : \A j \in at : i <= j
  BY DEF FirstOf, IndexAt
<1>6. [x \in Actions \X Wire |->
          LET at == {i \in DOMAIN ps : Usable(ps[i]) /\ <<ps[i].action, ps[i].id>> = x}
          IN IF at = {} THEN 0 ELSE CHOOSE i \in at : \A j \in at : i <= j]
        = [x \in Actions \X Wire |-> FirstOf(IndexAt(ps, x))]
  BY <1>5
<1> QED
  BY <1>4, <1>6 DEF Rebuild, RtFor

LEMMA RtForOK ==
  ASSUME NEW ps \in Seq(Pols), Len(ps) <= MaxPolicies
  PROVE  RtOK(RtFor(ps))
<1>1. RtFor(ps).policies = ps
  BY DEF RtFor
<1> QED
  BY <1>1 DEF RtOK

LEMMA EmptyRtOK == RtOK(EmptyRt) /\ EmptyRt = RtFor(<<>>)
<1>1. <<>> \in Seq(Pols) /\ Len(<<>>) = 0 /\ DOMAIN <<>> = {} /\ 1 .. 0 = {}
  OBVIOUS
<1>2. Len(<<>>) <= MaxPolicies
  BY <1>1, TablesAssumption
<1>3. KeysFor(<<>>) = <<>>
  BY <1>1 DEF KeysFor
<1>4. \A x \in Actions \X Wire : FirstOf(IndexAt(<<>>, x)) = 0
  BY <1>1 DEF FirstOf, IndexAt
<1>5. EmptyRt = RtFor(<<>>)
  BY <1>3, <1>4 DEF EmptyRt, RtFor
<1> QED
  BY <1>1, <1>2, <1>5, RtForOK

LEMMA TableTyped ==
  ASSUME NEW t, RtOK(t)
  PROVE  TableOK(t)
<1> DEFINE ps == t.policies
<1>1. ps \in Seq(Pols) /\ Len(ps) <= MaxPolicies /\ t = RtFor(ps) /\ DOMAIN ps = 1 .. Len(ps)
  BY DEF RtOK
<1> HIDE DEF ps
<1>2. /\ t.policies = ps /\ Len(t.keys) = Len(ps) /\ DOMAIN t.keys = 1 .. Len(ps)
      /\ \A x \in Actions \X Wire : t.index[x] = FirstOf(IndexAt(ps, x))
      /\ \A i \in 1 .. Len(ps) : t.keys[i] = IF Usable(ps[i]) THEN ps[i].key ELSE NoKey
  BY <1>1, RtIs
<1>3. ASSUME NEW x \in Actions \X Wire, t.index[x] # 0
      PROVE  t.index[x] \in DOMAIN t.keys /\ t.keys[t.index[x]] # NoKey
  <2>1. IndexAt(ps, x) \subseteq Nat
    BY <1>1 DEF IndexAt
  <2>2. FirstOf(IndexAt(ps, x)) \in IndexAt(ps, x)
    BY <1>2, <1>3, <2>1, FirstOfIs
  <2>3. t.index[x] \in 1 .. Len(ps) /\ Usable(ps[t.index[x]])
    BY <1>1, <1>2, <2>2 DEF IndexAt
  <2> QED
    BY <1>2, <2>3 DEF Usable
<1> QED
  BY <1>1, <1>2, <1>3 DEF TableOK

-----------------------------------------------------------------------------
(***************************************************************************)
(* The invariant is inductive.                                             *)
(***************************************************************************)
LEMMA PartTyped ==
  ASSUME NEW s \in Seq(Profiles), NEW m \in 1 .. Len(s) + 1, NEW n \in 0 .. Len(s)
  PROVE  /\ SubSeq(s, m, n) \in Seq(Profiles)
         /\ Len(SubSeq(s, m, n)) = IF m <= n THEN n - m + 1 ELSE 0
<1>1. Len(s) \in Nat
  OBVIOUS
<1>2. \A i \in m .. n : i \in 1 .. Len(s)
  BY <1>1
<1>3. \A i \in m .. n : s[i] \in Profiles
  BY <1>2, ElementOfSeq
<1>4. m \in Int /\ n \in Int
  BY <1>1
<1> QED
  BY <1>3, <1>4, SubSeqProperties


LEMMA WithoutTyped ==
  ASSUME NEW s \in Seq(Profiles), NEW p, Contains(s, p)
  PROVE  Without(s, p) \in Seq(Profiles) /\ Len(Without(s, p)) = Len(s) - 1
<1> DEFINE k == CHOOSE i \in DOMAIN s : s[i] = p
           a == SubSeq(s, 1, k - 1)
           b == SubSeq(s, k + 1, Len(s))
<1>1. k \in 1 .. Len(s) /\ Len(s) \in Nat
  BY DEF Contains
<1> HIDE DEF k
<1>2. a \in Seq(Profiles) /\ Len(a) = k - 1
  <2>1. k - 1 \in 0 .. Len(s) /\ 1 \in 1 .. Len(s) + 1
    BY <1>1
  <2>2. a \in Seq(Profiles) /\ Len(a) = IF 1 <= k - 1 THEN k - 1 - 1 + 1 ELSE 0
    BY <2>1, PartTyped
  <2> QED
    BY <1>1, <2>2
<1>3. b \in Seq(Profiles) /\ Len(b) = Len(s) - k
  <2>1. k + 1 \in 1 .. Len(s) + 1 /\ Len(s) \in 0 .. Len(s)
    BY <1>1
  <2>2. b \in Seq(Profiles) /\ Len(b) = IF k + 1 <= Len(s) THEN Len(s) - (k + 1) + 1 ELSE 0
    BY <2>1, PartTyped
  <2> QED
    BY <1>1, <2>2
<1>4. Without(s, p) = a \o b
  BY DEF Without, RemoveAt, k
<1> HIDE DEF a, b
<1>5. a \o b \in Seq(Profiles) /\ Len(a \o b) = Len(a) + Len(b)
  BY <1>2, <1>3, ConcatProperties
<1> QED
  BY <1>1, <1>2, <1>3, <1>4, <1>5

LEMMA SourcesTyped ==
  ASSUME TablesInv, NEW ids \in Seq(Profiles)
  PROVE  Sources(ids) \in Seq(Srcs)
<1>1. Len(ids) \in Nat /\ \A i \in 1 .. Len(ids) : ids[i] \in Profiles
  BY ElementOfSeq
<1>2. \A p \in Profiles : [id |-> p, ver |-> version[p]] \in Srcs
  <2> SUFFICES ASSUME NEW p \in Profiles PROVE [id |-> p, ver |-> version[p]] \in Srcs
    OBVIOUS
  <2>1. version[p] \in Nat /\ version[p] \in DOMAIN Data[p]
    BY DEF TablesInv
  <2> QED
    BY <2>1 DEF Srcs
<1>3. Sources(ids) \in [1 .. Len(ids) -> Srcs]
  BY <1>1, <1>2 DEF Sources
<1> QED
  BY <1>1, <1>3

LEMMA MergeFits ==
  ASSUME NEW s \in Seq(Srcs), Fits(MergedConfig(s))
  PROVE  CfgOK(MergedConfig(s))
BY SourcesAre DEF CfgOK

LEMMA CfgTyped ==
  ASSUME NEW c, CfgOK(c)
  PROVE  c \in Cfgs /\ c.policies \in Seq(Pols) /\ Len(c.policies) <= MaxPolicies /\ IdsOK(c.policies)
<1> DEFINE s == SourcesOf(c)
<1>1. s \in Seq(Srcs) /\ c = MergedConfig(s) /\ Fits(c)
  BY DEF CfgOK
<1> HIDE DEF s
<1>2. MergeOK(c, s, Len(s))
  BY <1>1, MergedIs
<1> QED
  BY <1>1, <1>2 DEF MergeOK, Cfgs, Fits

\* A reload leaves the runtime alone only if it fits the new configuration.
LEMMA Reloaded ==
  ASSUME TablesInv, up, NEW new, CfgOK(new), HotReload(new)
  PROVE  /\ CfgOK(cfg') /\ RtOK(rt') /\ rt'.policies = cfg'.policies
         /\ replaced' = [rt |-> replaced'.rt, left |-> replaced'.left]
         /\ RtOK(replaced'.rt) /\ replaced'.left \in 0 .. Grace
<1> DEFINE ps == new.policies
<1>1. ps \in Seq(Pols) /\ Len(ps) <= MaxPolicies /\ cfg.policies \in Seq(Pols)
  BY CfgTyped DEF TablesInv
<1>2. cfg' = new
  BY DEF HotReload
<1>3. CASE CryptoRuntimeChanged(new)
  <2>1. rt' = Rebuild(rt, ps) /\ replaced' = [rt |-> rt, left |-> Grace]
    BY <1>3 DEF HotReload
  <2> HIDE DEF ps
  <2>2. rt' = RtFor(ps)
    BY <1>1, <2>1, RebuildIs DEF TablesInv
  <2>3. RtOK(rt') /\ rt'.policies = ps
    BY <1>1, <2>2, RtForOK DEF RtFor
  <2>4. Grace \in 0 .. Grace
    BY TablesAssumption
  <2> QED
    BY <1>2, <2>1, <2>3, <2>4 DEF ps, TablesInv
<1>4. CASE ~ CryptoRuntimeChanged(new)
  <2>1. UNCHANGED <<rt, replaced>>
    BY <1>4 DEF HotReload
  <2>2. Len(cfg.policies) = Len(ps) /\ \A i \in DOMAIN cfg.policies : cfg.policies[i] = ps[i]
    BY <1>4 DEF CryptoRuntimeChanged, SameCryptoPolicy
  <2>3. cfg.policies = ps
    <3> DEFINE qs == cfg.policies
    <3> HIDE DEF qs, ps
    <3>1. qs \in Seq(Pols) /\ ps \in Seq(Pols) /\ Len(qs) = Len(ps) /\ \A i \in DOMAIN qs : qs[i] = ps[i]
      BY <1>1, <2>2 DEF qs
    <3>2. qs = ps
      BY <3>1
    <3> QED
      BY <3>2 DEF qs
  <2> QED
    BY <1>2, <2>1, <2>3 DEF TablesInv
<1> QED
  BY <1>3, <1>4

LEMMA TablesInitially ==
  ASSUME Init
  PROVE  TablesInv
<1>1. \A p \in Profiles : 1 \in DOMAIN Data[p]
  <2> SUFFICES ASSUME NEW p \in Profiles PROVE 1 \in DOMAIN Data[p]
    OBVIOUS
  <2>1. Data[p] \in Seq(Seq(Rows) \ {<<>>}) /\ Data[p] # <<>>
    BY TablesAssumption
  <2>2. Len(Data[p]) \in Nat \ {0} /\ DOMAIN Data[p] = 1 .. Len(Data[p])
    BY <2>1, EmptySeq
  <2> QED
    BY <2>2
<1>2. <<>> \in Seq(Srcs) /\ Len(<<>>) = 0 /\ 0 \in 0 .. 0
  OBVIOUS
<1>3. MergedConfig(<<>>) = EmptyCfg
  <2>1. PICK a : Runs(a, <<>>) /\ MergedConfig(<<>>) = a[Len(<<>>)]
    BY <1>2, MergeRun
  <2> QED
    BY <1>2, <2>1 DEF Runs
<1>4. Fits(EmptyCfg)
  <2>1. EmptyCfg.policies = <<>>
    BY DEF EmptyCfg
  <2> QED
    BY <1>2, <2>1, TablesAssumption DEF Fits
<1>5. CfgOK(EmptyCfg)
  BY <1>2, <1>3, <1>4, MergeFits
<1>6. RtOK(EmptyRt)
  BY EmptyRtOK
<1>7. version \in [Profiles -> Nat] /\ \A p \in Profiles : version[p] \in DOMAIN Data[p]
  BY <1>1 DEF Init
<1>8. active \in Seq(Profiles) /\ up = (active # <<>>) /\ stopped \in BOOLEAN /\ ~ up
  <2>1. <<>> \in Seq(Profiles)
    OBVIOUS
  <2>2. up = (active # <<>>) /\ stopped \in BOOLEAN /\ ~ up
    BY Zenon DEF Init
  <2> QED
    BY <2>1, <2>2 DEF Init
<1>9. replaced.rt = EmptyRt /\ replaced.left = 0 /\ replaced = [rt |-> EmptyRt, left |-> 0]
  BY DEF Init
<1>10. 0 \in 0 .. Grace
  BY TablesAssumption
<1>11. cfg = EmptyCfg /\ rt = EmptyRt /\ prev = EmptyRt /\ grace = 0
  BY DEF Init
<1> QED
  BY <1>5, <1>6, <1>7, <1>8, <1>9, <1>10, <1>11 DEF TablesInv

\* What the steps that leave the database and the start-up tables alone must
\* still show.
LEMMA Kept ==
  ASSUME TablesInv, UNCHANGED <<version, stopped, prev, grace>>,
         active' \in Seq(Profiles), up' = (active' # <<>>),
         CfgOK(cfg'), RtOK(rt'),
         replaced' = [rt |-> replaced'.rt, left |-> replaced'.left],
         RtOK(replaced'.rt), replaced'.left \in 0 .. Grace,
         up' => rt'.policies = cfg'.policies, up'
  PROVE  TablesInv'
BY DEF TablesInv

LEMMA TablesKept ==
  ASSUME TablesInv, [Next]_vars
  PROVE  TablesInv'
<1>1. ASSUME NEW p \in Profiles, Edit(p) PROVE TablesInv'
  <2>1. PICK v \in DOMAIN Data[p] : version' = [version EXCEPT ![p] = v]
    BY <1>1 DEF Edit
  <2>2. v \in Nat
    BY RowsOf
  <2>3. version' \in [Profiles -> Nat] /\ \A q \in Profiles : version'[q] \in DOMAIN Data[q]
    BY <2>1, <2>2 DEF TablesInv
  <2>4. UNCHANGED <<active, up, stopped, cfg, rt, prev, grace, replaced>>
    BY <1>1 DEF Edit
  <2> QED
    BY <2>3, <2>4 DEF TablesInv
<1>2. ASSUME NEW p \in Profiles, Start(p) PROVE TablesInv'
  <2> DEFINE s == Sources(<<p>>)
             new == MergedConfig(s)
  <2>1. /\ ~ up /\ ~ stopped /\ Fits(new) /\ active' = <<p>> /\ up' = TRUE /\ cfg' = new
        /\ prev' = rt /\ grace' = IF rt.policies = <<>> THEN 0 ELSE Grace
        /\ rt' = Rebuild(rt, new.policies) /\ UNCHANGED <<version, stopped, replaced>>
    BY <1>2 DEF Start
  <2>2. <<p>> \in Seq(Profiles) /\ <<p>> # <<>>
    OBVIOUS
  <2>3. s \in Seq(Srcs)
    BY <2>2, SourcesTyped
  <2> HIDE DEF s
  <2>4. CfgOK(new)
    BY <2>1, <2>3, MergeFits
  <2> HIDE DEF new
  <2>5. new.policies \in Seq(Pols) /\ Len(new.policies) <= MaxPolicies
    BY <2>4, CfgTyped
  <2>6. rt = EmptyRt /\ EmptyRt.policies = <<>>
    BY <2>1 DEF TablesInv, EmptyRt
  <2>7. prev' = EmptyRt /\ grace' = 0
    BY <2>1, <2>6
  <2>8. rt' = RtFor(new.policies)
    BY <2>1, <2>5, RebuildIs DEF TablesInv
  <2>9. RtOK(rt') /\ rt'.policies = new.policies
    BY <2>5, <2>8, RtForOK DEF RtFor
  <2>10. up' = (active' # <<>>) /\ stopped' \in BOOLEAN /\ up'
    BY <2>1, <2>2, Zenon DEF TablesInv
  <2> QED
    BY <2>1, <2>2, <2>4, <2>7, <2>9, <2>10 DEF TablesInv
<1>3. ASSUME NEW p \in Profiles, Load(p) PROVE TablesInv'
  <2> DEFINE ids == Append(active, p)
             new == MergedConfig(Sources(ids))
  <2>1. /\ up /\ active' = ids /\ HotReload(new) /\ UNCHANGED <<version, up, stopped, prev, grace>>
    BY <1>3 DEF Load
  <2>2. ids \in Seq(Profiles) /\ ids # <<>>
    BY AppendProperties DEF TablesInv
  <2> HIDE DEF ids
  <2>3. Sources(ids) \in Seq(Srcs)
    BY <2>2, SourcesTyped
  <2>4. CfgOK(new)
    BY <2>1, <2>3, MergeFits DEF HotReload, Accepted
  <2> HIDE DEF new
  <2>5. /\ CfgOK(cfg') /\ RtOK(rt') /\ rt'.policies = cfg'.policies
        /\ replaced' = [rt |-> replaced'.rt, left |-> replaced'.left]
        /\ RtOK(replaced'.rt) /\ replaced'.left \in 0 .. Grace
    BY <2>1, <2>4, Reloaded
  <2>6. up' = (active' # <<>>) /\ up'
    BY <2>1, <2>2, Zenon DEF TablesInv
  <2> QED
    BY <2>1, <2>2, <2>5, <2>6, Kept
<1>4. ASSUME NEW p \in Profiles, Unload(p) PROVE TablesInv'
  <2> DEFINE ids == Without(active, p)
             new == MergedConfig(Sources(ids))
  <2>1. /\ up /\ active' = ids /\ Contains(active, p) /\ Len(active) > 1
        /\ UNCHANGED <<version, up, stopped, prev, grace>>
        /\ HotReload(new) \/ UNCHANGED <<cfg, rt, replaced>>
    BY <1>4 DEF Unload
  <2>2. ids \in Seq(Profiles) /\ ids # <<>>
    <3>1. ids \in Seq(Profiles) /\ Len(ids) = Len(active) - 1 /\ Len(active) \in Nat
      BY <2>1, WithoutTyped DEF TablesInv
    <3> HIDE DEF ids
    <3>2. Len(active) > 1
      BY <2>1
    <3>3. Len(ids) # 0
      BY <3>1, <3>2
    <3> QED
      BY <3>1, <3>3
  <2> HIDE DEF ids
  <2>3. Sources(ids) \in Seq(Srcs)
    BY <2>2, SourcesTyped
  <2>4. /\ CfgOK(cfg') /\ RtOK(rt') /\ rt'.policies = cfg'.policies
        /\ replaced' = [rt |-> replaced'.rt, left |-> replaced'.left]
        /\ RtOK(replaced'.rt) /\ replaced'.left \in 0 .. Grace
    <3>1. CASE HotReload(new)
      <4>1. CfgOK(new)
        BY <2>3, <3>1, MergeFits DEF HotReload, Accepted
      <4> HIDE DEF new
      <4> QED
        BY <2>1, <3>1, <4>1, Reloaded
    <3>2. CASE UNCHANGED <<cfg, rt, replaced>>
      BY <2>1, <3>2 DEF TablesInv
    <3> QED
      BY <2>1, <3>1, <3>2
  <2>5. up' = (active' # <<>>) /\ up'
    BY <2>1, <2>2, Zenon DEF TablesInv
  <2> QED
    BY <2>1, <2>2, <2>4, <2>5, Kept
<1>5. ASSUME Stop PROVE TablesInv'
  <2>1. /\ active' = <<>> /\ up' = FALSE /\ stopped' = TRUE
        /\ UNCHANGED <<version, cfg, rt, prev, grace, replaced>>
    BY <1>5 DEF Stop
  <2>2. active' \in Seq(Profiles)
    BY <2>1
  <2>3. up' = (active' # <<>>) /\ stopped' \in BOOLEAN /\ ~ up' /\ stopped'
    BY <2>1, Zenon
  <2> QED
    BY <2>1, <2>2, <2>3 DEF TablesInv
<1>6. ASSUME Tick PROVE TablesInv'
  <2>1. /\ grace' = Earlier(grace) /\ replaced' = [replaced EXCEPT !.left = Earlier(@)]
        /\ UNCHANGED <<version, active, up, stopped, cfg, rt, prev>>
    BY <1>6 DEF Tick
  <2> DEFINE l == replaced.left
  <2>2. grace' = 0
    BY <2>1 DEF TablesInv, Earlier
  <2>3. Earlier(l) \in 0 .. Grace
    BY TablesAssumption DEF TablesInv, Earlier
  <2>4. replaced' = [rt |-> replaced.rt, left |-> Earlier(l)]
    BY <2>1 DEF TablesInv
  <2>5. replaced'.rt = replaced.rt /\ replaced'.left = Earlier(l)
    BY <2>4
  <2> QED
    BY <2>1, <2>2, <2>3, <2>4, <2>5 DEF TablesInv
<1>7. ASSUME UNCHANGED vars PROVE TablesInv'
  BY <1>7 DEF vars, TablesInv
<1> QED
  BY <1>1, <1>2, <1>3, <1>4, <1>5, <1>6, <1>7 DEF Next

LEMMA TablesInductive == Spec => []TablesInv
<1>1. Init => TablesInv
  BY TablesInitially
<1>2. TablesInv /\ [Next]_vars => TablesInv'
  BY TablesKept
<1> QED
  BY <1>1, <1>2, PTL DEF Spec

-----------------------------------------------------------------------------
(***************************************************************************)
(* Type correctness, and the uniqueness of wire ids.                       *)
(***************************************************************************)
LEMMA TablesTyped == TablesInv => TypeOK
<1> SUFFICES ASSUME TablesInv PROVE TypeOK
  OBVIOUS
<1>1. TableOK(rt) /\ TableOK(prev)
  BY TableTyped, EmptyRtOK DEF TablesInv
<1>2. ToSet(active) \subseteq Profiles
  <2>1. DOMAIN active = 1 .. Len(active) /\ \A i \in 1 .. Len(active) : active[i] \in Profiles
    BY ElementOfSeq DEF TablesInv
  <2> QED
    BY <2>1 DEF ToSet
<1>3. grace \in 0 .. Grace
  BY TablesAssumption DEF TablesInv
<1> QED
  BY <1>1, <1>2, <1>3 DEF TablesInv, TypeOK

\* The contexts and the index always belong to the policies of one list, and
\* the index leads to contexts that are ready; while the forwarder runs they
\* are those of its configuration (rebuild_crypto_runtime()).
THEOREM TablesTypeCorrect == Spec => []TypeOK
BY TablesInductive, TablesTyped, PTL

\* However many profiles are merged and whatever wire ids their rows ask for,
\* no two policies of the running configuration share one, as long as there are
\* no more policies than ids (append_policy_unique()).
THEOREM IdsUnique == Spec => []WireIdsUnique
<1>1. TablesInv => WireIdsUnique
  BY CfgTyped DEF TablesInv, WireIdsUnique, IdsOK
<1> QED
  BY <1>1, TablesInductive, PTL

-----------------------------------------------------------------------------
(***************************************************************************)
(* Packets of a peer that has loaded more or less.                         *)
(***************************************************************************)
LEMMA SelfBegins ==
  ASSUME NEW s \in Seq(Srcs), NEW x \in Srcs
  PROVE  Append(s, x) \in Seq(Srcs) /\ Extends(MergedConfig(s), MergedConfig(Append(s, x)))
<1> DEFINE t == Append(s, x)
           n == Len(s)
<1>1. /\ t \in Seq(Srcs) /\ n \in Nat /\ Len(t) = n + 1 /\ \A i \in 1 .. n : t[i] = s[i]
  BY AppendProperties
<1> HIDE DEF t
<1>2. n \in 0 .. Len(t)
  BY <1>1
<1>3. SubSeq(t, 1, n) = s
  <2>1. \A i \in 1 .. n : t[i] \in Srcs
    BY <1>1, ElementOfSeq
  <2>2. /\ SubSeq(t, 1, n) \in Seq(Srcs) /\ Len(SubSeq(t, 1, n)) = n
        /\ \A i \in 1 .. n : SubSeq(t, 1, n)[i] = t[i]
    BY <1>1, <2>1, SubSeqProperties
  <2> DEFINE u == SubSeq(t, 1, n)
  <2> HIDE DEF u
  <2>3. u \in Seq(Srcs) /\ s \in Seq(Srcs) /\ Len(u) = Len(s) /\ \A i \in 1 .. Len(s) : u[i] = s[i]
    BY <1>1, <2>2 DEF u
  <2>4. u = s
    BY <2>3
  <2> QED
    BY <2>4 DEF u
<1> QED
  BY <1>1, <1>2, <1>3, MergedBegins DEF t

\* A policy both have is the same one, with the same wire id.
LEMMA PeerAgrees ==
  ASSUME TablesInv, NEW c \in PeerConfigs, NEW i \in DOMAIN c.policies \cap DOMAIN cfg.policies
  PROVE  c.policies[i] = cfg.policies[i]
<1> DEFINE own == SourcesOf(cfg)
<1>1. own \in Seq(Srcs) /\ cfg = MergedConfig(own) /\ cfg \in Cfgs
  BY CfgTyped DEF TablesInv, CfgOK
<1>2. \/ \E n \in 0 .. Len(own) : c = MergedConfig(SubSeq(own, 1, n))
      \/ \E p \in Profiles : c = MergedConfig(Append(own, [id |-> p, ver |-> version[p]]))
  BY DEF PeerConfigs
<1> HIDE DEF own
<1>3. cfg.policies \in Seq(Pols) /\ i \in 1 .. Len(cfg.policies)
  BY <1>1 DEF Cfgs
<1>4. ASSUME NEW n \in 0 .. Len(own), c = MergedConfig(SubSeq(own, 1, n))
      PROVE  c.policies[i] = cfg.policies[i]
  <2>1. Extends(c, cfg)
    BY <1>1, <1>4, MergedBegins
  <2>2. SubSeq(own, 1, n) \in Seq(Srcs)
    <3>1. n \in Nat /\ n <= Len(own) /\ Len(own) \in Nat /\ \A k \in 1 .. n : own[k] \in Srcs
      BY <1>1, ElementOfSeq
    <3> QED
      BY <1>1, <3>1, SubSeqProperties
  <2>3. c \in Cfgs
    BY <1>4, <2>2, MergedIs DEF MergeOK
  <2>4. i \in 1 .. Len(c.policies)
    BY <2>3 DEF Cfgs
  <2> QED
    BY <2>1, <2>4 DEF Extends, Begins
<1>5. ASSUME NEW p \in Profiles, c = MergedConfig(Append(own, [id |-> p, ver |-> version[p]]))
      PROVE  c.policies[i] = cfg.policies[i]
  <2> DEFINE x == [id |-> p, ver |-> version[p]]
  <2>1. x \in Srcs
    <3>1. version[p] \in Nat /\ version[p] \in DOMAIN Data[p]
      BY DEF TablesInv
    <3> QED
      BY <3>1 DEF Srcs
  <2> HIDE DEF x
  <2>2. c = MergedConfig(Append(own, x))
    BY <1>5 DEF x
  <2>3. Extends(cfg, c)
    BY <1>1, <2>1, <2>2, SelfBegins
  <2> QED
    BY <1>3, <2>3 DEF Extends, Begins
<1> QED
  BY <1>2, <1>4, <1>5

LEMMA NoGrace == TablesInv => ~ GraceActive
BY DEF TablesInv, GraceActive

\* A usable policy is found under its action and its id, with its own key.
LEMMA FoundByIndex ==
  ASSUME TablesInv, up, NEW i \in DOMAIN cfg.policies, Usable(cfg.policies[i])
  PROVE  /\ rt.index[<<cfg.policies[i].action, cfg.policies[i].id>>] = i
         /\ rt.policies[i] = cfg.policies[i] /\ rt.keys[i] = cfg.policies[i].key
         /\ i \in Nat \ {0} /\ cfg.policies[i] \in Pols /\ cfg.policies[i].id \in Wire
<1> DEFINE ps == cfg.policies
           x == <<ps[i].action, ps[i].id>>
<1>1. ps \in Seq(Pols) /\ IdsOK(ps) /\ rt.policies = ps /\ rt = RtFor(ps)
  BY CfgTyped DEF TablesInv, RtOK
<1> HIDE DEF ps
<1>2. i \in 1 .. Len(ps) /\ DOMAIN ps = 1 .. Len(ps) /\ Len(ps) \in Nat /\ Usable(ps[i])
  BY <1>1 DEF ps
<1>3. ps[i] \in Pols /\ ps[i].id \in Wire
  BY <1>1, <1>2, ElementOfSeq DEF IdsOK
<1>4. x \in Actions \X Wire
  BY <1>2, <1>3 DEF Usable, Pols
<1>5. IndexAt(ps, x) = {i}
  BY <1>1, <1>2 DEF IndexAt, IdsOK
<1>6. FirstOf({i}) = i
  <2>1. {i} \subseteq Nat /\ {i} # {}
    BY <1>2
  <2> QED
    BY <2>1, FirstOfIs
<1> HIDE DEF x
<1>7. rt.index[x] = i
  <2>1. rt.index[x] = FirstOf(IndexAt(ps, x))
    BY <1>1, <1>4, RtIs
  <2> QED
    BY <1>5, <1>6, <2>1
<1>8. rt.keys[i] = ps[i].key
  BY <1>1, <1>2, RtIs
<1> QED
  BY <1>1, <1>2, <1>3, <1>7, <1>8 DEF ps, x

\* The scan finds the id of the packet, if any policy of its layer has it.
LEMMA Scanned ==
  ASSUME TablesInv, NEW pk,
         \A i \in DOMAIN cfg.policies :
           cfg.policies[i].action = pk.action => cfg.policies[i].nonce = pk.nonce
  PROVE  /\ ExtractId(cfg, pk) \in {0, pk.id}
         /\ (\E i \in DOMAIN cfg.policies : cfg.policies[i].action = pk.action /\ cfg.policies[i].id = pk.id)
              => ExtractId(cfg, pk) = pk.id
<1> DEFINE ps == cfg.policies
           sees == {i \in DOMAIN ps : /\ ps[i].action = pk.action
                                      /\ ps[i].id = IF ps[i].nonce = pk.nonce THEN pk.id ELSE pk.alias}
           like == {i \in DOMAIN ps : ps[i].action = pk.action /\ ps[i].id = pk.id}
<1>1. ExtractId(cfg, pk) = IF sees = {} THEN 0 ELSE ps[FirstOf(sees)].id
  BY DEF ExtractId
<1>2. sees = like
  OBVIOUS
<1>3. like \subseteq Nat
  BY CfgTyped DEF TablesInv
<1>4. ASSUME like # {} PROVE ps[FirstOf(like)].id = pk.id
  <2>1. FirstOf(like) \in like
    <3> HIDE DEF like
    <3> QED
      BY <1>3, <1>4, FirstOfIs
  <2> QED
    BY <2>1
<1> HIDE DEF sees
<1>5. CASE like = {}
  BY <1>1, <1>2, <1>5
<1>6. CASE like # {}
  BY <1>1, <1>2, <1>4, <1>6
<1> QED
  BY <1>5, <1>6

\* A packet as it was encrypted under a policy, taken for what it is.
IsAsSent(pk, cp) ==
  /\ pk.action = cp.action /\ pk.id = cp.id /\ pk.nonce = cp.nonce
  /\ pk.key = cp.key /\ pk.mode = cp.mode /\ pk.half = pk.frag /\ ~ pk.spoiled
  /\ MagicAt(pk, cp) = pk.frag

LEMMA AsSent ==
  ASSUME NEW cp, NEW alias, NEW frag \in BOOLEAN, NEW chance,
         ~ frag /\ cp.action = "l2" => chance # "frag"
  PROVE  /\ frag => IsAsSent([Packet(cp, alias, frag, chance) EXCEPT !.half = TRUE], cp)
         /\ ~ frag => IsAsSent(Packet(cp, alias, frag, chance), cp)
<1>1. ASSUME frag PROVE IsAsSent([Packet(cp, alias, frag, chance) EXCEPT !.half = TRUE], cp)
  BY <1>1 DEF Packet, IsAsSent, MagicAt
<1>2. ASSUME ~ frag PROVE IsAsSent(Packet(cp, alias, frag, chance), cp)
  BY <1>2 DEF Packet, IsAsSent, MagicAt
<1> QED
  BY <1>1, <1>2

\* It is decrypted with its policy, found under its id.
LEMMA Decrypted ==
  ASSUME NEW i, NEW cp, NEW pk, IsAsSent(pk, cp), i # 0,
         rt.index[<<cp.action, cp.id>>] = i, rt.policies[i] = cp, rt.keys[i] = cp.key
  PROVE  ResolveThenDecrypt(pk, cp.id) = "plain" /\ DecryptByAction(pk, cp.id) = "plain"
<1>1. Entry(rt, pk, cp.id) = i
  BY DEF Entry, IsAsSent
<1>2. Decrypt(pk, cp, cp.key) = "plain"
  BY DEF Decrypt, IsAsSent
<1>3. Attempt(rt, pk, cp.id) = "plain"
  BY <1>1, <1>2 DEF Attempt
<1>4. ResolveThenDecrypt(pk, cp.id) = "plain"
  BY <1>1, <1>3 DEF ResolveThenDecrypt, Outcome
<1>5. DecryptByAction(pk, cp.id) = "plain"
  BY <1>3 DEF DecryptByAction
<1> QED
  BY <1>4, <1>5

\* Where the policies of a layer have one nonce length, the magic byte is seen
\* exactly in the fragments, those of layer 2 that look like one aside.
LEMMA FragmentsSeen ==
  ASSUME TablesInv, NEW cp, NEW alias, NEW frag \in BOOLEAN, NEW chance,
         ~ Mistakable(cp, frag, chance), NEW i \in DOMAIN cfg.policies, cfg.policies[i] = cp,
         \A k \in DOMAIN cfg.policies : cfg.policies[k].action = cp.action => cfg.policies[k].nonce = cp.nonce,
         Usable(cp)
  PROVE  IsFragment(cfg, Packet(cp, alias, frag, chance)) = frag
<1> DEFINE pk == Packet(cp, alias, frag, chance)
           ps == cfg.policies
           own == {k \in DOMAIN ps : ps[k].action = pk.action}
           seen == {k \in own : pk.action = "l2" \/
                       ps[k].id = IF ps[k].nonce = pk.nonce THEN pk.id ELSE pk.alias}
           found == {k \in seen : MagicAt(pk, ps[k])}
           read == CASE pk.action = "l2" -> FirstOf(found)
                     [] pk.action = "l3" -> FirstOf(seen)
                     [] OTHER -> 1
<1>1. /\ pk.action = cp.action /\ pk.id = cp.id /\ pk.nonce = cp.nonce /\ pk.frag = frag
      /\ pk.chance = chance /\ pk.alias = alias
  BY DEF Packet
<1>2. IsFragment(cfg, pk) <=> found # {} /\ ((pk.frag /\ ps[read].nonce = pk.nonce) \/ pk.alias <= 1)
  BY DEF IsFragment
<1>3. cp.action \in {"l2", "l3", "l4"} /\ i \in DOMAIN ps /\ ps[i] = cp /\ DOMAIN ps \subseteq Nat
  <2>1. cp \in Pols
    BY CfgTyped, ElementOfSeq DEF TablesInv
  <2> QED
    BY <2>1, CfgTyped DEF TablesInv, Pols, Usable, Actions
<1> HIDE DEF pk, ps
<1>4. \A k \in own : ps[k].nonce = cp.nonce
  BY <1>1 DEF ps
<1>5. ~ frag /\ cp.action = "l2" => chance # "frag"
  BY DEF Mistakable
<1>6. \A k \in own : MagicAt(pk, ps[k]) = frag
  BY <1>1, <1>4, <1>5 DEF MagicAt
<1>7. CASE ~ frag
  <2>1. found = {}
    BY <1>6, <1>7
  <2>2. ~ IsFragment(cfg, pk)
    BY <1>2, <2>1
  <2> QED
    BY <1>7, <2>2 DEF pk, IsFragment
<1>8. CASE frag
  <2>1. i \in seen /\ i \in found /\ found \subseteq seen /\ seen \subseteq own /\ seen \subseteq Nat
    BY <1>1, <1>3, <1>6, <1>8
  <2>2. ps[read].nonce = pk.nonce
    <3>1. CASE cp.action = "l2"
      <4>1. read = FirstOf(found)
        BY <1>1, <3>1
      <4> HIDE DEF found, seen, own, read
      <4>2. FirstOf(found) \in found
        <5>1. found \subseteq Nat /\ found # {}
          BY <2>1
        <5> QED
          BY <5>1, FirstOfIs
      <4> QED
        BY <1>1, <1>4, <2>1, <4>1, <4>2
    <3>2. CASE cp.action = "l3"
      <4>1. read = FirstOf(seen)
        BY <1>1, <3>2
      <4> HIDE DEF found, seen, own, read
      <4>2. FirstOf(seen) \in seen
        <5>1. seen \subseteq Nat /\ seen # {}
          BY <2>1
        <5> QED
          BY <5>1, FirstOfIs
      <4> QED
        BY <1>1, <1>4, <2>1, <4>1, <4>2
    <3>3. CASE cp.action = "l4"
      <4>1. read = 1
        BY <1>1, <3>3
      <4>2. ps[1].nonce = cp.nonce
        BY <1>8, <3>3 DEF Mistakable, ps
      <4> HIDE DEF found, seen, own, read
      <4> QED
        BY <1>1, <4>1, <4>2
    <3> QED
      BY <1>3, <3>1, <3>2, <3>3
  <2>3. found # {}
    BY <2>1
  <2> HIDE DEF found, seen, own, read
  <2>4. IsFragment(cfg, pk)
    BY <1>1, <1>2, <1>8, <2>2, <2>3
  <2> QED
    BY <1>8, <2>4 DEF pk, IsFragment
<1> QED
  BY <1>7, <1>8

LEMMA Understood ==
  ASSUME TablesInv, up, NEW i \in DOMAIN cfg.policies, Usable(cfg.policies[i]),
         OneNonceLength(cfg, cfg.policies[i].action), NEW alias, NEW frag \in BOOLEAN,
         NEW chance, ~ Mistakable(cfg.policies[i], frag, chance)
  PROVE  Received(Packet(cfg.policies[i], alias, frag, chance)) = "plain"
<1> DEFINE cp == cfg.policies[i]
           pk == Packet(cp, alias, frag, chance)
           qk == [pk EXCEPT !.half = TRUE]
           id == IF pk.action = "l2" THEN pk.id ELSE ExtractId(cfg, pk)
           result == IF IsFragment(cfg, pk) THEN ResolveThenDecrypt(qk, id)
                     ELSE IF pk.action = "l2" THEN ResolveThenDecrypt(pk, id)
                     ELSE IF id = 0 THEN "raw"
                     ELSE DecryptByAction(pk, id)
<1>1. /\ rt.index[<<cp.action, cp.id>>] = i /\ rt.policies[i] = cp /\ rt.keys[i] = cp.key
      /\ i # 0 /\ cp.id # 0
  <2>1. ~ (0 \in Wire)
    BY TablesAssumption DEF Wire
  <2> QED
    BY <2>1, FoundByIndex
<1>2. /\ pk.action = cp.action /\ pk.id = cp.id /\ pk.nonce = cp.nonce /\ pk.frag = frag
      /\ pk.chance = chance
  BY DEF Packet
<1>3. \A k \in DOMAIN cfg.policies : cfg.policies[k].action = cp.action => cfg.policies[k].nonce = cp.nonce
  BY DEF OneNonceLength
<1>4. (frag => IsAsSent(qk, cp)) /\ (~ frag => IsAsSent(pk, cp))
  <2>1. ~ frag /\ cp.action = "l2" => chance # "frag"
    BY DEF Mistakable
  <2> HIDE DEF cp
  <2> QED
    BY <2>1, AsSent
<1>5. /\ i \in DOMAIN cfg.policies /\ cfg.policies[i].action = cp.action
      /\ cfg.policies[i].id = cp.id /\ cfg.policies[i].nonce = cp.nonce
  OBVIOUS
<1>6. IsFragment(cfg, pk) = frag
  BY <1>3, FragmentsSeen
<1>7. id = cp.id
  <2> HIDE DEF cp, pk
  <2>1. ExtractId(cfg, pk) = pk.id
    BY <1>2, <1>3, <1>5, Scanned
  <2> QED
    BY <1>2, <2>1
<1>8. Received(pk) = IF pk.clear THEN "plain" ELSE ThroughLayer4(pk, result)
  BY DEF Received
<1>9. ThroughLayer4(pk, "plain") = "plain"
  <2>1. CASE pk.action = "l4"
    <3> HIDE DEF pk
    <3> QED
      BY <2>1 DEF ThroughLayer4
  <2>2. CASE pk.action # "l4"
    <3> DEFINE four == {k \in DOMAIN cfg.policies : cfg.policies[k].action = "l4"}
    <3>1. pk.chance = "l4" => four = {}
      BY <1>2, <2>2 DEF Mistakable
    <3> HIDE DEF pk
    <3>2. LooksLike(cfg, pk) = 0
      BY <3>1 DEF LooksLike, FirstOf
    <3> QED
      BY <3>2 DEF ThroughLayer4
  <2> QED
    BY <2>1, <2>2
<1> HIDE DEF cp, pk, qk, id
<1>10. ASSUME frag PROVE result = "plain"
  <2>1. ResolveThenDecrypt(qk, cp.id) = "plain"
    BY <1>1, <1>4, <1>10, Decrypted
  <2> QED
    BY <1>6, <1>7, <1>10, <2>1
<1>11. ASSUME ~ frag PROVE result = "plain"
  <2>1. ResolveThenDecrypt(pk, cp.id) = "plain" /\ DecryptByAction(pk, cp.id) = "plain"
    BY <1>1, <1>4, <1>11, Decrypted
  <2> QED
    BY <1>1, <1>6, <1>7, <1>11, <2>1
<1> HIDE DEF result
<1>12. Received(pk) = "plain"
  BY <1>8, <1>9, <1>10, <1>11
<1> QED
  BY <1>12 DEF pk, cp

\* Whatever a peer with the same profiles in the same order encrypts under a
\* policy this gateway has too is decrypted correctly, although neither was told
\* the wire ids of the other and each may have loaded later profiles first.
THEOREM PeersDecrypted == Spec => []PeersUnderstood
<1>1. TablesInv => PeersUnderstood
  <2> SUFFICES ASSUME TablesInv, up, NEW c \in PeerConfigs,
                      NEW i \in DOMAIN c.policies \cap DOMAIN cfg.policies,
                      Usable(c.policies[i]), OneNonceLength(cfg, c.policies[i].action),
                      NEW alias \in 0 .. MaxWire, NEW frag \in BOOLEAN, NEW chance \in Chances
               PROVE  \/ Received(Packet(c.policies[i], alias, frag, chance)) = "plain"
                      \/ Mistakable(c.policies[i], frag, chance)
    BY DEF PeersUnderstood
  <2> DEFINE cp == c.policies[i]
  <2>1. cp = cfg.policies[i] /\ i \in DOMAIN cfg.policies
    BY PeerAgrees
  <2> HIDE DEF cp
  <2>2. Usable(cp) /\ OneNonceLength(cfg, cp.action)
    BY DEF cp
  <2>3. ~ Mistakable(cp, frag, chance) => Received(Packet(cp, alias, frag, chance)) = "plain"
    BY <2>1, <2>2, Understood
  <2> QED
    BY <2>3 DEF cp
<1> QED
  BY <1>1, TablesInductive, PTL

-----------------------------------------------------------------------------
(***************************************************************************)
(* Packets under a policy that this gateway no longer has.                 *)
(***************************************************************************)
LEMMA NotMistaken ==
  ASSUME TablesInv, NEW cp, rt.index[<<cp.action, cp.id>>] = 0,
         \A i \in DOMAIN cfg.policies :
           cfg.policies[i].action = cp.action => cfg.policies[i].nonce = cp.nonce,
         NEW alias, NEW frag \in BOOLEAN, NEW chance
  PROVE  Received(Packet(cp, alias, frag, chance)) # "garbage"
<1> DEFINE pk == Packet(cp, alias, frag, chance)
           qk == [pk EXCEPT !.half = TRUE]
           id == IF pk.action = "l2" THEN pk.id ELSE ExtractId(cfg, pk)
           result == IF IsFragment(cfg, pk) THEN ResolveThenDecrypt(qk, id)
                     ELSE IF pk.action = "l2" THEN ResolveThenDecrypt(pk, id)
                     ELSE IF id = 0 THEN "raw"
                     ELSE DecryptByAction(pk, id)
<1>1. /\ pk.action = cp.action /\ pk.id = cp.id /\ pk.nonce = cp.nonce /\ pk.frag = frag
      /\ qk.action = cp.action
  BY DEF Packet
<1>2. Received(pk) = IF pk.clear THEN "plain" ELSE ThroughLayer4(pk, result)
  BY DEF Received
<1> HIDE DEF pk, qk
<1>3. /\ ExtractId(cfg, pk) \in {0, pk.id}
      /\ (\E i \in DOMAIN cfg.policies : cfg.policies[i].action = pk.action /\ cfg.policies[i].id = pk.id)
           => ExtractId(cfg, pk) = pk.id
  BY <1>1, Scanned
<1>4. id = cp.id \/ (id = 0 /\ pk.action # "l2")
  BY <1>1, <1>3
<1>5. IsFragment(cfg, pk) => id = cp.id
  <2>1. IsFragment(cfg, pk) /\ pk.action # "l2"
          => \E i \in DOMAIN cfg.policies : cfg.policies[i].action = pk.action /\ cfg.policies[i].id = pk.id
    BY <1>1 DEF IsFragment
  <2> QED
    BY <1>1, <1>3, <2>1
<1> HIDE DEF id
<1>6. ASSUME NEW k, k.action = cp.action
      PROVE  ResolveThenDecrypt(k, cp.id) = "drop" /\ DecryptByAction(k, cp.id) = "drop"
  <2>1. Entry(rt, k, cp.id) = 0
    BY <1>6 DEF Entry
  <2>2. Attempt(rt, k, cp.id) = "none"
    BY <2>1 DEF Attempt
  <2> QED
    BY <2>1, <2>2, NoGrace DEF ResolveThenDecrypt, DecryptByAction
<1>7. result \in {"drop", "raw"}
  <2>1. CASE id = cp.id
    <3>1. ResolveThenDecrypt(qk, id) = "drop" /\ ResolveThenDecrypt(pk, id) = "drop"
          /\ DecryptByAction(pk, id) = "drop"
      BY <1>1, <1>6, <2>1
    <3> QED
      BY <3>1
  <2>2. CASE id = 0 /\ id # cp.id
    BY <1>4, <1>5, <2>2
  <2> QED
    BY <1>4, <2>1, <2>2
<1> HIDE DEF result
<1>8. ThroughLayer4(pk, result) = result
  BY <1>7 DEF ThroughLayer4
<1>9. Received(pk) # "garbage"
  BY <1>2, <1>7, <1>8
<1> QED
  BY <1>9 DEF pk

\* A packet under a policy that a reload took away is not decrypted with the key
\* of another policy into something that is passed on: the scan for its id and
\* the index agree that the id is unused (crypto_dispatch.c, forwarder.c).
THEOREM StaleRefused == Spec => []StaleNotMistaken
<1>1. TablesInv => StaleNotMistaken
  <2> SUFFICES ASSUME TablesInv, NEW i \in DOMAIN replaced.rt.policies,
                      rt.index[<<replaced.rt.policies[i].action, replaced.rt.policies[i].id>>] = 0,
                      OneNonceLength([cfg EXCEPT !.policies = Append(@, replaced.rt.policies[i])],
                                     replaced.rt.policies[i].action),
                      NEW alias \in 0 .. MaxWire, NEW frag \in BOOLEAN, NEW chance \in Chances
               PROVE  Received(Packet(replaced.rt.policies[i], alias, frag, chance)) # "garbage"
    BY DEF StaleNotMistaken
  <2> DEFINE cp == replaced.rt.policies[i]
             ps == cfg.policies
             qs == Append(ps, cp)
             n == Len(ps)
  <2>1. cp \in Pols
    BY ElementOfSeq DEF TablesInv, RtOK
  <2>2. cfg \in Cfgs /\ ps \in Seq(Pols)
    BY CfgTyped DEF TablesInv
  <2> DEFINE both == [cfg EXCEPT !.policies = Append(@, cp)]
  <2>3. both.policies = qs
    BY <2>2 DEF Cfgs
  <2>4. \A k, l \in DOMAIN qs :
          qs[k].action = cp.action /\ qs[l].action = cp.action => qs[k].nonce = qs[l].nonce
    <3>1. OneNonceLength(both, cp.action)
      OBVIOUS
    <3> HIDE DEF both, cp, qs
    <3> QED
      BY <2>3, <3>1 DEF OneNonceLength
  <2> HIDE DEF cp, ps
  <2>5. /\ n \in Nat /\ DOMAIN ps = 1 .. n /\ DOMAIN qs = 1 .. n + 1
        /\ qs[n + 1] = cp /\ \A k \in 1 .. n : qs[k] = ps[k]
    BY <2>1, <2>2, AppendProperties
  <2> HIDE DEF qs
  <2>6. ASSUME NEW k \in DOMAIN ps, ps[k].action = cp.action PROVE ps[k].nonce = cp.nonce
    <3>1. k \in DOMAIN qs /\ n + 1 \in DOMAIN qs /\ qs[k] = ps[k]
      BY <2>5
    <3> QED
      BY <2>4, <2>5, <2>6, <3>1
  <2>7. rt.index[<<cp.action, cp.id>>] = 0
    BY DEF cp
  <2>8. Received(Packet(cp, alias, frag, chance)) # "garbage"
    BY <2>6, <2>7, NotMistaken DEF ps
  <2> QED
    BY <2>8 DEF cp
<1> QED
  BY <1>1, TablesInductive, PTL

-----------------------------------------------------------------------------
(***************************************************************************)
(* Loading a profile while the forwarder runs.                             *)
(***************************************************************************)
\* A first element of a set is that of a larger one that adds later ones only.
LEMMA FirstStays ==
  ASSUME NEW S, NEW T, NEW n \in Nat, S \subseteq 1 .. n, T \subseteq Nat,
         S = {i \in T : i <= n}, S # {}
  PROVE  FirstOf(T) = FirstOf(S)
<1>1. T # {} /\ S \subseteq T /\ S \subseteq Nat
  OBVIOUS
<1>2. FirstOf(S) \in S /\ \A j \in S : FirstOf(S) <= j
  BY <1>1, FirstOfIs
<1>3. FirstOf(T) \in T /\ \A j \in T : FirstOf(T) <= j
  BY <1>1, FirstOfIs
<1> DEFINE a == FirstOf(S)
           b == FirstOf(T)
<1> HIDE DEF a, b
<1>4. a \in S /\ (\A j \in S : a <= j) /\ b \in T /\ (\A j \in T : b <= j)
  BY <1>2, <1>3 DEF a, b
<1>5. b <= a /\ a <= n /\ a \in Nat /\ b \in Nat
  BY <1>1, <1>4
<1>6. b \in S
  BY <1>4, <1>5
<1>7. a = b
  BY <1>4, <1>5, <1>6
<1> QED
  BY <1>7 DEF a, b

\* A configuration of a merge, with the facts the selection rests on.
LEMMA SelectionIn ==
  ASSUME NEW c, CfgOK(c)
  PROVE  /\ c.profiles \in Seq(Profs) /\ c.policies \in Seq(Pols) /\ c.lans \in Seq(Lans)
         /\ \A i \in 1 .. Len(c.profiles) : ToSet(c.profiles[i].policies) \subseteq 1 .. Len(c.policies)
         /\ ToSet(c.lans) = UNION {c.profiles[i].lans : i \in 1 .. Len(c.profiles)}
<1> DEFINE s == SourcesOf(c)
<1>1. s \in Seq(Srcs) /\ c = MergedConfig(s)
  BY DEF CfgOK
<1> HIDE DEF s
<1>2. MergeOK(c, s, Len(s))
  BY <1>1, MergedIs
<1> QED
  BY <1>2 DEF MergeOK, Cfgs

LEMMA ProfileStays ==
  ASSUME NEW c, NEW d, CfgOK(c), CfgOK(d), Extends(c, d), c.lans = d.lans, NEW lan
  PROVE  ProfileForLan(d, lan) = ProfileForLan(c, lan)
<1> DEFINE n == Len(c.profiles)
           S == {i \in DOMAIN c.profiles : lan \in c.profiles[i].lans}
           T == {i \in DOMAIN d.profiles : lan \in d.profiles[i].lans}
<1>1. /\ n \in Nat /\ DOMAIN c.profiles = 1 .. n /\ Len(d.profiles) \in Nat
      /\ DOMAIN d.profiles = 1 .. Len(d.profiles) /\ n <= Len(d.profiles)
      /\ \A i \in 1 .. n : d.profiles[i] = c.profiles[i]
  BY SelectionIn DEF Extends, Begins
<1>2. ProfileForLan(c, lan) = FirstOf(S) /\ ProfileForLan(d, lan) = FirstOf(T)
  BY DEF ProfileForLan
<1>3. S \subseteq 1 .. n /\ T \subseteq Nat /\ S = {i \in T : i <= n}
  BY <1>1
<1>4. S # {} <=> T # {}
  <2>1. /\ UNION {c.profiles[i].lans : i \in 1 .. n}
             = UNION {d.profiles[i].lans : i \in 1 .. Len(d.profiles)}
    BY SelectionIn
  <2>2. S # {} <=> lan \in UNION {c.profiles[i].lans : i \in 1 .. n}
    BY <1>1
  <2>3. T # {} <=> lan \in UNION {d.profiles[i].lans : i \in 1 .. Len(d.profiles)}
    BY <1>1
  <2> QED
    BY <2>1, <2>2, <2>3
<1> HIDE DEF S, T, n
<1>5. FirstOf(T) = FirstOf(S)
  <2>1. CASE S = {}
    <3>1. T = S
      BY <1>4, <2>1
    <3> QED
      BY <3>1
  <2>2. CASE S # {}
    BY <1>1, <1>3, <2>2, FirstStays
  <2> QED
    BY <2>1, <2>2
<1> QED
  BY <1>2, <1>5

LEMMA ProfileIn ==
  ASSUME NEW c, CfgOK(c), NEW lan, ProfileForLan(c, lan) # 0
  PROVE  ProfileForLan(c, lan) \in 1 .. Len(c.profiles)
<1> DEFINE S == {i \in DOMAIN c.profiles : lan \in c.profiles[i].lans}
<1>1. S \subseteq 1 .. Len(c.profiles) /\ S \subseteq Nat
  BY SelectionIn
<1>2. FirstOf(S) # 0 /\ ProfileForLan(c, lan) = FirstOf(S)
  BY DEF ProfileForLan
<1> HIDE DEF S
<1>3. (S # {} => FirstOf(S) \in S) /\ (S = {} => FirstOf(S) = 0)
  BY <1>1, FirstOfIs
<1> QED
  BY <1>1, <1>2, <1>3

LEMMA SelectionStays ==
  ASSUME NEW c, NEW d, CfgOK(c), CfgOK(d), Extends(c, d), c.lans = d.lans, NEW lan, NEW flow
  PROVE  Selected(d, lan, flow) = Selected(c, lan, flow)
<1> DEFINE pi == ProfileForLan(c, lan)
           m == Len(c.policies)
           pass(any) == {i \in ToSet(c.profiles[pi].policies) :
                           c.policies[i].anyProto = any /\ flow \in c.policies[i].flows}
           dpass(any) == {i \in ToSet(d.profiles[pi].policies) :
                            d.policies[i].anyProto = any /\ flow \in d.policies[i].flows}
<1>1. ProfileForLan(d, lan) = pi
  BY ProfileStays
<1>2. pi # 0 => pi \in 1 .. Len(c.profiles)
  BY ProfileIn
<1>3. CASE pi = 0
  BY <1>1, <1>3 DEF Selected
<1>4. CASE pi # 0
  <2>1. /\ d.profiles[pi] = c.profiles[pi] /\ ToSet(c.profiles[pi].policies) \subseteq 1 .. m
        /\ \A i \in 1 .. m : d.policies[i] = c.policies[i]
    BY <1>2, <1>4, SelectionIn DEF Extends, Begins
  <2>2. pass(FALSE) = dpass(FALSE) /\ pass(TRUE) = dpass(TRUE)
    BY <2>1
  <2>3. /\ PolicyFor(c, pi, flow) = IF pass(FALSE) # {} THEN FirstOf(pass(FALSE)) ELSE FirstOf(pass(TRUE))
        /\ PolicyFor(d, pi, flow) = IF dpass(FALSE) # {} THEN FirstOf(dpass(FALSE)) ELSE FirstOf(dpass(TRUE))
    BY DEF PolicyFor
  <2> DEFINE own == pass(FALSE)
             any == pass(TRUE)
             down == dpass(FALSE)
             dany == dpass(TRUE)
  <2> HIDE DEF own, any, down, dany
  <2>4. PolicyFor(d, pi, flow) = PolicyFor(c, pi, flow)
    <3>1. own = down /\ any = dany
      BY <2>2 DEF own, any, down, dany
    <3>2. /\ PolicyFor(c, pi, flow) = IF own # {} THEN FirstOf(own) ELSE FirstOf(any)
          /\ PolicyFor(d, pi, flow) = IF down # {} THEN FirstOf(down) ELSE FirstOf(dany)
      BY <2>3 DEF own, any, down, dany
    <3> QED
      BY <3>1, <3>2
  <2> QED
    BY <1>1, <1>4, <2>4 DEF Selected
<1> QED
  BY <1>3, <1>4

\* A policy that is selected is one of the configuration.
LEMMA SelectedIn ==
  ASSUME NEW c, CfgOK(c), NEW lan, NEW flow, Selected(c, lan, flow) # 0
  PROVE  Selected(c, lan, flow) \in 1 .. Len(c.policies)
<1> DEFINE pi == ProfileForLan(c, lan)
           own == ToSet(c.profiles[pi].policies)
           pass(any) == {i \in own : c.policies[i].anyProto = any /\ flow \in c.policies[i].flows}
<1>1. pi # 0 /\ Selected(c, lan, flow) = PolicyFor(c, pi, flow)
  BY DEF Selected
<1>2. pi \in 1 .. Len(c.profiles)
  BY <1>1, ProfileIn
<1>3. own \subseteq 1 .. Len(c.policies) /\ own \subseteq Nat
  <2>1. own \subseteq 1 .. Len(c.policies) /\ Len(c.policies) \in Nat
    BY <1>2, SelectionIn
  <2> QED
    BY <2>1
<1>4. PolicyFor(c, pi, flow) = IF pass(FALSE) # {} THEN FirstOf(pass(FALSE)) ELSE FirstOf(pass(TRUE))
  BY DEF PolicyFor
<1>5. ASSUME NEW P \in SUBSET own PROVE FirstOf(P) = 0 \/ FirstOf(P) \in own
  <2> HIDE DEF own, pi
  <2>1. P \subseteq Nat
    BY <1>3
  <2>2. (P = {} => FirstOf(P) = 0) /\ (P # {} => FirstOf(P) \in P)
    BY <2>1, FirstOfIs
  <2> QED
    BY <2>2
<1>6. pass(FALSE) \in SUBSET own /\ pass(TRUE) \in SUBSET own
  OBVIOUS
<1> HIDE DEF pass, own, pi
<1>7. PolicyFor(c, pi, flow) = 0 \/ PolicyFor(c, pi, flow) \in own
  BY <1>4, <1>5, <1>6
<1> QED
  BY <1>1, <1>3, <1>7

\* The interfaces stay while the forwarder runs (same_topology()).
LEMMA LansStay ==
  ASSUME TablesInv, [Next]_vars, up, up'
  PROVE  cfg'.lans = cfg.lans
<1>1. ASSUME NEW p \in Profiles, Edit(p) PROVE cfg'.lans = cfg.lans
  BY <1>1 DEF Edit
<1>2. ASSUME NEW p \in Profiles, Start(p) PROVE FALSE
  BY <1>2 DEF Start
<1>3. ASSUME NEW p \in Profiles, Load(p) PROVE cfg'.lans = cfg.lans
  BY <1>3 DEF Load, HotReload, Accepted
<1>4. ASSUME NEW p \in Profiles, Unload(p) PROVE cfg'.lans = cfg.lans
  BY <1>4 DEF Unload, HotReload, Accepted
<1>5. ASSUME Stop PROVE FALSE
  BY <1>5 DEF Stop
<1>6. ASSUME Tick \/ UNCHANGED vars PROVE cfg'.lans = cfg.lans
  BY <1>6 DEF Tick, vars
<1> QED
  BY <1>1, <1>2, <1>3, <1>4, <1>5, <1>6 DEF Next

\* If the sources of a configuration are a prefix of those of another, that one
\* goes on from it.
LEMMA PrefixExtends ==
  ASSUME NEW c, NEW d, CfgOK(c), CfgOK(d), IsPrefix(SourcesOf(c), SourcesOf(d))
  PROVE  Extends(c, d)
<1> DEFINE s == SourcesOf(c)
           t == SourcesOf(d)
           n == Len(s)
<1>1. /\ s \in Seq(Srcs) /\ t \in Seq(Srcs) /\ c = MergedConfig(s) /\ d = MergedConfig(t)
      /\ n <= Len(t) /\ SubSeq(s, 1, n) = SubSeq(t, 1, n)
  BY DEF CfgOK, IsPrefix
<1> HIDE DEF s, t
<1>2. n \in 0 .. Len(t) /\ n \in Nat
  BY <1>1
<1>3. SubSeq(s, 1, n) = s
  <2> DEFINE u == SubSeq(s, 1, n)
  <2>1. \A i \in 1 .. n : s[i] \in Srcs
    BY <1>1, ElementOfSeq
  <2>2. u \in Seq(Srcs) /\ Len(u) = n /\ \A i \in 1 .. n : u[i] = s[i]
    BY <1>1, <1>2, <2>1, SubSeqProperties
  <2> HIDE DEF u
  <2>3. u = s
    BY <1>1, <2>2
  <2> QED
    BY <2>3 DEF u
<1>4. Extends(MergedConfig(SubSeq(t, 1, n)), d)
  BY <1>1, <1>2, MergedBegins
<1> QED
  BY <1>1, <1>3, <1>4

LEMMA SelectionKept ==
  ASSUME TablesInv, TablesInv', [Next]_vars, up, up',
         IsPrefix(SourcesOf(cfg), SourcesOf(cfg')), NEW lan, NEW flow
  PROVE  LET i == Selected(cfg, lan, flow)
         IN /\ Selected(cfg', lan, flow) = i
            /\ i # 0 => rt'.policies[i] = rt.policies[i] /\ rt'.keys[i] = rt.keys[i]
<1> DEFINE i == Selected(cfg, lan, flow)
           ps == rt.policies
           qs == rt'.policies
<1>1. CfgOK(cfg) /\ CfgOK(cfg') /\ cfg.lans = cfg'.lans
  BY LansStay DEF TablesInv
<1>2. Extends(cfg, cfg')
  BY <1>1, PrefixExtends
<1>3. Selected(cfg', lan, flow) = i
  BY <1>1, <1>2, SelectionStays
<1>4. ASSUME i # 0 PROVE qs[i] = ps[i] /\ rt'.keys[i] = rt.keys[i]
  <2>1. i \in 1 .. Len(cfg.policies)
    BY <1>1, <1>4, SelectedIn
  <2> HIDE DEF i
  <2>2. /\ ps = cfg.policies /\ qs = cfg'.policies /\ rt = RtFor(ps) /\ rt' = RtFor(qs)
        /\ ps \in Seq(Pols) /\ qs \in Seq(Pols)
    BY DEF TablesInv, RtOK
  <2>3. i \in 1 .. Len(ps) /\ i \in 1 .. Len(qs) /\ qs[i] = ps[i]
    <3>1. Len(ps) \in Nat /\ Len(qs) \in Nat /\ Len(ps) <= Len(qs)
      BY <1>2, <2>2 DEF Extends, Begins
    <3> QED
      BY <1>2, <2>1, <2>2, <3>1 DEF Extends, Begins
  <2> HIDE DEF ps, qs
  <2>4. /\ RtFor(ps).keys[i] = IF Usable(ps[i]) THEN ps[i].key ELSE NoKey
        /\ RtFor(qs).keys[i] = IF Usable(qs[i]) THEN qs[i].key ELSE NoKey
    BY <2>2, <2>3, RtIs
  <2>5. rt.keys[i] = rt'.keys[i]
    BY <2>2, <2>3, <2>4
  <2> QED
    BY <2>3, <2>5
<1> QED
  BY <1>3, <1>4

\* A profile that is loaded while the forwarder runs changes neither the policy
\* nor the key of any LAN packet, however the profiles overlap: same_topology()
\* keeps the interfaces, and config_select_profile_for_local() takes the first.
THEOREM SelectionUndisturbed == Spec => HotLoadKeepsSelection
<1>1. TablesInv /\ TablesInv' /\ [Next]_vars =>
        [up /\ up' /\ IsPrefix(SourcesOf(cfg), SourcesOf(cfg')) =>
           \A lan \in Lans, flow \in Flows :
             LET i == Selected(cfg, lan, flow)
             IN /\ Selected(cfg', lan, flow) = i
                /\ i # 0 => rt'.policies[i] = rt.policies[i] /\ rt'.keys[i] = rt.keys[i]]_vars
  BY SelectionKept
<1> QED
  BY <1>1, TablesInductive, PTL DEF Spec, HotLoadKeepsSelection
=============================================================================
