-------------------------- MODULE ReloadGateProofs --------------------------
(***************************************************************************)
(* Proofs about ReloadGate for any number of packet threads, any policy    *)
(* sets and any number of reloads.  The inductive invariant GateInv joins  *)
(* the type invariant to what the daemon thread knows in each phase of a   *)
(* reload and what a packet thread knows at each step of its section.      *)
(***************************************************************************)
EXTENDS ReloadGate, FiniteSetTheorems, TLAPS

\* The daemon is between two reloads or has not asked the gate yet.
Running  == {"idle", "compare"}
\* The old configuration is still installed.
Old      == Running \cup {"drain", "swap"}
\* The store that raises the pause has drained.
Settled  == {"flags", "rebuild", "unpin", "unpause"}

\* g_inflight_packets counts the threads between fetch_add and fetch_sub.
CountInv == inflight = Cardinality({t \in Threads : tpc[t] \in Counted})

\* What the daemon knows about g_reload_pause and its own store buffer.
PauseInv ==
  /\ ~ BufferedStores => pauseBuf = NoStore
  /\ mpc \in Running => /\ pauseBuf # 1
                        /\ pause = 0 \/ pauseBuf = 0
  /\ mpc \in {"drain", "swap"} => \/ pauseBuf = 1 /\ pause = 0
                                  \/ pauseBuf = NoStore /\ pause = 1
  /\ mpc \in Settled => pause = 1 /\ pauseBuf = NoStore

\* The installed configuration lies in the active slot, but for the time
\* between the swap and the return of forwarder_reload_config().
SlotInv ==
  /\ mpc \in Old => fwdCfg = activeSlot
  /\ mpc \in Settled => fwdCfg = NextSlot

\* crypto_enabled and the crypto contexts belong to the installed policies,
\* but for the time between the swap and the rebuild.
RuntimeInv ==
  /\ mpc \in Old \cup {"unpause"} =>
       /\ cryptoOn = (CurrentCrypto # CryptoOff)
       /\ cryptoOn => runtime = CurrentCrypto
  /\ mpc \in {"rebuild", "unpin"} => cryptoOn /\ CurrentCrypto # CryptoOff
  /\ mpc = "unpin" => runtime = CurrentCrypto

\* A packet is marked for the bypass only until it is sent.
ClearInv == \A t \in clear : tpc[t] = "send"

\* What a section that no reload overtook has read so far.
SectionInv ==
  \A t \in Threads \ overtaken :
    /\ tpc[t] \in {"resolve", "params", "pin", "pinset"} =>
         cp[t] = fwdCfg /\ sel[t] = CurrentCrypto /\ sel[t] # CryptoOff
    /\ tpc[t] \in {"params", "pin", "pinset"} => ctx[t] = sel[t]
    /\ tpc[t] \in {"pin", "pinset"} => par[t] = sel[t]

GateInv ==
  /\ TypeOK
  /\ CountInv /\ PauseInv /\ SlotInv /\ RuntimeInv /\ ClearInv
  /\ ReloadExclusive
  /\ SectionInv /\ SectionConsistent

\* With stores that are seen at once, an overtaken section still holds a
\* policy of the set that is installed.
PinInv ==
  /\ \A t \in Threads :
       tpc[t] \in {"resolve", "params", "pin", "pinset"} => sel[t] = CurrentCrypto
  /\ mpc \in Old \cup {"unpause"} /\ cryptoOn /\ pin # NoPin => pin = CurrentCrypto

-----------------------------------------------------------------------------
\* The disjuncts of Next, one by one, as the proofs below use them.
LEMMA NextCases ==
  ASSUME [Next]_vars
  PROVE  \/ \E t \in Threads :
              \/ Receive(t) \/ EnterPoll(t) \/ EnterCount(t) \/ EnterCheck(t)
              \/ EnterBack(t) \/ Select(t) \/ Resolve(t) \/ Params(t)
              \/ PinIndex(t) \/ PinSet(t) \/ Leave(t)
         \/ PinDrop
         \/ \E c \in Configs : WriteSlot(c)
         \/ Refuse \/ FastSwap \/ RaisePause \/ Drain \/ Swap
         \/ SetFlags \/ Rebuild \/ Unpin \/ Unpause
         \/ FlushPause
         \/ UNCHANGED vars
  BY DEF Next, Packet, Daemon

-----------------------------------------------------------------------------
(***************************************************************************)
(* Type correctness.                                                       *)
(***************************************************************************)
LEMMA TypeInit == Init => TypeOK
  BY GateAssumption
  DEF Init, TypeOK, Configs, Slots, NoStore, Quiet, Counted

LEMMA TypeNext == TypeOK /\ [Next]_vars => TypeOK'
<1> SUFFICES ASSUME TypeOK, [Next]_vars
             PROVE  TypeOK'
  OBVIOUS
<1> USE GateAssumption
    DEF TypeOK, Slots, NoStore, Quiet, Counted, vars, reloadVars, gateVars, threadVars
<1>1. ASSUME NEW t \in Threads, Receive(t) PROVE TypeOK'
  BY <1>1 DEF Receive
<1>2. ASSUME NEW t \in Threads, EnterPoll(t) PROVE TypeOK'
  BY <1>2 DEF EnterPoll
<1>3. ASSUME NEW t \in Threads, EnterCount(t) PROVE TypeOK'
  BY <1>3 DEF EnterCount
<1>4. ASSUME NEW t \in Threads, EnterCheck(t) PROVE TypeOK'
  BY <1>4 DEF EnterCheck
<1>5. ASSUME NEW t \in Threads, EnterBack(t) PROVE TypeOK'
  BY <1>5 DEF EnterBack
<1>6. ASSUME NEW t \in Threads, Select(t) PROVE TypeOK'
  BY <1>6 DEF Select, CurrentCrypto, Configs
<1>7. ASSUME NEW t \in Threads, Resolve(t) PROVE TypeOK'
  BY <1>7 DEF Resolve
<1>8. ASSUME NEW t \in Threads, Params(t) PROVE TypeOK'
  BY <1>8 DEF Params, CurrentCrypto, Configs
<1>9. ASSUME NEW t \in Threads, PinIndex(t) PROVE TypeOK'
  BY <1>9 DEF PinIndex
<1>10. ASSUME NEW t \in Threads, PinSet(t) PROVE TypeOK'
  BY <1>10 DEF PinSet
<1>11. ASSUME NEW t \in Threads, Leave(t) PROVE TypeOK'
  BY <1>11 DEF Leave
<1>12. CASE PinDrop
  BY <1>12 DEF PinDrop
<1>13. ASSUME NEW c \in Configs, WriteSlot(c) PROVE TypeOK'
  BY <1>13 DEF WriteSlot, NextSlot
<1>14. CASE Refuse
  BY <1>14 DEF Refuse
<1>15. CASE FastSwap
  BY <1>15 DEF FastSwap, NextSlot, InBody
<1>16. CASE RaisePause
  BY <1>16 DEF RaisePause, StorePause
<1>17. CASE Drain
  BY <1>17 DEF Drain
<1>18. CASE Swap
  BY <1>18 DEF Swap, NextSlot
<1>19. CASE SetFlags
  BY <1>19 DEF SetFlags
<1>20. CASE Rebuild
  BY <1>20 DEF Rebuild, CurrentCrypto, Configs
<1>21. CASE Unpin
  BY <1>21 DEF Unpin
<1>22. CASE Unpause
  BY <1>22 DEF Unpause, StorePause, NextSlot
<1>23. CASE FlushPause
  BY <1>23 DEF FlushPause
<1>24. CASE UNCHANGED vars
  BY <1>24
<1> QED
  BY NextCases, <1>1, <1>2, <1>3, <1>4, <1>5, <1>6, <1>7, <1>8, <1>9, <1>10, <1>11,
     <1>12, <1>13, <1>14, <1>15, <1>16, <1>17, <1>18, <1>19, <1>20, <1>21, <1>22,
     <1>23, <1>24

\* Every variable keeps its type: in particular forwarder.cfg and active_slot
\* always name one of the two slots, and g_reload_pause is 0 or 1.
THEOREM TypeCorrect == Spec => []TypeOK
<1>1. Init => TypeOK
  BY TypeInit
<1>2. TypeOK /\ [Next]_vars => TypeOK'
  BY TypeNext
<1> QED
  BY <1>1, <1>2, PTL DEF Spec

-----------------------------------------------------------------------------
(***************************************************************************)
(* The daemon's side: the pause, the slots and the crypto runtime.         *)
(***************************************************************************)
DaemonInv == PauseInv /\ SlotInv /\ RuntimeInv

LEMMA DaemonInit == Init => DaemonInv
  BY DEF Init, DaemonInv, PauseInv, SlotInv, RuntimeInv, Old, Running, Settled,
         CurrentCrypto, NoStore

LEMMA DaemonNext == TypeOK /\ DaemonInv /\ [Next]_vars => DaemonInv'
<1> SUFFICES ASSUME TypeOK, DaemonInv, [Next]_vars
             PROVE  DaemonInv'
  OBVIOUS
<1> USE GateAssumption
    DEF DaemonInv, PauseInv, SlotInv, RuntimeInv, Old, Running, Settled, NextSlot,
        CurrentCrypto, NoStore, Slots, vars, reloadVars, gateVars, threadVars
<1>0. /\ slot \in [Slots -> Configs] /\ activeSlot \in Slots /\ fwdCfg \in Slots
      /\ cryptoOn \in BOOLEAN
      /\ mpc \in {"idle", "compare", "drain"} \cup Quiet
      /\ pauseBuf \in {0, 1, NoStore}
  BY DEF TypeOK
<1>1. ASSUME NEW t \in Threads, Receive(t) PROVE DaemonInv'
  BY <1>0, <1>1 DEF Receive
<1>2. ASSUME NEW t \in Threads, EnterPoll(t) PROVE DaemonInv'
  BY <1>0, <1>2 DEF EnterPoll
<1>3. ASSUME NEW t \in Threads, EnterCount(t) PROVE DaemonInv'
  BY <1>0, <1>3 DEF EnterCount
<1>4. ASSUME NEW t \in Threads, EnterCheck(t) PROVE DaemonInv'
  BY <1>0, <1>4 DEF EnterCheck
<1>5. ASSUME NEW t \in Threads, EnterBack(t) PROVE DaemonInv'
  BY <1>0, <1>5 DEF EnterBack
<1>6. ASSUME NEW t \in Threads, Select(t) PROVE DaemonInv'
  BY <1>0, <1>6 DEF Select
<1>7. ASSUME NEW t \in Threads, Resolve(t) PROVE DaemonInv'
  BY <1>0, <1>7 DEF Resolve
<1>8. ASSUME NEW t \in Threads, Params(t) PROVE DaemonInv'
  BY <1>0, <1>8 DEF Params
<1>9. ASSUME NEW t \in Threads, PinIndex(t) PROVE DaemonInv'
  BY <1>0, <1>9 DEF PinIndex
<1>10. ASSUME NEW t \in Threads, PinSet(t) PROVE DaemonInv'
  BY <1>0, <1>10 DEF PinSet
<1>11. ASSUME NEW t \in Threads, Leave(t) PROVE DaemonInv'
  BY <1>0, <1>11 DEF Leave
<1>12. CASE PinDrop
  BY <1>0, <1>12 DEF PinDrop
<1>13. ASSUME NEW c \in Configs, WriteSlot(c) PROVE DaemonInv'
  BY <1>0, <1>13 DEF WriteSlot
<1>14. CASE Refuse
  BY <1>0, <1>14 DEF Refuse
<1>15. CASE FastSwap
  BY <1>0, <1>15 DEF FastSwap, CryptoChanged
<1>16. CASE RaisePause
  BY <1>0, <1>16 DEF RaisePause, StorePause
<1>17. CASE Drain
  BY <1>0, <1>17 DEF Drain
<1>18. CASE Swap
  BY <1>0, <1>18 DEF Swap, CryptoChanged, Quiet
<1>19. CASE SetFlags
  BY <1>0, <1>19 DEF SetFlags
<1>20. CASE Rebuild
  BY <1>0, <1>20 DEF Rebuild
<1>21. CASE Unpin
  BY <1>0, <1>21 DEF Unpin
<1>22. CASE Unpause
  BY <1>0, <1>22 DEF Unpause, StorePause
<1>23. CASE FlushPause
  BY <1>0, <1>23 DEF FlushPause
<1>24. CASE UNCHANGED vars
  BY <1>0, <1>24
<1> QED
  BY NextCases, <1>1, <1>2, <1>3, <1>4, <1>5, <1>6, <1>7, <1>8, <1>9, <1>10, <1>11,
     <1>12, <1>13, <1>14, <1>15, <1>16, <1>17, <1>18, <1>19, <1>20, <1>21, <1>22,
     <1>23, <1>24

-----------------------------------------------------------------------------
(***************************************************************************)
(* The counter: g_inflight_packets is the number of counted threads.       *)
(***************************************************************************)
LEMMA CountedFinite ==
  /\ IsFiniteSet({t \in Threads : tpc[t] \in Counted})
  /\ Cardinality({t \in Threads : tpc[t] \in Counted}) \in Nat
<1>1. {t \in Threads : tpc[t] \in Counted} \subseteq Threads
  OBVIOUS
<1> QED
  BY <1>1, GateAssumption, FS_Subset, FS_CardinalityType

LEMMA CountInit == Init => CountInv
<1> SUFFICES ASSUME Init
             PROVE  CountInv
  OBVIOUS
<1>1. {t \in Threads : tpc[t] \in Counted} = {}
  BY DEF Init, Counted
<1> QED
  BY <1>1, FS_EmptySet DEF Init, CountInv

LEMMA CountNext == TypeOK /\ CountInv /\ [Next]_vars => CountInv'
<1> SUFFICES ASSUME TypeOK, CountInv, [Next]_vars
             PROVE  CountInv'
  OBVIOUS
<1> DEFINE In == {t \in Threads : tpc[t] \in Counted}
<1> USE DEF vars, reloadVars, gateVars, threadVars
<1>0. /\ tpc \in [Threads -> {"out", "poll", "count"} \cup Counted]
      /\ inflight = Cardinality(In) /\ inflight \in Int
      /\ IsFiniteSet(In)
  BY CountedFinite DEF TypeOK, CountInv
\* A step that moves no thread into or out of the counted steps.
<1>same. ASSUME inflight' = inflight,
                \A t \in Threads : (tpc[t] \in Counted) = (tpc'[t] \in Counted)
         PROVE  CountInv'
  <2>1. In' = In
    BY <1>same
  <2> QED
    BY <2>1, <1>same, <1>0 DEF CountInv
\* A counted thread leaves.
<1>less. ASSUME NEW t \in Threads, tpc[t] \in Counted, NEW s, s \notin Counted,
                inflight' = inflight - 1, tpc' = [tpc EXCEPT ![t] = s]
         PROVE  CountInv'
  <2>1. In' = In \ {t}
    BY <1>less, <1>0
  <2>2. t \in In
    BY <1>less
  <2>3. Cardinality(In \ {t}) = Cardinality(In) - 1
    BY <2>2, <1>0, FS_RemoveElement
  <2> QED
    BY <2>1, <2>3, <1>less, <1>0 DEF CountInv
<1>1. ASSUME NEW t \in Threads, Receive(t) PROVE CountInv'
  BY <1>1, <1>0, <1>same DEF Receive, Counted
<1>2. ASSUME NEW t \in Threads, EnterPoll(t) PROVE CountInv'
  BY <1>2, <1>0, <1>same DEF EnterPoll, Counted
<1>3. ASSUME NEW t \in Threads, EnterCount(t) PROVE CountInv'
  <2>1. In' = In \cup {t}
    BY <1>3, <1>0 DEF EnterCount, Counted
  <2>2. t \notin In
    BY <1>3 DEF EnterCount, Counted
  <2>3. Cardinality(In \cup {t}) = Cardinality(In) + 1
    BY <2>2, <1>0, FS_AddElement
  <2> QED
    BY <2>1, <2>3, <1>3, <1>0 DEF EnterCount, CountInv
<1>4. ASSUME NEW t \in Threads, EnterCheck(t) PROVE CountInv'
  BY <1>4, <1>0, <1>same DEF EnterCheck, Counted
<1>5. ASSUME NEW t \in Threads, EnterBack(t) PROVE CountInv'
  BY <1>5, <1>less DEF EnterBack, Counted
<1>6. ASSUME NEW t \in Threads, Select(t) PROVE CountInv'
  BY <1>6, <1>0, <1>same DEF Select, Counted
<1>7. ASSUME NEW t \in Threads, Resolve(t) PROVE CountInv'
  BY <1>7, <1>0, <1>same DEF Resolve, Counted
<1>8. ASSUME NEW t \in Threads, Params(t) PROVE CountInv'
  BY <1>8, <1>0, <1>same DEF Params, Counted
<1>9. ASSUME NEW t \in Threads, PinIndex(t) PROVE CountInv'
  BY <1>9, <1>0, <1>same DEF PinIndex, Counted
<1>10. ASSUME NEW t \in Threads, PinSet(t) PROVE CountInv'
  BY <1>10, <1>0, <1>same DEF PinSet, Counted
<1>11. ASSUME NEW t \in Threads, Leave(t) PROVE CountInv'
  BY <1>11, <1>less DEF Leave, Counted
<1>12. CASE UNCHANGED <<inflight, tpc>>
  BY <1>12, <1>same
<1>13. (\E c \in Configs : WriteSlot(c)) => UNCHANGED <<inflight, tpc>>
  BY DEF WriteSlot
<1>14. PinDrop \/ Daemon \/ FlushPause => UNCHANGED <<inflight, tpc>>
  BY DEF PinDrop, Daemon, FlushPause, StorePause, Refuse, FastSwap, RaisePause, Drain,
     Swap, SetFlags, Rebuild, Unpin, Unpause
<1>15. UNCHANGED vars => UNCHANGED <<inflight, tpc>>
  OBVIOUS
<1> QED
  BY NextCases, <1>1, <1>2, <1>3, <1>4, <1>5, <1>6, <1>7, <1>8, <1>9, <1>10, <1>11,
     <1>12, <1>13, <1>14, <1>15 DEF Daemon

-----------------------------------------------------------------------------
(***************************************************************************)
(* The gate keeps packet sections and the replacement apart.               *)
(***************************************************************************)
LEMMA NobodyCounted ==
  ASSUME CountInv, inflight = 0
  PROVE  InBody = {}
<1>1. {t \in Threads : tpc[t] \in Counted} = {}
  BY CountedFinite, FS_EmptySet DEF CountInv
<1> QED
  BY <1>1 DEF InBody, Counted, Body

LEMMA ExclusiveNext ==
  TypeOK /\ CountInv /\ DaemonInv /\ ReloadExclusive /\ [Next]_vars => ReloadExclusive'
<1> SUFFICES ASSUME TypeOK, CountInv, DaemonInv, ReloadExclusive, [Next]_vars,
                    mpc' \in Quiet, NEW u \in Threads, tpc'[u] \in Body
             PROVE  BufferedStores /\ u \in overtaken'
  BY DEF ReloadExclusive, InBody
<1> USE DEF vars, reloadVars, gateVars, threadVars
<1>0. tpc \in [Threads -> {"out", "poll", "count"} \cup Counted]
  BY DEF TypeOK
\* A section that was running before the step, in a reload that had begun.
<1>old. ASSUME mpc \in Quiet, tpc[u] \in Body, u \in overtaken => u \in overtaken'
        PROVE  BufferedStores /\ u \in overtaken'
  BY <1>old DEF ReloadExclusive, InBody
\* A reload owns the configuration and its pause is not visible: the store is
\* still in the daemon's store buffer.
<1>hid. mpc \in Quiet /\ pause = 0 => BufferedStores /\ pauseBuf = 1
  BY DEF DaemonInv, PauseInv, Settled, Quiet, NoStore
<1>1. ASSUME NEW t \in Threads, Receive(t) PROVE BufferedStores /\ u \in overtaken'
  BY <1>0, <1>old, <1>1 DEF Receive, Body
<1>2. ASSUME NEW t \in Threads, EnterPoll(t) PROVE BufferedStores /\ u \in overtaken'
  BY <1>0, <1>old, <1>2 DEF EnterPoll, Body
<1>3. ASSUME NEW t \in Threads, EnterCount(t) PROVE BufferedStores /\ u \in overtaken'
  BY <1>0, <1>old, <1>3 DEF EnterCount, Body
<1>4. ASSUME NEW t \in Threads, EnterCheck(t) PROVE BufferedStores /\ u \in overtaken'
  BY <1>0, <1>old, <1>4, <1>hid DEF EnterCheck, Body
<1>5. ASSUME NEW t \in Threads, EnterBack(t) PROVE BufferedStores /\ u \in overtaken'
  BY <1>0, <1>old, <1>5 DEF EnterBack, Body
<1>6. ASSUME NEW t \in Threads, Select(t) PROVE BufferedStores /\ u \in overtaken'
  BY <1>0, <1>old, <1>6 DEF Select, Body
<1>7. ASSUME NEW t \in Threads, Resolve(t) PROVE BufferedStores /\ u \in overtaken'
  BY <1>0, <1>old, <1>7 DEF Resolve, Body
<1>8. ASSUME NEW t \in Threads, Params(t) PROVE BufferedStores /\ u \in overtaken'
  BY <1>0, <1>old, <1>8 DEF Params, Body
<1>9. ASSUME NEW t \in Threads, PinIndex(t) PROVE BufferedStores /\ u \in overtaken'
  BY <1>0, <1>old, <1>9 DEF PinIndex, Body
<1>10. ASSUME NEW t \in Threads, PinSet(t) PROVE BufferedStores /\ u \in overtaken'
  BY <1>0, <1>old, <1>10 DEF PinSet, Body
<1>11. ASSUME NEW t \in Threads, Leave(t) PROVE BufferedStores /\ u \in overtaken'
  BY <1>0, <1>old, <1>11 DEF Leave, Body
<1>12. CASE PinDrop
  BY <1>12, <1>old DEF PinDrop
<1>13. ASSUME NEW c \in Configs, WriteSlot(c) PROVE BufferedStores /\ u \in overtaken'
  BY <1>13 DEF WriteSlot, Quiet
<1>14. CASE Refuse
  BY <1>14 DEF Refuse, Quiet
<1>15. CASE FastSwap
  BY <1>15 DEF FastSwap, Quiet
<1>16. CASE RaisePause
  BY <1>16 DEF RaisePause, Quiet
<1>17. CASE Drain
  BY <1>17, NobodyCounted DEF Drain, InBody
<1>18. CASE Swap
  BY <1>18, <1>old DEF Swap, Quiet
<1>19. CASE SetFlags
  BY <1>19, <1>old DEF SetFlags, Quiet
<1>20. CASE Rebuild
  BY <1>20, <1>old DEF Rebuild, Quiet
<1>21. CASE Unpin
  BY <1>21, <1>old DEF Unpin, Quiet
<1>22. CASE Unpause
  BY <1>22 DEF Unpause, Quiet
<1>23. CASE FlushPause
  BY <1>23, <1>old DEF FlushPause
<1>24. CASE UNCHANGED vars
  BY <1>24, <1>old
<1> QED
  BY NextCases, <1>1, <1>2, <1>3, <1>4, <1>5, <1>6, <1>7, <1>8, <1>9, <1>10, <1>11,
     <1>12, <1>13, <1>14, <1>15, <1>16, <1>17, <1>18, <1>19, <1>20, <1>21, <1>22,
     <1>23, <1>24

-----------------------------------------------------------------------------
(***************************************************************************)
(* The sections.                                                           *)
(***************************************************************************)
LEMMA ClearNext == TypeOK /\ ClearInv /\ [Next]_vars => ClearInv'
<1> SUFFICES ASSUME TypeOK, ClearInv, [Next]_vars, NEW u \in clear'
             PROVE  tpc'[u] = "send"
  BY DEF ClearInv
<1> USE DEF ClearInv, vars, reloadVars, gateVars, threadVars
<1>0. /\ tpc \in [Threads -> {"out", "poll", "count"} \cup Counted]
      /\ clear \subseteq Threads
  BY DEF TypeOK
<1>1. ASSUME NEW t \in Threads, Receive(t) PROVE tpc'[u] = "send"
  BY <1>0, <1>1 DEF Receive
<1>2. ASSUME NEW t \in Threads, EnterPoll(t) PROVE tpc'[u] = "send"
  BY <1>0, <1>2 DEF EnterPoll
<1>3. ASSUME NEW t \in Threads, EnterCount(t) PROVE tpc'[u] = "send"
  BY <1>0, <1>3 DEF EnterCount
<1>4. ASSUME NEW t \in Threads, EnterCheck(t) PROVE tpc'[u] = "send"
  BY <1>0, <1>4 DEF EnterCheck
<1>5. ASSUME NEW t \in Threads, EnterBack(t) PROVE tpc'[u] = "send"
  BY <1>0, <1>5 DEF EnterBack
<1>6. ASSUME NEW t \in Threads, Select(t) PROVE tpc'[u] = "send"
  BY <1>0, <1>6 DEF Select
<1>7. ASSUME NEW t \in Threads, Resolve(t) PROVE tpc'[u] = "send"
  BY <1>0, <1>7 DEF Resolve
<1>8. ASSUME NEW t \in Threads, Params(t) PROVE tpc'[u] = "send"
  BY <1>0, <1>8 DEF Params
<1>9. ASSUME NEW t \in Threads, PinIndex(t) PROVE tpc'[u] = "send"
  BY <1>0, <1>9 DEF PinIndex
<1>10. ASSUME NEW t \in Threads, PinSet(t) PROVE tpc'[u] = "send"
  BY <1>0, <1>10 DEF PinSet
<1>11. ASSUME NEW t \in Threads, Leave(t) PROVE tpc'[u] = "send"
  BY <1>0, <1>11 DEF Leave
<1>12. CASE UNCHANGED <<clear, tpc>>
  BY <1>12
<1>13. (\E c \in Configs : WriteSlot(c)) => UNCHANGED <<clear, tpc>>
  BY DEF WriteSlot
<1>14. PinDrop \/ Daemon \/ FlushPause => UNCHANGED <<clear, tpc>>
  BY DEF PinDrop, Daemon, FlushPause, Refuse, FastSwap, RaisePause, Drain, Swap,
     SetFlags, Rebuild, Unpin, Unpause
<1>15. UNCHANGED vars => UNCHANGED <<clear, tpc>>
  OBVIOUS
<1> QED
  BY NextCases, <1>1, <1>2, <1>3, <1>4, <1>5, <1>6, <1>7, <1>8, <1>9, <1>10, <1>11,
     <1>12, <1>13, <1>14, <1>15 DEF Daemon

SectionPart == SectionInv /\ SectionConsistent

LEMMA SectionNext ==
  TypeOK /\ DaemonInv /\ ReloadExclusive /\ ClearInv /\ SectionPart /\ [Next]_vars
    => SectionPart'
<1> SUFFICES ASSUME TypeOK, DaemonInv, ReloadExclusive, ClearInv, SectionPart, [Next]_vars
             PROVE  SectionPart'
  OBVIOUS
<1> USE DEF SectionPart, SectionInv, SectionConsistent, ClearInv,
            vars, reloadVars, gateVars, threadVars
<1>0. /\ tpc \in [Threads -> {"out", "poll", "count"} \cup Counted]
      /\ cp \in [Threads -> Slots] /\ sel \in [Threads -> Cryptos]
      /\ ctx \in [Threads -> Cryptos] /\ par \in [Threads -> Cryptos]
      /\ clear \subseteq Threads /\ cryptoOn \in BOOLEAN
      /\ slot \in [Slots -> Configs] /\ fwdCfg \in Slots /\ activeSlot \in Slots
  BY DEF TypeOK
\* No reload is in progress for a section that none has overtaken, so what
\* crypto_enabled and the contexts say is what the configuration says.
<1>run. ASSUME NEW t \in Threads \ overtaken, tpc[t] \in Body
        PROVE  /\ mpc \in {"idle", "compare", "drain"}
               /\ cryptoOn = (CurrentCrypto # CryptoOff)
               /\ cryptoOn => runtime = CurrentCrypto
  <2>1. mpc \notin Quiet
    BY <1>run DEF ReloadExclusive, InBody
  <2>2. mpc \in {"idle", "compare", "drain"}
    BY <2>1 DEF TypeOK, Quiet
  <2> QED
    BY <2>2 DEF DaemonInv, RuntimeInv, Old, Running
\* A step of the daemon during which no untouched section runs.
<1>off. ASSUME mpc \in Quiet, UNCHANGED <<threadVars, overtaken>>
        PROVE  SectionPart'
  <2>1. \A t \in Threads \ overtaken : tpc[t] \notin Body
    BY <1>off DEF ReloadExclusive, InBody
  <2> QED
    BY <2>1, <1>off DEF Body
\* A step of the daemon that changes neither policies nor sections.
<1>same. ASSUME CurrentCrypto' = CurrentCrypto, UNCHANGED <<fwdCfg, threadVars, overtaken>>
         PROVE  SectionPart'
  BY <1>same
<1>1. ASSUME NEW t \in Threads, Receive(t) PROVE SectionPart'
  BY <1>0, <1>1 DEF Receive, CurrentCrypto
<1>2. ASSUME NEW t \in Threads, EnterPoll(t) PROVE SectionPart'
  BY <1>0, <1>2 DEF EnterPoll, CurrentCrypto
<1>3. ASSUME NEW t \in Threads, EnterCount(t) PROVE SectionPart'
  BY <1>0, <1>3 DEF EnterCount, CurrentCrypto
<1>4. ASSUME NEW t \in Threads, EnterCheck(t) PROVE SectionPart'
  BY <1>0, <1>4 DEF EnterCheck, CurrentCrypto
<1>5. ASSUME NEW t \in Threads, EnterBack(t) PROVE SectionPart'
  BY <1>0, <1>5 DEF EnterBack, CurrentCrypto
<1>6. ASSUME NEW t \in Threads, Select(t) PROVE SectionPart'
  BY <1>0, <1>6, <1>run DEF Select, Body, CurrentCrypto
<1>7. ASSUME NEW t \in Threads, Resolve(t) PROVE SectionPart'
  BY <1>0, <1>7, <1>run DEF Resolve, Body, CurrentCrypto
<1>8. ASSUME NEW t \in Threads, Params(t) PROVE SectionPart'
  BY <1>0, <1>8, <1>run DEF Params, Body, CurrentCrypto
<1>9. ASSUME NEW t \in Threads, PinIndex(t) PROVE SectionPart'
  BY <1>0, <1>9, <1>run DEF PinIndex, Body, CurrentCrypto
<1>10. ASSUME NEW t \in Threads, PinSet(t) PROVE SectionPart'
  BY <1>0, <1>10, <1>run DEF PinSet, Body, CurrentCrypto
<1>11. ASSUME NEW t \in Threads, Leave(t) PROVE SectionPart'
  BY <1>0, <1>11 DEF Leave, CurrentCrypto
<1>12. CASE PinDrop
  BY <1>12, <1>same DEF PinDrop, CurrentCrypto
<1>13. ASSUME NEW c \in Configs, WriteSlot(c) PROVE SectionPart'
  <2>1. NextSlot # fwdCfg
    BY <1>13, <1>0 DEF WriteSlot, DaemonInv, SlotInv, Old, Running, NextSlot, Slots
  <2> QED
    BY <1>13, <1>0, <1>same, <2>1 DEF WriteSlot, CurrentCrypto
<1>14. CASE Refuse
  BY <1>14, <1>same DEF Refuse, CurrentCrypto
<1>15. CASE FastSwap
  BY <1>15, <1>0 DEF FastSwap, InBody, Body
<1>16. CASE RaisePause
  BY <1>16, <1>same DEF RaisePause, CurrentCrypto
<1>17. CASE Drain
  BY <1>17, <1>same DEF Drain, CurrentCrypto
<1>18. CASE Swap
  BY <1>18, <1>off DEF Swap, Quiet
<1>19. CASE SetFlags
  BY <1>19, <1>off DEF SetFlags, Quiet
<1>20. CASE Rebuild
  BY <1>20, <1>off DEF Rebuild, Quiet
<1>21. CASE Unpin
  BY <1>21, <1>off DEF Unpin, Quiet
<1>22. CASE Unpause
  BY <1>22, <1>same DEF Unpause, CurrentCrypto
<1>23. CASE FlushPause
  BY <1>23, <1>same DEF FlushPause, CurrentCrypto
<1>24. CASE UNCHANGED vars
  BY <1>24, <1>same DEF CurrentCrypto
<1> QED
  BY NextCases, <1>1, <1>2, <1>3, <1>4, <1>5, <1>6, <1>7, <1>8, <1>9, <1>10, <1>11,
     <1>12, <1>13, <1>14, <1>15, <1>16, <1>17, <1>18, <1>19, <1>20, <1>21, <1>22,
     <1>23, <1>24

-----------------------------------------------------------------------------
LEMMA GateInit == Init => GateInv
<1> SUFFICES ASSUME Init
             PROVE  GateInv
  OBVIOUS
<1>1. TypeOK /\ CountInv /\ DaemonInv
  BY TypeInit, CountInit, DaemonInit
<1>2. ClearInv /\ ReloadExclusive /\ SectionInv /\ SectionConsistent
  BY DEF Init, ClearInv, ReloadExclusive, Quiet, SectionInv, SectionConsistent
<1> QED
  BY <1>1, <1>2 DEF GateInv, DaemonInv

LEMMA GateNext == GateInv /\ [Next]_vars => GateInv'
  BY TypeNext, CountNext, DaemonNext, ExclusiveNext, ClearNext, SectionNext
  DEF GateInv, DaemonInv, SectionPart

LEMMA GateCorrect == Spec => []GateInv
  BY GateInit, GateNext, PTL DEF Spec

\* While forwarder_reload_config() replaces the configuration, the crypto
\* runtime and the pins, no packet section runs, except those that read
\* g_reload_pause before the daemon's store to it was visible.
THEOREM GateExcludes == Spec => []ReloadExclusive
<1>1. GateInv => ReloadExclusive
  BY DEF GateInv
<1> QED
  BY <1>1, GateCorrect, PTL

\* A packet section that no reload overtook sends its packet with one policy
\* set throughout, and in the clear only if that set has encryption off.
THEOREM SectionsConsistent == Spec => []SectionConsistent
<1>1. GateInv => SectionConsistent
  BY DEF GateInv
<1> QED
  BY <1>1, GateCorrect, PTL

-----------------------------------------------------------------------------
(***************************************************************************)
(* The pins, when a store to g_reload_pause is seen at once.  (With a      *)
(* store buffer an overtaken section can leave a pin of the old policies   *)
(* behind: PinsCurrent is then false.)                                     *)
(***************************************************************************)
LEMMA PinNext ==
  ~ BufferedStores /\ GateInv /\ PinInv /\ [Next]_vars => PinInv'
<1> SUFFICES ASSUME ~ BufferedStores, GateInv, PinInv, [Next]_vars
             PROVE  PinInv'
  OBVIOUS
<1> USE DEF PinInv, vars, reloadVars, gateVars, threadVars
<1>0. /\ tpc \in [Threads -> {"out", "poll", "count"} \cup Counted]
      /\ sel \in [Threads -> Cryptos] /\ cryptoOn \in BOOLEAN
      /\ slot \in [Slots -> Configs] /\ fwdCfg \in Slots /\ activeSlot \in Slots
      /\ mpc \in {"idle", "compare", "drain"} \cup Quiet
  BY DEF GateInv, TypeOK
\* Nobody is in a section while the reload owns the configuration.
<1>quiet. mpc \in Quiet => \A t \in Threads : tpc[t] \notin Body
  BY DEF GateInv, ReloadExclusive, InBody
\* A step that leaves the installed policies, the pin and the sections alone.
<1>same. ASSUME CurrentCrypto' = CurrentCrypto, UNCHANGED <<cryptoOn, pin, tpc, sel>>,
                mpc' \in Old \cup {"unpause"} => mpc \in Old \cup {"unpause"}
         PROVE  PinInv'
  BY <1>same
<1>1. ASSUME NEW t \in Threads, Receive(t) PROVE PinInv'
  BY <1>0, <1>1 DEF Receive, CurrentCrypto
<1>2. ASSUME NEW t \in Threads, EnterPoll(t) PROVE PinInv'
  BY <1>0, <1>2 DEF EnterPoll, CurrentCrypto
<1>3. ASSUME NEW t \in Threads, EnterCount(t) PROVE PinInv'
  BY <1>0, <1>3 DEF EnterCount, CurrentCrypto
<1>4. ASSUME NEW t \in Threads, EnterCheck(t) PROVE PinInv'
  BY <1>0, <1>4 DEF EnterCheck, CurrentCrypto
<1>5. ASSUME NEW t \in Threads, EnterBack(t) PROVE PinInv'
  BY <1>0, <1>5 DEF EnterBack, CurrentCrypto
<1>6. ASSUME NEW t \in Threads, Select(t) PROVE PinInv'
  BY <1>0, <1>6 DEF Select, CurrentCrypto
<1>7. ASSUME NEW t \in Threads, Resolve(t) PROVE PinInv'
  BY <1>0, <1>7 DEF Resolve, CurrentCrypto
<1>8. ASSUME NEW t \in Threads, Params(t) PROVE PinInv'
  BY <1>0, <1>8 DEF Params, CurrentCrypto
<1>9. ASSUME NEW t \in Threads, PinIndex(t) PROVE PinInv'
  BY <1>0, <1>9 DEF PinIndex, CurrentCrypto
<1>10. ASSUME NEW t \in Threads, PinSet(t) PROVE PinInv'
  BY <1>0, <1>10, <1>quiet DEF PinSet, CurrentCrypto, Body, Quiet, Old, Running
<1>11. ASSUME NEW t \in Threads, Leave(t) PROVE PinInv'
  BY <1>0, <1>11 DEF Leave, CurrentCrypto
<1>12. CASE PinDrop
  BY <1>12 DEF PinDrop, CurrentCrypto
<1>13. ASSUME NEW c \in Configs, WriteSlot(c) PROVE PinInv'
  <2>1. NextSlot # fwdCfg
    BY <1>13, <1>0 DEF WriteSlot, GateInv, SlotInv, Old, Running, NextSlot, Slots
  <2> QED
    BY <1>13, <1>0, <1>same, <2>1 DEF WriteSlot, CurrentCrypto, Old, Running
<1>14. CASE Refuse
  BY <1>14, <1>same DEF Refuse, CurrentCrypto, Old, Running
<1>15. CASE FastSwap
  BY <1>15, <1>0, <1>same DEF FastSwap, CurrentCrypto, CryptoChanged, GateInv,
     SlotInv, Old, Running
<1>16. CASE RaisePause
  BY <1>16, <1>same DEF RaisePause, CurrentCrypto, Old, Running
<1>17. CASE Drain
  BY <1>17, <1>same DEF Drain, CurrentCrypto, Old, Running
<1>18. CASE Swap
  BY <1>18, <1>0, <1>quiet DEF Swap, Quiet, Body, CurrentCrypto, CryptoChanged,
     GateInv, SlotInv, Old, Running
<1>19. CASE SetFlags
  BY <1>19, <1>0, <1>quiet DEF SetFlags, Quiet, Body, CurrentCrypto, Old, Running
<1>20. CASE Rebuild
  BY <1>20, <1>0, <1>quiet DEF Rebuild, Quiet, Body, Old, Running
<1>21. CASE Unpin
  BY <1>21, <1>0, <1>quiet DEF Unpin, Quiet, Body
<1>22. CASE Unpause
  BY <1>22, <1>same DEF Unpause, CurrentCrypto
<1>23. CASE FlushPause
  BY <1>23, <1>same DEF FlushPause, CurrentCrypto
<1>24. CASE UNCHANGED vars
  BY <1>24, <1>same DEF CurrentCrypto
<1> QED
  BY NextCases, <1>1, <1>2, <1>3, <1>4, <1>5, <1>6, <1>7, <1>8, <1>9, <1>10, <1>11,
     <1>12, <1>13, <1>14, <1>15, <1>16, <1>17, <1>18, <1>19, <1>20, <1>21, <1>22,
     <1>23, <1>24

\* Where stores are seen at once, a pinned policy index was taken from the
\* policy list it is looked up in, whatever sequence of reloads (forwarding
\* counts only, policies, encryption off and on again) came between.
THEOREM PinsStayCurrent == ~ BufferedStores /\ Spec => []PinsCurrent
<1>1. Init => PinInv
  BY DEF Init, PinInv
<1>2. GateInv /\ PinInv => PinsCurrent
  BY DEF GateInv, TypeOK, PinInv, PinsCurrent, Old, Running, Quiet
<1>3. CASE BufferedStores
  BY <1>3
<1>4. CASE ~ BufferedStores
  <2>1. GateInv /\ PinInv /\ [Next]_vars => PinInv'
    BY <1>4, PinNext
  <2>2. Spec => []PinsCurrent
    BY <1>1, <1>2, <2>1, GateCorrect, PTL DEF Spec
  <2> QED
    BY <2>2
<1> QED
  BY <1>3, <1>4

-----------------------------------------------------------------------------
(***************************************************************************)
(* Why a reload returns.  That it does is liveness, but the two facts the  *)
(* argument needs are safety: nobody waits for something nobody will do,   *)
(* and the steps the drain loop has to wait for run out.                   *)
(***************************************************************************)
\* The drain loop waits for threads that are past the increment, and these
\* never wait; a thread waits for a pause that a reload under way has yet to
\* lift, or has lifted in the store buffer.
WaitsJustified ==
  /\ mpc = "drain" /\ inflight # 0 => \E t \in Threads : tpc[t] \in Counted
  /\ pause = 1 => mpc \in {"drain"} \cup Quiet \/ pauseBuf = 0

\* The steps a thread has left before it stands at the gate, with a packet or
\* without, while the pause is up.
Left ==
  [poll |-> 0, out |-> 1, back |-> 1, check |-> 2, count |-> 3, send |-> 2,
   pinset |-> 3, pin |-> 4, params |-> 5, resolve |-> 6, select |-> 7]

\* Each step a thread takes while the daemon drains brings it nearer to where
\* it is not counted.
DrainAdvances ==
  mpc = "drain" /\ pause = 1 =>
    \A t \in Threads : tpc'[t] # tpc[t] => Left[tpc'[t]] < Left[tpc[t]]

(***************************************************************************)
(* Neither the loop at forwarder.c:2500 nor the one in                     *)
(* packet_critical_enter() can be left alone: a reload waits only for      *)
(* threads that are at work, a thread only for a reload that is, however   *)
(* many threads there are and whether or not stores are buffered.          *)
(***************************************************************************)
THEOREM NoWaitUnanswered == Spec => []WaitsJustified
<1>1. GateInv => WaitsJustified
  <2> SUFFICES ASSUME GateInv PROVE WaitsJustified
    OBVIOUS
  <2>1. ASSUME inflight # 0 PROVE \E t \in Threads : tpc[t] \in Counted
    <3>1. CASE {t \in Threads : tpc[t] \in Counted} = {}
      BY <2>1, <3>1, FS_EmptySet DEF GateInv, CountInv
    <3> QED
      BY <3>1
  <2>2. ASSUME pause = 1, mpc \in Running PROVE pauseBuf = 0
    BY <2>2 DEF GateInv, PauseInv
  <2>3. mpc \in Running \cup {"drain"} \cup Quiet
    BY DEF GateInv, TypeOK, Running
  <2> QED
    BY <2>1, <2>2, <2>3 DEF WaitsJustified
<1> QED
  BY <1>1, GateCorrect, PTL

(***************************************************************************)
(* The steps the drain loop has to wait for are finitely many: once the    *)
(* pause is visible, no thread takes more than seven before it is out or   *)
(* stands at the gate, and packets that arrive meanwhile do not help it    *)
(* past (forwarder.c:83-96, 2500).                                         *)
(***************************************************************************)
THEOREM DrainRunsOut == Spec => [][DrainAdvances]_vars
<1>1. TypeOK /\ [Next]_vars => [DrainAdvances]_vars
  <2> SUFFICES ASSUME TypeOK, [Next]_vars, mpc = "drain", pause = 1, NEW t \in Threads,
                      tpc'[t] # tpc[t]
               PROVE  Left[tpc'[t]] < Left[tpc[t]]
    BY DEF DrainAdvances
  <2>1. tpc \in [Threads -> {"out", "poll", "count"} \cup Counted]
    BY DEF TypeOK
  <2>2. PICK p \in Threads :
          \/ Receive(p) \/ EnterPoll(p) \/ EnterCount(p) \/ EnterCheck(p)
          \/ EnterBack(p) \/ Select(p) \/ Resolve(p) \/ Params(p)
          \/ PinIndex(p) \/ PinSet(p) \/ Leave(p)
    BY NextCases DEF PinDrop, WriteSlot, Refuse, FastSwap, RaisePause, Drain, Swap, SetFlags,
       Rebuild, Unpin, Unpause, FlushPause, vars, threadVars
  <2>3. \E v : tpc' = [tpc EXCEPT ![p] = v] /\ Left[v] < Left[tpc[p]]
    BY <2>2 DEF Receive, EnterPoll, EnterCount, EnterCheck, EnterBack, Select, Resolve, Params,
       PinIndex, PinSet, Leave, Left
  <2> QED
    BY <2>1, <2>3
<1> QED
  BY <1>1, TypeCorrect, PTL DEF Spec
=============================================================================
