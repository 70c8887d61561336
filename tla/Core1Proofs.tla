---------------------------- MODULE Core1Proofs ----------------------------
(***************************************************************************)
(* Theorems about a Core-1 service: Core1, for any number of threads,      *)
(* calls and regions and any address range, and, at the end, its ring      *)
(* buffer, for every capacity, index range, byte values and call sizes.    *)
(***************************************************************************)
EXTENDS Core1, IpcRing, SequenceTheorems, TLAPS

Stopping == {"stop", "stopped"}

\* What StopExclusive needs to be inductive: threads have a place in a call,
\* and before step 9 of the main thread nobody is inside one, so that
\* service_framework_init does not reset the state under a stop.
LifeInv ==
  /\ call \in [Threads -> {"idle", "start", "stop", "stopped", "restart",
                           "cleanup", "report"}]
  /\ then \in [Threads -> {"return", "restart", "cleanup"}]
  /\ boot \in Nat
  /\ boot < 9 => \A t \in Threads : call[t] = "idle"
  /\ StopExclusive

LEMMA InitLifeInv == Init => LifeInv
  BY DEF Init, FrameworkInit, LifeInv, StopExclusive

\* A start never leaves or enters STOPPING.
LEMMA StartLifeInv ==
  ASSUME LifeInv, NEW t \in Threads, call[t] \in {"idle", "restart"},
         StartFrom(t), UNCHANGED then, boot' \in Nat, boot' >= 9
  PROVE  LifeInv'
  BY DEF LifeInv, StopExclusive, StartFrom, MayStart

\* The steps of a thread inside a call.
LEMMA CallLifeInv ==
  ASSUME LifeInv, NEW t \in Threads, CallStep(t), UNCHANGED boot
  PROVE  LifeInv'
  <1>0. boot \in Nat /\ boot >= 9
    BY DEF LifeInv, CallStep, net_service_start, net_service_stop, FinishStop,
           RestartStart, service_report_error
  <1>1. CASE net_service_start(t)
    BY <1>0, <1>1 DEF net_service_start, LifeInv, StopExclusive
  <1>2. CASE net_service_stop(t)
    BY <1>0, <1>2 DEF net_service_stop, LifeInv, StopExclusive
  <1>3. CASE FinishStop(t)
    BY <1>0, <1>3 DEF FinishStop, LifeInv, StopExclusive
  <1>4. CASE RestartStart(t)
    BY <1>0, <1>4, StartLifeInv DEF RestartStart
  <1>5. CASE service_report_error(t)
    BY <1>0, <1>5 DEF service_report_error, LifeInv, StopExclusive
  <1>6. QED
    BY <1>1, <1>2, <1>3, <1>4, <1>5 DEF CallStep

LEMMA NextLifeInv == LifeInv /\ [Next]_vars => LifeInv'
  <1> SUFFICES ASSUME LifeInv, [Next]_vars PROVE LifeInv'
    OBVIOUS
  <1>1. CASE core1_init
    BY <1>1 DEF core1_init, fvars, LifeInv, StopExclusive
  <1>2. CASE core1_main
    <2>1. CASE boot = 9 /\ service_start(Main)
      BY <1>2, <2>1, StartLifeInv, Core1Constants DEF core1_main, service_start, LifeInv
    <2>2. CASE boot < 9
      BY <1>2, <2>2, Core1Constants
         DEF core1_main, service_framework_init, service_register_callbacks,
             fvars, LifeInv, StopExclusive
    <2>3. QED
      BY <1>2, <2>1, <2>2 DEF core1_main
  <1>3. CASE MainCallback
    BY <1>3, CallLifeInv, Core1Constants DEF MainCallback
  <1>4. ASSUME NEW t \in others, boot >= 9, UseRegions(t)
        PROVE  LifeInv'
    BY <1>4 DEF UseRegions, fvars, LifeInv, StopExclusive
  <1>5. ASSUME NEW t \in others, boot >= 9, UseFramework(t)
        PROVE  LifeInv'
    <2>0. t \in Threads /\ boot \in Nat /\ UNCHANGED boot
      BY <1>5 DEF others, UseFramework, LifeInv
    <2>1. CASE service_start(t)
      BY <1>5, <2>0, <2>1, StartLifeInv DEF service_start
    <2>2. ASSUME NEW next \in {"return", "restart", "cleanup"}, service_stop(t, next)
          PROVE  LifeInv'
      BY <1>5, <2>0, <2>2 DEF service_stop, LifeInv, StopExclusive
    <2>3. CASE net_ipc_handler(t)
      BY <1>5, <2>0, <2>3 DEF net_ipc_handler, LifeInv, StopExclusive
    <2>4. CASE CallStep(t)
      BY <2>0, <2>4, CallLifeInv
    <2>5. QED
      BY <1>5, <2>1, <2>2, <2>3, <2>4 DEF UseFramework, FrameworkStep
  <1>6. ASSUME NEW t \in others, boot >= 9, core1_cleanup(t)
        PROVE  LifeInv'
    BY <1>6 DEF core1_cleanup, others, LifeInv, StopExclusive
  <1>7. CASE UNCHANGED vars
    BY <1>7 DEF vars, fvars, LifeInv, StopExclusive
  <1>8. QED
    BY <1>1, <1>2, <1>3, <1>4, <1>5, <1>6, <1>7 DEF Next

\* Between STOPPING and STOPPED exactly one thread runs service_stop, although
\* its callback runs without the lock.
THEOREM StopsExclude == Spec => []StopExclusive
  <1>1. LifeInv => StopExclusive
    BY DEF LifeInv
  <1>2. QED
    BY <1>1, InitLifeInv, NextLifeInv, PTL DEF Spec

-----------------------------------------------------------------------------
(***************************************************************************)
(* The callbacks of the service.                                           *)
(***************************************************************************)

\* What ConnectedFollowsState needs to be inductive: before the service starts
\* it is in INIT and not connected; a start callback is due only in RUNNING, a
\* RUNNING service is connected or about to be, and a stop callback that has
\* run has disconnected it.
ConnInv ==
  /\ state \in {"INIT", "RUNNING", "STOPPING", "STOPPED"}
  /\ boot < 9 => state = "INIT" /\ ~connected
  /\ callbacks /\ ~overtaken =>
       /\ \A t \in Threads : call[t] = "start" => state = "RUNNING"
       /\ \A t \in Threads : call[t] = "stopped" => ~connected
       /\ state \in {"INIT", "STOPPED"} => ~connected
       /\ state = "RUNNING" => connected \/ \E t \in Threads : call[t] = "start"

\* Steps that leave the service's state alone.
LEMMA SameConnInv ==
  ASSUME ConnInv, UNCHANGED <<state, connected, callbacks, overtaken>>,
         boot' < 9 => boot < 9,
         \A t \in Threads : /\ call'[t] = "start" <=> call[t] = "start"
                            /\ call'[t] = "stopped" => call[t] = "stopped"
  PROVE  ConnInv'
  BY DEF ConnInv

\* service_start up to the callback.
LEMMA StartConnInv ==
  ASSUME LifeInv, ConnInv, NEW t \in Threads, call[t] \in {"idle", "restart"},
         StartFrom(t), UNCHANGED <<connected, callbacks, overtaken>>, ~(boot' < 9)
  PROVE  ConnInv'
  <1>1. CASE MayStart /\ state' = "RUNNING"
             /\ call' = [call EXCEPT ![t] = IF callbacks THEN "start" ELSE "idle"]
    <2>1. call \in [Threads -> {"idle", "start", "stop", "stopped", "restart",
                                "cleanup", "report"}]
      BY DEF LifeInv
    <2>2. callbacks => call'[t] = "start"
      BY <1>1, <2>1
    <2>3. \A u \in Threads : call'[u] = "stopped" => call[u] = "stopped"
      BY <1>1, <2>1
    <2>4. QED
      BY <1>1, <2>2, <2>3 DEF ConnInv
  <1>2. CASE ~MayStart /\ UNCHANGED state /\ call' = [call EXCEPT ![t] = "idle"]
    <2>1. \A u \in Threads : /\ call'[u] = "start" <=> call[u] = "start"
                             /\ call'[u] = "stopped" => call[u] = "stopped"
      BY <1>2 DEF LifeInv
    <2>2. QED
      BY <1>2, <2>1, SameConnInv
  <1>3. QED
    BY <1>1, <1>2 DEF StartFrom

\* The steps of a thread inside a call.
LEMMA CallConnInv ==
  ASSUME LifeInv, ConnInv, NEW t \in Threads, CallStep(t), UNCHANGED boot
  PROVE  ConnInv'
  <1>0. /\ ~(boot < 9) /\ ~(boot' < 9)
        /\ call \in [Threads -> {"idle", "start", "stop", "stopped", "restart",
                                 "cleanup", "report"}]
        /\ then \in [Threads -> {"return", "restart", "cleanup"}]
    BY DEF LifeInv, CallStep, net_service_start, net_service_stop, FinishStop,
           RestartStart, service_report_error
  <1>1. CASE net_service_start(t)
    <2>1. call[t] = "start" /\ connected' /\ UNCHANGED <<state, callbacks, overtaken>>
          /\ call' = [call EXCEPT ![t] = "idle"]
      BY <1>1 DEF net_service_start
    <2>2. callbacks /\ ~overtaken => state = "RUNNING"
      BY <2>1 DEF ConnInv
    <2>3. state # "STOPPING" => \A u \in Threads : call[u] # "stopped"
      BY DEF LifeInv, StopExclusive
    <2>4. \A u \in Threads : /\ call'[u] = "start" => call[u] = "start"
                             /\ call'[u] = "stopped" => call[u] = "stopped"
      BY <1>0, <2>1
    <2>5. QED
      BY <1>0, <2>1, <2>2, <2>3, <2>4 DEF ConnInv
  <1>2. CASE net_service_stop(t)
    <2>1. /\ call[t] = "stop" /\ (callbacks => ~connected')
          /\ UNCHANGED <<state, callbacks, overtaken>>
          /\ call' = [call EXCEPT ![t] = "stopped"]
      BY <1>2 DEF net_service_stop
    <2>2. state = "STOPPING"
      BY <2>1, <1>2 DEF LifeInv, StopExclusive, net_service_stop
    <2>3. \A u \in Threads : call'[u] = "start" => call[u] = "start"
      BY <1>0, <2>1
    <2>4. QED
      BY <1>0, <2>1, <2>2, <2>3 DEF ConnInv
  <1>3. CASE FinishStop(t)
    <2>1. /\ call[t] = "stopped" /\ state' = "STOPPED"
          /\ UNCHANGED <<callbacks, connected, overtaken>>
      BY <1>3 DEF FinishStop
    <2>2. state = "STOPPING"
      BY <2>1 DEF LifeInv, StopExclusive
    <2>3. \A u \in Threads : /\ call'[u] = "start" => call[u] = "start"
                             /\ call'[u] = "stopped" => call[u] = "stopped"
      BY <1>0, <1>3 DEF FinishStop
    <2>4. QED
      BY <1>0, <2>1, <2>2, <2>3 DEF ConnInv
  <1>4. CASE RestartStart(t)
    BY <1>0, <1>4, StartConnInv DEF RestartStart
  <1>5. CASE service_report_error(t)
    <2>1. \A u \in Threads : /\ call'[u] = "start" <=> call[u] = "start"
                             /\ call'[u] = "stopped" => call[u] = "stopped"
      BY <1>0, <1>5 DEF service_report_error
    <2>2. QED
      BY <1>5, <2>1, SameConnInv DEF service_report_error
  <1>6. QED
    BY <1>1, <1>2, <1>3, <1>4, <1>5 DEF CallStep

LEMMA NextConnInv == LifeInv /\ ConnInv /\ [Next]_vars => ConnInv'
  <1> SUFFICES ASSUME LifeInv, ConnInv, [Next]_vars PROVE ConnInv'
    OBVIOUS
  <1>0. /\ call \in [Threads -> {"idle", "start", "stop", "stopped", "restart",
                                 "cleanup", "report"}]
        /\ boot \in Nat /\ Main \in Threads
    BY Core1Constants DEF LifeInv
  <1>1. CASE core1_init
    <2>1. boot < 9 /\ UNCHANGED fvars
      BY <1>1, <1>0 DEF core1_init
    <2>2. QED
      BY <2>1, SameConnInv DEF fvars
  <1>2. CASE core1_main
    <2>1. CASE boot = 9 /\ service_start(Main)
      <3>1. boot' = boot + 1 /\ ~(boot' < 9)
        BY <1>0, <1>2, <2>1 DEF core1_main
      <3>2. QED
        BY <1>0, <2>1, <3>1, StartConnInv DEF service_start
    <2>2. CASE boot < 9
      <3>1. /\ state' = "INIT" /\ ~connected' /\ UNCHANGED call
        BY <1>2, <2>2 DEF core1_main, service_framework_init, service_register_callbacks,
             fvars, ConnInv
      <3>2. \A t \in Threads : call[t] = "idle"
        BY <2>2 DEF LifeInv
      <3>3. QED
        BY <3>1, <3>2 DEF ConnInv
    <2>3. QED
      BY <1>2, <2>1, <2>2 DEF core1_main
  <1>3. CASE MainCallback
    BY <1>0, <1>3, CallConnInv DEF MainCallback
  <1>4. ASSUME NEW t \in others, boot >= 9, UseFramework(t)
        PROVE  ConnInv'
    <2>0. t \in Threads /\ UNCHANGED boot /\ ~(boot' < 9)
      BY <1>0, <1>4 DEF others, UseFramework
    <2>1. CASE service_start(t)
      BY <2>0, <2>1, StartConnInv DEF service_start
    <2>2. ASSUME NEW next \in {"return", "restart", "cleanup"}, service_stop(t, next)
          PROVE  ConnInv'
      <3>1. CASE state = "RUNNING" /\ state' = "STOPPING"
                 /\ call' = [call EXCEPT ![t] = "stop"]
                 /\ overtaken' = (overtaken \/ \E u \in Threads : call[u] = "start")
        <4>1. \A u \in Threads : /\ call'[u] = "start" => call[u] = "start"
                                 /\ call'[u] = "stopped" => call[u] = "stopped"
          BY <1>0, <3>1
        <4>2. \A u \in Threads : call[u] # "stopped"
          BY <3>1 DEF LifeInv, StopExclusive
        <4>3. UNCHANGED <<callbacks, connected>>
          BY <2>2 DEF service_stop
        <4>4. QED
          BY <2>0, <3>1, <4>1, <4>2, <4>3 DEF ConnInv
      <3>2. CASE call' = [call EXCEPT ![t] = "cleanup"] /\ UNCHANGED <<state, overtaken>>
        <4>1. \A u \in Threads : /\ call'[u] = "start" <=> call[u] = "start"
                                 /\ call'[u] = "stopped" => call[u] = "stopped"
          BY <1>0, <2>2, <3>2 DEF service_stop
        <4>2. UNCHANGED <<callbacks, connected>>
          BY <2>2 DEF service_stop
        <4>3. QED
          BY <2>0, <3>2, <4>1, <4>2, SameConnInv
      <3>3. QED
        BY <2>2, <3>1, <3>2 DEF service_stop
    <2>3. CASE net_ipc_handler(t)
      <3>1. \A u \in Threads : /\ call'[u] = "start" <=> call[u] = "start"
                               /\ call'[u] = "stopped" => call[u] = "stopped"
        BY <1>0, <2>3 DEF net_ipc_handler
      <3>2. QED
        BY <2>0, <2>3, <3>1, SameConnInv DEF net_ipc_handler
    <2>4. CASE CallStep(t)
      BY <2>0, <2>4, CallConnInv
    <2>5. QED
      BY <1>4, <2>1, <2>2, <2>3, <2>4 DEF UseFramework, FrameworkStep
  <1>5. ASSUME NEW t \in others, boot >= 9, UseRegions(t) \/ core1_cleanup(t)
        PROVE  ConnInv'
    <2>1. \A u \in Threads : /\ call'[u] = "start" <=> call[u] = "start"
                             /\ call'[u] = "stopped" => call[u] = "stopped"
      BY <1>0, <1>5 DEF UseRegions, core1_cleanup, fvars
    <2>2. UNCHANGED <<state, connected, callbacks, overtaken, boot>>
      BY <1>5 DEF UseRegions, core1_cleanup, fvars
    <2>3. QED
      BY <2>1, <2>2, SameConnInv
  <1>6. CASE UNCHANGED vars
    BY <1>6, SameConnInv DEF vars, fvars
  <1>7. QED
    BY <1>1, <1>2, <1>3, <1>4, <1>5, <1>6 DEF Next

\* When no callback is due or running, the network service is connected exactly
\* when it is RUNNING, unless a stop has overtaken a start callback.
THEOREM ConnectionFollowsState == Spec => []ConnectedFollowsState
  <1>1. Init => ConnInv
    BY DEF Init, FrameworkInit, ConnInv
  <1>2. LifeInv /\ ConnInv => ConnectedFollowsState
    BY DEF LifeInv, StopExclusive, ConnInv, ConnectedFollowsState
  <1>3. QED
    BY <1>1, <1>2, InitLifeInv, NextLifeInv, NextConnInv, PTL DEF Spec

-----------------------------------------------------------------------------
(***************************************************************************)
(* The region table.                                                       *)
(***************************************************************************)

\* The parts of the types that the table's invariants rest on.
TableType ==
  /\ rpc \in [Threads -> {"idle", "admitted", "flag", "scan", "access"}]
  /\ adding \in [Threads -> Region]
  /\ num_regions \in 0 .. MAX_MEM_REGIONS
  /\ regions \in [Slots -> Region]
  /\ boot \in Nat /\ info \in [1 .. 4 -> Region]

\* What OverrunNeedsRace needs to be inductive: without contention one thread
\* at most is past the test for a full table, and what it tested still holds.
NoRace ==
  /\ ~overrun
  /\ \A t, u \in Threads : rpc[t] = "admitted" /\ rpc[u] = "admitted" => t = u
  /\ \A t \in Threads : rpc[t] = "admitted" => num_regions < MAX_MEM_REGIONS

TableInv ==
  /\ TableType
  /\ ~contended => NoRace
  /\ RegionsDisjoint

LEMMA RegionFacts ==
  /\ NoRegion \in Region /\ RegionArgs \subseteq Region
  /\ \A r \in Region : /\ r.type \in 0 .. MAX_MEM_REGIONS - 1
                       /\ r.phys_base \in Nat /\ r.phys_base < ADDRESS_RANGE
                       /\ r.size \in Nat /\ r.size < ADDRESS_RANGE
  BY RegionConstants DEF NoRegion, Region, Addresses, MemPerms

LEMMA InitTableInv == Init => TableInv
  <1> SUFFICES ASSUME Init PROVE TableInv
    OBVIOUS
  <1>1. TableType
    BY RegionFacts, RegionConstants, Core1Constants DEF Init, RegionsInit, TableType, Slots
  <1>2. NoRace
    BY DEF Init, RegionsInit, NoRace
  <1>3. RegionsDisjoint
    BY DEF Init, RegionsInit, RegionsDisjoint, Used, Slots
  <1>4. QED
    BY <1>1, <1>2, <1>3 DEF TableInv

\* Two regions that do not wrap and that the code's comparison passes share
\* no address.
LEMMA OverlapExact ==
  ASSUME NEW a \in Region, NEW r \in Region, ~Overlaps(a, r),
         ~Wraps(a.phys_base, a.size), ~Wraps(r.phys_base, r.size)
  PROVE  /\ Bytes(a.phys_base, a.size) \cap Bytes(r.phys_base, r.size) = {}
         /\ Bytes(r.phys_base, r.size) \cap Bytes(a.phys_base, a.size) = {}
  <1>1. /\ a.phys_base \in Nat /\ a.size \in Nat /\ r.phys_base \in Nat /\ r.size \in Nat
        /\ ADDRESS_RANGE \in Nat \ {0}
    BY RegionFacts, RegionConstants
  <1>2. \A x \in Nat : x < ADDRESS_RANGE => x % ADDRESS_RANGE = x
    BY <1>1, SMTT(30)
  <1>3. /\ End(a) = a.phys_base + a.size /\ End(r) = r.phys_base + r.size
    BY <1>1, <1>2 DEF End, Plus, Wraps
  <1>4. QED
    BY <1>1, <1>3 DEF Overlaps, Bytes

\* The locked half of an addition.
LEMMA AddTableInv ==
  ASSUME TableInv, NEW t \in Threads, AddLocked(t), boot' \in Nat, UNCHANGED info
  PROVE  TableInv'
  <1> DEFINE a == adding[t]
  <1>0. /\ a \in Region /\ a.type \in 0 .. MAX_MEM_REGIONS - 1
        /\ MAX_MEM_REGIONS \in Nat \ {0} /\ num_regions \in 0 .. MAX_MEM_REGIONS
        /\ rpc[t] = "admitted" /\ contended' = contended
    BY RegionFacts, RegionConstants DEF TableInv, TableType, AddLocked
  <1>1. CASE ~FreeOfOverlap(a) \/ num_regions = MAX_MEM_REGIONS
    <2>1. UNCHANGED regions /\ num_regions' \in 0 .. MAX_MEM_REGIONS
      BY <1>0, <1>1 DEF AddLocked, WriteEntry, table
    <2>2. num_regions' <= num_regions
      BY <1>0, <1>1 DEF AddLocked, WriteEntry, table
    <2>3. TableType'
      BY <1>0, <2>1, RegionFacts DEF AddLocked, TableInv, TableType
    <2>4. ~contended => NoRace'
      BY <1>0, <1>1, <2>1, <2>2 DEF AddLocked, WriteEntry, table, TableInv, TableType, NoRace
    <2>5. Used' \subseteq Used
      BY <1>0, <2>1, <2>2 DEF Used, Slots
    <2>6. RegionsDisjoint'
      BY <2>1, <2>5 DEF TableInv, RegionsDisjoint
    <2>7. QED
      BY <1>0, <2>3, <2>4, <2>6 DEF TableInv
  <1>2. CASE FreeOfOverlap(a) /\ num_regions < MAX_MEM_REGIONS
    <2>1. /\ regions' = [regions EXCEPT ![num_regions] = a]
          /\ num_regions' = num_regions + 1 /\ UNCHANGED overrun
      BY <1>0, <1>2 DEF AddLocked, WriteEntry
    <2>2. num_regions \in Slots /\ regions \in [Slots -> Region]
      BY <1>0, <1>2 DEF Slots, TableInv, TableType
    <2>3. TableType'
      BY <1>0, <1>2, <2>1, <2>2, RegionFacts DEF AddLocked, TableInv, TableType
    <2>4. ~contended => NoRace'
      BY <1>0, <2>1 DEF AddLocked, TableInv, TableType, NoRace
    <2>5. Used' = Used \cup {num_regions} /\ num_regions \notin Used /\ Used \subseteq Slots
      BY <1>0, <2>1, <2>2 DEF Used, Slots
    <2>6. /\ regions'[num_regions] = a
          /\ \A s \in Used : regions'[s] = regions[s] /\ regions[s] \in Region
      BY <2>1, <2>2, <2>5
    <2>7. ASSUME NEW s \in Used', NEW u \in Used', s # u,
                 ~Wraps(regions'[s].phys_base, regions'[s].size),
                 ~Wraps(regions'[u].phys_base, regions'[u].size)
          PROVE  Bytes(regions'[s].phys_base, regions'[s].size)
                   \cap Bytes(regions'[u].phys_base, regions'[u].size) = {}
      <3>1. CASE s \in Used /\ u \in Used
        BY <2>6, <2>7, <3>1 DEF TableInv, RegionsDisjoint
      <3>2. CASE s = num_regions
        <4>1. u \in Used /\ ~Overlaps(a, regions[u])
          BY <1>2, <2>5, <2>7, <3>2 DEF FreeOfOverlap
        <4>2. QED
          BY <1>0, <2>6, <2>7, <3>2, <4>1, OverlapExact
      <3>3. CASE u = num_regions
        <4>1. s \in Used /\ ~Overlaps(a, regions[s])
          BY <1>2, <2>5, <2>7, <3>3 DEF FreeOfOverlap
        <4>2. QED
          BY <1>0, <2>6, <2>7, <3>3, <4>1, OverlapExact
      <3>4. QED
        BY <2>5, <3>1, <3>2, <3>3
    <2>8. RegionsDisjoint'
      BY <2>7 DEF RegionsDisjoint
    <2>9. QED
      BY <1>0, <2>3, <2>4, <2>8 DEF TableInv
  <1>3. QED
    BY <1>0, <1>1, <1>2

\* A removal moves entries down without changing their order.
LEMMA RemoveTableInv ==
  ASSUME TableInv, NEW t \in Threads, NEW base, isolation_remove_region(t, base),
         UNCHANGED <<boot, info>>
  PROVE  TableInv'
  <1>0. /\ num_regions \in 0 .. MAX_MEM_REGIONS /\ MAX_MEM_REGIONS \in Nat \ {0}
        /\ regions \in [Slots -> Region]
    BY RegionConstants DEF TableInv, TableType
  <1>1. PICK s \in Used :
          regions' = [u \in Slots |-> IF s <= u /\ u < num_regions - 1
                                      THEN regions[u + 1] ELSE regions[u]]
    BY DEF isolation_remove_region
  <1>2. /\ num_regions' = num_regions - 1 /\ num_regions >= 1
        /\ s \in 0 .. num_regions - 1
        /\ num_regions' \in 0 .. MAX_MEM_REGIONS
    BY <1>0 DEF isolation_remove_region, Used, Slots
  <1> DEFINE old(u) == IF s <= u THEN u + 1 ELSE u
  <1>3. \A u \in Used' : /\ old(u) \in Used /\ regions'[u] = regions[old(u)]
    BY <1>0, <1>1, <1>2 DEF Used, Slots
  <1>4. \A u, v \in Used' : u # v => old(u) # old(v)
    BY <1>2 DEF Used, Slots
  <1>5. RegionsDisjoint'
    <2> HIDE DEF old
    <2> QED
      BY <1>3, <1>4 DEF TableInv, RegionsDisjoint
  <1>6. regions' \in [Slots -> Region]
    BY <1>0, <1>1, <1>2 DEF Slots
  <1>7. QED
    BY <1>0, <1>2, <1>5, <1>6 DEF isolation_remove_region, calls, TableInv, TableType, NoRace

\* Steps that leave the table alone.
LEMMA OtherTableInv ==
  ASSUME TableInv, TableType', UNCHANGED <<regions, num_regions, contended, overrun>>,
         \A t \in Threads : rpc'[t] = "admitted" => rpc[t] = "admitted"
  PROVE  TableInv'
  BY DEF TableInv, NoRace, RegionsDisjoint, Used

LEMMA AdmitTableInv ==
  ASSUME TableInv, NEW t \in Threads, NEW a \in Region, isolation_add_region(t, a),
         UNCHANGED <<boot, info>>
  PROVE  TableInv'
  <1>1. TableType' /\ RegionsDisjoint'
    BY DEF isolation_add_region, table, TableInv, TableType, RegionsDisjoint, Used
  <1>2. ~contended' => NoRace'
    BY DEF isolation_add_region, table, TableInv, TableType, NoRace
  <1>3. QED
    BY <1>1, <1>2 DEF TableInv

LEMMA NextTableInv == TableInv /\ [Next]_vars => TableInv'
  <1> SUFFICES ASSUME TableInv, [Next]_vars PROVE TableInv'
    OBVIOUS
  <1>0. boot \in Nat /\ boot + 1 \in Nat
    BY DEF TableInv, TableType
  <1>1. CASE core1_init
    <2>1. CASE boot \in 1 .. 4 /\ isolation_add_region(Main, info[boot]) /\ UNCHANGED boot
      <3>1. info[boot] \in Region
        BY <2>1 DEF TableInv, TableType
      <3>2. QED
        BY <1>1, <2>1, <3>1, AdmitTableInv, Core1Constants DEF core1_init
    <2>2. CASE AddLocked(Main) /\ boot' = boot + 1
      BY <1>0, <1>1, <2>2, AddTableInv, Core1Constants DEF core1_init
    <2>3. CASE isolation_enable /\ boot' = 6
      BY <1>1, <2>3, OtherTableInv
         DEF core1_init, isolation_enable, SetEnabled, calls, TableInv, TableType
    <2>4. QED
      BY <1>1, <2>1, <2>2, <2>3 DEF core1_init
  <1>2. CASE core1_main
    BY <1>0, <1>2, OtherTableInv DEF core1_main, rvars, TableInv, TableType
  <1>3. CASE MainCallback
    BY <1>3, OtherTableInv DEF MainCallback, rvars, TableInv, TableType
  <1>4. ASSUME NEW t \in others, UseRegions(t)
        PROVE  TableInv'
    <2>0. t \in Threads /\ UNCHANGED <<boot, info>> /\ boot' \in Nat
      BY <1>0, <1>4 DEF others, UseRegions
    <2>1. ASSUME NEW a \in RegionArgs, isolation_add_region(t, a)
          PROVE  TableInv'
      BY <2>0, <2>1, AdmitTableInv, RegionFacts
    <2>2. ASSUME NEW a \in RegionArgs, isolation_remove_region(t, a.phys_base)
          PROVE  TableInv'
      BY <2>0, <2>2, RemoveTableInv
    <2>3. CASE AddLocked(t)
      BY <2>0, <2>3, AddTableInv
    <2>4. ASSUME NEW c \in AccessCalls, BeginAccess(t, c)
          PROVE  TableInv'
      BY <2>0, <2>4, OtherTableInv DEF BeginAccess, table, TableInv, TableType
    <2>5. CASE ReadFlag(t)
      BY <2>0, <2>5, OtherTableInv DEF ReadFlag, Granted, table, TableInv, TableType
    <2>6. CASE Scan(t)
      BY <2>0, <2>6, OtherTableInv DEF Scan, Granted, table, TableInv, TableType
    <2>7. CASE Access(t)
      BY <2>0, <2>7, OtherTableInv DEF Access, table, TableInv, TableType
    <2>8. ASSUME NEW r \in Ranges, isolation_get_region(t, r.addr)
          PROVE  TableInv'
      BY <2>0, <2>8, OtherTableInv DEF isolation_get_region, table, TableInv, TableType
    <2>9. QED
      BY <1>4, <2>1, <2>2, <2>3, <2>4, <2>5, <2>6, <2>7, <2>8 DEF UseRegions, RegionsStep
  <1>5. ASSUME NEW t \in others, UseFramework(t)
        PROVE  TableInv'
    BY <1>5, OtherTableInv DEF UseFramework, rvars, TableInv, TableType
  <1>6. ASSUME NEW t \in others, core1_cleanup(t)
        PROVE  TableInv'
    BY <1>6, OtherTableInv
       DEF core1_cleanup, isolation_disable, SetEnabled, calls, TableInv, TableType
  <1>7. CASE UNCHANGED vars
    BY <1>7, OtherTableInv DEF vars, rvars, TableInv, TableType
  <1>8. QED
    BY <1>1, <1>2, <1>3, <1>4, <1>5, <1>6, <1>7 DEF Next

\* isolation_add_region writes behind the table only if two threads were past
\* its unlocked test for a full table at the same time.
THEOREM OverrunsNeedARace == Spec => []OverrunNeedsRace
  <1>1. TableInv => OverrunNeedsRace
    BY DEF TableInv, NoRace, OverrunNeedsRace
  <1>2. QED
    BY <1>1, InitTableInv, NextTableInv, PTL DEF Spec

\* The regions of the table whose end does not wrap stay disjoint, whatever is
\* added, removed or written behind the table.
THEOREM RegionsStayDisjoint == Spec => []RegionsDisjoint
  <1>1. TableInv => RegionsDisjoint
    BY DEF TableInv
  <1>2. QED
    BY <1>1, InitTableInv, NextTableInv, PTL DEF Spec

-----------------------------------------------------------------------------
(***************************************************************************)
(* Pointers into the region table.                                         *)
(***************************************************************************)

\* What HeldRegionStays needs to be inductive: a pointer leads into the table.
HeldInv ==
  /\ held \in [Threads -> [slot: Int, region: Region]]
  /\ changed \in [Threads -> BOOLEAN]
  /\ \A t \in Threads : held[t] = NotHeld \/ held[t].slot \in Slots
  /\ HeldRegionStays

LEMMA InitHeldInv == Init => HeldInv
  BY RegionFacts DEF Init, RegionsInit, HeldInv, HeldRegionStays, NotHeld

\* Steps that leave pointers, entries and history alone.
LEMMA SameHeldInv ==
  ASSUME HeldInv, UNCHANGED <<held, changed, regions, num_regions>>
  PROVE  HeldInv'
  BY DEF HeldInv, HeldRegionStays

\* Steps after which no pointer counts any more.
LEMMA ChangedHeldInv ==
  ASSUME HeldInv, UNCHANGED held, changed' = [t \in Threads |-> TRUE]
  PROVE  HeldInv'
  BY DEF HeldInv, HeldRegionStays

LEMMA AddHeldInv ==
  ASSUME TableInv, HeldInv, NEW t \in Threads, AddLocked(t)
  PROVE  HeldInv'
  <1>1. CASE UNCHANGED <<regions, num_regions, changed>>
    BY <1>1, SameHeldInv DEF AddLocked
  <1>2. CASE changed' = [u \in Threads |-> TRUE]
    BY <1>2, ChangedHeldInv DEF AddLocked
  <1>3. CASE /\ regions' = [regions EXCEPT ![num_regions] = adding[t]]
             /\ num_regions' = num_regions + 1 /\ UNCHANGED changed
    <2>1. UNCHANGED held /\ num_regions \in Int /\ regions \in [Slots -> Region]
      BY DEF AddLocked, TableInv, TableType
    <2>2. ASSUME NEW u \in Threads, held[u] # NotHeld, ~changed[u]
          PROVE  held[u].slot < num_regions' /\ regions'[held[u].slot] = held[u].region
      <3>1. /\ held[u].slot \in Slots /\ held[u].slot < num_regions
            /\ regions[held[u].slot] = held[u].region
        BY <2>2 DEF HeldInv, HeldRegionStays
      <3>2. held[u].slot # num_regions /\ held[u].slot < num_regions + 1
        BY <2>1, <3>1 DEF Slots
      <3>3. QED
        BY <1>3, <2>1, <3>1, <3>2
    <2>3. HeldRegionStays'
      BY <1>3, <2>1, <2>2 DEF HeldRegionStays
    <2>4. QED
      BY <1>3, <2>1, <2>3 DEF HeldInv
  <1>4. QED
    BY <1>1, <1>2, <1>3 DEF AddLocked, WriteEntry, table

LEMMA NextHeldInv == TableInv /\ HeldInv /\ [Next]_vars => HeldInv'
  <1> SUFFICES ASSUME TableInv, HeldInv, [Next]_vars PROVE HeldInv'
    OBVIOUS
  <1>1. CASE core1_init
    BY <1>1, SameHeldInv, ChangedHeldInv, AddHeldInv, Core1Constants
       DEF core1_init, isolation_add_region, isolation_enable, SetEnabled, table, calls
  <1>2. CASE core1_main \/ MainCallback \/ UNCHANGED vars
    BY <1>2, SameHeldInv DEF core1_main, MainCallback, vars, rvars
  <1>3. ASSUME NEW t \in others, UseRegions(t)
        PROVE  HeldInv'
    <2>0. t \in Threads
      BY DEF others
    <2>1. ASSUME NEW a \in RegionArgs, isolation_add_region(t, a)
          PROVE  HeldInv'
      BY <2>1, SameHeldInv DEF isolation_add_region, table
    <2>2. ASSUME NEW a \in RegionArgs, isolation_remove_region(t, a.phys_base)
          PROVE  HeldInv'
      BY <2>2, ChangedHeldInv DEF isolation_remove_region, calls
    <2>3. CASE AddLocked(t)
      BY <2>0, <2>3, AddHeldInv
    <2>4. ASSUME NEW c \in AccessCalls, BeginAccess(t, c)
          PROVE  HeldInv'
      BY <2>0, <2>4, RegionFacts DEF BeginAccess, table, HeldInv, HeldRegionStays, NotHeld
    <2>5. CASE ReadFlag(t) \/ Scan(t) \/ Access(t)
      BY <2>5, SameHeldInv DEF ReadFlag, Scan, Access, table
    <2>6. ASSUME NEW r \in Ranges, isolation_get_region(t, r.addr)
          PROVE  HeldInv'
      <3>1. PICK s \in Used :
              held' = [held EXCEPT ![t] = [slot |-> s, region |-> regions[s]]]
        BY <2>6 DEF isolation_get_region, Around
      <3>2. /\ s \in Slots /\ s \in Int /\ s < num_regions /\ regions[s] \in Region
            /\ changed' = [changed EXCEPT ![t] = FALSE] /\ UNCHANGED <<regions, num_regions>>
        BY <2>6 DEF isolation_get_region, table, Used, Slots, TableInv, TableType
      <3>3. QED
        BY <2>0, <3>1, <3>2 DEF HeldInv, HeldRegionStays
    <2>7. QED
      BY <1>3, <2>1, <2>2, <2>3, <2>4, <2>5, <2>6 DEF UseRegions, RegionsStep
  <1>4. ASSUME NEW t \in others, UseFramework(t)
        PROVE  HeldInv'
    BY <1>4, SameHeldInv DEF UseFramework, rvars
  <1>5. ASSUME NEW t \in others, core1_cleanup(t)
        PROVE  HeldInv'
    BY <1>5, ChangedHeldInv DEF core1_cleanup, isolation_disable, SetEnabled, calls
  <1>6. QED
    BY <1>1, <1>2, <1>3, <1>4, <1>5 DEF Next

\* The entry behind a pointer from isolation_get_region is the region that was
\* looked up until a region is removed or checking is switched.
THEOREM HeldRegionsStay == Spec => []HeldRegionStays
  <1>1. HeldInv => HeldRegionStays
    BY DEF HeldInv
  <1>2. QED
    BY <1>1, InitTableInv, NextTableInv, InitHeldInv, NextHeldInv, PTL DEF Spec

-----------------------------------------------------------------------------
(***************************************************************************)
(* Checked accesses.                                                       *)
(***************************************************************************)

\* A request whose verdict means something: not empty, and without a wrap.
Plain(q) == q.size # 0 /\ ~Wraps(q.addr, q.size)

\* The comparison of isolation_verify_access, with its wrapping sums, is exact
\* for a plain request: a region that wraps contains none.
LEMMA ContainsExact ==
  ASSUME NEW r \in Region, NEW q \in Request, Plain(q)
  PROVE  Encloses(r, q) <=>
           /\ ~Wraps(r.phys_base, r.size)
           /\ Bytes(q.addr, q.size) \subseteq Bytes(r.phys_base, r.size)
  <1>1. /\ r.phys_base \in Nat /\ r.size \in Nat /\ r.phys_base < ADDRESS_RANGE
        /\ r.size < ADDRESS_RANGE /\ ADDRESS_RANGE \in Nat \ {0}
        /\ q.addr \in Nat /\ q.size \in Nat
    BY RegionFacts, RegionConstants DEF Request, Addresses
  <1>2. q.size > 0 /\ q.addr + q.size < ADDRESS_RANGE
    BY <1>1 DEF Plain, Wraps
  <1>3. \A x \in Nat : x < ADDRESS_RANGE => x % ADDRESS_RANGE = x
    BY <1>1, SMTT(30)
  <1>4. \A x \in Nat : ADDRESS_RANGE <= x /\ x < 2 * ADDRESS_RANGE
                         => x % ADDRESS_RANGE = x - ADDRESS_RANGE
    BY <1>1, SMTT(30)
  <1>5. Plus(q.addr, q.size) = q.addr + q.size
    BY <1>1, <1>2, <1>3 DEF Plus
  <1>6. CASE Wraps(r.phys_base, r.size)
    <2>1. End(r) = r.phys_base + r.size - ADDRESS_RANGE
      BY <1>1, <1>4, <1>6 DEF End, Plus, Wraps
    <2>2. ~Encloses(r, q)
      BY <1>1, <1>2, <1>5, <2>1 DEF Encloses
    <2>3. QED
      BY <1>6, <2>2
  <1>7. CASE ~Wraps(r.phys_base, r.size)
    <2>1. End(r) = r.phys_base + r.size
      BY <1>1, <1>3, <1>7 DEF End, Plus, Wraps
    <2>2. Encloses(r, q) <=> /\ q.addr >= r.phys_base
                             /\ q.addr + q.size <= r.phys_base + r.size
      BY <1>5, <2>1 DEF Encloses
    <2>3. Encloses(r, q) => Bytes(q.addr, q.size) \subseteq Bytes(r.phys_base, r.size)
      BY <1>1, <2>2 DEF Bytes
    <2>4. ASSUME Bytes(q.addr, q.size) \subseteq Bytes(r.phys_base, r.size)
          PROVE  Encloses(r, q)
      <3>1. /\ q.addr \in Bytes(q.addr, q.size)
            /\ q.addr + q.size - 1 \in Bytes(q.addr, q.size)
        BY <1>1, <1>2 DEF Bytes
      <3>2. /\ q.addr \in Bytes(r.phys_base, r.size)
            /\ q.addr + q.size - 1 \in Bytes(r.phys_base, r.size)
        BY <2>4, <3>1
      <3>3. QED
        BY <1>1, <2>2, <3>2 DEF Bytes
    <2>5. QED
      BY <1>7, <2>3, <2>4
  <1>8. QED
    BY <1>6, <1>7

\* The first match is the only one, since the regions are disjoint: the scan
\* says yes exactly when some region covers the request.
LEMMA VerdictMeansCovered ==
  ASSUME TableInv, NEW q \in Request, Plain(q)
  PROVE  Verdict(q) <=> Covered(q)
  <1>0. /\ \A s \in Used : s \in Slots /\ regions[s] \in Region
        /\ num_regions \in Int
    BY DEF TableInv, TableType, Used
  <1>1. \A s \in Used : Encloses(regions[s], q) <=>
          /\ ~Wraps(regions[s].phys_base, regions[s].size)
          /\ Bytes(q.addr, q.size) \subseteq Bytes(regions[s].phys_base, regions[s].size)
    BY <1>0, ContainsExact
  <1>2. Verdict(q) => Covered(q)
    BY <1>1 DEF Verdict, Covered
  <1>3. ASSUME Covered(q)
        PROVE  Verdict(q)
    <2>1. PICK s \in Used :
            /\ ~Wraps(regions[s].phys_base, regions[s].size)
            /\ Bytes(q.addr, q.size) \subseteq Bytes(regions[s].phys_base, regions[s].size)
            /\ q.perms \subseteq regions[s].permissions
      BY <1>3 DEF Covered
    <2>2. q.addr \in Bytes(q.addr, q.size)
      BY DEF Request, Addresses, Plain, Bytes
    <2>3. ASSUME NEW u \in 0 .. s - 1, Encloses(regions[u], q)
          PROVE  FALSE
      <3>1. u \in Used /\ u # s
        BY <1>0, <2>1, RegionConstants DEF Used, Slots
      <3>2. /\ ~Wraps(regions[u].phys_base, regions[u].size)
            /\ Bytes(q.addr, q.size) \subseteq Bytes(regions[u].phys_base, regions[u].size)
        BY <1>1, <2>3, <3>1
      <3>3. Bytes(regions[u].phys_base, regions[u].size)
              \cap Bytes(regions[s].phys_base, regions[s].size) = {}
        BY <2>1, <3>1, <3>2 DEF TableInv, RegionsDisjoint
      <3>4. QED
        BY <2>1, <2>2, <3>2, <3>3
    <2>4. Encloses(regions[s], q)
      BY <1>1, <2>1
    <2>5. QED
      BY <2>1, <2>3, <2>4 DEF Verdict
  <1>4. QED
    BY <1>2, <1>3

\* What TouchesCovered needs to be inductive: of what a call will touch, every
\* part is still to be verified or is covered, as long as no region was removed
\* and checking was not switched since the call began.
ToVerify(t) == {requests[t][i] : i \in 1 .. Len(requests[t])}
VerifiedCovered(t) ==
  rpc[t] \in {"flag", "scan", "access"} /\ enabled /\ ~changed[t]
    => \A q \in touches[t] : q \in ToVerify(t) \/ ~Plain(q) \/ Covered(q)

AccessInv ==
  /\ enabled \in BOOLEAN /\ contended \in BOOLEAN /\ overrun \in BOOLEAN
  /\ requests \in [Threads -> Seq(Request)]
  /\ touches \in [Threads -> SUBSET Request]
  /\ \A t \in Threads : /\ rpc[t] \in {"flag", "scan"} => requests[t] # <<>>
                        /\ rpc[t] = "access" => requests[t] = <<>>
                        /\ VerifiedCovered(t)

\* The access functions ask for what they touch.
LEMMA CallsVerifyTouches ==
  ASSUME NEW c \in AccessCalls
  PROVE  /\ c.checks \in Seq(Request) /\ c.checks # <<>> /\ c.touches \subseteq Request
         /\ \A q \in c.touches : q \in {c.checks[i] : i \in 1 .. Len(c.checks)}
  <1>1. \A r \in Ranges :
          /\ Read(r) \in Request /\ Write(r) \in Request /\ r.size \in Addresses
          /\ \A n \in Addresses :
               Read(Sized(r, n)) \in Request /\ Write(Sized(r, n)) \in Request
    BY RegionConstants DEF Read, Write, Sized, Request, MemPerms
  <1>2. ASSUME NEW p \in Request, c = [checks |-> <<p>>, touches |-> {p}]
        PROVE  /\ c.checks \in Seq(Request) /\ c.checks # <<>>
               /\ c.touches \subseteq Request
               /\ \A q \in c.touches : q \in {c.checks[i] : i \in 1 .. Len(c.checks)}
    <2>1. c.checks = <<p>> /\ c.touches = {p} /\ Len(<<p>>) = 1 /\ <<p>>[1] = p
      BY <1>2
    <2>2. QED
      BY <2>1
  <1>3. ASSUME NEW p \in Request, NEW r \in Request,
               c = [checks |-> <<p, r>>, touches |-> {p, r}]
        PROVE  /\ c.checks \in Seq(Request) /\ c.checks # <<>>
               /\ c.touches \subseteq Request
               /\ \A q \in c.touches : q \in {c.checks[i] : i \in 1 .. Len(c.checks)}
    <2>1. /\ c.checks = <<p, r>> /\ c.touches = {p, r} /\ Len(<<p, r>>) = 2
          /\ <<p, r>>[1] = p /\ <<p, r>>[2] = r
      BY <1>3
    <2>2. QED
      BY <2>1
  <1>4. Valid \subseteq Ranges
    BY DEF Valid
  <1>5. CASE \E r \in Ranges : c \in {isolation_read(r), isolation_write(r),
                                      isolation_memset(r)}
    <2>1. PICK r \in Ranges : c \in {isolation_read(r), isolation_write(r),
                                    isolation_memset(r)}
      BY <1>5
    <2>2. \/ c = [checks |-> <<Read(r)>>, touches |-> {Read(r)}]
          \/ c = [checks |-> <<Write(r)>>, touches |-> {Write(r)}]
      BY <2>1 DEF isolation_read, isolation_write, isolation_memset
    <2>3. Read(r) \in Request /\ Write(r) \in Request
      BY <1>1
    <2>4. QED
      BY <1>2, <2>2, <2>3
  <1>6. CASE \E r1, r2 \in Valid : c \in {isolation_memcpy(r1, r2), isolation_memcmp(r1, r2)}
    <2>1. PICK r1 \in Valid, r2 \in Valid :
            c \in {isolation_memcpy(r1, r2), isolation_memcmp(r1, r2)}
      BY <1>6
    <2> DEFINE w == Write(Sized(r1, r2.size))
               o == Read(Sized(r2, r1.size))
    <2>2. \/ c = [checks |-> <<Read(r2), w>>, touches |-> {Read(r2), w}]
          \/ c = [checks |-> <<Read(r1), o>>, touches |-> {Read(r1), o}]
      BY <2>1 DEF isolation_memcpy, isolation_memcmp
    <2>3. Read(r1) \in Request /\ Read(r2) \in Request /\ w \in Request /\ o \in Request
      BY <1>1, <1>4
    <2> HIDE DEF w, o
    <2>4. QED
      BY <1>3, <2>2, <2>3
  <1>7. QED
    BY <1>4, <1>5, <1>6 DEF AccessCalls

\* Steps that leave the calls in progress and the table alone.
LEMMA SameAccessInv ==
  ASSUME AccessInv, UNCHANGED rvars
  PROVE  AccessInv'
  BY DEF AccessInv, VerifiedCovered, ToVerify, Covered, Used, rvars

\* Steps that may change the table and leave the accesses alone.
LEMMA TableAccessInv ==
  ASSUME AccessInv, UNCHANGED <<requests, touches>>,
         enabled' \in BOOLEAN, contended' \in BOOLEAN, overrun' \in BOOLEAN,
         \A u \in Threads : rpc'[u] \in {"flag", "scan", "access"} => rpc'[u] = rpc[u],
         \A u \in Threads :
           \/ rpc'[u] \notin {"flag", "scan", "access"} \/ changed'[u]
           \/ /\ enabled' = enabled /\ changed'[u] = changed[u]
              /\ \A q \in Request : Covered(q) => Covered(q)'
  PROVE  AccessInv'
  <1>1. ASSUME NEW u \in Threads
        PROVE  VerifiedCovered(u)'
    <2> SUFFICES ASSUME rpc'[u] \in {"flag", "scan", "access"}, enabled', ~changed'[u],
                        NEW q \in touches'[u]
                 PROVE  q \in ToVerify(u)' \/ ~Plain(q) \/ Covered(q)'
      BY DEF VerifiedCovered, Plain, Wraps
    <2>1. /\ rpc[u] \in {"flag", "scan", "access"} /\ enabled /\ ~changed[u]
          /\ q \in touches[u] /\ q \in Request
      BY DEF AccessInv
    <2>2. q \in ToVerify(u) \/ ~Plain(q) \/ Covered(q)
      BY <2>1 DEF AccessInv, VerifiedCovered
    <2>3. ToVerify(u)' = ToVerify(u)
      BY DEF ToVerify
    <2>4. QED
      BY <2>1, <2>2, <2>3
  <1>2. QED
    BY <1>1 DEF AccessInv

\* An addition covers no less than before; one behind the table marks every
\* call in progress as changed.
LEMMA AddAccessInv ==
  ASSUME TableInv, AccessInv, NEW t \in Threads, AddLocked(t)
  PROVE  AccessInv'
  <1>0. /\ rpc \in [Threads -> {"idle", "admitted", "flag", "scan", "access"}]
        /\ num_regions \in 0 .. MAX_MEM_REGIONS /\ regions \in [Slots -> Region]
        /\ rpc' = [rpc EXCEPT ![t] = "idle"] /\ contended' \in BOOLEAN
        /\ UNCHANGED <<requests, touches>>
    BY DEF TableInv, TableType, AccessInv, AddLocked
  <1>1. CASE UNCHANGED <<table, overrun, changed>>
    <2>1. \A q \in Request : Covered(q) => Covered(q)'
      BY <1>1 DEF table, Covered, Used
    <2>2. enabled' \in BOOLEAN /\ overrun' \in BOOLEAN
      BY <1>1 DEF table, AccessInv
    <2>3. QED
      BY <1>0, <1>1, <2>1, <2>2, TableAccessInv DEF table
  <1>2. CASE /\ num_regions < MAX_MEM_REGIONS
             /\ regions' = [regions EXCEPT ![num_regions] = adding[t]]
             /\ num_regions' = num_regions + 1
             /\ UNCHANGED <<enabled, overrun, changed>>
    <2>1. \A s \in Used : s \in Used' /\ regions'[s] = regions[s]
      BY <1>0, <1>2 DEF Used, Slots
    <2>2. \A q \in Request : Covered(q) => Covered(q)'
      BY <2>1 DEF Covered
    <2>3. enabled' \in BOOLEAN /\ overrun' \in BOOLEAN
      BY <1>2 DEF AccessInv
    <2>4. QED
      BY <1>0, <1>2, <2>2, <2>3, TableAccessInv
  <1>3. CASE /\ enabled' = (adding[t].phys_base >= HIGH_HALF) /\ overrun' = TRUE
             /\ changed' = [u \in Threads |-> TRUE]
    <2>1. enabled' \in BOOLEAN /\ overrun' \in BOOLEAN
      BY <1>3
    <2>2. \A u \in Threads : changed'[u]
      BY <1>3
    <2>3. QED
      BY <1>0, <2>1, <2>2, TableAccessInv
  <1>4. QED
    BY <1>1, <1>2, <1>3 DEF AddLocked, WriteEntry

\* A request that was verified, or let through because checking is off.
LEMMA GrantedAccessInv ==
  ASSUME TableInv, AccessInv, NEW t \in Threads, rpc[t] \in {"flag", "scan"}, Granted(t),
         UNCHANGED <<table, changed, contended, overrun>>,
         enabled => \/ ~Plain(Head(requests[t])) \/ Covered(Head(requests[t]))
  PROVE  AccessInv'
  <1> DEFINE r == requests[t]
  <1>0. /\ rpc \in [Threads -> {"idle", "admitted", "flag", "scan", "access"}]
        /\ requests \in [Threads -> Seq(Request)] /\ r \in Seq(Request) /\ r # <<>>
        /\ touches \in [Threads -> SUBSET Request]
    BY DEF TableInv, TableType, AccessInv
  <1>1. /\ requests' = [requests EXCEPT ![t] = Tail(r)] /\ touches' = touches
        /\ rpc' = [rpc EXCEPT ![t] = IF Len(r) = 1 THEN "access" ELSE "flag"]
    BY <1>0 DEF Granted
  <1>2. /\ Tail(r) \in Seq(Request) /\ Len(r) \in Nat \ {0}
        /\ Len(Tail(r)) = Len(r) - 1
        /\ \A i \in 1 .. Len(Tail(r)) : Tail(r)[i] = r[i + 1]
        /\ Head(r) = r[1]
    BY <1>0
  <1>3. Len(r) = 1 <=> Tail(r) = <<>>
    <2>1. \A q \in Seq(Request), k \in Nat : Len(q) = k - 1 => (k = 1 <=> q = <<>>)
      OBVIOUS
    <2>2. QED
      BY <1>2, <2>1, Zenon
  <1>4. \A q : Covered(q)' <=> Covered(q)
    BY DEF table, Covered, Used
  <1>5. \A q : q \in ToVerify(t) => q = Head(r) \/ q \in ToVerify(t)'
    <2> SUFFICES ASSUME NEW i \in 1 .. Len(r), r[i] # Head(r)
                 PROVE  r[i] \in ToVerify(t)'
      BY DEF ToVerify
    <2>1. i # 1 /\ i - 1 \in 1 .. Len(Tail(r)) /\ Tail(r)[i - 1] = r[i]
      <3>1. i # 1 /\ i \in Int /\ i - 1 \in 1 .. Len(Tail(r))
        BY <1>2
      <3>2. Tail(r)[i - 1] = r[(i - 1) + 1] /\ (i - 1) + 1 = i
        BY <1>2, <3>1
      <3>3. QED
        BY <3>1, <3>2
    <2>2. requests'[t] = Tail(r)
      BY <1>0, <1>1
    <2>3. QED
      BY <2>1, <2>2 DEF ToVerify
  <1>6. VerifiedCovered(t)'
    <2> SUFFICES ASSUME enabled', ~changed'[t], NEW q \in touches'[t]
                 PROVE  q \in ToVerify(t)' \/ ~Plain(q) \/ Covered(q)'
      BY DEF VerifiedCovered, Plain, Wraps
    <2>1. enabled /\ ~changed[t] /\ q \in touches[t]
      BY <1>1 DEF table
    <2>2. q \in ToVerify(t) \/ ~Plain(q) \/ Covered(q)
      BY <2>1 DEF AccessInv, VerifiedCovered
    <2>3. QED
      BY <1>4, <1>5, <2>1, <2>2
  <1>7. ASSUME NEW u \in Threads, u # t
        PROVE  VerifiedCovered(u)'
    <2>1. /\ rpc'[u] = rpc[u] /\ requests'[u] = requests[u] /\ touches'[u] = touches[u]
          /\ enabled' = enabled /\ changed' = changed
      BY <1>0, <1>1, <1>7 DEF table
    <2>2. ToVerify(u)' = ToVerify(u)
      BY <2>1 DEF ToVerify
    <2>3. VerifiedCovered(u)
      BY DEF AccessInv
    <2>4. QED
      BY <1>4, <2>1, <2>2, <2>3 DEF VerifiedCovered, Plain, Wraps
  <1>8. ASSUME NEW u \in Threads
        PROVE  /\ rpc'[u] \in {"flag", "scan"} => requests'[u] # <<>>
               /\ rpc'[u] = "access" => requests'[u] = <<>>
    <2>1. CASE u = t
      BY <1>0, <1>1, <1>3, <2>1
    <2>2. CASE u # t
      BY <1>0, <1>1, <2>2 DEF AccessInv
    <2>3. QED
      BY <2>1, <2>2
  <1>9. /\ requests' \in [Threads -> Seq(Request)]
        /\ touches' \in [Threads -> SUBSET Request]
        /\ enabled' \in BOOLEAN /\ contended' \in BOOLEAN /\ overrun' \in BOOLEAN
    BY <1>0, <1>1, <1>2 DEF table, AccessInv
  <1>10. QED
    BY <1>6, <1>7, <1>8, <1>9 DEF AccessInv

\* Steps of one thread that end its access, or do not belong to one.
LEMMA EndAccessInv ==
  ASSUME TableInv, AccessInv, NEW t \in Threads,
         UNCHANGED <<table, contended, overrun>>,
         rpc'[t] \notin {"flag", "scan", "access"},
         requests' \in [Threads -> Seq(Request)], touches' \in [Threads -> SUBSET Request],
         \A u \in Threads \ {t} : /\ rpc'[u] = rpc[u] /\ requests'[u] = requests[u]
                                  /\ touches'[u] = touches[u] /\ changed'[u] = changed[u]
  PROVE  AccessInv'
  <1>1. \A q : Covered(q)' <=> Covered(q)
    BY DEF table, Covered, Used
  <1>2. ASSUME NEW u \in Threads
        PROVE  /\ rpc'[u] \in {"flag", "scan"} => requests'[u] # <<>>
               /\ rpc'[u] = "access" => requests'[u] = <<>>
               /\ VerifiedCovered(u)'
    <2>1. CASE u = t
      BY <2>1 DEF VerifiedCovered
    <2>2. CASE u # t
      <3>1. /\ rpc'[u] = rpc[u] /\ requests'[u] = requests[u] /\ touches'[u] = touches[u]
            /\ changed'[u] = changed[u] /\ enabled' = enabled
        BY <2>2 DEF table
      <3>2. ToVerify(u)' = ToVerify(u)
        BY <3>1 DEF ToVerify
      <3>3. /\ rpc[u] \in {"flag", "scan"} => requests[u] # <<>>
            /\ rpc[u] = "access" => requests[u] = <<>>
            /\ VerifiedCovered(u)
        BY DEF AccessInv
      <3>4. QED
        BY <1>1, <3>1, <3>2, <3>3 DEF VerifiedCovered, Plain, Wraps
    <2>3. QED
      BY <2>1, <2>2
  <1>3. enabled' \in BOOLEAN /\ contended' \in BOOLEAN /\ overrun' \in BOOLEAN
    BY DEF table, AccessInv
  <1>4. QED
    BY <1>2, <1>3 DEF AccessInv

\* An access call begins with everything it touches still to be verified.
LEMMA BeginAccessInv ==
  ASSUME TableInv, AccessInv, changed \in [Threads -> BOOLEAN],
         NEW t \in Threads, NEW c \in AccessCalls, BeginAccess(t, c)
  PROVE  AccessInv'
  <1>0. /\ rpc \in [Threads -> {"idle", "admitted", "flag", "scan", "access"}]
        /\ requests \in [Threads -> Seq(Request)] /\ touches \in [Threads -> SUBSET Request]
    BY DEF TableInv, TableType, AccessInv
  <1>1. /\ rpc' = [rpc EXCEPT ![t] = "flag"]
        /\ requests' = [requests EXCEPT ![t] = c.checks]
        /\ touches' = [touches EXCEPT ![t] = c.touches]
        /\ changed' = [changed EXCEPT ![t] = FALSE]
        /\ UNCHANGED <<table, contended, overrun>>
    BY DEF BeginAccess
  <1>2. /\ c.checks \in Seq(Request) /\ c.checks # <<>> /\ c.touches \subseteq Request
        /\ \A q \in c.touches : q \in {c.checks[i] : i \in 1 .. Len(c.checks)}
    BY CallsVerifyTouches
  <1>3. \A q : Covered(q)' <=> Covered(q)
    BY <1>1 DEF table, Covered, Used
  <1>4. ASSUME NEW u \in Threads
        PROVE  /\ rpc'[u] \in {"flag", "scan"} => requests'[u] # <<>>
               /\ rpc'[u] = "access" => requests'[u] = <<>>
               /\ VerifiedCovered(u)'
    <2>1. CASE u = t
      <3>1. rpc'[u] = "flag" /\ requests'[u] = c.checks /\ touches'[u] = c.touches
        BY <1>0, <1>1, <2>1
      <3>2. \A q \in touches'[u] : q \in ToVerify(u)'
        BY <1>2, <3>1 DEF ToVerify
      <3>3. QED
        BY <1>2, <3>1, <3>2 DEF VerifiedCovered
    <2>2. CASE u # t
      <3>1. /\ rpc'[u] = rpc[u] /\ requests'[u] = requests[u] /\ touches'[u] = touches[u]
            /\ changed'[u] = changed[u] /\ enabled' = enabled
        BY <1>0, <1>1, <2>2 DEF table
      <3>2. ToVerify(u)' = ToVerify(u)
        BY <3>1 DEF ToVerify
      <3>3. /\ rpc[u] \in {"flag", "scan"} => requests[u] # <<>>
            /\ rpc[u] = "access" => requests[u] = <<>>
            /\ VerifiedCovered(u)
        BY DEF AccessInv
      <3>4. QED
        BY <1>3, <3>1, <3>2, <3>3 DEF VerifiedCovered, Plain, Wraps
    <2>3. QED
      BY <2>1, <2>2
  <1>5. /\ requests' \in [Threads -> Seq(Request)]
        /\ touches' \in [Threads -> SUBSET Request]
        /\ enabled' \in BOOLEAN /\ contended' \in BOOLEAN /\ overrun' \in BOOLEAN
    BY <1>0, <1>1, <1>2 DEF table, AccessInv
  <1>6. QED
    BY <1>4, <1>5 DEF AccessInv

\* Removals, and switching the checks on or off, mark every call as changed.
LEMMA ChangedAccessInv ==
  ASSUME AccessInv, UNCHANGED <<rpc, requests, touches, contended, overrun>>,
         enabled' \in BOOLEAN, changed' = [u \in Threads |-> TRUE]
  PROVE  AccessInv'
  <1>1. contended' \in BOOLEAN /\ overrun' \in BOOLEAN
    BY DEF AccessInv
  <1>2. QED
    BY <1>1, TableAccessInv

\* isolation_verify_access on one request.
LEMMA VerifyAccessInv ==
  ASSUME TableInv, AccessInv, NEW t \in Threads, ReadFlag(t) \/ Scan(t)
  PROVE  AccessInv'
  <1>0. /\ rpc \in [Threads -> {"idle", "admitted", "flag", "scan", "access"}]
        /\ requests \in [Threads -> Seq(Request)] /\ touches \in [Threads -> SUBSET Request]
        /\ \A u \in Threads : rpc[u] \in {"flag", "scan"} => requests[u] # <<>>
    BY DEF TableInv, TableType, AccessInv
  <1>1. UNCHANGED <<table, changed, contended, overrun>>
    BY DEF ReadFlag, Scan
  <1>2. CASE ReadFlag(t) /\ ~enabled /\ Granted(t)
    BY <1>1, <1>2, GrantedAccessInv DEF ReadFlag
  <1>3. CASE /\ rpc[t] = "flag" /\ rpc' = [rpc EXCEPT ![t] = "scan"]
             /\ UNCHANGED <<requests, touches>>
    <2>1. \A u \in Threads : /\ rpc'[u] = "access" <=> rpc[u] = "access"
                             /\ rpc'[u] \in {"flag", "scan"} <=> rpc[u] \in {"flag", "scan"}
      BY <1>0, <1>3
    <2>2. \A u \in Threads : rpc'[u] \in {"flag", "scan", "access"}
                               <=> rpc[u] \in {"flag", "scan", "access"}
      BY <2>1
    <2>3. ASSUME NEW u \in Threads
          PROVE  VerifiedCovered(u)'
      <3>1. VerifiedCovered(u)
        BY DEF AccessInv
      <3>2. /\ touches'[u] = touches[u] /\ ToVerify(u)' = ToVerify(u)
            /\ enabled' = enabled /\ changed'[u] = changed[u]
        BY <1>1, <1>3 DEF ToVerify, table
      <3>3. \A q : Covered(q)' <=> Covered(q)
        BY <1>1 DEF Covered, Used, table
      <3>4. QED
        BY <2>2, <3>1, <3>2, <3>3 DEF VerifiedCovered, Plain, Wraps
    <2>4. QED
      BY <1>1, <1>3, <2>1, <2>3 DEF AccessInv, table
  <1>4. CASE Scan(t) /\ Verdict(Head(requests[t])) /\ Granted(t)
    <2>1. rpc[t] = "scan" /\ requests[t] # <<>> /\ Head(requests[t]) \in Request
      BY <1>0, <1>4 DEF Scan
    <2>2. Plain(Head(requests[t])) => Covered(Head(requests[t]))
      BY <1>4, <2>1, VerdictMeansCovered
    <2>3. QED
      BY <1>1, <1>4, <2>1, <2>2, GrantedAccessInv
  <1>5. CASE /\ rpc' = [rpc EXCEPT ![t] = "idle"]
             /\ requests' = [requests EXCEPT ![t] = <<>>]
             /\ touches' = [touches EXCEPT ![t] = {}]
    <2>1. /\ requests' \in [Threads -> Seq(Request)]
          /\ touches' \in [Threads -> SUBSET Request]
          /\ rpc'[t] = "idle"
      BY <1>0, <1>5
    <2>2. \A u \in Threads \ {t} : /\ rpc'[u] = rpc[u] /\ requests'[u] = requests[u]
                                   /\ touches'[u] = touches[u]
      BY <1>0, <1>5
    <2>3. QED
      BY <1>1, <2>1, <2>2, EndAccessInv
  <1>6. QED
    BY <1>2, <1>3, <1>4, <1>5 DEF ReadFlag, Scan

LEMMA NextAccessInv == TableInv /\ HeldInv /\ AccessInv /\ [Next]_vars => AccessInv'
  <1> SUFFICES ASSUME TableInv, HeldInv, AccessInv, [Next]_vars PROVE AccessInv'
    OBVIOUS
  <1>0. /\ rpc \in [Threads -> {"idle", "admitted", "flag", "scan", "access"}]
        /\ changed \in [Threads -> BOOLEAN] /\ enabled \in BOOLEAN
        /\ requests \in [Threads -> Seq(Request)] /\ touches \in [Threads -> SUBSET Request]
        /\ Main \in Threads
    BY Core1Constants DEF TableInv, TableType, HeldInv, AccessInv
  <1>1. ASSUME NEW t \in Threads, NEW a, isolation_add_region(t, a)
        PROVE  AccessInv'
    <2>1. /\ rpc' = [rpc EXCEPT ![t] = "admitted"] /\ contended' \in BOOLEAN
          /\ UNCHANGED <<table, requests, touches, changed, overrun>>
      BY <1>1 DEF isolation_add_region
    <2>2. enabled' \in BOOLEAN /\ overrun' \in BOOLEAN
      BY <2>1 DEF table, AccessInv
    <2>3. \A q \in Request : Covered(q) => Covered(q)'
      BY <2>1 DEF table, Covered, Used
    <2>4. QED
      BY <1>0, <2>1, <2>2, <2>3, TableAccessInv DEF table
  <1>2. CASE core1_init
    <2>1. CASE \E a : isolation_add_region(Main, a)
      BY <1>0, <1>1, <2>1
    <2>2. CASE AddLocked(Main)
      BY <1>0, <2>2, AddAccessInv
    <2>3. CASE isolation_enable
      BY <2>3, ChangedAccessInv DEF isolation_enable, SetEnabled, calls
    <2>4. QED
      BY <1>2, <2>1, <2>2, <2>3 DEF core1_init
  <1>3. CASE core1_main \/ MainCallback \/ UNCHANGED vars
    BY <1>3, SameAccessInv DEF core1_main, MainCallback, vars
  <1>4. ASSUME NEW t \in others, UseRegions(t)
        PROVE  AccessInv'
    <2>0. t \in Threads
      BY DEF others
    <2>1. ASSUME NEW a \in RegionArgs, isolation_remove_region(t, a.phys_base)
          PROVE  AccessInv'
      BY <1>0, <2>1, ChangedAccessInv DEF isolation_remove_region, calls
    <2>2. CASE AddLocked(t)
      BY <2>0, <2>2, AddAccessInv
    <2>3. ASSUME NEW c \in AccessCalls, BeginAccess(t, c)
          PROVE  AccessInv'
      BY <1>0, <2>0, <2>3, BeginAccessInv
    <2>4. CASE ReadFlag(t) \/ Scan(t)
      BY <2>0, <2>4, VerifyAccessInv
    <2>5. CASE Access(t)
      <3>1. /\ touches' \in [Threads -> SUBSET Request] /\ requests' = requests
            /\ rpc'[t] = "idle"
            /\ UNCHANGED <<table, contended, overrun, changed>>
            /\ \A u \in Threads \ {t} : rpc'[u] = rpc[u] /\ touches'[u] = touches[u]
        BY <1>0, <2>0, <2>5 DEF Access
      <3>2. QED
        BY <1>0, <2>0, <3>1, EndAccessInv
    <2>6. ASSUME NEW r \in Ranges, isolation_get_region(t, r.addr)
          PROVE  AccessInv'
      <3>1. /\ rpc[t] = "idle" /\ changed' = [changed EXCEPT ![t] = FALSE]
            /\ UNCHANGED <<table, rpc, requests, touches, contended, overrun>>
        BY <2>6 DEF isolation_get_region
      <3>2. \A u \in Threads \ {t} : changed'[u] = changed[u]
        BY <1>0, <3>1
      <3>3. QED
        BY <1>0, <2>0, <3>1, <3>2, EndAccessInv
    <2>7. QED
      BY <1>1, <1>4, <2>0, <2>1, <2>2, <2>3, <2>4, <2>5, <2>6 DEF UseRegions, RegionsStep
  <1>5. ASSUME NEW t \in others, UseFramework(t)
        PROVE  AccessInv'
    BY <1>5, SameAccessInv DEF UseFramework
  <1>6. ASSUME NEW t \in others, core1_cleanup(t)
        PROVE  AccessInv'
    BY <1>6, ChangedAccessInv DEF core1_cleanup, isolation_disable, SetEnabled, calls
  <1>7. QED
    BY <1>2, <1>3, <1>4, <1>5, <1>6 DEF Next

\* The rest of the types.
CountsInv == FrameworkTypeOK /\ boot \in 1 .. 10 /\ made \in 0 .. MaxCalls /\ cleaned \in BOOLEAN

\* The steps of a thread inside a call keep the context well formed.
LEMMA CallFrameworkTyped ==
  ASSUME FrameworkTypeOK, NEW t \in Threads, CallStep(t)
  PROVE  FrameworkTypeOK'
  <1>1. CASE net_service_start(t) \/ net_service_stop(t) \/ FinishStop(t)
    BY <1>1 DEF net_service_start, net_service_stop, FinishStop, FrameworkTypeOK
  <1>2. CASE RestartStart(t)
    BY <1>2 DEF RestartStart, StartFrom, FrameworkTypeOK
  <1>3. CASE service_report_error(t)
    <2>1. (error_count + 1) % UINT32_RANGE \in 0 .. UINT32_RANGE - 1
      BY FrameworkConstants DEF FrameworkTypeOK
    <2>2. QED
      BY <1>3, <2>1 DEF service_report_error, FrameworkTypeOK
  <1>4. QED
    BY <1>1, <1>2, <1>3 DEF CallStep

LEMMA NextCountsInv == CountsInv /\ [Next]_vars => CountsInv'
  <1> SUFFICES ASSUME CountsInv, [Next]_vars PROVE CountsInv'
    OBVIOUS
  <1>0. FrameworkTypeOK /\ boot \in 1 .. 10 /\ made \in 0 .. MaxCalls /\ cleaned \in BOOLEAN
        /\ Main \in Threads /\ MaxCalls \in Nat
    BY Core1Constants DEF CountsInv
  <1>1. CASE core1_init
    BY <1>0, <1>1 DEF core1_init, fvars, CountsInv, FrameworkTypeOK
  <1>2. CASE core1_main
    <2>1. boot' \in 1 .. 10 /\ made' = made /\ cleaned' = cleaned
      BY <1>0, <1>2 DEF core1_main
    <2>2. FrameworkTypeOK'
      <3>1. ASSUME service_framework_init(Main) PROVE FrameworkTypeOK'
        BY <1>0, <3>1, FrameworkConstants DEF service_framework_init, FrameworkTypeOK
      <3>2. ASSUME service_register_callbacks(Main) PROVE FrameworkTypeOK'
        BY <1>0, <3>2 DEF service_register_callbacks, FrameworkTypeOK
      <3>3. ASSUME service_start(Main) PROVE FrameworkTypeOK'
        BY <1>0, <3>3 DEF service_start, StartFrom, FrameworkTypeOK
      <3>4. ASSUME UNCHANGED fvars PROVE FrameworkTypeOK'
        BY <1>0, <3>4 DEF fvars, FrameworkTypeOK
      <3>5. QED
        BY <1>2, <3>1, <3>2, <3>3, <3>4 DEF core1_main
    <2>3. QED
      BY <1>0, <2>1, <2>2 DEF CountsInv
  <1>3. CASE MainCallback
    BY <1>0, <1>3, CallFrameworkTyped DEF MainCallback, CountsInv
  <1>4. ASSUME NEW t \in others, UseRegions(t) \/ UseFramework(t) \/ core1_cleanup(t)
        PROVE  CountsInv'
    <2>0. t \in Threads
      BY DEF others
    <2>1. made' \in 0 .. MaxCalls /\ boot' \in 1 .. 10 /\ cleaned' \in BOOLEAN
      <3>1. made' = made \/ (made < MaxCalls /\ made' = made + 1)
        BY <1>4 DEF UseRegions, UseFramework, core1_cleanup, Counted
      <3>2. made' \in 0 .. MaxCalls
        BY <1>0, <3>1
      <3>3. boot' = boot /\ (cleaned' = cleaned \/ cleaned' = TRUE)
        BY <1>4 DEF UseRegions, UseFramework, core1_cleanup
      <3>4. QED
        BY <1>0, <3>2, <3>3
    <2>2. CASE UseRegions(t) \/ core1_cleanup(t)
      BY <1>0, <2>0, <2>1, <2>2
         DEF UseRegions, core1_cleanup, fvars, CountsInv, FrameworkTypeOK
    <2>3. CASE FrameworkStep(t)
      <3>1. ASSUME service_start(t) PROVE FrameworkTypeOK'
        BY <1>0, <2>0, <3>1 DEF service_start, StartFrom, FrameworkTypeOK
      <3>2. ASSUME NEW next \in {"return", "restart", "cleanup"}, service_stop(t, next)
            PROVE  FrameworkTypeOK'
        BY <1>0, <2>0, <3>2 DEF service_stop, FrameworkTypeOK
      <3>3. ASSUME net_ipc_handler(t) PROVE FrameworkTypeOK'
        BY <1>0, <2>0, <3>3 DEF net_ipc_handler, FrameworkTypeOK
      <3>4. ASSUME CallStep(t) PROVE FrameworkTypeOK'
        BY <1>0, <2>0, <3>4, CallFrameworkTyped
      <3>5. FrameworkTypeOK'
        BY <2>3, <3>1, <3>2, <3>3, <3>4 DEF FrameworkStep
      <3>6. QED
        BY <2>1, <3>5 DEF CountsInv
    <2>4. QED
      BY <1>4, <2>2, <2>3 DEF UseFramework
  <1>5. CASE UNCHANGED vars
    BY <1>0, <1>5 DEF vars, fvars, CountsInv, FrameworkTypeOK
  <1>6. QED
    BY <1>1, <1>2, <1>3, <1>4, <1>5 DEF Next

\* g_service_info stays what core1_init was given.
InfoInv == info \in ServiceInfos

LEMMA NextInfoInv == InfoInv /\ [Next]_vars => InfoInv'
  BY DEF InfoInv, Next, vars, core1_init, core1_main, MainCallback, UseRegions,
         UseFramework, core1_cleanup

\* Whatever is added, removed, switched and accessed meanwhile: regions are
\* disjoint, the verdict on a request is exact, and what an access function
\* touches after the unlock is covered by the table.
THEOREM AccessesAreChecked == Spec => []AccessChecked
  <1>1. Init => AccessInv /\ CountsInv /\ InfoInv
    <2> SUFFICES ASSUME Init PROVE AccessInv /\ CountsInv /\ InfoInv
      OBVIOUS
    <2>1. AccessInv
      <3>1. /\ enabled = FALSE /\ contended = FALSE /\ overrun = FALSE
            /\ requests = [t \in Threads |-> <<>>] /\ touches = [t \in Threads |-> {}]
            /\ \A t \in Threads : rpc[t] = "idle"
        BY DEF Init, RegionsInit
      <3>2. <<>> \in Seq(Request)
        OBVIOUS
      <3>3. requests \in [Threads -> Seq(Request)] /\ touches \in [Threads -> SUBSET Request]
        BY <3>1, <3>2
      <3>4. QED
        BY <3>1, <3>3 DEF AccessInv, VerifiedCovered
    <2>2. CountsInv
      <3>1. FrameworkTypeOK
        <4>1. FrameworkInit /\ 0 \in 0 .. UINT32_RANGE - 1
          BY FrameworkConstants DEF Init
        <4>2. callbacks \in BOOLEAN /\ connected \in BOOLEAN /\ overtaken \in BOOLEAN
          BY <4>1 DEF FrameworkInit
        <4>3. QED
          BY <4>1, <4>2 DEF FrameworkInit, FrameworkTypeOK
      <3>2. boot \in 1 .. 10 /\ made \in 0 .. MaxCalls
        BY Core1Constants DEF Init
      <3>3. cleaned \in BOOLEAN
        BY DEF Init
      <3>4. QED
        BY <3>1, <3>2, <3>3 DEF CountsInv
    <2>3. InfoInv
      BY DEF Init, InfoInv
    <2>4. QED
      BY <2>1, <2>2, <2>3
  <1>2. TableInv /\ HeldInv /\ AccessInv /\ CountsInv /\ InfoInv => AccessChecked
    <2> SUFFICES ASSUME TableInv, HeldInv, AccessInv, CountsInv, InfoInv
                 PROVE  AccessChecked
      OBVIOUS
    <2>1. held \in [Threads -> [slot: Slots \cup {-1}, region: Region]]
      <3>1. ASSUME NEW t \in Threads
            PROVE  held[t] \in [slot: Slots \cup {-1}, region: Region]
        BY RegionFacts DEF HeldInv, NotHeld
      <3>2. QED
        BY <3>1 DEF HeldInv
    <2>2. RegionsTypeOK
      BY <2>1 DEF TableInv, TableType, HeldInv, AccessInv, RegionsTypeOK
    <2>3. VerdictExact
      <3> SUFFICES ASSUME NEW r \in Ranges, NEW perms \in {{"READ"}, {"WRITE"}},
                          r.size # 0, ~Wraps(r.addr, r.size)
                   PROVE  LET q == [addr |-> r.addr, size |-> r.size, perms |-> perms]
                          IN  Verdict(q) <=> Covered(q)
        BY DEF VerdictExact
      <3> DEFINE q == [addr |-> r.addr, size |-> r.size, perms |-> perms]
      <3>1. q \in Request /\ Plain(q)
        BY RegionConstants DEF Request, MemPerms, Plain
      <3>2. QED
        BY <3>1, VerdictMeansCovered
    <2>4. TouchesCovered
      <3> SUFFICES ASSUME NEW t \in Threads, rpc[t] = "access", enabled, ~changed[t],
                          NEW q \in touches[t], Plain(q)
                   PROVE  Covered(q)
        BY DEF TouchesCovered, Plain
      <3>1. requests[t] = <<>> /\ VerifiedCovered(t)
        BY DEF AccessInv
      <3>2. ToVerify(t) = {}
        BY <3>1 DEF ToVerify
      <3>3. QED
        BY <3>1, <3>2 DEF VerifiedCovered
    <2>5. QED
      BY <2>2, <2>3, <2>4 DEF AccessChecked, TypeOK, TableInv, CountsInv, InfoInv
  <1>3. QED
    BY <1>1, <1>2, InitTableInv, NextTableInv, InitHeldInv, NextHeldInv, NextAccessInv,
       NextCountsInv, NextInfoInv, PTL DEF Spec

-----------------------------------------------------------------------------
(* The ring: remainders. *)

\* A remainder is what is left above a multiple of the divisor.
LEMMA ModIs ==
  ASSUME NEW C \in Nat \ {0}, NEW a \in Int, NEW q \in Int, NEW r \in 0 .. C - 1,
         a = (C * q) + r
  PROVE  a % C = r
  OBVIOUS

LEMMA ModSplit ==
  ASSUME NEW C \in Nat \ {0}, NEW a \in Int
  PROVE  /\ a % C \in 0 .. C - 1 /\ a \div C \in Int
         /\ a = (C * (a \div C)) + (a % C)
  OBVIOUS

\* Adding less than a divisor's worth passes a multiple at most once.
LEMMA ModAdd ==
  ASSUME NEW C \in Nat \ {0}, NEW a \in Int, NEW i \in 0 .. C - 1
  PROVE  (a + i) % C = IF (a % C) + i < C THEN (a % C) + i ELSE (a % C) + i - C
  <1> DEFINE q == a \div C
             r == a % C
  <1>1. q \in Int /\ r \in 0 .. C - 1 /\ a = (C * q) + r
    BY ModSplit
  <1> HIDE DEF q, r
  <1>2. SUFFICES (a + i) % C = IF r + i < C THEN r + i ELSE r + i - C
    BY DEF r
  <1>3. CASE r + i < C
    <2>1. r + i \in 0 .. C - 1 /\ a + i = (C * q) + (r + i) /\ a + i \in Int
      BY <1>1, <1>3
    <2>2. (a + i) % C = r + i
      BY <1>1, <2>1, ModIs
    <2>3. QED
      BY <1>3, <2>2
  <1>4. CASE r + i >= C
    <2>1. /\ r + i - C \in 0 .. C - 1 /\ a + i = (C * (q + 1)) + (r + i - C)
          /\ a + i \in Int /\ q + 1 \in Int
      BY <1>1, <1>4
    <2>2. (a + i) % C = r + i - C
      BY <2>1, ModIs
    <2>3. QED
      BY <1>1, <1>4, <2>2
  <1>5. QED
    BY <1>1, <1>3, <1>4

\* A remainder by a multiple of C has the same remainder by C.
LEMMA ModMod ==
  ASSUME NEW C \in Nat \ {0}, NEW R \in Nat \ {0}, R % C = 0, NEW a \in Int
  PROVE  (a % R) % C = a % C
  <1> DEFINE k == R \div C
             q == a \div R
             b == a % R
             p == b \div C
             r == b % C
  <1>1. k \in Int /\ R = C * k
    BY ModSplit
  <1>2. q \in Int /\ b \in Int /\ a = (R * q) + b
    BY ModSplit
  <1>3. p \in Int /\ r \in 0 .. C - 1 /\ b = (C * p) + r
    BY <1>2, ModSplit
  <1> SUFFICES a % C = r
    OBVIOUS
  <1> HIDE DEF k, q, b, p, r
  <1>4. a = (C * ((k * q) + p)) + r
    <2>1. a = ((C * k) * q) + ((C * p) + r)
      BY <1>1, <1>2, <1>3
    <2>2. QED
      BY <1>1, <1>2, <1>3, <2>1
  <1>5. (k * q) + p \in Int
    BY <1>1, <1>2, <1>3
  <1>6. QED
    BY <1>3, <1>4, <1>5, ModIs

-----------------------------------------------------------------------------
(* Indices and positions. *)

LEMMA IndexAdd ==
  ASSUME NEW a \in Index, NEW n \in 0 .. INDEX_RANGE - 1
  PROVE  /\ (a + n) % INDEX_RANGE = IF a + n < INDEX_RANGE THEN a + n ELSE a + n - INDEX_RANGE
         /\ (a + n) % INDEX_RANGE \in Index
  <1>1. /\ INDEX_RANGE \in Nat \ {0} /\ a \in Int /\ a \in 0 .. INDEX_RANGE - 1
        /\ a = (INDEX_RANGE * 0) + a
    BY RingConstants DEF Index
  <1>2. a % INDEX_RANGE = a
    BY <1>1, ModIs
  <1>3. QED
    BY <1>1, <1>2, ModAdd DEF Index

\* The unsigned difference of two indices.
LEMMA IndexSub ==
  ASSUME NEW a \in Index, NEW b \in Index
  PROVE  (a - b) % INDEX_RANGE = IF a >= b THEN a - b ELSE a - b + INDEX_RANGE
  <1>1. INDEX_RANGE \in Nat \ {0} /\ a \in 0 .. INDEX_RANGE - 1 /\ b \in 0 .. INDEX_RANGE - 1
    BY RingConstants DEF Index
  <1>2. CASE a >= b
    <2>1. a - b \in 0 .. INDEX_RANGE - 1 /\ a - b = (INDEX_RANGE * 0) + (a - b)
      BY <1>1, <1>2
    <2>2. QED
      BY <1>1, <1>2, <2>1, ModIs
  <1>3. CASE a < b
    <2>1. /\ a - b + INDEX_RANGE \in 0 .. INDEX_RANGE - 1 /\ a - b \in Int
          /\ a - b = (INDEX_RANGE * (-1)) + (a - b + INDEX_RANGE)
      BY <1>1, <1>3
    <2>2. (a - b) % INDEX_RANGE = a - b + INDEX_RANGE
      BY <1>1, <2>1, ModIs
    <2>3. QED
      BY <1>1, <1>3, <2>2
  <1>4. QED
    BY <1>1, <1>2, <1>3

\* The two parts of a copy are the positions (index + i) & mask.
LEMMA ByteAtMod ==
  ASSUME NEW a \in Int, NEW i \in 0 .. capacity - 1
  PROVE  ByteAt(a, i) = (a + i) % capacity /\ ByteAt(a, i) \in Pos
  <1>1. capacity \in Nat \ {0} /\ a % capacity \in 0 .. capacity - 1
    BY RingConstants, ModSplit
  <1>2. (a + i) % capacity = IF (a % capacity) + i < capacity THEN (a % capacity) + i
                             ELSE (a % capacity) + i - capacity
    BY <1>1, ModAdd
  <1>3. QED
    BY <1>1, <1>2 DEF ByteAt, Pos

\* The bytes of one transfer have different positions.
LEMMA ByteAtInjective ==
  ASSUME NEW a \in Int, NEW i \in 0 .. capacity - 1, NEW j \in 0 .. capacity - 1,
         ByteAt(a, i) = ByteAt(a, j)
  PROVE  i = j
  <1>1. capacity \in Nat \ {0} /\ a % capacity \in 0 .. capacity - 1
    BY RingConstants, ModSplit
  <1>2. QED
    BY <1>1 DEF ByteAt

\* A transfer that starts n bytes later, at the index wrapped or not.
LEMMA ByteAtShift ==
  ASSUME NEW a \in Int, NEW n \in Nat, NEW i \in Nat, n + i < capacity
  PROVE  ByteAt((a + n) % INDEX_RANGE, i) = ByteAt(a, n + i)
  <1>1. /\ capacity \in Nat \ {0} /\ INDEX_RANGE \in Nat \ {0}
        /\ INDEX_RANGE % capacity = 0 /\ a + n \in Int
        /\ i \in 0 .. capacity - 1 /\ n + i \in 0 .. capacity - 1
    BY RingConstants
  <1>2. ((a + n) % INDEX_RANGE) % capacity = (a + n) % capacity
    BY <1>1, ModMod
  <1>3. ByteAt((a + n) % INDEX_RANGE, i) = ByteAt(a + n, i)
    BY <1>2 DEF ByteAt
  <1>4. ByteAt(a + n, i) = (a + n + i) % capacity
    BY <1>1, ByteAtMod
  <1>5. ByteAt(a, n + i) = (a + (n + i)) % capacity
    BY <1>1, ByteAtMod
  <1>6. a + n + i = a + (n + i)
    OBVIOUS
  <1>7. QED
    BY <1>3, <1>4, <1>5, <1>6

-----------------------------------------------------------------------------
(* The state of the ring. *)

Indices == head \in Index /\ tail \in Index

LEMMA UsedType ==
  ASSUME Indices
  PROVE  /\ ipc_ring_used \in 0 .. INDEX_RANGE - 1
         /\ ipc_ring_used = IF head >= tail THEN head - tail ELSE head - tail + INDEX_RANGE
         /\ head = (tail + ipc_ring_used) % INDEX_RANGE
  <1>1. ipc_ring_used = IF head >= tail THEN head - tail ELSE head - tail + INDEX_RANGE
    BY IndexSub DEF Indices, ipc_ring_used
  <1>2. ipc_ring_used \in 0 .. INDEX_RANGE - 1
    BY <1>1, RingConstants DEF Indices, Index
  <1>3. (tail + ipc_ring_used) % INDEX_RANGE =
          IF tail + ipc_ring_used < INDEX_RANGE THEN tail + ipc_ring_used
          ELSE tail + ipc_ring_used - INDEX_RANGE
    BY <1>2, IndexAdd DEF Indices
  <1>4. QED
    BY <1>1, <1>2, <1>3, RingConstants DEF Indices, Index

\* What the producer fills lies behind what is published.
LEMMA HeadByte ==
  ASSUME Indices, NEW i \in Nat, ipc_ring_used + i < capacity
  PROVE  ByteAt(head, i) = ByteAt(tail, ipc_ring_used + i)
  <1>1. tail \in Int /\ ipc_ring_used \in Nat
    BY UsedType, RingConstants DEF Indices, Index
  <1>2. ByteAt((tail + ipc_ring_used) % INDEX_RANGE, i) = ByteAt(tail, ipc_ring_used + i)
    BY <1>1, ByteAtShift
  <1>3. QED
    BY <1>2, UsedType

LEMMA UsedGrows ==
  ASSUME Indices, NEW n \in Nat, ipc_ring_used + n <= capacity,
         head' = (head + n) % INDEX_RANGE, tail' = tail
  PROVE  Indices' /\ ipc_ring_used' = ipc_ring_used + n
  <1>1. ipc_ring_used \in 0 .. INDEX_RANGE - 1 /\ n \in 0 .. INDEX_RANGE - 1
    BY UsedType, RingConstants
  <1>2. /\ head' \in Index /\ tail' \in Index
        /\ head' = IF head + n < INDEX_RANGE THEN head + n ELSE head + n - INDEX_RANGE
    BY <1>1, IndexAdd DEF Indices
  <1>3. ipc_ring_used' = IF head' >= tail' THEN head' - tail' ELSE head' - tail' + INDEX_RANGE
    BY <1>2, IndexSub DEF ipc_ring_used
  <1>4. QED
    BY <1>1, <1>2, <1>3, UsedType, RingConstants DEF Indices, Index

LEMMA UsedShrinks ==
  ASSUME Indices, NEW n \in Nat, n <= ipc_ring_used,
         tail' = (tail + n) % INDEX_RANGE, head' = head
  PROVE  Indices' /\ ipc_ring_used' = ipc_ring_used - n
  <1>1. ipc_ring_used \in 0 .. INDEX_RANGE - 1 /\ n \in 0 .. INDEX_RANGE - 1
    BY UsedType, RingConstants
  <1>2. /\ head' \in Index /\ tail' \in Index
        /\ tail' = IF tail + n < INDEX_RANGE THEN tail + n ELSE tail + n - INDEX_RANGE
    BY <1>1, IndexAdd DEF Indices
  <1>3. ipc_ring_used' = IF head' >= tail' THEN head' - tail' ELSE head' - tail' + INDEX_RANGE
    BY <1>2, IndexSub DEF ipc_ring_used
  <1>4. QED
    BY <1>1, <1>2, <1>3, UsedType, RingConstants DEF Indices, Index

\* SeqOf in terms of Seq and Len.
LEMMA SeqOfIs ==
  ASSUME NEW S, NEW n \in Nat
  PROVE  \A s : s \in SeqOf(S, n) <=> s \in Seq(S) /\ Len(s) <= n
  <1>1. ASSUME NEW s \in SeqOf(S, n) PROVE s \in Seq(S) /\ Len(s) <= n
    <2>1. PICK m \in 0 .. n : s \in [1 .. m -> S]
      BY DEF SeqOf
    <2>2. QED
      BY <2>1
  <1>2. ASSUME NEW s \in Seq(S), Len(s) <= n PROVE s \in SeqOf(S, n)
    <2>1. Len(s) \in 0 .. n /\ s \in [1 .. Len(s) -> S]
      BY <1>2, LenProperties
    <2>2. QED
      BY <2>1 DEF SeqOf
  <1>3. QED
    BY <1>1, <1>2

LEMMA MessagesIs ==
  \A s : s \in Messages <=> s \in Seq(Byte) /\ Len(s) \in 1 .. MaxSize
  <1>1. \A s : s \in SeqOf(Byte, MaxSize) <=> s \in Seq(Byte) /\ Len(s) <= MaxSize
    BY SeqOfIs, RingConstants
  <1>2. \A s \in Seq(Byte) : Len(s) \in Nat /\ (s # <<>> <=> Len(s) # 0)
    BY EmptySeq, LenProperties
  <1>3. QED
    BY <1>1, <1>2, RingConstants DEF Messages

\* The inductive invariant.  A call in progress still has the room or the
\* bytes it has checked for, and what it has copied so far is still there.
RingInv ==
  /\ Indices /\ data \in [Pos -> Byte]
  /\ wr \in [msg: Seq(Byte), done: Nat]
  /\ Len(wr.msg) <= MaxSize /\ wr.done <= Len(wr.msg)
  /\ rd \in [size: 0 .. MaxSize, buf: Seq(Byte)] /\ Len(rd.buf) <= rd.size
  /\ sent \in Seq(Byte) /\ Len(sent) <= MaxSize
  /\ received \in Seq(Byte) /\ Len(received) <= MaxSize
  /\ ipc_ring_used + Len(wr.msg) <= capacity
  /\ rd.size <= ipc_ring_used
  /\ \A i \in 1 .. wr.done : data[ByteAt(head, i - 1)] = wr.msg[i]
  /\ \A i \in 1 .. Len(rd.buf) : rd.buf[i] = data[ByteAt(tail, i - 1)]

LEMMA RingInvImplies == RingInv => RingSound
  <1> SUFFICES ASSUME RingInv PROVE RingSound
    OBVIOUS
  <1>1. /\ Len(wr.msg) \in Nat /\ Len(rd.buf) \in Nat /\ Len(sent) \in Nat
        /\ Len(received) \in Nat /\ MaxSize \in Nat /\ capacity \in Nat \ {0}
        /\ ipc_ring_used \in Nat
    BY RingConstants, UsedType DEF RingInv
  <1>2. RingTypeOK
    <2>1. \A s \in Seq(Byte) : Len(s) <= MaxSize => s \in Messages \cup {<<>>}
      BY MessagesIs, EmptySeq, LenProperties, <1>1
    <2>2. rd.buf \in SeqOf(Byte, rd.size)
      BY <1>1, SeqOfIs DEF RingInv
    <2>3. QED
      BY <1>1, <2>1, <2>2 DEF RingInv, RingTypeOK, Indices
  <1>3. NeverOverfull
    BY <1>1 DEF RingInv, NeverOverfull
  <1>4. PartsDisjoint
    <2>1. SUFFICES ASSUME NEW i \in 0 .. Len(wr.msg) - 1, NEW j \in 0 .. ipc_ring_used - 1,
                          ByteAt(head, i) = ByteAt(tail, j)
                   PROVE  FALSE
      BY DEF PartsDisjoint
    <2>2. ByteAt(head, i) = ByteAt(tail, ipc_ring_used + i)
      BY <1>1, HeadByte DEF RingInv
    <2>3. ipc_ring_used + i \in 0 .. capacity - 1 /\ j \in 0 .. capacity - 1
          /\ tail \in Int
      BY <1>1, RingConstants DEF RingInv, Indices, Index
    <2>4. ipc_ring_used + i = j
      BY <2>1, <2>2, <2>3, ByteAtInjective
    <2>5. QED
      BY <1>1, <2>4
  <1>5. QED
    BY <1>2, <1>3, <1>4 DEF RingSound

LEMMA InitRingInv == RingInit => RingInv
  <1> SUFFICES ASSUME RingInit PROVE RingInv
    OBVIOUS
  <1>1. Indices
    BY RingConstants DEF RingInit, Indices, Index
  <1>2. ipc_ring_used = 0
    BY <1>1, UsedType DEF RingInit
  <1>3. /\ <<>> \in Seq(Byte) /\ Len(<<>>) = 0
    BY EmptySeq
  <1>4. QED
    BY <1>1, <1>2, <1>3, RingConstants DEF RingInit, RingInv, NoWrite, NoRead

\* The positions the two ends copy.
LEMMA PositionFacts ==
  ASSUME RingInv
  PROVE  /\ Len(wr.msg) \in Nat /\ Len(rd.buf) \in Nat /\ rd.size \in Nat
         /\ ipc_ring_used \in Nat /\ capacity \in Nat \ {0} /\ MaxSize \in Nat
         /\ tail \in Int /\ head \in Int
         /\ \A i \in 0 .. Len(wr.msg) - 1 :
              /\ ipc_ring_used + i \in 0 .. capacity - 1 /\ i \in 0 .. capacity - 1
              /\ ByteAt(head, i) = ByteAt(tail, ipc_ring_used + i)
              /\ ByteAt(head, i) \in Pos
         /\ \A i \in 0 .. ipc_ring_used - 1 :
              i \in 0 .. capacity - 1 /\ ByteAt(tail, i) \in Pos
  <1>1. /\ Len(wr.msg) \in Nat /\ Len(rd.buf) \in Nat /\ rd.size \in Nat
        /\ ipc_ring_used \in Nat /\ capacity \in Nat \ {0} /\ MaxSize \in Nat
        /\ tail \in Int /\ head \in Int
    <2>1. tail \in Int /\ head \in Int
      BY RingConstants DEF RingInv, Indices, Index
    <2>2. ipc_ring_used \in Nat
      BY UsedType DEF RingInv
    <2>3. QED
      BY <2>1, <2>2, RingConstants DEF RingInv
  <1>2. ASSUME NEW i \in 0 .. Len(wr.msg) - 1
        PROVE  /\ ipc_ring_used + i \in 0 .. capacity - 1 /\ i \in 0 .. capacity - 1
               /\ ByteAt(head, i) = ByteAt(tail, ipc_ring_used + i)
               /\ ByteAt(head, i) \in Pos
    <2>1. ipc_ring_used + i \in 0 .. capacity - 1 /\ i \in 0 .. capacity - 1
      BY <1>1 DEF RingInv
    <2>2. ByteAt(head, i) = ByteAt(tail, ipc_ring_used + i)
      BY <1>1, <2>1, HeadByte DEF RingInv
    <2>3. ByteAt(head, i) \in Pos
      BY <1>1, <2>1, ByteAtMod
    <2>4. QED
      BY <2>1, <2>2, <2>3
  <1>3. ASSUME NEW i \in 0 .. ipc_ring_used - 1
        PROVE  i \in 0 .. capacity - 1 /\ ByteAt(tail, i) \in Pos
    <2>1. i \in 0 .. capacity - 1
      BY <1>1 DEF RingInv
    <2>2. QED
      BY <1>1, <2>1, ByteAtMod
  <1>4. QED
    BY <1>1, <1>2, <1>3

-----------------------------------------------------------------------------
(* The steps. *)

LEMMA WriteCallRingInv ==
  ASSUME RingInv, NEW m \in Messages, ipc_ring_write(m)
  PROVE  RingInv' /\ UNCHANGED <<sent, received, Published>>
  <1>1. /\ UNCHANGED <<data, head, tail, rd, sent, received>>
        /\ wr' = [msg |-> m, done |-> 0] /\ Len(m) <= capacity - ipc_ring_used
    BY DEF ipc_ring_write, ipc_ring_available
  <1>2. UNCHANGED <<ipc_ring_used, Published>> /\ Indices'
    BY <1>1 DEF ipc_ring_used, Published, RingInv, Indices
  <1>3. m \in Seq(Byte) /\ Len(m) \in 1 .. MaxSize
    BY MessagesIs
  <1>4. ipc_ring_used' + Len(wr'.msg) <= capacity
    BY <1>1, <1>2, <1>3, PositionFacts
  <1>5. QED
    BY <1>1, <1>2, <1>3, <1>4 DEF RingInv

LEMMA WriteByteRingInv ==
  ASSUME RingInv, WriteByte
  PROVE  RingInv' /\ UNCHANGED <<sent, received, Published>>
  <1>1. /\ UNCHANGED <<head, tail, rd, sent, received>> /\ wr.done < Len(wr.msg)
        /\ data' = [data EXCEPT ![ByteAt(head, wr.done)] = wr.msg[wr.done + 1]]
        /\ wr' = [wr EXCEPT !.done = @ + 1]
    BY DEF WriteByte
  <1>2. UNCHANGED ipc_ring_used /\ Indices'
    BY <1>1 DEF ipc_ring_used, RingInv, Indices
  <1>3. /\ wr.done \in 0 .. Len(wr.msg) - 1 /\ wr.msg[wr.done + 1] \in Byte
        /\ ByteAt(head, wr.done) \in Pos
    <2>0. Len(wr.msg) \in Nat
      BY PositionFacts
    <2>1. wr.done \in 0 .. Len(wr.msg) - 1 /\ wr.done + 1 \in 1 .. Len(wr.msg)
      BY <1>1, <2>0 DEF RingInv
    <2>2. wr.msg[wr.done + 1] \in Byte
      BY <2>1, ElementOfSeq DEF RingInv
    <2>3. QED
      BY <2>1, <2>2, PositionFacts
  <1>4. /\ data' \in [Pos -> Byte]
        /\ data'[ByteAt(head, wr.done)] = wr.msg[wr.done + 1]
        /\ \A p \in Pos : p # ByteAt(head, wr.done) => data'[p] = data[p]
    BY <1>1, <1>3 DEF RingInv
  <1>5. \A j \in 0 .. ipc_ring_used - 1 : data'[ByteAt(tail, j)] = data[ByteAt(tail, j)]
    <2>1. SUFFICES ASSUME NEW j \in 0 .. ipc_ring_used - 1
                   PROVE  data'[ByteAt(tail, j)] = data[ByteAt(tail, j)]
      OBVIOUS
    <2>0. /\ tail \in Int /\ j \in 0 .. capacity - 1
          /\ ipc_ring_used + wr.done \in 0 .. capacity - 1 /\ ipc_ring_used + wr.done # j
      <3>1. ipc_ring_used \in Nat /\ wr.done \in Nat /\ ipc_ring_used + wr.done # j
        <4>1. ipc_ring_used \in Nat /\ Len(wr.msg) \in Nat
          BY PositionFacts
        <4>2. QED
          BY <1>3, <4>1
      <3>2. ipc_ring_used + wr.done \in 0 .. capacity - 1
        BY <1>3, PositionFacts
      <3>3. tail \in Int /\ j \in 0 .. capacity - 1
        BY PositionFacts
      <3>4. QED
        BY <3>1, <3>2, <3>3
    <2>2. ByteAt(tail, j) # ByteAt(tail, ipc_ring_used + wr.done)
      BY <2>0, ByteAtInjective
    <2>3. ByteAt(tail, j) # ByteAt(head, wr.done) /\ ByteAt(tail, j) \in Pos
      BY <1>3, <2>2, PositionFacts
    <2>4. QED
      BY <1>4, <2>3
  <1>6. UNCHANGED Published
    <2>1. \A i \in 1 .. ipc_ring_used : i - 1 \in 0 .. ipc_ring_used - 1
      BY PositionFacts
    <2>2. \A i \in 1 .. ipc_ring_used : data'[ByteAt(tail, i - 1)] = data[ByteAt(tail, i - 1)]
      BY <1>5, <2>1
    <2>3. ByteAt(tail, 0)' = ByteAt(tail, 0) /\ tail' = tail
      BY <1>1 DEF ByteAt
    <2>4. Published' = [i \in 1 .. ipc_ring_used |-> data'[ByteAt(tail, i - 1)]]
      BY <1>1, <1>2 DEF Published, ByteAt
    <2>5. QED
      BY <2>2, <2>4 DEF Published
  <1>7. \A i \in 1 .. wr'.done : data'[ByteAt(head, i - 1)] = wr'.msg[i]
    <2>1. wr'.done = wr.done + 1 /\ wr'.msg = wr.msg
      BY <1>1 DEF RingInv
    <2>2. SUFFICES ASSUME NEW i \in 1 .. wr.done + 1
                   PROVE  data'[ByteAt(head, i - 1)] = wr.msg[i]
      BY <2>1
    <2>3. CASE i = wr.done + 1
      <3>1. i - 1 = wr.done
        BY <1>3, <2>3
      <3>2. QED
        BY <1>4, <2>3, <3>1
    <2>4. CASE i # wr.done + 1
      <3>1. i \in 1 .. wr.done /\ i - 1 \in 0 .. Len(wr.msg) - 1 /\ i - 1 # wr.done
        BY <1>3, <2>4, PositionFacts
      <3>2. ByteAt(head, i - 1) # ByteAt(head, wr.done) /\ ByteAt(head, i - 1) \in Pos
        BY <1>3, <3>1, PositionFacts, ByteAtInjective
      <3>3. data[ByteAt(head, i - 1)] = wr.msg[i]
        BY <3>1 DEF RingInv
      <3>4. QED
        BY <1>4, <3>2, <3>3
    <2>5. QED
      BY <2>3, <2>4
  <1>8. \A i \in 1 .. Len(rd.buf) : rd.buf[i] = data'[ByteAt(tail, i - 1)]
    <2>1. SUFFICES ASSUME NEW i \in 1 .. Len(rd.buf)
                   PROVE  rd.buf[i] = data'[ByteAt(tail, i - 1)]
      OBVIOUS
    <2>2. i - 1 \in 0 .. ipc_ring_used - 1
      BY PositionFacts DEF RingInv
    <2>3. QED
      BY <1>5, <2>2 DEF RingInv
  <1>9. wr' \in [msg: Seq(Byte), done: Nat] /\ wr'.done <= Len(wr'.msg) /\ wr'.msg = wr.msg
    <2>1. Len(wr.msg) \in Nat
      BY PositionFacts
    <2>2. wr' = [msg |-> wr.msg, done |-> wr.done + 1]
      BY <1>1 DEF RingInv
    <2>3. QED
      <3>1. wr.msg \in Seq(Byte) /\ wr.done + 1 \in Nat /\ wr.done + 1 <= Len(wr.msg)
        BY <1>3, <2>1 DEF RingInv
      <3>2. QED
        BY <2>2, <3>1
  <1>10. QED
    BY <1>1, <1>2, <1>4, <1>6, <1>7, <1>8, <1>9 DEF RingInv

LEMMA ReadCallRingInv ==
  ASSUME RingInv, NEW n \in 1 .. MaxSize, ipc_ring_read(n)
  PROVE  RingInv' /\ UNCHANGED <<sent, received, Published>>
  <1>1. /\ UNCHANGED <<data, head, tail, wr, sent, received>>
        /\ rd' = [size |-> n, buf |-> <<>>] /\ n <= ipc_ring_used
    BY DEF ipc_ring_read
  <1>2. UNCHANGED <<ipc_ring_used, Published>> /\ Indices'
    BY <1>1 DEF ipc_ring_used, Published, RingInv, Indices
  <1>3. n \in 0 .. MaxSize /\ <<>> \in Seq(Byte) /\ Len(<<>>) = 0
    BY RingConstants, EmptySeq
  <1>4. QED
    BY <1>1, <1>2, <1>3 DEF RingInv

LEMMA ReadByteRingInv ==
  ASSUME RingInv, ReadByte
  PROVE  RingInv' /\ UNCHANGED <<sent, received, Published>>
  <1> DEFINE n == Len(rd.buf)
             b == data[ByteAt(tail, n)]
  <1>1. /\ UNCHANGED <<data, head, tail, wr, sent, received>> /\ n < rd.size
        /\ rd' = [rd EXCEPT !.buf = Append(@, b)]
    BY DEF ReadByte
  <1>2. UNCHANGED <<ipc_ring_used, Published>> /\ Indices'
    BY <1>1 DEF ipc_ring_used, Published, RingInv, Indices
  <1>3. n \in 0 .. ipc_ring_used - 1 /\ n \in Nat
    BY <1>1, PositionFacts DEF RingInv
  <1>4. b \in Byte
    BY <1>3, PositionFacts DEF RingInv
  <1>5. /\ Append(rd.buf, b) \in Seq(Byte) /\ Len(Append(rd.buf, b)) = n + 1
        /\ \A i \in 1 .. n : Append(rd.buf, b)[i] = rd.buf[i]
        /\ Append(rd.buf, b)[n + 1] = b
    BY <1>4 DEF RingInv
  <1>6. /\ rd' \in [size: 0 .. MaxSize, buf: Seq(Byte)] /\ rd'.size = rd.size
        /\ rd'.buf = Append(rd.buf, b)
    BY <1>1, <1>5 DEF RingInv
  <1>7. \A i \in 1 .. n + 1 : Append(rd.buf, b)[i] = data[ByteAt(tail, i - 1)]
    <2>1. SUFFICES ASSUME NEW i \in 1 .. n + 1
                   PROVE  Append(rd.buf, b)[i] = data[ByteAt(tail, i - 1)]
      OBVIOUS
    <2>2. CASE i = n + 1
      <3>1. i - 1 = n
        BY <1>3, <2>2
      <3>2. QED
        BY <1>5, <2>2, <3>1
    <2>3. CASE i # n + 1
      <3>1. i \in 1 .. n
        BY <1>3, <2>3
      <3>2. QED
        BY <1>5, <3>1 DEF RingInv
    <2>4. QED
      BY <2>2, <2>3
  <1>8. Len(rd'.buf) <= rd'.size /\ Len(rd'.buf) = n + 1
    BY <1>1, <1>3, <1>5, <1>6, PositionFacts
  <1>9. \A i \in 1 .. Len(rd'.buf) : rd'.buf[i] = data'[ByteAt(tail', i - 1)]
    BY <1>1, <1>6, <1>7, <1>8
  <1>10. QED
    BY <1>1, <1>2, <1>6, <1>8, <1>9 DEF RingInv

\* The published bytes as a sequence.
PublishedSeq ==
  /\ Published \in Seq(Byte) /\ Len(Published) = ipc_ring_used
  /\ \A i \in 1 .. ipc_ring_used : Published[i] = data[ByteAt(tail, i - 1)]

LEMMA PublishedType == RingInv => PublishedSeq
  <1> SUFFICES ASSUME RingInv PROVE PublishedSeq
    OBVIOUS
  <1>1. ipc_ring_used \in Nat
    BY PositionFacts
  <1>2. \A i \in 1 .. ipc_ring_used : data[ByteAt(tail, i - 1)] \in Byte
    <2>1. \A i \in 1 .. ipc_ring_used : i - 1 \in 0 .. ipc_ring_used - 1
      BY <1>1
    <2>2. \A i \in 1 .. ipc_ring_used : ByteAt(tail, i - 1) \in Pos
      BY <2>1, PositionFacts
    <2>3. QED
      BY <2>2 DEF RingInv
  <1>3. Published \in [1 .. ipc_ring_used -> Byte]
    BY <1>2 DEF Published
  <1>4. QED
    BY <1>1, <1>3 DEF PublishedSeq, Published

\* Publishing head appends the message.
LEMMA PublishRingInv ==
  ASSUME RingInv, WritePublish
  PROVE  RingInv' /\ Fifo!Put
  <1> DEFINE n == Len(wr.msg)
  <1>1. /\ UNCHANGED <<data, tail, rd, received>> /\ wr # NoWrite /\ wr.done = n
        /\ head' = (head + n) % INDEX_RANGE /\ wr' = NoWrite /\ sent' = wr.msg
    BY DEF WritePublish
  <1>2. n \in Nat /\ ipc_ring_used \in Nat /\ ipc_ring_used + n <= capacity
    <2>1. n \in Nat /\ ipc_ring_used \in Nat
      BY PositionFacts
    <2>2. QED
      BY <2>1 DEF RingInv
  <1>3. Indices' /\ ipc_ring_used' = ipc_ring_used + n
    BY <1>1, <1>2, UsedGrows DEF RingInv
  <1>4. RingInv'
    <2>1. <<>> \in Seq(Byte) /\ Len(<<>>) = 0
      BY EmptySeq
    <2>2. /\ wr' \in [msg: Seq(Byte), done: Nat] /\ wr'.msg = <<>> /\ wr'.done = 0
      BY <1>1, <2>1 DEF NoWrite
    <2>3. \A i \in 1 .. Len(rd'.buf) : rd'.buf[i] = data'[ByteAt(tail', i - 1)]
      BY <1>1 DEF RingInv
    <2>4. rd.size \in Nat /\ rd.size <= ipc_ring_used + n
      <3>1. rd.size \in Nat
        BY PositionFacts
      <3>2. QED
        BY <1>2, <3>1 DEF RingInv
    <2>5. sent' \in Seq(Byte) /\ Len(sent') <= MaxSize /\ data' \in [Pos -> Byte]
      BY <1>1 DEF RingInv
    <2>6. QED
      BY <1>1, <1>2, <1>3, <2>1, <2>2, <2>3, <2>4, <2>5, RingConstants DEF RingInv
  <1>5. wr.msg \in Fifo!Messages
    <2>1. n # 0
      <3>1. SUFFICES ASSUME n = 0 PROVE FALSE
        OBVIOUS
      <3>2. wr.msg = <<>>
        BY <3>1, EmptySeq DEF RingInv
      <3>3. wr = NoWrite
        BY <1>1, <3>1, <3>2 DEF RingInv, NoWrite
      <3>4. QED
        BY <1>1, <3>3
    <2>2. wr.msg \in Messages
      BY <1>2, <2>1, MessagesIs, RingConstants DEF RingInv
    <2>3. QED
      BY <2>2 DEF Fifo!Messages, Messages, Fifo!SeqOf, SeqOf
  <1>6. Published' = Published \o wr.msg
    <2>1. Published \in Seq(Byte) /\ wr.msg \in Seq(Byte) /\ Len(Published) = ipc_ring_used
      BY PublishedType DEF RingInv, PublishedSeq
    <2>2. /\ Published \o wr.msg \in Seq(Byte) /\ Len(Published \o wr.msg) = ipc_ring_used + n
          /\ \A i \in 1 .. ipc_ring_used + n : (Published \o wr.msg)[i] =
               IF i <= ipc_ring_used THEN Published[i] ELSE wr.msg[i - ipc_ring_used]
      BY <2>1, ConcatProperties
    <2>3. /\ Published' \in Seq(Byte) /\ Len(Published') = ipc_ring_used + n
          /\ \A i \in 1 .. ipc_ring_used + n : Published'[i] = data[ByteAt(tail, i - 1)]
      <3>1. /\ Published' \in Seq(Byte) /\ Len(Published') = ipc_ring_used'
            /\ \A i \in 1 .. ipc_ring_used' : Published'[i] = data'[ByteAt(tail', i - 1)]
        <4>1. (RingInv => PublishedSeq)'
          BY PublishedType, PTL
        <4>2. QED
          BY <1>4, <4>1 DEF PublishedSeq
      <3>2. QED
        BY <1>1, <1>3, <3>1
    <2>4. ASSUME NEW i \in 1 .. ipc_ring_used + n
          PROVE  Published'[i] = (Published \o wr.msg)[i]
      <3>1. CASE i <= ipc_ring_used
        <4>1. i \in 1 .. ipc_ring_used
          BY <1>2, <3>1
        <4>2. QED
          BY <2>2, <2>3, <3>1, <4>1, PublishedType DEF PublishedSeq
      <3>2. CASE i > ipc_ring_used
        <4>1. /\ i - ipc_ring_used \in 1 .. n /\ i - ipc_ring_used - 1 \in 0 .. n - 1
              /\ ipc_ring_used + (i - ipc_ring_used - 1) = i - 1
              /\ ~(i <= ipc_ring_used)
          BY <1>2, <3>2
        <4>2. ByteAt(head, i - ipc_ring_used - 1) = ByteAt(tail, i - 1)
          BY <4>1, PositionFacts
        <4>3. data[ByteAt(head, i - ipc_ring_used - 1)] = wr.msg[i - ipc_ring_used]
          BY <1>1, <4>1 DEF RingInv
        <4>4. QED
          BY <2>2, <2>3, <4>1, <4>2, <4>3
      <3>3. i <= ipc_ring_used \/ i > ipc_ring_used
        BY <1>2
      <3>4. QED
        BY <3>1, <3>2, <3>3
    <2>5. QED
      BY <2>2, <2>3, <2>4, SeqEqual
  <1>7. Len(Published) + Len(wr.msg) <= capacity
    BY <1>2, PublishedType DEF PublishedSeq
  <1>8. QED
    BY <1>1, <1>4, <1>5, <1>6, <1>7 DEF Fifo!Put

\* Publishing tail removes what the caller has got.
LEMMA ReleaseRingInv ==
  ASSUME RingInv, ReadRelease
  PROVE  RingInv' /\ Fifo!Get
  <1> DEFINE n == rd.size
             u == ipc_ring_used
  <1>1. /\ UNCHANGED <<data, head, wr, sent>> /\ rd # NoRead /\ Len(rd.buf) = n
        /\ tail' = (tail + n) % INDEX_RANGE /\ rd' = NoRead /\ received' = rd.buf
    BY DEF ReadRelease
  <1>2. n \in Nat /\ u \in Nat /\ n <= u /\ n <= MaxSize /\ u <= capacity
        /\ Len(wr.msg) \in Nat /\ capacity \in Nat /\ tail \in Int
    <2>1. n \in Nat /\ u \in Nat /\ Len(wr.msg) \in Nat /\ capacity \in Nat /\ tail \in Int
      BY PositionFacts
    <2>2. QED
      BY <2>1 DEF RingInv
  <1>3. Indices' /\ ipc_ring_used' = u - n
    BY <1>1, <1>2, UsedShrinks DEF RingInv
  <1> HIDE DEF n, u
  <1>4. RingInv'
    <2>1. <<>> \in Seq(Byte) /\ Len(<<>>) = 0
      BY EmptySeq
    <2>2. rd' \in [size: 0 .. MaxSize, buf: Seq(Byte)] /\ rd'.buf = <<>> /\ rd'.size = 0
      BY <1>1, <1>2, <2>1, RingConstants DEF NoRead
    <2>3. /\ data' \in [Pos -> Byte] /\ wr' \in [msg: Seq(Byte), done: Nat]
          /\ Len(wr'.msg) <= MaxSize /\ wr'.done <= Len(wr'.msg)
          /\ sent' \in Seq(Byte) /\ Len(sent') <= MaxSize
          /\ \A i \in 1 .. wr'.done : data'[ByteAt(head', i - 1)] = wr'.msg[i]
      BY <1>1 DEF RingInv
    <2>4. received' \in Seq(Byte) /\ Len(received') <= MaxSize
      BY <1>1, <1>2 DEF RingInv, n
    <2>5. u + Len(wr.msg) <= capacity
      BY DEF RingInv, u
    <2>6. ipc_ring_used' + Len(wr'.msg) <= capacity /\ rd'.size <= ipc_ring_used'
      BY <1>1, <1>2, <1>3, <2>2, <2>5
    <2>7. \A i \in 1 .. Len(rd'.buf) : rd'.buf[i] = data'[ByteAt(tail', i - 1)]
      BY <2>1, <2>2
    <2>8. QED
      BY <1>3, <2>1, <2>2, <2>3, <2>4, <2>6, <2>7, <1>2 DEF RingInv
  <1>5. n \in 1 .. MaxSize
    <2>1. SUFFICES ASSUME n = 0 PROVE FALSE
      BY <1>2, RingConstants
    <2>2. rd.buf = <<>>
      BY <1>1, <2>1, EmptySeq DEF RingInv
    <2>3. rd = NoRead
      BY <2>1, <2>2 DEF RingInv, NoRead, n
    <2>4. QED
      BY <1>1, <2>3
  <1>6. Published \in Seq(Byte) /\ Len(Published) = u
        /\ \A i \in 1 .. u : Published[i] \in Byte /\ Published[i] = data[ByteAt(tail, i - 1)]
    BY PublishedType, ElementOfSeq DEF PublishedSeq, u
  <1>7. received' = SubSeq(Published, 1, n)
    <2>1. \A i \in 1 .. n : Published[i] \in Byte
      BY <1>2, <1>6
    <2>2. /\ SubSeq(Published, 1, n) \in Seq(Byte) /\ Len(SubSeq(Published, 1, n)) = n
          /\ \A i \in 1 .. n : SubSeq(Published, 1, n)[i] = Published[i]
      BY <1>2, <1>5, <2>1, SubSeqProperties
    <2>3. ASSUME NEW i \in 1 .. n PROVE rd.buf[i] = Published[i]
      <3>1. i \in 1 .. u /\ i \in 1 .. Len(rd.buf)
        BY <1>1, <1>2
      <3>2. rd.buf[i] = data[ByteAt(tail, i - 1)]
        BY <3>1 DEF RingInv
      <3>3. QED
        BY <1>6, <3>1, <3>2
    <2>4. rd.buf \in Seq(Byte) /\ Len(rd.buf) = n
      BY <1>1 DEF RingInv
    <2>5. QED
      BY <1>1, <2>2, <2>3, <2>4, SeqEqual
  <1>8. Published' = SubSeq(Published, n + 1, u)
    <2>1. \A i \in n + 1 .. u : Published[i] \in Byte
      BY <1>2, <1>6
    <2>2. /\ SubSeq(Published, n + 1, u) \in Seq(Byte)
          /\ Len(SubSeq(Published, n + 1, u)) = u - n
          /\ \A i \in 1 .. u - n : SubSeq(Published, n + 1, u)[i] = Published[n + i]
      <3>1. /\ SubSeq(Published, n + 1, u) \in Seq(Byte)
            /\ Len(SubSeq(Published, n + 1, u)) = IF n + 1 <= u THEN u - (n + 1) + 1 ELSE 0
            /\ \A i \in 1 .. u - (n + 1) + 1 :
                 SubSeq(Published, n + 1, u)[i] = Published[(n + 1) + i - 1]
        <4>1. n + 1 \in Int /\ u \in Int
          BY <1>2
        <4>2. QED
          BY <2>1, <4>1, SubSeqProperties
      <3>2. /\ u - (n + 1) + 1 = u - n
            /\ (IF n + 1 <= u THEN u - (n + 1) + 1 ELSE 0) = u - n
            /\ \A i \in 1 .. u - n : (n + 1) + i - 1 = n + i
        BY <1>2
      <3>3. QED
        BY <3>1, <3>2
    <2>3. /\ Published' \in Seq(Byte) /\ Len(Published') = u - n
          /\ \A i \in 1 .. u - n : Published'[i] = data[ByteAt(tail', i - 1)]
      <3>1. /\ Published' \in Seq(Byte) /\ Len(Published') = ipc_ring_used'
            /\ \A i \in 1 .. ipc_ring_used' : Published'[i] = data'[ByteAt(tail', i - 1)]
        <4>1. (RingInv => PublishedSeq)'
          BY PublishedType, PTL
        <4>2. QED
          BY <1>4, <4>1 DEF PublishedSeq
      <3>2. QED
        BY <1>1, <1>3, <3>1
    <2>4. ASSUME NEW i \in 1 .. u - n
          PROVE  Published'[i] = SubSeq(Published, n + 1, u)[i]
      <3>1. i - 1 \in Nat /\ n + (i - 1) < capacity /\ n + (i - 1) = (n + i) - 1
            /\ n + i \in 1 .. u
        BY <1>2
      <3>2. ByteAt(tail', i - 1) = ByteAt(tail, (n + i) - 1)
        <4>1. ByteAt((tail + n) % INDEX_RANGE, i - 1) = ByteAt(tail, n + (i - 1))
          BY <1>2, <3>1, ByteAtShift
        <4>2. QED
          BY <1>1, <3>1, <4>1
      <3>3. QED
        BY <1>6, <2>2, <2>3, <3>1, <3>2
    <2>5. QED
      BY <2>2, <2>3, <2>4, SeqEqual
  <1>9. QED
    BY <1>1, <1>2, <1>4, <1>5, <1>6, <1>7, <1>8 DEF Fifo!Get, n, u

LEMMA NextRingInv ==
  ASSUME RingInv, [RingNext]_ringvars
  PROVE  RingInv' /\ [Fifo!Next]_<<sent, Published, received>>
  <1>1. CASE UNCHANGED ringvars
    <2>1. UNCHANGED <<data, head, tail, wr, rd, sent, received>>
      BY <1>1 DEF ringvars
    <2>2. UNCHANGED <<ipc_ring_used, Published>> /\ Indices'
      BY <2>1 DEF ipc_ring_used, Published, RingInv, Indices
    <2>3. RingInv'
      BY <2>1, <2>2 DEF RingInv
    <2>4. QED
      BY <2>1, <2>2, <2>3
  <1>2. CASE Producer
    BY <1>2, WriteCallRingInv, WriteByteRingInv, PublishRingInv DEF Producer, Fifo!Next
  <1>3. CASE Consumer
    BY <1>3, ReadCallRingInv, ReadByteRingInv, ReleaseRingInv DEF Consumer, Fifo!Next
  <1>4. QED
    BY <1>1, <1>2, <1>3 DEF RingNext

\* The indices stay within the capacity of each other although each end reads
\* the other's only once per call, and the two ends never copy the same byte.
THEOREM RingStaysSound == RingSpec => []RingSound
  <1>1. RingInv /\ [RingNext]_ringvars => RingInv'
    BY NextRingInv
  <1>2. QED
    BY <1>1, InitRingInv, RingInvImplies, PTL DEF RingSpec

\* The ring implements the FIFO: byte-wise copies and free-running indices that
\* wrap are not visible to the two ends.
THEOREM RingImplementsFifo == RingSpec => ImplementsFifo
  <1>1. RingInit => Fifo!Init
    <2>1. SUFFICES ASSUME RingInit PROVE Fifo!Init
      OBVIOUS
    <2>2. RingInv
      BY <2>1, InitRingInv
    <2>3. Indices
      BY <2>2 DEF RingInv
    <2>4. ipc_ring_used = 0
      BY <2>1, <2>3, UsedType DEF RingInit
    <2>5. Published \in Seq(Byte) /\ Len(Published) = 0
      BY <2>2, <2>4, PublishedType DEF PublishedSeq
    <2>6. Published = <<>>
      BY <2>5, EmptySeq
    <2>7. QED
      BY <2>1, <2>6 DEF RingInit, Fifo!Init
  <1>2. RingInv /\ [RingNext]_ringvars => RingInv' /\ [Fifo!Next]_<<sent, Published, received>>
    BY NextRingInv
  <1>3. QED
    BY <1>1, <1>2, InitRingInv, PTL DEF RingSpec, ImplementsFifo, Fifo!Spec
=============================================================================
