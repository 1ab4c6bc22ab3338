------------------------- MODULE CoreLifecycleProofs -------------------------
(***************************************************************************)
(* The requests use the engine as its specification allows, so they        *)
(* inherit its invariant, and LifecycleInv is inductive: for any number of *)
(* clients, configurations, helpers, attempts, requests and crashes.       *)
(*                                                                         *)
(* Who holds core_slot is the only one to move the engine or the record    *)
(* (lemmas FreeStep and CoreTaskStep), so each action is left with the     *)
(* request that takes it.                                                  *)
(***************************************************************************)
EXTENDS CoreLifecycle, SingBoxEngineProofs

TaskType == [pc : CorePcs \cup FreePcs \cup ProxyPcs,
             cfg : Configs \cup {None}, prev : Configs \cup {None},
             tries : 0..MaxAttempts - 1, outcome : Outcomes]

-----------------------------------------------------------------------------
(***************************************************************************)
(* What the calls on the engine do to the cores that run.                  *)
(***************************************************************************)
\* When is_running says no, nothing runs: every core is the backend's.
LEMMA NothingRuns ==
    ASSUME EngineInv, "no" \in IsRunningAnswers, NEW S
    PROVE  OnlyRuns(S)
<1>1. /\ backend \in Helpers => HelperUp(backend) /\ helpers[backend].core = None
      /\ backend = "Embedded" /\ backend \notin Helpers => embedded = None
  BY NotRunning
<1>2. RunningCoreIsReachable
  BY DEF EngineInv
<1> QED BY <1>1, <1>2, HelperAssumption DEF RunningCoreIsReachable, OnlyRuns

\* Dropping helpers starts no core.
LEMMA DropRuns ==
    ASSUME NEW S, NEW D \in SUBSET Helpers, NEW t \in HelperTable, NEW u \in AfterDrop(t, D),
           \A h \in Helpers : t[h].state = "up" => t[h].core \in S \cup {None}
    PROVE  \A h \in Helpers : u[h].state = "up" => u[h].core \in S \cup {None}
BY DropEnds

\* The same of the state after the call.
LEMMA DropLeaves ==
    ASSUME NEW S, NEW D \in SUBSET Helpers, NEW t \in HelperTable, helpers' \in AfterDrop(t, D),
           \A h \in Helpers : t[h].state = "up" => t[h].core \in S \cup {None},
           embedded' \in S \cup {None}
    PROVE  OnlyRuns(S)'
<1>1. \A h \in Helpers : helpers'[h].state = "up" => helpers'[h].core \in S \cup {None}
  BY DropRuns
<1> QED BY <1>1 DEF OnlyRuns, HelperUp

\* SingBox::prepare_config starts no core.
LEMMA PrepareRuns ==
    ASSUME EngineInv, NEW S, OnlyRuns(S), NEW c, NEW ans, PrepareConfig(c, ans)
    PROVE  OnlyRuns(S)'
<1>1. helpers \in HelperTable
  BY DEF EngineInv, TypeOK, HelperTable
<1>2. \A h \in Helpers : helpers[h].state = "up" => helpers[h].core \in S \cup {None}
  BY DEF OnlyRuns, HelperUp
<1>3. CASE PrepareRefused(ans)
  BY <1>3 DEF PrepareRefused, engineVars, OnlyRuns, HelperUp
<1>4. CASE PreparePlain(c, ans)
  BY <1>4 DEF PreparePlain, OnlyRuns, HelperUp
<1>5. CASE PrepareReuse(c, ans) \/ PrepareCurrent(c, ans)
  <2>1. PICK D \in SUBSET Helpers : helpers' \in AfterDrop(helpers, D)
    BY <1>5 DEF PrepareReuse, PrepareCurrent
  <2>2. embedded' = embedded
    BY <1>5 DEF PrepareReuse, PrepareCurrent
  <2> QED BY <1>1, <1>2, <2>1, <2>2, DropRuns DEF OnlyRuns, HelperUp
<1>6. CASE PrepareLaunch(c, ans)
  <2>1. PICK n \in Helpers :
          helpers' \in AfterDrop([helpers EXCEPT ![n] = [state |-> "up", core |-> None]],
                                 {prepared.helper} \cap Helpers)
    BY <1>6 DEF PrepareLaunch
  <2> DEFINE t == [helpers EXCEPT ![n] = [state |-> "up", core |-> None]]
             D == {prepared.helper} \cap Helpers
  <2>2. t \in HelperTable /\ D \in SUBSET Helpers /\ helpers' \in AfterDrop(t, D)
    BY <1>1, <2>1 DEF HelperTable
  <2>3. \A h \in Helpers : t[h].state = "up" => t[h].core \in S \cup {None}
    BY <1>1, <1>2 DEF HelperTable
  <2>4. embedded' = embedded
    BY <1>6 DEF PrepareLaunch
  <2> HIDE DEF t, D
  <2> QED BY <2>2, <2>3, <2>4, DropRuns DEF OnlyRuns, HelperUp
<1> QED BY <1>3, <1>4, <1>5, <1>6 DEF PrepareConfig

\* SingBox::discard_prepared_config starts no core.
LEMMA DiscardRuns ==
    ASSUME EngineInv, NEW S, OnlyRuns(S), DiscardPrepared
    PROVE  OnlyRuns(S)'
<1>1. helpers \in HelperTable
  BY DEF EngineInv, TypeOK, HelperTable
<1>2. PICK D \in SUBSET Helpers : helpers' \in AfterDrop(helpers, D)
  BY DEF DiscardPrepared
<1>3. embedded' = embedded
  BY DEF DiscardPrepared
<1>4. \A h \in Helpers : helpers[h].state = "up" => helpers[h].core \in S \cup {None}
  BY DEF OnlyRuns, HelperUp
<1> QED BY <1>1, <1>2, <1>3, <1>4, DropRuns DEF OnlyRuns, HelperUp

\* SingBox::stop starts nothing, whether it worked or not.
LEMMA StopRuns ==
    ASSUME EngineInv, NEW S, OnlyRuns(S), NEW ans, Stop(ans)
    PROVE  OnlyRuns(S)'
<1>1. helpers \in HelperTable
  BY DEF EngineInv, TypeOK, HelperTable
<1>2. \A h \in Helpers : helpers[h].state = "up" => helpers[h].core \in S \cup {None}
  BY DEF OnlyRuns, HelperUp
<1>3. embedded' \in {embedded, None} /\ embedded' \in S \cup {None}
  BY DEF OnlyRuns, Stop, StopNothing, StopEmbedded, StopPrivileged, engineVars
<1>4. CASE helpers' = helpers
  BY <1>3, <1>4 DEF OnlyRuns, HelperUp
<1>5. CASE /\ backend \in Helpers
           /\ \E D \in SUBSET Helpers, t \in {helpers, [helpers EXCEPT ![backend].core = None]} :
                helpers' \in AfterDrop(t, D)
  <2>1. PICK D \in SUBSET Helpers, t \in {helpers, [helpers EXCEPT ![backend].core = None]} :
          helpers' \in AfterDrop(t, D)
    BY <1>5
  <2>2. t \in HelperTable
    BY <1>1, <1>5 DEF HelperTable
  <2>3. \A h \in Helpers : t[h].state = "up" => t[h].core \in S \cup {None}
    BY <1>1, <1>2, <1>5 DEF HelperTable
  <2> QED BY <1>3, <2>1, <2>2, <2>3, DropLeaves
<1>6. CASE \E D \in SUBSET Helpers : helpers' \in AfterDrop(helpers, D)
  BY <1>1, <1>2, <1>3, <1>6, DropLeaves
<1>7. CASE helpers' = [helpers EXCEPT ![backend].core = None] /\ backend \in Helpers
  BY <1>1, <1>2, <1>3, <1>7 DEF OnlyRuns, HelperUp, HelperTable
<1> QED
  <2>1. CASE StopNothing(ans)
    BY <1>4, <2>1 DEF StopNothing, engineVars
  <2>2. CASE StopEmbedded(ans)
    BY <1>4, <1>6, <2>2 DEF StopEmbedded
  <2>3. CASE StopPrivileged(ans)
    <3>1. backend \in Helpers
      BY <2>3 DEF StopPrivileged
    <3>2. \/ helpers' = [helpers EXCEPT ![backend].core = None]
          \/ helpers' \in AfterDrop([helpers EXCEPT ![backend].core = None], {backend})
          \/ \E t \in {helpers, [helpers EXCEPT ![backend].core = None]} :
               helpers' \in AfterDrop(t, {prepared.helper} \cap Helpers)
      BY <2>3 DEF StopPrivileged
    <3>3. {backend} \in SUBSET Helpers /\ {prepared.helper} \cap Helpers \in SUBSET Helpers
      BY <3>1
    <3> QED BY <1>5, <1>7, <3>1, <3>2, <3>3
  <2> QED BY <2>1, <2>2, <2>3 DEF Stop

\* SingBox::force_shutdown leaves no core: what runs was owned.
LEMMA ForceRuns ==
    ASSUME EngineInv, NEW S, ForceShutdown
    PROVE  OnlyRuns(S)'
<1>1. helpers \in HelperTable /\ Owned \in SUBSET Helpers
  BY DEF EngineInv, TypeOK, HelperTable, Owned
<1>2. embedded' = None /\ helpers' \in AfterDrop(helpers, Owned)
  BY DEF ForceShutdown
<1>3. \A h \in Helpers : helpers'[h].state = "up" => h \notin Owned /\ helpers[h].state = "up"
  BY <1>1, <1>2, DropEnds
<1>4. \A h \in Helpers : helpers[h].state = "up" => h \in Owned
  BY DEF EngineInv, NoOrphanHelper, HelperUp
<1> QED BY <1>2, <1>3, <1>4 DEF OnlyRuns, HelperUp

\* SingBox::start_config(c), whatever it answers, starts c or nothing.
LEMMA StartRuns ==
    ASSUME EngineInv, NEW c, OnlyRuns({c}), NEW ans, StartConfig(c, ans)
    PROVE  OnlyRuns({c})'
<1>1. helpers \in HelperTable
  BY DEF EngineInv, TypeOK, HelperTable
<1>2. \A h \in Helpers : helpers[h].state = "up" => helpers[h].core \in {c} \cup {None}
  BY DEF OnlyRuns, HelperUp
<1>3. CASE StartRefused(ans)
  BY <1>3 DEF StartRefused, engineVars, OnlyRuns, HelperUp
<1>4. CASE StartEmbedded(c, ans)
  <2>1. PICK D \in SUBSET Helpers : helpers' \in AfterDrop(helpers, D)
    <3>1. Owned \in SUBSET Helpers /\ {prepared.helper} \cap Helpers \in SUBSET Helpers
      BY DEF Owned
    <3> QED BY <1>4, <3>1 DEF StartEmbedded
  <2>2. embedded' \in {c} \cup {None}
    BY <1>4 DEF StartEmbedded, OnlyRuns
  <2> QED BY <1>1, <1>2, <2>1, <2>2, DropLeaves
<1>5. CASE StartTun(c, ans)
  <2>1. PICK ready \in IF backend \in Helpers THEN PingAnswers(backend) ELSE {FALSE} :
         LET previous == IF ready THEN backend ELSE None
             stale    == IF ready THEN {} ELSE {backend} \cap Helpers
             h        == IF prepared.helper # None THEN prepared.helper ELSE previous
         IN \/ helpers' \in AfterDrop(helpers, stale)
            \/ /\ h # None
               /\ \E t \in HelperStart(h, c, ans) :
                    LET D == stale \cup (IF ans = "ok" THEN {previous} \ {h, None}
                                         ELSE {prepared.helper} \ {None})
                    IN helpers' \in AfterDrop(t, D)
    BY <1>5 DEF StartTun
  <2> DEFINE previous == IF ready THEN backend ELSE None
             stale == IF ready THEN {} ELSE {backend} \cap Helpers
             g == IF prepared.helper # None THEN prepared.helper ELSE previous
             D == stale \cup (IF ans = "ok" THEN {previous} \ {g, None}
                              ELSE {prepared.helper} \ {None})
  <2>2. /\ ready => backend \in Helpers
        /\ prepared.helper \in Helpers \cup {None}
        /\ embedded' = None
    BY <1>5 DEF StartTun, PingAnswers, EngineInv, TypeOK
  <2>3. stale \in SUBSET Helpers /\ D \in SUBSET Helpers /\ (g # None => g \in Helpers)
    BY <2>2
  <2>4. CASE helpers' \in AfterDrop(helpers, stale)
    <3> HIDE DEF stale
    <3> QED BY <1>1, <1>2, <2>2, <2>3, <2>4, DropRuns DEF OnlyRuns, HelperUp
  <2>5. CASE g # None /\ \E t \in HelperStart(g, c, ans) : helpers' \in AfterDrop(t, D)
    <3> HIDE DEF D, g
    <3>1. PICK t \in HelperStart(g, c, ans) : helpers' \in AfterDrop(t, D)
      BY <2>5
    <3>2. t \in {helpers, [helpers EXCEPT ![g].core = c]}
      BY <3>1 DEF HelperStart
    <3>3. t \in HelperTable
      <4>1. c \in Configs
        BY <1>5, ConfigAssumption DEF StartTun
      <4> QED BY <1>1, <2>3, <2>5, <3>2, <4>1 DEF HelperTable
    <3>4. \A h \in Helpers : t[h].state = "up" => t[h].core \in {c} \cup {None}
      BY <1>1, <1>2, <2>3, <2>5, <3>2 DEF HelperTable
    <3> QED BY <2>2, <2>3, <3>1, <3>3, <3>4, DropRuns DEF OnlyRuns, HelperUp
  <2> QED BY <2>1, <2>4, <2>5
<1> QED BY <1>3, <1>4, <1>5 DEF StartConfig

\* Nothing around the engine starts a core, nor does the end of the process.
LEMMA EnvironmentRuns ==
    ASSUME EngineInv, NEW S, OnlyRuns(S), Environment \/ ProcessDies
    PROVE  OnlyRuns(S)'
<1>1. helpers \in HelperTable
  BY DEF EngineInv, TypeOK, HelperTable
<1>2. CASE \E h \in Helpers : HelperCrashes(h) \/ HelperExits(h)
  BY <1>1, <1>2 DEF HelperCrashes, HelperExits, OnlyRuns, HelperUp, HelperTable, Gone
<1>3. CASE PortTaken \/ PortReleased
  BY <1>3 DEF PortTaken, PortReleased, OnlyRuns, HelperUp
<1>4. CASE ProcessDies
  <2>1. ASSUME NEW h \in Helpers PROVE helpers'[h].state # "up"
    BY <1>1, <1>4 DEF ProcessDies, HelperUp, HelperTable
  <2> QED BY <1>4, <2>1 DEF ProcessDies, OnlyRuns, HelperUp
<1> QED BY <1>2, <1>3, <1>4 DEF Environment

-----------------------------------------------------------------------------
(***************************************************************************)
(* Frames: what a step of one request leaves of the others.                *)
(***************************************************************************)
\* What the type invariant says of one request.
LEMMA LifecycleTypes ==
    ASSUME LifecycleInv, NEW k \in Clients
    PROVE  /\ task \in [Clients -> TaskType] /\ task[k] \in TaskType /\ Idle \in TaskType
           /\ None \notin Clients /\ None \notin Configs
           /\ config \in Configs \cup {None}
           /\ coreLock \in Clients \cup {None} /\ proxyLock \in Clients \cup {None}
           /\ coreLock = k <=> task[k].pc \in CorePcs
           /\ proxyLock = k <=> task[k].pc \in ProxyPcs
           /\ EngineInv /\ TransactionInv(k)
BY ClientAssumption, ConfigAssumption, BoundAssumption
   DEF LifecycleInv, LifecycleTypeOK, LocksAreHeld, TaskType, Idle, FreePcs, Outcomes

\* The three kinds of program counters do not overlap.
LEMMA PcKinds ==
    /\ CorePcs \cap FreePcs = {} /\ CorePcs \cap ProxyPcs = {} /\ FreePcs \cap ProxyPcs = {}
    /\ Unrecorded \subseteq CorePcs
    /\ "idle" \in FreePcs /\ "idle" \notin Targeted
BY DEF CorePcs, FreePcs, ProxyPcs, Unrecorded, Targeted

\* While k holds core_slot, or takes it, the other requests are outside the
\* transactions and nothing about the core is claimed for them.
LEMMA OthersOutside ==
    ASSUME LifecycleInv, NEW k \in Clients, coreLock \in {None, k}, NEW j \in Clients, j # k,
           task'[j] = task[j]
    PROVE  task[j].pc \notin CorePcs /\ TransactionInv(j)'
<1>1. task[j].pc \notin CorePcs /\ TransactionInv(j)
  BY LifecycleTypes
<1> QED BY <1>1 DEF TransactionInv, StartingInv, FinishingInv, CorePcs

\* The request of k moves to t and nothing the others rely on changes.
LEMMA TaskStep ==
    ASSUME LifecycleInv, NEW k \in Clients, NEW t \in TaskType,
           task' = [task EXCEPT ![k] = t],
           EngineInv', LifecycleTypeOK',
           coreLock' = k <=> t.pc \in CorePcs,
           proxyLock' = k <=> t.pc \in ProxyPcs,
           \A j \in Clients \ {k} : coreLock' = j <=> coreLock = j,
           \A j \in Clients \ {k} : proxyLock' = j <=> proxyLock = j,
           \A j \in Clients \ {k} : TransactionInv(j)',
           TransactionInv(k)', RecordInv'
    PROVE  LifecycleInv'
<1>1. task'[k] = t /\ \A j \in Clients \ {k} : task'[j] = task[j]
  BY LifecycleTypes
<1>2. LocksAreHeld'
  <2>1. ASSUME NEW j \in Clients
        PROVE  /\ coreLock' = j <=> task'[j].pc \in CorePcs
               /\ proxyLock' = j <=> task'[j].pc \in ProxyPcs
    BY <1>1, LifecycleTypes
  <2> QED BY <2>1 DEF LocksAreHeld
<1> QED BY <1>2 DEF LifecycleInv

\* A step of a request that neither holds nor takes core_slot.
LEMMA FreeStep ==
    ASSUME LifecycleInv, NEW k \in Clients, NEW t \in TaskType,
           task' = [task EXCEPT ![k] = t],
           EngineInv', UNCHANGED <<engineVars, config, coreLock, alive, crashes>>,
           task[k].pc \notin CorePcs, t.pc \notin CorePcs,
           t.pc \in Targeted => t.cfg \in Configs,
           requests' \in 0..MaxRequests, osProxy' \in BOOLEAN, sentinel' \in BOOLEAN,
           \/ proxyLock' = proxyLock /\ (proxyLock = k <=> t.pc \in ProxyPcs)
           \/ proxyLock = None /\ proxyLock' = k /\ t.pc \in ProxyPcs
           \/ proxyLock = k /\ proxyLock' = None /\ t.pc \notin ProxyPcs
    PROVE  LifecycleInv'
<1>1. /\ task \in [Clients -> TaskType] /\ None \notin Clients
      /\ proxyLock \in Clients \cup {None} /\ coreLock \in Clients \cup {None}
      /\ coreLock = k <=> task[k].pc \in CorePcs
  BY LifecycleTypes
<1>2. LifecycleTypeOK'
  BY <1>1 DEF LifecycleInv, LifecycleTypeOK, EngineInv, TaskType
<1>3. ASSUME NEW j \in Clients \ {k} PROVE TransactionInv(j)'
  <2>1. TransactionInv(j) /\ task'[j] = task[j]
    BY <1>1, LifecycleTypes
  <2> QED BY <2>1 DEF TransactionInv, StartingInv, FinishingInv, OnlyRuns, HelperUp, engineVars
<1>4. TransactionInv(k)'
  <2>1. task'[k] = t
    BY <1>1
  <2> QED BY <2>1 DEF TransactionInv, StartingInv, FinishingInv, CorePcs
<1>5. RecordInv'
  <2>1. task[k].pc \notin Unrecorded /\ t.pc \notin Unrecorded
    BY PcKinds
  <2>2. (\A j \in Clients : task'[j].pc \notin Unrecorded)
           => \A j \in Clients : task[j].pc \notin Unrecorded
    BY <1>1, <2>1
  <2>3. RecordInv
    BY DEF LifecycleInv
  <2> QED BY <2>2, <2>3 DEF RecordInv, OnlyRuns, HelperUp, engineVars
<1> QED BY <1>1, <1>2, <1>3, <1>4, <1>5, TaskStep

\* A step of the request that holds core_slot, takes it or finds it free.
LEMMA CoreTaskStep ==
    ASSUME LifecycleInv, NEW k \in Clients, NEW t \in TaskType,
           task' = [task EXCEPT ![k] = t],
           EngineInv', UNCHANGED <<proxyVars, boundVars>>,
           coreLock \in {None, k}, coreLock' = IF t.pc \in CorePcs THEN k ELSE None,
           config' \in Configs \cup {None},
           task[k].pc \notin ProxyPcs, t.pc \notin ProxyPcs,
           TransactionInv(k)',
           t.pc \notin Unrecorded /\ config' # None => OnlyRuns({config})'
    PROVE  LifecycleInv'
<1>1. /\ task \in [Clients -> TaskType] /\ None \notin Clients
      /\ proxyLock \in Clients \cup {None}
      /\ proxyLock = k <=> task[k].pc \in ProxyPcs
      /\ coreLock = k <=> task[k].pc \in CorePcs
  BY LifecycleTypes
<1>2. LifecycleTypeOK'
  BY <1>1 DEF LifecycleInv, LifecycleTypeOK, EngineInv, TaskType, proxyVars, boundVars
<1>3. ASSUME NEW j \in Clients \ {k} PROVE TransactionInv(j)'
  BY <1>1, OthersOutside
<1>4. RecordInv'
  <2>1. task'[k] = t
    BY <1>1
  <2> QED BY <2>1 DEF RecordInv
<1> QED BY <1>1, <1>2, <1>3, <1>4, TaskStep DEF proxyVars

\* The record, while no transaction is in the stretches where it may be wrong.
LEMMA Recorded ==
    ASSUME LifecycleInv, NEW k \in Clients, coreLock \in {None, k},
           task[k].pc \notin Unrecorded, config # None
    PROVE  OnlyRuns({config})
<1>1. ASSUME NEW j \in Clients PROVE task[j].pc \notin Unrecorded
  BY LifecycleTypes, PcKinds
<1> QED BY <1>1 DEF LifecycleInv, RecordInv

-----------------------------------------------------------------------------
(***************************************************************************)
(* Requests outside core_slot.                                             *)
(***************************************************************************)
\* A request arrives.
LEMMA NewRequestInv ==
    ASSUME LifecycleInv, EngineInv', NEW k \in Clients, NewRequest(k)
    PROVE  LifecycleInv'
<1>1. PICK pc \in {"on_lock", "rs_lock", "pt_lock", "off_proxy", "rl_lock", "px_lock", "sd_proxy"},
           c \in Configs \cup {None} :
        Request(k, pc, c) /\ (pc \in {"on_lock", "rs_lock", "pt_lock"} => c \in Configs)
  BY DEF NewRequest
<1> DEFINE t == [Idle EXCEPT !.pc = pc, !.cfg = c]
<1>2. task[k].pc = "idle" /\ task' = [task EXCEPT ![k] = t]
  BY <1>1 DEF Request, At
<1>3. t \in TaskType /\ t.pc = pc /\ t.cfg = c
  BY LifecycleTypes DEF TaskType, Idle, FreePcs
<1>4. pc \notin CorePcs /\ pc \notin ProxyPcs /\ (pc \in Targeted => c \in Configs)
      /\ "idle" \notin CorePcs /\ "idle" \notin ProxyPcs
  BY <1>1 DEF CorePcs, ProxyPcs, Targeted
<1>5. requests' \in 0..MaxRequests
  BY <1>1, BoundAssumption DEF Request, LifecycleInv, LifecycleTypeOK
<1>6. proxyLock # k
  BY <1>2, <1>4, LifecycleTypes
<1>7. UNCHANGED <<engineVars, config, coreLock, proxyLock, osProxy, sentinel, alive, crashes>>
  BY <1>1 DEF Request, proxyVars
<1>8. osProxy \in BOOLEAN /\ sentinel \in BOOLEAN
  BY DEF LifecycleInv, LifecycleTypeOK
<1> HIDE DEF t
<1> QED BY <1>2, <1>3, <1>4, <1>5, <1>6, <1>7, <1>8, FreeStep

\* A request whose next step is to let the proxy go, or to give up.
LEMMA DisableProxyInv ==
    ASSUME LifecycleInv, EngineInv', NEW k \in Clients,
           NEW pc \in FreePcs, NEW next \in {"off_lock", "idle", "sd_lock"},
           task[k].pc = pc,
           task' = [task EXCEPT ![k].pc = next] \/ task' = [task EXCEPT ![k] = Idle],
           osProxy' \in BOOLEAN, sentinel' \in BOOLEAN,
           UNCHANGED <<engineVars, config, coreLock, proxyLock, boundVars>>
    PROVE  LifecycleInv'
<1>1. PICK t \in TaskType : task' = [task EXCEPT ![k] = t] /\ t.pc \in {next, "idle"}
  <2>1. Idle \in TaskType /\ Idle.pc = "idle" /\ task \in [Clients -> TaskType]
        /\ task[k] \in TaskType
    BY LifecycleTypes DEF Idle
  <2>2. CASE task' = [task EXCEPT ![k].pc = next]
    <3> DEFINE t == [task[k] EXCEPT !.pc = next]
    <3>1. t \in TaskType /\ t.pc = next /\ task' = [task EXCEPT ![k] = t]
      BY <2>1, <2>2 DEF TaskType, FreePcs
    <3> QED BY <3>1
  <2> QED BY <2>1, <2>2
<1>2. /\ task[k].pc \notin CorePcs /\ task[k].pc \notin ProxyPcs
      /\ t.pc \notin CorePcs /\ t.pc \notin ProxyPcs /\ t.pc \notin Targeted
  BY <1>1 DEF FreePcs, CorePcs, ProxyPcs, Targeted
<1>3. proxyLock # k
  BY <1>2, LifecycleTypes
<1>4. requests' \in 0..MaxRequests /\ UNCHANGED <<alive, crashes>>
  BY DEF LifecycleInv, LifecycleTypeOK, boundVars
<1> QED BY <1>1, <1>2, <1>3, <1>4, FreeStep

\* disable_managed_system_proxy_before_core_outage, for every caller.
LEMMA OffProxyInv ==
    ASSUME LifecycleInv, EngineInv', NEW k \in Clients,
           OffProxy(k) \/ RestartProxy(k) \/ ShutdownProxy(k)
    PROVE  LifecycleInv'
<1>1. /\ osProxy' \in BOOLEAN /\ sentinel' \in BOOLEAN
      /\ UNCHANGED <<engineVars, config, coreLock, proxyLock, boundVars>>
  BY DEF OffProxy, RestartProxy, ShutdownProxy, DisableProxy, ProxySkipped, ProxyDisabled,
     ProxyStillOn, ProxyOffWithError, LifecycleInv, LifecycleTypeOK
<1>2. CASE OffProxy(k)
  <2>1. task[k].pc = "off_proxy"
        /\ (task' = [task EXCEPT ![k].pc = "off_lock"] \/ task' = [task EXCEPT ![k] = Idle])
    BY <1>2 DEF OffProxy, DisableProxy, At, Goto, Done
  <2> QED BY <1>1, <2>1, DisableProxyInv DEF FreePcs
<1>3. CASE RestartProxy(k)
  <2>1. task[k].pc = "rs_proxy" /\ task' = [task EXCEPT ![k] = Idle]
    BY <1>3 DEF RestartProxy, DisableProxy, At, Done
  <2> QED BY <1>1, <2>1, DisableProxyInv DEF FreePcs
<1>4. CASE ShutdownProxy(k)
  <2>1. task[k].pc = "sd_proxy" /\ task' = [task EXCEPT ![k].pc = "sd_lock"]
    BY <1>4 DEF ShutdownProxy, DisableProxy, At, Goto
  <2> QED BY <1>1, <2>1, DisableProxyInv DEF FreePcs
<1> QED BY <1>2, <1>3, <1>4

\* The program counter moves and the task keeps the rest.
LEMMA Moves ==
    ASSUME LifecycleInv, NEW k \in Clients, NEW pc \in CorePcs \cup FreePcs \cup ProxyPcs,
           Goto(k, pc)
    PROVE  \E t \in TaskType :
             /\ task' = [task EXCEPT ![k] = t] /\ task'[k] = t
             /\ t.pc = pc /\ t.cfg = task[k].cfg /\ t.prev = task[k].prev
             /\ t.tries = task[k].tries /\ t.outcome = task[k].outcome
<1> DEFINE t == [task[k] EXCEPT !.pc = pc]
<1>1. task \in [Clients -> TaskType] /\ task[k] \in TaskType
  BY LifecycleTypes
<1>2. /\ t \in TaskType /\ t.pc = pc /\ t.cfg = task[k].cfg /\ t.prev = task[k].prev
      /\ t.tries = task[k].tries /\ t.outcome = task[k].outcome
  BY <1>1 DEF TaskType
<1>3. task' = [task EXCEPT ![k] = t] /\ task'[k] = t
  BY <1>1 DEF Goto
<1> QED BY <1>2, <1>3

\* set_native_system_proxy(true) holds the operation lock only.
LEMMA ProxyOnInv ==
    ASSUME LifecycleInv, EngineInv', NEW k \in Clients,
           ProxyOn(k) \/ ProxyApply(k) \/ ProxyMark(k)
    PROVE  LifecycleInv'
<1>1. /\ Idle \in TaskType /\ Idle.pc = "idle" /\ None \notin Clients
      /\ proxyLock = k <=> task[k].pc \in ProxyPcs
  BY LifecycleTypes DEF Idle
<1>2. /\ osProxy' \in BOOLEAN /\ sentinel' \in BOOLEAN /\ requests' \in 0..MaxRequests
      /\ UNCHANGED <<engineVars, config, coreLock, alive, crashes>>
  BY DEF ProxyOn, ProxyApply, ProxyMark, boundVars, LifecycleInv, LifecycleTypeOK
<1>3. task[k].pc \in {"px_lock", "px_apply", "px_mark"} /\ task[k].pc \notin CorePcs
  BY DEF ProxyOn, ProxyApply, ProxyMark, At, CorePcs
<1>4. /\ "px_lock" \notin ProxyPcs /\ "px_apply" \in ProxyPcs /\ "px_mark" \in ProxyPcs
      /\ {"idle", "px_apply", "px_mark"} \cap (CorePcs \cup Targeted) = {}
      /\ "idle" \notin ProxyPcs
  BY DEF ProxyPcs, CorePcs, Targeted
<1>5. CASE /\ Done(k)
           /\ \/ task[k].pc = "px_lock" /\ proxyLock' = proxyLock
              \/ task[k].pc \in {"px_apply", "px_mark"} /\ proxyLock' = None
  <2>1. task' = [task EXCEPT ![k] = Idle]
    BY <1>5 DEF Done
  <2>2. \/ proxyLock' = proxyLock /\ proxyLock # k
        \/ proxyLock = k /\ proxyLock' = None
    BY <1>1, <1>4, <1>5
  <2> QED BY <1>1, <1>2, <1>3, <1>4, <2>1, <2>2, FreeStep
<1>6. CASE Goto(k, "px_apply") /\ proxyLock = None /\ proxyLock' = k
  <2>1. PICK t \in TaskType : task' = [task EXCEPT ![k] = t] /\ t.pc = "px_apply"
    BY <1>4, <1>6, Moves
  <2> QED BY <1>2, <1>3, <1>4, <1>6, <2>1, FreeStep
<1>7. CASE Goto(k, "px_mark") /\ task[k].pc = "px_apply" /\ proxyLock' = proxyLock
  <2>1. PICK t \in TaskType : task' = [task EXCEPT ![k] = t] /\ t.pc = "px_mark"
    BY <1>4, <1>7, Moves
  <2> QED BY <1>1, <1>2, <1>3, <1>4, <1>7, <2>1, FreeStep
<1> QED BY <1>5, <1>6, <1>7 DEF ProxyOn, ProxyApply, ProxyMark, At

-----------------------------------------------------------------------------
(***************************************************************************)
(* The three ways a step under core_slot goes on.                          *)
(***************************************************************************)
\* The request is over and core_slot is free: the record is right.
LEMMA CoreEnds ==
    ASSUME LifecycleInv, EngineInv', NEW k \in Clients, Done(k),
           UNCHANGED <<proxyVars, boundVars>>,
           coreLock \in {None, k}, coreLock' = None,
           task[k].pc \notin ProxyPcs,
           config' \in Configs \cup {None}, config' # None => OnlyRuns({config})'
    PROVE  LifecycleInv'
<1>1. /\ task' = [task EXCEPT ![k] = Idle] /\ Idle \in TaskType /\ task'[k] = Idle
      /\ Idle.pc = "idle"
  BY LifecycleTypes DEF Done, Idle
<1>2. "idle" \notin CorePcs /\ "idle" \notin ProxyPcs
  BY DEF CorePcs, ProxyPcs
<1>3. TransactionInv(k)'
  BY <1>1 DEF TransactionInv, StartingInv, FinishingInv, Targeted
<1> QED BY <1>1, <1>2, <1>3, CoreTaskStep

\* It moves on inside the transaction, or out of it, to a place whose claim holds.
LEMMA CoreMoves ==
    ASSUME LifecycleInv, EngineInv', NEW k \in Clients,
           NEW t \in TaskType, task' = [task EXCEPT ![k] = t],
           t.pc \notin ProxyPcs, t.pc # "rs_finish",
           UNCHANGED <<proxyVars, boundVars>>,
           coreLock \in {None, k}, coreLock' = IF t.pc \in CorePcs THEN k ELSE None,
           task[k].pc \notin ProxyPcs,
           config' \in Configs \cup {None},
           t.pc \in Targeted => t.cfg \in Configs,
           t.pc \in {"rs_prepare", "rs_stop", "rs_recheck"} => t.prev = config',
           t.pc = "on_start" => config' = None,
           t.pc \in {"on_start", "rs_start", "rs_observe"} => OnlyRuns({t.cfg})',
           t.pc \in {"rs_restore", "rs_reobserve"} => t.prev # None /\ OnlyRuns({t.prev})',
           t.pc \notin Unrecorded /\ config' # None => OnlyRuns({config})'
    PROVE  LifecycleInv'
<1>1. task'[k] = t
  BY LifecycleTypes
<1>2. TransactionInv(k)'
  BY <1>1 DEF TransactionInv, StartingInv, FinishingInv
<1> QED BY <1>2, CoreTaskStep

\* A restart knows its outcome.
LEMMA CoreFinishes ==
    ASSUME LifecycleInv, EngineInv', NEW k \in Clients,
           NEW outcome \in Outcomes \ {"none"}, Finish(k, outcome),
           UNCHANGED <<config, coreLock, proxyVars, boundVars>>,
           task[k].pc \in CorePcs,
           NEW c, c = task[k].cfg, NEW p, p = task[k].prev,
           outcome = "candidate" => OnlyRuns({c})',
           outcome = "restored" => OnlyRuns({p})',
           outcome = "preserved" /\ p # None => OnlyRuns({p})',
           outcome = "offline" => OnlyRuns({})'
    PROVE  LifecycleInv'
<1> DEFINE t == [task[k] EXCEPT !.pc = "rs_finish", !.outcome = outcome]
<1>1. /\ task \in [Clients -> TaskType] /\ task[k] \in TaskType
      /\ coreLock = k /\ config \in Configs \cup {None}
  BY LifecycleTypes
<1>2. t \in TaskType /\ t.pc = "rs_finish" /\ t.outcome = outcome /\ t.cfg = c /\ t.prev = p
  BY <1>1 DEF TaskType, CorePcs
<1>3. task' = [task EXCEPT ![k] = t] /\ task'[k] = t
  BY <1>1 DEF Finish
<1>4. /\ "rs_finish" \in CorePcs /\ "rs_finish" \notin ProxyPcs /\ "rs_finish" \in Unrecorded
      /\ task[k].pc \notin ProxyPcs
  BY DEF CorePcs, ProxyPcs, Unrecorded
<1>5. TransactionInv(k)'
  <2>1. FinishingInv(k)'
    BY <1>2, <1>3 DEF FinishingInv
  <2> QED BY <1>2, <1>3, <2>1 DEF TransactionInv, StartingInv, Targeted
<1> HIDE DEF t
<1> QED BY <1>1, <1>2, <1>3, <1>4, <1>5, CoreTaskStep

-----------------------------------------------------------------------------
(***************************************************************************)
(* Requests under core_slot.                                               *)
(***************************************************************************)
\* At a place inside a transaction the request holds core_slot.
LEMMA AtCore ==
    ASSUME LifecycleInv, NEW k \in Clients, task[k].pc \in CorePcs
    PROVE  coreLock = k /\ task[k].pc \notin ProxyPcs
BY LifecycleTypes, PcKinds

\* Calls that start nothing keep a right record right.
LEMMA RecordKept ==
    ASSUME LifecycleInv, NEW k \in Clients, coreLock \in {None, k},
           task[k].pc \notin Unrecorded, config' = config, NEW c, NEW ans,
           \/ PrepareConfig(c, ans) \/ DiscardPrepared \/ Stop(ans)
           \/ UNCHANGED engineVars
    PROVE  config' # None => OnlyRuns({config})'
<1> SUFFICES ASSUME config # None PROVE OnlyRuns({config})'
  OBVIOUS
<1>1. OnlyRuns({config}) /\ EngineInv
  BY Recorded, LifecycleTypes
<1>2. PICK d : d = config
  OBVIOUS
<1>3. CASE UNCHANGED engineVars
  BY <1>1, <1>3 DEF OnlyRuns, HelperUp, engineVars
<1>4. CASE PrepareConfig(c, ans) \/ DiscardPrepared \/ Stop(ans)
  <2>1. OnlyRuns({d})'
    BY <1>1, <1>2, <1>4, PrepareRuns, DiscardRuns, StopRuns
  <2> QED BY <1>2, <2>1
<1> QED BY <1>3, <1>4

\* Taking core_slot: the record is right when it is free.
LEMMA LockInv ==
    ASSUME LifecycleInv, EngineInv', NEW k \in Clients,
           OnLock(k) \/ RestartLock(k) \/ PrepareLock(k)
    PROVE  LifecycleInv'
<1>1. /\ UNCHANGED <<engineVars, config, proxyVars, boundVars>>
      /\ coreLock = None /\ config \in Configs \cup {None}
      /\ task[k].pc \in {"on_lock", "rs_lock", "pt_lock"}
  BY LifecycleTypes DEF OnLock, RestartLock, PrepareLock, Lock, At
<1>2. /\ task[k].pc \notin Unrecorded /\ task[k].pc \notin ProxyPcs
      /\ task[k].pc \in Targeted
      /\ {"on_check", "rs_prepare", "pt_prepare"} \subseteq CorePcs
      /\ {"on_check", "rs_prepare", "pt_prepare"} \cap (ProxyPcs \cup Unrecorded) = {}
  BY <1>1 DEF Unrecorded, ProxyPcs, Targeted, CorePcs
<1>3. task[k].cfg \in Configs
  BY <1>2, LifecycleTypes DEF TransactionInv
<1>4. config' # None => OnlyRuns({config})'
  BY <1>1, <1>2, RecordKept
<1>5. ASSUME NEW pc \in {"on_check", "pt_prepare"}, Goto(k, pc), coreLock' = k
      PROVE  LifecycleInv'
  <2>1. PICK t \in TaskType : /\ task' = [task EXCEPT ![k] = t] /\ t.pc = pc
                              /\ t.cfg = task[k].cfg
    BY <1>2, <1>5, Moves
  <2> QED BY <1>1, <1>2, <1>3, <1>4, <1>5, <2>1, CoreMoves
<1>6. CASE Done(k) /\ coreLock' = coreLock
  BY <1>1, <1>2, <1>4, <1>6, CoreEnds
<1>7. CASE RestartLock(k)
  <2> DEFINE t == [task[k] EXCEPT !.pc = "rs_prepare", !.prev = config]
  <2>1. task[k] \in TaskType /\ task \in [Clients -> TaskType]
    BY LifecycleTypes
  <2>2. /\ t \in TaskType /\ t.pc = "rs_prepare" /\ t.cfg = task[k].cfg /\ t.prev = config
        /\ task' = [task EXCEPT ![k] = t] /\ coreLock' = k
    BY <1>1, <1>2, <1>7, <2>1 DEF TaskType, RestartLock, Lock
  <2> HIDE DEF t
  <2> QED BY <1>1, <1>2, <1>3, <1>4, <2>2, CoreMoves
<1> QED BY <1>5, <1>6, <1>7 DEF OnLock, PrepareLock, Lock

\* toggle_native_core(true), the check.
LEMMA OnCheckInv ==
    ASSUME LifecycleInv, EngineInv', NEW k \in Clients, OnCheck(k)
    PROVE  LifecycleInv'
<1>1. task[k].pc = "on_check" /\ UNCHANGED <<engineVars, proxyVars, boundVars>>
  BY DEF OnCheck, At
<1>2. /\ coreLock = k /\ task[k].pc \notin ProxyPcs /\ task[k].pc \notin Unrecorded
      /\ "on_start" \in CorePcs /\ "on_start" \notin ProxyPcs
      /\ task[k].pc \in Targeted
  BY <1>1, AtCore DEF CorePcs, ProxyPcs, Unrecorded, Targeted
<1>3. /\ task[k].cfg \in Configs /\ EngineInv /\ config \in Configs \cup {None}
  BY <1>2, LifecycleTypes DEF TransactionInv
<1>4. CASE "no" \in IsRunningAnswers /\ config' = None /\ Goto(k, "on_start") /\ coreLock' = coreLock
  <2>1. PICK t \in TaskType : /\ task' = [task EXCEPT ![k] = t] /\ t.pc = "on_start"
                              /\ t.cfg = task[k].cfg
    BY <1>2, <1>4, Moves
  <2>2. OnlyRuns({t.cfg})'
    <3>1. OnlyRuns({t.cfg})
      BY <1>3, <1>4, NothingRuns
    <3> QED BY <1>1, <3>1 DEF OnlyRuns, HelperUp, engineVars
  <2> QED BY <1>1, <1>2, <1>3, <1>4, <2>1, <2>2, CoreMoves
<1>5. CASE Done(k) /\ coreLock' = None /\ config' = config
  <2>1. config' # None => OnlyRuns({config})'
    BY <1>1, <1>2, <1>5, RecordKept
  <2> QED BY <1>1, <1>2, <1>3, <1>5, <2>1, CoreEnds
<1> QED BY <1>4, <1>5 DEF OnCheck, Unlock

\* start_config_with_bind_retry: another attempt follows.
LEMMA RetryInv ==
    ASSUME LifecycleInv, EngineInv', NEW k \in Clients,
           task[k].pc \in {"on_start", "rs_start", "rs_restore"},
           NEW c, c = (IF task[k].pc = "rs_restore" THEN task[k].prev ELSE task[k].cfg),
           task' = [task EXCEPT ![k].tries = @ + 1], task[k].tries + 1 < MaxAttempts,
           UNCHANGED <<config, coreLock, proxyVars, boundVars>>,
           OnlyRuns({c})'
    PROVE  LifecycleInv'
<1> DEFINE t == [task[k] EXCEPT !.tries = @ + 1]
<1>1. /\ task \in [Clients -> TaskType] /\ task[k] \in TaskType /\ TransactionInv(k)
      /\ config \in Configs \cup {None}
  BY LifecycleTypes
<1>2. /\ t \in TaskType /\ t.pc = task[k].pc /\ t.cfg = task[k].cfg /\ t.prev = task[k].prev
      /\ task' = [task EXCEPT ![k] = t]
  <2>1. task[k].tries + 1 \in 0..MaxAttempts - 1
    BY <1>1, BoundAssumption DEF TaskType
  <2> QED BY <1>1, <2>1 DEF TaskType
<1>3. /\ coreLock = k /\ task[k].pc \in CorePcs /\ task[k].pc \notin ProxyPcs
      /\ task[k].pc \in Unrecorded \/ task[k].pc = "on_start"
  BY AtCore DEF CorePcs, Unrecorded
<1>4. /\ t.pc \in Targeted => t.cfg \in Configs
      /\ t.pc = "on_start" => config = None
      /\ t.pc = "rs_restore" => t.prev # None /\ t.prev = c
      /\ t.pc \in {"on_start", "rs_start"} => t.cfg = c
  BY <1>1, <1>2 DEF TransactionInv, StartingInv
<1> HIDE DEF t
<1> QED BY <1>1, <1>2, <1>3, <1>4, CoreMoves

\* toggle_native_core(true), one attempt to start.
LEMMA OnStartInv ==
    ASSUME LifecycleInv, EngineInv', NEW k \in Clients, OnStart(k)
    PROVE  LifecycleInv'
<1>1. task[k].pc = "on_start" /\ UNCHANGED <<proxyVars, boundVars>>
  BY DEF OnStart, At
<1>2. /\ coreLock = k /\ task[k].pc \notin ProxyPcs /\ task[k].pc \in Targeted
  BY <1>1, AtCore DEF CorePcs, Targeted
<1>3. PICK c \in Configs : c = task[k].cfg /\ OnlyRuns({c}) /\ config = None
  BY <1>1, <1>2, LifecycleTypes DEF TransactionInv, StartingInv
<1>4. EngineInv
  BY LifecycleTypes
<1>5. PICK ans : StartConfig(c, ans)
                 /\ \/ config' = c /\ coreLock' = None /\ Done(k)
                    \/ /\ task[k].tries + 1 < MaxAttempts
                       /\ task' = [task EXCEPT ![k].tries = @ + 1]
                       /\ UNCHANGED <<config, coreLock>>
                    \/ coreLock' = None /\ Done(k) /\ UNCHANGED config
  BY <1>3 DEF OnStart, BindRetry, Unlock
<1>6. OnlyRuns({c})'
  BY <1>3, <1>4, <1>5, StartRuns
<1>7. CASE config' = c /\ coreLock' = None /\ Done(k)
  <2>1. OnlyRuns({config})'
    BY <1>6, <1>7
  <2> QED BY <1>1, <1>2, <1>7, <2>1, CoreEnds
<1>8. CASE coreLock' = None /\ Done(k) /\ UNCHANGED config
  BY <1>1, <1>2, <1>3, <1>8, CoreEnds
<1>9. CASE /\ task[k].tries + 1 < MaxAttempts
           /\ task' = [task EXCEPT ![k].tries = @ + 1]
           /\ UNCHANGED <<config, coreLock>>
  BY <1>1, <1>3, <1>6, <1>9, RetryInv
<1> QED BY <1>5, <1>7, <1>8, <1>9

\* toggle_native_core(false), after the proxy.
LEMMA OffStopInv ==
    ASSUME LifecycleInv, EngineInv', NEW k \in Clients, OffStop(k)
    PROVE  LifecycleInv'
<1>1. task[k].pc = "off_lock" /\ UNCHANGED <<config, proxyVars, boundVars>> /\ coreLock = None
  BY DEF OffStop, At
<1>2. /\ task[k].pc \notin ProxyPcs /\ task[k].pc \notin Unrecorded
      /\ {"off_discard", "off_force"} \subseteq CorePcs
      /\ {"off_discard", "off_force"} \cap (ProxyPcs \cup Targeted) = {}
  BY <1>1 DEF CorePcs, ProxyPcs, Unrecorded, Targeted
<1>3. PICK ans : Stop(ans) \/ UNCHANGED engineVars
  BY DEF OffStop
<1>4. config' # None => OnlyRuns({config})'
  BY <1>1, <1>2, <1>3, RecordKept
<1>5. config \in Configs \cup {None}
  BY LifecycleTypes
<1>6. ASSUME NEW pc \in {"off_discard", "off_force"}, Goto(k, pc), coreLock' = k
      PROVE  LifecycleInv'
  <2>1. PICK t \in TaskType : task' = [task EXCEPT ![k] = t] /\ t.pc = pc
    BY <1>2, <1>6, Moves
  <2> QED BY <1>1, <1>2, <1>4, <1>5, <1>6, <2>1, CoreMoves
<1>7. CASE Done(k) /\ UNCHANGED coreLock
  BY <1>1, <1>2, <1>4, <1>5, <1>7, CoreEnds
<1> QED BY <1>6, <1>7 DEF OffStop

\* toggle_native_core(false) ends with nothing on record.
LEMMA OffEndInv ==
    ASSUME LifecycleInv, EngineInv', NEW k \in Clients, OffForce(k) \/ OffDiscard(k)
    PROVE  LifecycleInv'
<1>1. /\ task[k].pc \in CorePcs /\ UNCHANGED <<proxyVars, boundVars>>
      /\ config' = None /\ coreLock' = None /\ Done(k)
  BY DEF OffForce, OffDiscard, At, Unlock, CorePcs
<1> QED BY <1>1, AtCore, CoreEnds

-----------------------------------------------------------------------------
(***************************************************************************)
(* restart_core_transaction.                                               *)
(***************************************************************************)
\* A stop that worked leaves no core.
LEMMA StoppedRuns ==
    ASSUME EngineInv, NEW S, Stop("ok")
    PROVE  OnlyRuns(S)'
<1>1. helpers \in HelperTable /\ RunningCoreIsReachable
  BY DEF EngineInv, TypeOK, HelperTable
<1>2. CASE StopEmbedded("ok")
  BY <1>1, <1>2, HelperAssumption
     DEF StopEmbedded, RunningCoreIsReachable, OnlyRuns, HelperUp
<1>3. CASE StopPrivileged("ok")
  <2> DEFINE stopped == [helpers EXCEPT ![backend].core = None]
  <2>1. /\ backend \in Helpers /\ embedded' = None
        /\ helpers' = stopped \/ helpers' \in AfterDrop(stopped, {backend})
    BY <1>1, <1>3, HelperAssumption DEF StopPrivileged, RunningCoreIsReachable
  <2>2. stopped \in HelperTable
    BY <1>1, <2>1 DEF HelperTable
  <2>3. \A h \in Helpers : stopped[h].state = "up" => stopped[h].core = None
    BY <1>1, <2>1 DEF HelperTable, RunningCoreIsReachable, HelperUp
  <2> HIDE DEF stopped
  <2>4. {backend} \in SUBSET Helpers
    BY <2>1
  <2>5. \A h \in Helpers : helpers'[h].state = "up" => helpers'[h].core = None
    <3>1. CASE helpers' = stopped
      BY <2>3, <3>1
    <3>2. CASE helpers' \in AfterDrop(stopped, {backend})
      <4>1. \A h \in {backend} : helpers'[h].state # "up"
        BY <2>2, <2>4, <3>2, DropEnds
      <4>2. \A h \in Helpers \ {backend} : helpers'[h] = stopped[h]
        BY <2>2, <2>4, <3>2, DropEnds
      <4> QED BY <2>3, <4>1, <4>2
    <3> QED BY <2>1, <3>1, <3>2
  <2> QED BY <2>1, <2>5 DEF OnlyRuns, HelperUp
<1> QED BY <1>2, <1>3 DEF Stop, StopNothing

\* What is true at every place of a restart.
LEMMA AtRestart ==
    ASSUME LifecycleInv, NEW k \in Clients,
           task[k].pc \in {"rs_prepare", "rs_stop", "rs_recheck", "rs_start", "rs_observe",
                           "rs_restore", "rs_reobserve", "rs_force", "rs_finish"}
    PROVE  /\ coreLock = k /\ task[k].pc \in CorePcs /\ task[k].pc \notin ProxyPcs
           /\ EngineInv /\ config \in Configs \cup {None} /\ TransactionInv(k)
           /\ task[k].pc \in Targeted => task[k].cfg \in Configs
<1>1. task[k].pc \in CorePcs
  BY DEF CorePcs
<1> QED BY <1>1, AtCore, LifecycleTypes DEF TransactionInv

\* The candidate runs, or nothing.
LEMMA FinishCandidate ==
    ASSUME LifecycleInv, EngineInv', NEW k \in Clients, task[k].pc \in CorePcs,
           Finish(k, "candidate"), UNCHANGED <<config, coreLock, proxyVars, boundVars>>,
           NEW c, c = task[k].cfg, OnlyRuns({c})'
    PROVE  LifecycleInv'
<1>1. PICK p : p = task[k].prev
  OBVIOUS
<1>2. "candidate" \in Outcomes \ {"none"}
  BY DEF Outcomes
<1> QED BY <1>1, <1>2, CoreFinishes

\* The previous configuration runs, or nothing; or its core was never stopped.
LEMMA FinishPrevious ==
    ASSUME LifecycleInv, EngineInv', NEW k \in Clients, task[k].pc \in CorePcs,
           NEW outcome \in {"preserved", "restored"}, Finish(k, outcome),
           UNCHANGED <<config, coreLock, proxyVars, boundVars>>,
           NEW p, p = task[k].prev, outcome = "restored" \/ p # None => OnlyRuns({p})'
    PROVE  LifecycleInv'
<1>1. PICK c : c = task[k].cfg
  OBVIOUS
<1>2. outcome \in Outcomes \ {"none"} /\ outcome \notin {"candidate", "offline"}
  BY DEF Outcomes
<1> QED BY <1>1, <1>2, CoreFinishes

\* Nothing runs.
LEMMA FinishOffline ==
    ASSUME LifecycleInv, EngineInv', NEW k \in Clients, task[k].pc \in CorePcs,
           Finish(k, "offline"), UNCHANGED <<config, coreLock, proxyVars, boundVars>>,
           OnlyRuns({})'
    PROVE  LifecycleInv'
<1>1. PICK c, p : c = task[k].cfg /\ p = task[k].prev
  OBVIOUS
<1>2. "offline" \in Outcomes \ {"none"}
  BY DEF Outcomes
<1> QED BY <1>1, <1>2, CoreFinishes

\* The preflight of a restart starts no core and stops none.
LEMMA RestartPrepareInv ==
    ASSUME LifecycleInv, EngineInv', NEW k \in Clients, RestartPrepare(k)
    PROVE  LifecycleInv'
<1>1. task[k].pc = "rs_prepare" /\ UNCHANGED <<config, proxyVars, boundVars>>
  BY DEF RestartPrepare, At
<1>2. /\ task[k].pc \notin Unrecorded /\ task[k].pc \in Targeted
      /\ "rs_stop" \in CorePcs /\ "rs_stop" \notin ProxyPcs
  BY <1>1 DEF CorePcs, ProxyPcs, Unrecorded, Targeted
<1>3. PICK ans : PrepareConfig(task[k].cfg, ans)
  BY DEF RestartPrepare
<1>4. config' # None => OnlyRuns({config})'
  BY <1>1, <1>2, <1>3, AtRestart, RecordKept
<1>5. CASE Goto(k, "rs_stop") /\ UNCHANGED coreLock
  <2>1. PICK t \in TaskType : /\ task' = [task EXCEPT ![k] = t] /\ t.pc = "rs_stop"
                              /\ t.cfg = task[k].cfg /\ t.prev = task[k].prev
    BY <1>2, <1>5, Moves
  <2>2. t.cfg \in Configs /\ t.prev = config'
    BY <1>1, <1>2, <2>1, AtRestart DEF TransactionInv
  <2> QED BY <1>1, <1>2, <1>4, <1>5, <2>1, <2>2, AtRestart, CoreMoves
<1>6. CASE Done(k) /\ coreLock' = None
  BY <1>1, <1>4, <1>6, AtRestart, CoreEnds
<1> QED BY <1>5, <1>6 DEF RestartPrepare, Unlock

\* On to the start of the candidate: nothing runs.
LEMMA ToStart ==
    ASSUME LifecycleInv, EngineInv', NEW k \in Clients,
           task[k].pc \in {"rs_stop", "rs_recheck"}, Goto(k, "rs_start"),
           Stop("ok") \/ ("no" \in IsRunningAnswers /\ UNCHANGED engineVars),
           UNCHANGED <<config, coreLock, proxyVars, boundVars>>
    PROVE  LifecycleInv'
<1>1. /\ task[k].pc \in Targeted
      /\ "rs_start" \in CorePcs /\ "rs_start" \notin ProxyPcs /\ "rs_start" \in Unrecorded
  BY DEF CorePcs, ProxyPcs, Unrecorded, Targeted
<1>2. PICK t \in TaskType : /\ task' = [task EXCEPT ![k] = t] /\ t.pc = "rs_start"
                            /\ t.cfg = task[k].cfg
  BY <1>1, Moves
<1>3. OnlyRuns({t.cfg})'
  <2>1. CASE Stop("ok")
    BY <2>1, AtRestart, StoppedRuns
  <2>2. CASE "no" \in IsRunningAnswers /\ UNCHANGED engineVars
    <3>1. OnlyRuns({t.cfg})
      BY <2>2, AtRestart, NothingRuns
    <3> QED BY <2>2, <3>1 DEF OnlyRuns, HelperUp, engineVars
  <2> QED BY <2>1, <2>2
<1> QED BY <1>1, <1>2, <1>3, AtRestart, CoreMoves

\* On to force_shutdown: whatever runs.
LEMMA ToForce ==
    ASSUME LifecycleInv, EngineInv', NEW k \in Clients,
           task[k].pc \in {"rs_stop", "rs_recheck", "rs_observe", "rs_reobserve"},
           Goto(k, "rs_force"), UNCHANGED <<config, coreLock, proxyVars, boundVars>>
    PROVE  LifecycleInv'
<1>1. /\ "rs_force" \in CorePcs /\ "rs_force" \notin ProxyPcs /\ "rs_force" \in Unrecorded
      /\ "rs_force" \notin Targeted
  BY DEF CorePcs, ProxyPcs, Unrecorded, Targeted
<1>2. PICK t \in TaskType : task' = [task EXCEPT ![k] = t] /\ t.pc = "rs_force"
  BY <1>1, Moves
<1> QED BY <1>1, <1>2, AtRestart, CoreMoves

\* The core is stopped before the candidate starts.
LEMMA RestartStopInv ==
    ASSUME LifecycleInv, EngineInv', NEW k \in Clients, RestartStop(k)
    PROVE  LifecycleInv'
<1>1. task[k].pc = "rs_stop" /\ UNCHANGED <<config, coreLock, proxyVars, boundVars>>
  BY DEF RestartStop, At
<1>2. CASE /\ Goto(k, "rs_start")
           /\ Stop("ok") \/ ("no" \in IsRunningAnswers /\ UNCHANGED engineVars)
  BY <1>1, <1>2, ToStart
<1>3. CASE Goto(k, "rs_force")
  BY <1>1, <1>3, ToForce
<1>4. CASE Goto(k, "rs_recheck") /\ Stop("err")
  <2>1. /\ task[k].pc \notin Unrecorded /\ task[k].pc \in Targeted
        /\ "rs_recheck" \in CorePcs /\ "rs_recheck" \notin ProxyPcs
    BY <1>1 DEF CorePcs, ProxyPcs, Unrecorded, Targeted
  <2>2. PICK t \in TaskType : /\ task' = [task EXCEPT ![k] = t] /\ t.pc = "rs_recheck"
                              /\ t.cfg = task[k].cfg /\ t.prev = task[k].prev
    BY <1>4, <2>1, Moves
  <2>3. config' # None => OnlyRuns({config})'
    BY <1>1, <1>4, <2>1, AtRestart, RecordKept
  <2>4. t.cfg \in Configs /\ t.prev = config'
    BY <1>1, <2>1, <2>2, AtRestart DEF TransactionInv
  <2> QED BY <1>1, <2>1, <2>2, <2>3, <2>4, AtRestart, CoreMoves
<1> QED BY <1>2, <1>3, <1>4 DEF RestartStop

\* The stop failed: the old core is kept, or gone, or given up.
LEMMA RestartRecheckInv ==
    ASSUME LifecycleInv, EngineInv', NEW k \in Clients, RestartRecheck(k)
    PROVE  LifecycleInv'
<1>1. /\ task[k].pc = "rs_recheck"
      /\ UNCHANGED <<engineVars, config, coreLock, proxyVars, boundVars>>
  BY DEF RestartRecheck, At
<1>2. CASE Finish(k, "preserved")
  <2>1. PICK c, p : c = task[k].cfg /\ p = task[k].prev
    OBVIOUS
  <2>2. p = config /\ task[k].pc \notin Unrecorded
    BY <1>1, <2>1, AtRestart DEF TransactionInv, Unrecorded
  <2>3. p # None => OnlyRuns({p})'
    <3> SUFFICES ASSUME p # None PROVE OnlyRuns({p})'
      OBVIOUS
    <3>1. OnlyRuns({p})
      BY <1>1, <2>2, AtRestart, Recorded
    <3> QED BY <1>1, <3>1 DEF OnlyRuns, HelperUp, engineVars
  <2>4. task[k].pc \in CorePcs
    BY <1>1 DEF CorePcs
  <2> QED BY <1>1, <1>2, <2>1, <2>3, <2>4, FinishPrevious
<1>3. CASE "no" \in IsRunningAnswers /\ Goto(k, "rs_start")
  BY <1>1, <1>3, ToStart
<1>4. CASE Goto(k, "rs_force")
  BY <1>1, <1>4, ToForce
<1> QED BY <1>2, <1>3, <1>4 DEF RestartRecheck

\* One attempt to start the candidate.
LEMMA RestartStartInv ==
    ASSUME LifecycleInv, EngineInv', NEW k \in Clients, RestartStart(k)
    PROVE  LifecycleInv'
<1>1. task[k].pc = "rs_start" /\ UNCHANGED <<proxyVars, boundVars>>
  BY DEF RestartStart, At
<1>2. task[k].pc \in Targeted
  BY <1>1 DEF Targeted
<1>3. PICK c \in Configs : c = task[k].cfg /\ OnlyRuns({c})
  BY <1>1, <1>2, AtRestart DEF TransactionInv, StartingInv
<1>4. PICK ans : StartConfig(c, ans) /\ UNCHANGED <<config, coreLock>>
                 /\ \/ Finish(k, "candidate")
                    \/ /\ task[k].tries + 1 < MaxAttempts
                       /\ task' = [task EXCEPT ![k].tries = @ + 1]
                    \/ Goto(k, "rs_observe")
  BY <1>3 DEF RestartStart, BindRetry
<1>5. OnlyRuns({c})'
  BY <1>1, <1>3, <1>4, AtRestart, StartRuns
<1>6. CASE Finish(k, "candidate")
  <2>1. task[k].pc \in CorePcs
    BY <1>1 DEF CorePcs
  <2> QED BY <1>1, <1>3, <1>4, <1>5, <1>6, <2>1, FinishCandidate
<1>7. CASE task[k].tries + 1 < MaxAttempts /\ task' = [task EXCEPT ![k].tries = @ + 1]
  BY <1>1, <1>3, <1>4, <1>5, <1>7, RetryInv
<1>8. CASE Goto(k, "rs_observe")
  <2>1. /\ "rs_observe" \in CorePcs /\ "rs_observe" \notin ProxyPcs
        /\ "rs_observe" \in Unrecorded
    BY DEF CorePcs, ProxyPcs, Unrecorded
  <2>2. PICK t \in TaskType : /\ task' = [task EXCEPT ![k] = t] /\ t.pc = "rs_observe"
                              /\ t.cfg = task[k].cfg
    BY <1>8, <2>1, Moves
  <2>3. OnlyRuns({t.cfg})'
    BY <1>3, <1>5, <2>2
  <2> QED BY <1>1, <1>3, <1>4, <2>1, <2>2, <2>3, AtRestart, CoreMoves
<1> QED BY <1>4, <1>6, <1>7, <1>8

\* The candidate failed to start, or so it says.
LEMMA RestartObserveInv ==
    ASSUME LifecycleInv, EngineInv', NEW k \in Clients, RestartObserve(k)
    PROVE  LifecycleInv'
<1>1. /\ task[k].pc = "rs_observe"
      /\ UNCHANGED <<engineVars, config, coreLock, proxyVars, boundVars>>
  BY DEF RestartObserve, At
<1>2. PICK c, p : c = task[k].cfg /\ p = task[k].prev
  OBVIOUS
<1>3. CASE Finish(k, "candidate")
  <2>1. OnlyRuns({c})
    BY <1>1, <1>2, AtRestart DEF TransactionInv, StartingInv
  <2>2. OnlyRuns({c})'
    BY <1>1, <2>1 DEF OnlyRuns, HelperUp, engineVars
  <2>3. task[k].pc \in CorePcs
    BY <1>1 DEF CorePcs
  <2> QED BY <1>1, <1>2, <1>3, <2>2, <2>3, FinishCandidate
<1>4. CASE "no" \in IsRunningAnswers /\ Finish(k, "offline")
  <2>1. OnlyRuns({})
    BY <1>1, <1>4, AtRestart, NothingRuns
  <2>2. OnlyRuns({})'
    BY <1>1, <2>1 DEF OnlyRuns, HelperUp, engineVars
  <2>3. task[k].pc \in CorePcs
    BY <1>1 DEF CorePcs
  <2> QED BY <1>1, <1>4, <2>2, <2>3, FinishOffline
<1>5. CASE /\ "no" \in IsRunningAnswers /\ p # None
           /\ task' = [task EXCEPT ![k].pc = "rs_restore", ![k].tries = 0]
  <2>1. task[k] \in TaskType /\ task \in [Clients -> TaskType]
    BY LifecycleTypes
  <2>2. /\ "rs_restore" \in CorePcs /\ "rs_restore" \notin ProxyPcs
        /\ "rs_restore" \in Unrecorded /\ "rs_restore" \notin Targeted
    BY DEF CorePcs, ProxyPcs, Unrecorded, Targeted
  <2>3. 0 \in 0..MaxAttempts - 1
    BY BoundAssumption
  <2>4. PICK t \in TaskType : /\ t = [task[k] EXCEPT !.pc = "rs_restore", !.tries = 0]
                              /\ task' = [task EXCEPT ![k] = t]
    <3> DEFINE u == [task[k] EXCEPT !.pc = "rs_restore", !.tries = 0]
    <3>1. u \in TaskType
      BY <2>1, <2>2, <2>3 DEF TaskType
    <3>2. task' = [task EXCEPT ![k] = u]
      BY <1>5, <2>1 DEF TaskType
    <3> HIDE DEF u
    <3>3. \E t \in TaskType : t = u /\ task' = [task EXCEPT ![k] = t]
      BY <3>1, <3>2
    <3> QED BY <3>3 DEF u
  <2>5. t.pc = "rs_restore" /\ t.prev = p
    BY <1>2, <2>1, <2>4 DEF TaskType
  <2>6. OnlyRuns({t.prev})'
    <3>1. OnlyRuns({p})
      BY <1>1, <1>5, AtRestart, NothingRuns
    <3>2. OnlyRuns({p})'
      BY <1>1, <3>1 DEF OnlyRuns, HelperUp, engineVars
    <3> QED BY <2>5, <3>2
  <2>7. /\ coreLock = k /\ task[k].pc \notin ProxyPcs /\ config \in Configs \cup {None}
    BY <1>1, AtRestart
  <2>8. t.pc \in CorePcs \cap Unrecorded /\ t.pc \notin ProxyPcs \cup Targeted
    BY <2>2, <2>5
  <2>9. coreLock' = (IF t.pc \in CorePcs THEN k ELSE None) /\ config' \in Configs \cup {None}
    BY <1>1, <2>7, <2>8
  <2>10. t.prev # None
    BY <1>5, <2>5
  <2> QED BY <1>1, <2>4, <2>5, <2>6, <2>7, <2>8, <2>9, <2>10, CoreMoves
<1>6. CASE Goto(k, "rs_force")
  BY <1>1, <1>6, ToForce
<1> QED BY <1>2, <1>3, <1>4, <1>5, <1>6 DEF RestartObserve

\* restore_previous_core: the previous configuration runs, or nothing.
LEMMA RestartRestoreInv ==
    ASSUME LifecycleInv, EngineInv', NEW k \in Clients, RestartRestore(k)
    PROVE  LifecycleInv'
<1>1. task[k].pc = "rs_restore" /\ UNCHANGED <<proxyVars, boundVars>>
  BY DEF RestartRestore, At
<1>2. PICK p : p = task[k].prev /\ p # None /\ OnlyRuns({p})
  BY <1>1, AtRestart DEF TransactionInv, StartingInv
<1>3. PICK ans : StartConfig(p, ans) /\ UNCHANGED <<config, coreLock>>
                 /\ \/ Finish(k, "restored")
                    \/ /\ task[k].tries + 1 < MaxAttempts
                       /\ task' = [task EXCEPT ![k].tries = @ + 1]
                    \/ Goto(k, "rs_reobserve")
  BY <1>2 DEF RestartRestore, BindRetry
<1>4. OnlyRuns({p})'
  BY <1>1, <1>2, <1>3, AtRestart, StartRuns
<1>5. CASE Finish(k, "restored")
  <2>1. task[k].pc \in CorePcs
    BY <1>1 DEF CorePcs
  <2> QED BY <1>1, <1>2, <1>3, <1>4, <1>5, <2>1, FinishPrevious
<1>6. CASE task[k].tries + 1 < MaxAttempts /\ task' = [task EXCEPT ![k].tries = @ + 1]
  BY <1>1, <1>2, <1>3, <1>4, <1>6, RetryInv
<1>7. CASE Goto(k, "rs_reobserve")
  <2>1. /\ "rs_reobserve" \in CorePcs /\ "rs_reobserve" \notin ProxyPcs
        /\ "rs_reobserve" \in Unrecorded /\ "rs_reobserve" \notin Targeted
    BY DEF CorePcs, ProxyPcs, Unrecorded, Targeted
  <2>2. PICK t \in TaskType : /\ task' = [task EXCEPT ![k] = t] /\ t.pc = "rs_reobserve"
                              /\ t.prev = task[k].prev
    BY <1>7, <2>1, Moves
  <2>3. t.prev # None /\ OnlyRuns({t.prev})'
    BY <1>2, <1>4, <2>2
  <2> QED BY <1>1, <1>3, <2>1, <2>2, <2>3, AtRestart, CoreMoves
<1> QED BY <1>3, <1>5, <1>6, <1>7

\* The previous configuration failed to start, or so it says.
LEMMA RestartReobserveInv ==
    ASSUME LifecycleInv, EngineInv', NEW k \in Clients, RestartReobserve(k)
    PROVE  LifecycleInv'
<1>1. /\ task[k].pc = "rs_reobserve"
      /\ UNCHANGED <<engineVars, config, coreLock, proxyVars, boundVars>>
  BY DEF RestartReobserve, At
<1>2. task[k].pc \in CorePcs
  BY <1>1 DEF CorePcs
<1>3. CASE Finish(k, "restored")
  <2>1. PICK p : p = task[k].prev /\ OnlyRuns({p})
    BY <1>1, AtRestart DEF TransactionInv, StartingInv
  <2>2. OnlyRuns({p})'
    BY <1>1, <2>1 DEF OnlyRuns, HelperUp, engineVars
  <2> QED BY <1>1, <1>2, <1>3, <2>1, <2>2, FinishPrevious
<1>4. CASE "no" \in IsRunningAnswers /\ Finish(k, "offline")
  <2>1. OnlyRuns({})
    BY <1>1, <1>4, AtRestart, NothingRuns
  <2>2. OnlyRuns({})'
    BY <1>1, <2>1 DEF OnlyRuns, HelperUp, engineVars
  <2> QED BY <1>1, <1>2, <1>4, <2>2, FinishOffline
<1>5. CASE Goto(k, "rs_force")
  BY <1>1, <1>5, ToForce
<1> QED BY <1>3, <1>4, <1>5 DEF RestartReobserve

\* force_shutdown leaves nothing to run.
LEMMA RestartForceInv ==
    ASSUME LifecycleInv, EngineInv', NEW k \in Clients, RestartForce(k)
    PROVE  LifecycleInv'
<1>1. /\ task[k].pc = "rs_force" /\ ForceShutdown /\ Finish(k, "offline")
      /\ UNCHANGED <<config, coreLock, proxyVars, boundVars>>
  BY DEF RestartForce, At
<1>2. task[k].pc \in CorePcs
  BY <1>1 DEF CorePcs
<1>3. OnlyRuns({})'
  BY <1>1, AtRestart, ForceRuns
<1> QED BY <1>1, <1>2, <1>3, FinishOffline

\* The outcome decides what is recorded, and the record is what runs.
LEMMA RestartFinishInv ==
    ASSUME LifecycleInv, EngineInv', NEW k \in Clients, RestartFinish(k)
    PROVE  LifecycleInv'
<1>1. /\ task[k].pc = "rs_finish" /\ DiscardPrepared
      /\ config' = ConfigAfterRestart(task[k]) /\ coreLock' = None
      /\ UNCHANGED <<proxyVars, boundVars>>
      /\ Done(k) \/ (task[k].outcome = "offline" /\ Goto(k, "rs_proxy"))
  BY DEF RestartFinish, At, Unlock
<1>2. /\ coreLock = k /\ task[k].pc \notin ProxyPcs /\ EngineInv /\ FinishingInv(k)
      /\ task[k] \in TaskType
  BY <1>1, AtRestart, LifecycleTypes DEF TransactionInv
<1>3. PICK r : r = config'
  OBVIOUS
<1>4. r \in Configs \cup {None} /\ (r # None => OnlyRuns({r}))
  <2>1. CASE task[k].outcome = "candidate"
    BY <1>1, <1>2, <1>3, <2>1 DEF ConfigAfterRestart, FinishingInv, TaskType
  <2>2. CASE task[k].outcome \in {"preserved", "restored"}
    BY <1>1, <1>2, <1>3, <2>2 DEF ConfigAfterRestart, FinishingInv, TaskType
  <2>3. CASE task[k].outcome \notin {"candidate", "preserved", "restored"}
    BY <1>1, <1>3, <2>3 DEF ConfigAfterRestart
  <2> QED BY <2>1, <2>2, <2>3
<1>5. config' \in Configs \cup {None} /\ (config' # None => OnlyRuns({config})')
  <2>1. r # None => OnlyRuns({r})'
    BY <1>1, <1>2, <1>4, DiscardRuns
  <2> QED BY <1>3, <1>4, <2>1
<1>6. CASE Done(k)
  BY <1>1, <1>2, <1>5, <1>6, CoreEnds
<1>7. CASE Goto(k, "rs_proxy")
  <2>1. /\ "rs_proxy" \in FreePcs /\ "rs_proxy" \notin CorePcs /\ "rs_proxy" \notin ProxyPcs
        /\ "rs_proxy" \notin Targeted
    BY DEF FreePcs, CorePcs, ProxyPcs, Targeted
  <2>2. PICK t \in TaskType : task' = [task EXCEPT ![k] = t] /\ t.pc = "rs_proxy"
    BY <1>7, <2>1, Moves
  <2> QED BY <1>1, <1>2, <1>5, <2>1, <2>2, CoreMoves
<1> QED BY <1>1, <1>6, <1>7

-----------------------------------------------------------------------------
(***************************************************************************)
(* The TUN helper in advance, the end of the process, the surroundings.    *)
(***************************************************************************)
\* prepare_native_tun_mode and release_native_tun_mode start no core.
LEMMA TunModeInv ==
    ASSUME LifecycleInv, EngineInv', NEW k \in Clients, PrepareTun(k) \/ ReleaseTun(k)
    PROVE  LifecycleInv'
<1>1. /\ UNCHANGED <<config, proxyVars, boundVars>> /\ Done(k) /\ coreLock' = None
      /\ \/ task[k].pc = "pt_prepare"
         \/ task[k].pc = "rl_lock" /\ coreLock = None
  BY DEF PrepareTun, ReleaseTun, At, Unlock
<1>2. task[k].pc \notin ProxyPcs /\ task[k].pc \notin Unrecorded /\ coreLock \in {None, k}
  <2>1. "pt_prepare" \in CorePcs
    BY DEF CorePcs
  <2> QED BY <1>1, <2>1, AtCore DEF ProxyPcs, Unrecorded
<1>3. PICK c, ans : PrepareConfig(c, ans) \/ DiscardPrepared \/ UNCHANGED engineVars
  BY DEF PrepareTun, ReleaseTun
<1>4. config' # None => OnlyRuns({config})'
  BY <1>1, <1>2, <1>3, RecordKept
<1>5. config' \in Configs \cup {None}
  BY <1>1, LifecycleTypes
<1> QED BY <1>1, <1>2, <1>4, <1>5, CoreEnds

\* shutdown_native_runtime: the stop.
LEMMA ShutdownStopInv ==
    ASSUME LifecycleInv, EngineInv', NEW k \in Clients, ShutdownStop(k)
    PROVE  LifecycleInv'
<1>1. task[k].pc = "sd_lock" /\ UNCHANGED <<config, proxyVars, boundVars>> /\ coreLock = None
  BY DEF ShutdownStop, At
<1>2. /\ task[k].pc \notin ProxyPcs /\ task[k].pc \notin Unrecorded
      /\ "sd_discard" \in CorePcs /\ "sd_exit" \in FreePcs /\ "sd_exit" \notin CorePcs
      /\ {"sd_discard", "sd_exit"} \cap (ProxyPcs \cup Targeted) = {}
  BY <1>1 DEF CorePcs, FreePcs, ProxyPcs, Unrecorded, Targeted
<1>3. PICK ans : Stop(ans) \/ UNCHANGED engineVars
  BY DEF ShutdownStop
<1>4. config' # None => OnlyRuns({config})'
  BY <1>1, <1>2, <1>3, RecordKept
<1>5. config' \in Configs \cup {None}
  BY <1>1, LifecycleTypes
<1>6. CASE Goto(k, "sd_discard") /\ coreLock' = k
  <2>1. PICK t \in TaskType : task' = [task EXCEPT ![k] = t] /\ t.pc = "sd_discard"
    BY <1>2, <1>6, Moves
  <2> QED BY <1>1, <1>2, <1>4, <1>5, <1>6, <2>1, CoreMoves
<1>7. CASE Goto(k, "sd_exit") /\ coreLock' = coreLock
  <2>1. PICK t \in TaskType : task' = [task EXCEPT ![k] = t] /\ t.pc = "sd_exit"
    BY <1>2, <1>7, Moves
  <2> QED BY <1>1, <1>2, <1>4, <1>5, <1>7, <2>1, CoreMoves
<1> QED BY <1>6, <1>7 DEF ShutdownStop

\* shutdown_native_runtime: nothing is on record afterwards.
LEMMA ShutdownDiscardInv ==
    ASSUME LifecycleInv, EngineInv', NEW k \in Clients, ShutdownDiscard(k)
    PROVE  LifecycleInv'
<1>1. /\ task[k].pc = "sd_discard" /\ config' = None /\ coreLock' = None
      /\ Goto(k, "sd_exit") /\ UNCHANGED <<proxyVars, boundVars>>
  BY DEF ShutdownDiscard, At, Unlock
<1>2. /\ task[k].pc \in CorePcs /\ "sd_exit" \in FreePcs
      /\ "sd_exit" \notin CorePcs \cup ProxyPcs \cup Targeted
  BY <1>1 DEF CorePcs, FreePcs, ProxyPcs, Targeted
<1>3. PICK t \in TaskType : task' = [task EXCEPT ![k] = t] /\ t.pc = "sd_exit"
  BY <1>1, <1>2, Moves
<1> QED BY <1>1, <1>2, <1>3, AtCore, CoreMoves

\* A process that ends takes every request and both locks with it.
LEMMA ProcessGoneInv ==
    ASSUME LifecycleInv, EngineInv', Crash \/ \E k \in Clients : ShutdownExit(k)
    PROVE  LifecycleInv'
<1>1. ProcessGone /\ crashes' \in 0..MaxCrashes
  BY BoundAssumption DEF Crash, ShutdownExit, LifecycleInv, LifecycleTypeOK
<1>2. /\ task' = [k \in Clients |-> Idle] /\ Idle.pc = "idle"
      /\ config' = None /\ coreLock' = None /\ proxyLock' = None
  BY <1>1 DEF ProcessGone, Idle
<1>3. "idle" \notin CorePcs /\ "idle" \notin ProxyPcs /\ "idle" \notin Targeted
      /\ "idle" \in FreePcs
  BY DEF CorePcs, FreePcs, ProxyPcs, Targeted
<1>4. LifecycleTypeOK'
  <2>1. Idle \in TaskType
    BY ConfigAssumption, BoundAssumption DEF TaskType, Idle, FreePcs, Outcomes
  <2>2. task' \in [Clients -> TaskType]
    BY <1>2, <2>1
  <2> QED BY <1>1, <1>2, <2>2
          DEF ProcessGone, LifecycleInv, LifecycleTypeOK, EngineInv, TaskType
<1>5. LocksAreHeld'
  BY <1>2, <1>3, ClientAssumption DEF LocksAreHeld
<1>6. RecordInv'
  BY <1>2 DEF RecordInv
<1>7. ASSUME NEW k \in Clients PROVE TransactionInv(k)'
  BY <1>2, <1>3 DEF TransactionInv, StartingInv, FinishingInv
<1> QED BY <1>4, <1>5, <1>6, <1>7 DEF LifecycleInv

\* The next start looks at the sentinel only.
LEMMA StartupInv ==
    ASSUME LifecycleInv, EngineInv', Startup
    PROVE  LifecycleInv'
<1>1. /\ UNCHANGED <<engineVars, config, coreLock, proxyLock, task, requests, crashes>>
      /\ alive' \in BOOLEAN /\ osProxy' \in BOOLEAN /\ sentinel' \in BOOLEAN
  BY DEF Startup, LifecycleInv, LifecycleTypeOK
<1>2. LifecycleTypeOK' /\ LocksAreHeld'
  BY <1>1 DEF LifecycleInv, LifecycleTypeOK, LocksAreHeld, EngineInv
<1>3. RecordInv'
  BY <1>1 DEF LifecycleInv, RecordInv, OnlyRuns, HelperUp, engineVars
<1>4. ASSUME NEW k \in Clients PROVE TransactionInv(k)'
  <2>1. TransactionInv(k)
    BY LifecycleTypes
  <2> QED BY <1>1, <2>1 DEF TransactionInv, StartingInv, FinishingInv, OnlyRuns, HelperUp, engineVars
<1> QED BY <1>2, <1>3, <1>4 DEF LifecycleInv

\* Around the requests cores only disappear.
LEMMA SurroundingsInv ==
    ASSUME LifecycleInv, EngineInv', Environment, UNCHANGED <<apiVars, boundVars>>
    PROVE  LifecycleInv'
<1>1. UNCHANGED <<config, coreLock, proxyLock, osProxy, sentinel, task, alive, requests, crashes>>
      /\ EngineInv
  BY DEF apiVars, boundVars, LifecycleInv
<1>2. LifecycleTypeOK' /\ LocksAreHeld'
  BY <1>1 DEF LifecycleInv, LifecycleTypeOK, LocksAreHeld, EngineInv
<1>3. ASSUME NEW S, OnlyRuns(S) PROVE OnlyRuns(S)'
  BY <1>1, <1>3, EnvironmentRuns
<1>4. RecordInv'
  <2>1. PICK r : r = config
    OBVIOUS
  <2>2. OnlyRuns({r}) => OnlyRuns({r})'
    BY <1>3
  <2> QED BY <1>1, <2>1, <2>2 DEF LifecycleInv, RecordInv
<1>5. ASSUME NEW k \in Clients PROVE TransactionInv(k)'
  <2>1. PICK c, p : c = task[k].cfg /\ p = task[k].prev
    OBVIOUS
  <2>2. /\ OnlyRuns({c}) => OnlyRuns({c})'
        /\ OnlyRuns({p}) => OnlyRuns({p})'
        /\ OnlyRuns({}) => OnlyRuns({})'
    BY <1>3
  <2>3. TransactionInv(k)
    BY LifecycleTypes
  <2>4. StartingInv(k)'
    BY <1>1, <2>1, <2>2, <2>3 DEF TransactionInv, StartingInv
  <2>5. FinishingInv(k)'
    BY <1>1, <2>1, <2>2, <2>3 DEF TransactionInv, FinishingInv
  <2> QED BY <1>1, <2>3, <2>4, <2>5 DEF TransactionInv
<1> QED BY <1>2, <1>4, <1>5 DEF LifecycleInv

-----------------------------------------------------------------------------
(***************************************************************************)
(* The requests use the engine as its specification allows.                *)
(***************************************************************************)
\* A call on the engine with a configuration of the system.
LEMMA EngineCall ==
    ASSUME NEW c \in Configs, NEW ans,
           \/ ans \in {"ok", "err"} /\ PrepareConfig(c, ans)
           \/ /\ ans \in {"ok", "inuse", "already", "notPrepared", "err"}
              /\ StartConfig(c, ans)
    PROVE  EngineNext
BY DEF EngineNext

\* The other calls, and none.
LEMMA EngineOther ==
    ASSUME \/ Stop("ok") \/ Stop("err") \/ DiscardPrepared \/ ForceShutdown
           \/ ProcessDies \/ Environment \/ UNCHANGED engineVars
    PROVE  [EngineNext]_engineVars
BY DEF EngineNext

\* Every step of a request is a step of the engine or leaves it alone.
LEMMA RequestStep ==
    ASSUME LifecycleInv, NEW k \in Clients, NewRequest(k) \/ CoreStep(k)
    PROVE  [EngineNext]_engineVars
<1>1. TransactionInv(k)
  BY LifecycleTypes
<1>2. CASE NewRequest(k)
  BY <1>2 DEF NewRequest, Request
<1>3. CASE OnLock(k) \/ OnCheck(k) \/ OffProxy(k) \/ RestartLock(k) \/ RestartRecheck(k)
           \/ RestartObserve(k) \/ RestartReobserve(k) \/ RestartProxy(k) \/ PrepareLock(k)
           \/ ProxyOn(k) \/ ProxyApply(k) \/ ProxyMark(k) \/ ShutdownProxy(k)
  BY <1>3 DEF OnLock, OnCheck, OffProxy, RestartLock, RestartRecheck, RestartObserve,
     RestartReobserve, RestartProxy, PrepareLock, ProxyOn, ProxyApply, ProxyMark,
     ShutdownProxy, DisableProxy
<1>4. CASE OffStop(k) \/ OffForce(k) \/ OffDiscard(k) \/ RestartStop(k) \/ RestartForce(k)
           \/ RestartFinish(k) \/ ReleaseTun(k) \/ ShutdownStop(k) \/ ShutdownDiscard(k)
           \/ ShutdownExit(k)
  BY <1>4, EngineOther DEF OffStop, OffForce, OffDiscard, RestartStop, RestartForce,
     RestartFinish, ReleaseTun, ShutdownStop, ShutdownDiscard, ShutdownExit, ProcessGone
<1>5. CASE RestartPrepare(k) \/ PrepareTun(k)
  <2>1. task[k].pc \in Targeted
    BY <1>5 DEF RestartPrepare, PrepareTun, At, Targeted
  <2>2. task[k].cfg \in Configs
    BY <1>1, <2>1 DEF TransactionInv
  <2>3. PICK ans \in {"ok", "err"} : PrepareConfig(task[k].cfg, ans)
    BY <1>5 DEF RestartPrepare, PrepareTun
  <2> QED BY <2>2, <2>3, EngineCall
<1>6. CASE OnStart(k) \/ RestartStart(k) \/ RestartRestore(k)
  <2>1. PICK c \in Configs, ans \in {"ok", "inuse", "already", "notPrepared", "err"} :
          StartConfig(c, ans)
    <3>1. CASE OnStart(k) \/ RestartStart(k)
      <4>1. task[k].pc \in Targeted
        BY <3>1 DEF OnStart, RestartStart, At, Targeted
      <4>2. task[k].cfg \in Configs
        BY <1>1, <4>1 DEF TransactionInv
      <4> QED BY <3>1, <4>2 DEF OnStart, RestartStart, BindRetry
    <3>2. CASE RestartRestore(k)
      <4>1. task[k].prev # None
        BY <1>1, <3>2 DEF TransactionInv, StartingInv, RestartRestore, At
      <4>2. task[k].prev \in Configs
        BY <4>1, LifecycleTypes DEF TaskType
      <4> QED BY <3>2, <4>2 DEF RestartRestore, BindRetry
    <3> QED BY <1>6, <3>1, <3>2
  <2> QED BY <2>1, EngineCall
<1> QED BY <1>2, <1>3, <1>4, <1>5, <1>6 DEF CoreStep

\* So is every step of the system.
LEMMA EngineStep ==
    ASSUME LifecycleInv, [Next]_vars
    PROVE  [EngineNext]_engineVars
<1>1. CASE \E k \in Clients : NewRequest(k) \/ CoreStep(k)
  BY <1>1, RequestStep
<1>2. CASE Crash
  BY <1>2, EngineOther DEF Crash, ProcessGone
<1>3. CASE Startup
  BY <1>3 DEF Startup
<1>4. CASE Surroundings
  BY <1>4, EngineOther DEF Surroundings, Environment
<1>5. CASE AtRest \/ UNCHANGED vars
  BY <1>5 DEF AtRest, vars
<1> QED BY <1>1, <1>2, <1>3, <1>4, <1>5 DEF Next

-----------------------------------------------------------------------------
\* Nothing happens.
LEMMA StutterInv ==
    ASSUME LifecycleInv, UNCHANGED vars
    PROVE  LifecycleInv'
<1>1. UNCHANGED <<engineVars, config, coreLock, proxyLock, osProxy, sentinel, task,
                  alive, requests, crashes>>
  BY DEF vars, apiVars, boundVars
<1>2. EngineInv'
  BY <1>1, StepInv DEF LifecycleInv
<1>3. LifecycleTypeOK' /\ LocksAreHeld'
  BY <1>1, <1>2 DEF LifecycleInv, LifecycleTypeOK, LocksAreHeld, EngineInv
<1>4. RecordInv'
  BY <1>1 DEF LifecycleInv, RecordInv, OnlyRuns, HelperUp, engineVars
<1>5. ASSUME NEW k \in Clients PROVE TransactionInv(k)'
  <2>1. TransactionInv(k)
    BY LifecycleTypes
  <2> QED BY <1>1, <2>1
          DEF TransactionInv, StartingInv, FinishingInv, OnlyRuns, HelperUp, engineVars
<1> QED BY <1>2, <1>3, <1>4, <1>5 DEF LifecycleInv

\* The application starts with nothing running and nothing on record.
LEMMA LifecycleInitInv == Init => LifecycleInv
<1> SUFFICES ASSUME Init PROVE LifecycleInv
  OBVIOUS
<1>1. EngineInv
  BY InitInv DEF Init
<1>2. "idle" \in FreePcs \ (CorePcs \cup ProxyPcs \cup Targeted)
  BY DEF FreePcs, CorePcs, ProxyPcs, Targeted
<1>3. /\ task = [k \in Clients |-> Idle] /\ Idle.pc = "idle" /\ Idle \in TaskType
      /\ config = None /\ coreLock = None /\ proxyLock = None
  BY <1>2, ConfigAssumption, BoundAssumption DEF Init, Idle, TaskType, Outcomes
<1>4. LifecycleTypeOK
  <2>1. task \in [Clients -> TaskType]
    BY <1>3
  <2>2. /\ alive \in BOOLEAN /\ osProxy \in BOOLEAN /\ sentinel \in BOOLEAN
        /\ requests \in 0..MaxRequests /\ crashes \in 0..MaxCrashes
    <3>1. 0 \in 0..MaxRequests /\ 0 \in 0..MaxCrashes
      BY BoundAssumption
    <3> QED BY <3>1 DEF Init
  <2> QED BY <1>1, <1>3, <2>1, <2>2 DEF LifecycleTypeOK, EngineInv, TaskType
<1>5. LocksAreHeld
  BY <1>2, <1>3, ClientAssumption DEF LocksAreHeld
<1>6. RecordInv /\ \A k \in Clients : TransactionInv(k)
  BY <1>2, <1>3 DEF RecordInv, TransactionInv, StartingInv, FinishingInv
<1> QED BY <1>1, <1>4, <1>5, <1>6 DEF LifecycleInv

\* Every step preserves the invariant; the engine's part is its own theorem.
LEMMA LifecycleStepInv == LifecycleInv /\ [Next]_vars => LifecycleInv'
<1> SUFFICES ASSUME LifecycleInv, [Next]_vars PROVE LifecycleInv'
  OBVIOUS
<1>1. EngineInv'
  BY EngineStep, StepInv DEF LifecycleInv
<1>2. ASSUME NEW k \in Clients, NewRequest(k) PROVE LifecycleInv'
  BY <1>1, <1>2, NewRequestInv
<1>3. ASSUME NEW k \in Clients, CoreStep(k) PROVE LifecycleInv'
  <2>1. CASE OnLock(k) \/ OnCheck(k) \/ OnStart(k)
    BY <1>1, <2>1, LockInv, OnCheckInv, OnStartInv
  <2>2. CASE OffProxy(k) \/ OffStop(k) \/ OffForce(k) \/ OffDiscard(k)
    BY <1>1, <2>2, OffProxyInv, OffStopInv, OffEndInv
  <2>3. CASE RestartLock(k) \/ RestartPrepare(k) \/ RestartStop(k) \/ RestartRecheck(k)
    BY <1>1, <2>3, LockInv, RestartPrepareInv, RestartStopInv, RestartRecheckInv
  <2>4. CASE RestartStart(k) \/ RestartObserve(k) \/ RestartRestore(k)
    BY <1>1, <2>4, RestartStartInv, RestartObserveInv, RestartRestoreInv
  <2>5. CASE RestartReobserve(k) \/ RestartForce(k) \/ RestartFinish(k) \/ RestartProxy(k)
    BY <1>1, <2>5, RestartReobserveInv, RestartForceInv, RestartFinishInv, OffProxyInv
  <2>6. CASE PrepareLock(k) \/ PrepareTun(k) \/ ReleaseTun(k)
    BY <1>1, <2>6, LockInv, TunModeInv
  <2>7. CASE ProxyOn(k) \/ ProxyApply(k) \/ ProxyMark(k)
    BY <1>1, <2>7, ProxyOnInv
  <2>8. CASE ShutdownProxy(k) \/ ShutdownStop(k) \/ ShutdownDiscard(k) \/ ShutdownExit(k)
    BY <1>1, <2>8, OffProxyInv, ShutdownStopInv, ShutdownDiscardInv, ProcessGoneInv
  <2> QED BY <1>3, <2>1, <2>2, <2>3, <2>4, <2>5, <2>6, <2>7, <2>8 DEF CoreStep
<1>4. CASE Crash
  BY <1>1, <1>4, ProcessGoneInv
<1>5. CASE Startup
  BY <1>1, <1>5, StartupInv
<1>6. CASE Surroundings
  BY <1>1, <1>6, SurroundingsInv DEF Surroundings, Environment
<1>7. CASE AtRest \/ UNCHANGED vars
  BY <1>7, StutterInv DEF AtRest
<1> QED BY <1>2, <1>3, <1>4, <1>5, <1>6, <1>7 DEF Next

-----------------------------------------------------------------------------
\* The lifecycle requests keep their invariant in every behaviour, whatever
\* their number, their interleaving, the failures of the engine and the OS, and
\* the crashes: toggle_native_core, restart_native_core, the TUN preparation,
\* set_native_system_proxy and the shutdown.
THEOREM LifecycleSafe == Spec => []LifecycleInv
<1>1. Init => LifecycleInv
  BY LifecycleInitInv
<1>2. LifecycleInv /\ [Next]_vars => LifecycleInv'
  BY LifecycleStepInv
<1> QED BY <1>1, <1>2, PTL DEF Spec

\* The requests drive SingBox only through the calls its specification allows,
\* with configurations it knows: the composed system implements the engine, and
\* what is proved of the engine holds in it.
THEOREM LifecycleUsesEngine == Spec => EngineSpec
<1>1. Init => EngineInit
  BY DEF Init
<1>2. LifecycleInv /\ [Next]_vars => [EngineNext]_engineVars
  BY EngineStep
<1> QED BY <1>1, <1>2, LifecycleSafe, PTL DEF Spec, EngineSpec

\* Type correctness of the requests.
THEOREM LifecycleTyped == Spec => []LifecycleTypeOK
<1>1. LifecycleInv => LifecycleTypeOK
  BY DEF LifecycleInv
<1> QED BY <1>1, LifecycleSafe, PTL

\* Whenever core_slot is free, the configuration on record (NativeCore.config)
\* is the one the core runs, so a restart rolls back to the right one.
THEOREM LifecycleRecord == Spec => []ConfigDescribesCore
<1>1. LifecycleInv => ConfigDescribesCore
  <2> SUFFICES ASSUME LifecycleInv, coreLock = None, config # None
               PROVE  OnlyRuns({config})
    BY DEF ConfigDescribesCore, OnlyRuns
  <2>1. ASSUME NEW k \in Clients PROVE task[k].pc \notin Unrecorded
    BY LifecycleTypes, PcKinds
  <2> QED BY <2>1 DEF LifecycleInv, RecordInv
<1> QED BY <1>1, LifecycleSafe, PTL

\* What a restart reports (candidate, restored, preserved or offline) is what it
\* leaves, but for a preserved core that was not on record.
THEOREM LifecycleRestartTruth == Spec => []RestartTellsTheTruth
<1>1. LifecycleInv => RestartTellsTheTruth
  <2> SUFFICES ASSUME LifecycleInv, NEW k \in Clients, At(k, "rs_finish"),
                      task[k].outcome # "preserved" \/ ConfigAfterRestart(task[k]) # None
               PROVE  OnlyRuns({ConfigAfterRestart(task[k])})
    BY DEF RestartTellsTheTruth, OnlyRuns
  <2>1. FinishingInv(k) /\ task[k].pc = "rs_finish" /\ task[k].outcome \in Outcomes
    BY LifecycleTypes DEF TransactionInv, At, TaskType
  <2> QED BY <2>1 DEF FinishingInv, ConfigAfterRestart, Outcomes, OnlyRuns
<1> QED BY <1>1, LifecycleSafe, PTL

\* No interleaving of the requests leaves an elevated helper out of reach.
THEOREM LifecycleNoOrphanHelper == Spec => []NoOrphanHelper
<1> QED BY LifecycleUsesEngine, EngineNoOrphanHelper, PTL
-----------------------------------------------------------------------------
(***************************************************************************)
(* The system proxy and the core, one request at a time, with working OS   *)
(* calls and no crash.                                                     *)
(***************************************************************************)
\* Between two requests, and in a request that has not touched the core yet,
\* an enabled proxy has a core behind it.
Settled == {"idle", "on_lock", "on_check", "off_proxy", "rs_lock", "rs_prepare", "rs_stop",
            "pt_lock", "pt_prepare", "rl_lock", "px_lock", "sd_proxy"}

\* set_native_system_proxy(true) enables the proxy for a core it saw running.
Enabling == {"px_apply", "px_mark"}

\* An outage takes the proxy off first, and a start finds it off.
Outage == {"on_start", "off_lock", "off_force", "off_discard", "sd_lock", "sd_discard", "sd_exit"}

ProxyBacked == osProxy => CoreRuns

\* A restart in between claims nothing until it knows its outcome; offline, it
\* takes the proxy off at the end (rs_proxy).
ProxyInv(k) ==
    /\ ~alive => ~osProxy
    /\ task[k].pc \in Settled => ProxyBacked
    /\ task[k].pc \in Enabling => CoreRuns
    /\ task[k].pc \in Outage => ~osProxy
    /\ task[k].pc = "rs_finish" /\ task[k].outcome # "offline" => ProxyBacked

\* SingBox::is_running says yes of a core that runs.
LEMMA SaysYes == ASSUME "yes" \in IsRunningAnswers PROVE CoreRuns
BY DEF IsRunningAnswers, CoreRuns

\* It says no only when none does.
LEMMA SaysNo == ASSUME EngineInv, "no" \in IsRunningAnswers PROVE ~CoreRuns
<1>1. OnlyRuns({})
  BY NothingRuns
<1> QED BY <1>1 DEF OnlyRuns, CoreRuns

\* A call that drops only helpers without a core takes no core down.
LEMMA DropKeepsCore ==
    ASSUME EngineInv, CoreRuns, NEW D \in SUBSET Helpers, NEW t \in HelperTable,
           helpers' \in AfterDrop(t, D), embedded' = embedded,
           \A h \in Helpers : HelperUp(h) /\ helpers[h].core # None =>
                                  h \notin D /\ t[h] = helpers[h]
    PROVE  CoreRuns'
<1>1. \A h \in Helpers \ D : helpers'[h] = t[h]
  BY DropEnds
<1> QED BY <1>1 DEF CoreRuns, HelperUp

\* The core that runs is not in the prepared helper.
LEMMA PreparedHasNoCore ==
    ASSUME EngineInv, NEW h \in Helpers, HelperUp(h), helpers[h].core # None
    PROVE  backend = h /\ prepared.helper # h
BY HelperAssumption DEF EngineInv, RunningCoreIsReachable, PreparedIsNotLive

\* SingBox::prepare_config leaves the running core alone.
LEMMA PrepareKeepsCore ==
    ASSUME EngineInv, CoreRuns, NEW c, NEW ans, PrepareConfig(c, ans)
    PROVE  CoreRuns'
<1>1. helpers \in HelperTable
  BY DEF EngineInv, TypeOK, HelperTable
<1>2. CASE PrepareRefused(ans) \/ PreparePlain(c, ans)
  BY <1>2 DEF PrepareRefused, PreparePlain, engineVars, CoreRuns, HelperUp
<1>3. CASE PrepareReuse(c, ans) \/ PrepareCurrent(c, ans)
  <2>1. PICK D \in SUBSET ({prepared.helper} \cap Helpers) : helpers' \in AfterDrop(helpers, D)
    BY <1>3 DEF PrepareReuse, PrepareCurrent
  <2>2. embedded' = embedded
    BY <1>3 DEF PrepareReuse, PrepareCurrent
  <2> QED BY <1>1, <2>1, <2>2, PreparedHasNoCore, DropKeepsCore
<1>4. CASE PrepareLaunch(c, ans)
  <2>1. PICK n \in Helpers :
          /\ helpers[n].state = "gone"
          /\ helpers' \in AfterDrop([helpers EXCEPT ![n] = [state |-> "up", core |-> None]],
                                    {prepared.helper} \cap Helpers)
    BY <1>4 DEF PrepareLaunch
  <2> DEFINE t == [helpers EXCEPT ![n] = [state |-> "up", core |-> None]]
             D == {prepared.helper} \cap Helpers
  <2>2. t \in HelperTable /\ D \in SUBSET Helpers /\ helpers' \in AfterDrop(t, D)
    BY <1>1, <2>1 DEF HelperTable
  <2>3. ASSUME NEW h \in Helpers, HelperUp(h), helpers[h].core # None
        PROVE  h \notin D /\ t[h] = helpers[h]
    BY <1>1, <2>1, <2>3, PreparedHasNoCore DEF HelperTable, HelperUp
  <2>4. embedded' = embedded
    BY <1>4 DEF PrepareLaunch
  <2> HIDE DEF t, D
  <2> QED BY <2>2, <2>3, <2>4, DropKeepsCore
<1> QED BY <1>2, <1>3, <1>4 DEF PrepareConfig

\* So does SingBox::discard_prepared_config: it ends an idle backend only.
LEMMA DiscardKeepsCore ==
    ASSUME EngineInv, CoreRuns, DiscardPrepared
    PROVE  CoreRuns'
<1>1. helpers \in HelperTable
  BY DEF EngineInv, TypeOK, HelperTable
<1>2. PICK running \in IsRunningAnswers, D \in SUBSET Helpers :
        /\ helpers' \in AfterDrop(helpers, D)
        /\ D \subseteq {prepared.helper} \cup (IF running = "no" THEN {backend} ELSE {})
  BY DEF DiscardPrepared
<1>3. running # "no"
  BY SaysNo
<1>4. embedded' = embedded
  BY DEF DiscardPrepared
<1> QED BY <1>1, <1>2, <1>3, <1>4, PreparedHasNoCore, DropKeepsCore

\* SingBox::start_config answers Ok only with a core that runs.
LEMMA StartedRuns ==
    ASSUME EngineInv, NEW c, c # None, StartConfig(c, "ok")
    PROVE  CoreRuns'
<1>1. helpers \in HelperTable
  BY DEF EngineInv, TypeOK, HelperTable
<1>2. CASE StartEmbedded(c, "ok")
  BY <1>2 DEF StartEmbedded, CoreRuns
<1>3. CASE StartTun(c, "ok")
  <2>1. PICK ready \in IF backend \in Helpers THEN PingAnswers(backend) ELSE {FALSE} :
         LET previous == IF ready THEN backend ELSE None
             stale    == IF ready THEN {} ELSE {backend} \cap Helpers
             h        == IF prepared.helper # None THEN prepared.helper ELSE previous
         IN /\ h # None
            /\ \E t \in HelperStart(h, c, "ok") :
                 helpers' \in AfterDrop(t, stale \cup ({previous} \ {h, None}))
    BY <1>3 DEF StartTun
  <2> DEFINE previous == IF ready THEN backend ELSE None
             stale == IF ready THEN {} ELSE {backend} \cap Helpers
             h == IF prepared.helper # None THEN prepared.helper ELSE previous
             D == stale \cup ({previous} \ {h, None})
  <2>2. /\ ready => backend \in Helpers
        /\ prepared.helper \in Helpers \cup {None} /\ PreparedIsNotLive
    BY DEF PingAnswers, EngineInv, TypeOK
  <2>3. h \in Helpers /\ h \notin D /\ D \in SUBSET Helpers
    BY <2>1, <2>2 DEF PreparedIsNotLive
  <2>4. PICK t \in HelperStart(h, c, "ok") : helpers' \in AfterDrop(t, D)
    BY <2>1
  <2> HIDE DEF h, D
  <2>5. HelperUp(h) /\ t = [helpers EXCEPT ![h].core = c] /\ c \in Configs
    BY <1>3, <2>4, ConfigAssumption DEF HelperStart, StartTun
  <2>6. t \in HelperTable /\ t[h].state = "up" /\ t[h].core = c
    BY <1>1, <2>3, <2>5 DEF HelperTable, HelperUp
  <2>7. helpers'[h] = t[h]
    BY <2>3, <2>4, <2>6, DropEnds
  <2> QED BY <2>3, <2>6, <2>7 DEF CoreRuns, HelperUp
<1> QED BY <1>2, <1>3 DEF StartConfig, StartRefused

\* A helper that leaves has no core of ours, and the port is not the core.
LEMMA LeavingKeepsCore ==
    ASSUME EngineInv, CoreRuns,
           PortTaken \/ PortReleased \/ \E h \in Helpers : HelperExits(h)
    PROVE  CoreRuns'
<1>1. helpers \in HelperTable
  BY DEF EngineInv, TypeOK, HelperTable
<1>2. CASE PortTaken \/ PortReleased
  BY <1>2 DEF PortTaken, PortReleased, CoreRuns, HelperUp
<1>3. CASE \E h \in Helpers : HelperExits(h)
  BY <1>1, <1>3 DEF HelperExits, CoreRuns, HelperUp, HelperTable, Gone
<1> QED BY <1>2, <1>3

\* Without a call on the engine the same cores run.
LEMMA SameCores == ASSUME UNCHANGED engineVars PROVE CoreRuns' <=> CoreRuns
BY DEF engineVars, CoreRuns, HelperUp

\* The places of a request, told apart.
LEMMA ProxyPlaces ==
    /\ Settled \cap Enabling = {} /\ Settled \cap Outage = {} /\ Enabling \cap Outage = {}
    /\ "rs_finish" \notin Settled \cup Enabling \cup Outage
BY DEF Settled, Enabling, Outage

\* Where a request goes on: one field of its task moves, or the task ends.
LEMMA GoesTo ==
    ASSUME LifecycleInv, NEW k \in Clients, NEW pc
    PROVE  /\ Goto(k, pc) => task'[k].pc = pc /\ task'[k].outcome = task[k].outcome
           /\ Done(k) => task'[k].pc = "idle"
<1>1. task \in [Clients -> TaskType] /\ task[k] \in TaskType
  BY LifecycleTypes
<1> QED BY <1>1 DEF Goto, Done, Idle, TaskType

LEMMA FinishesWith ==
    ASSUME LifecycleInv, NEW k \in Clients, NEW outcome, Finish(k, outcome)
    PROVE  task'[k].pc = "rs_finish" /\ task'[k].outcome = outcome
<1>1. task \in [Clients -> TaskType] /\ task[k] \in TaskType
  BY LifecycleTypes
<1> QED BY <1>1 DEF Finish, TaskType

\* With working OS calls the proxy is off after an attempt to disable it.
LEMMA DisableWorks ==
    ASSUME LifecycleInv, Faults = {}, NEW k \in Clients,
           OffProxy(k) \/ RestartProxy(k) \/ ShutdownProxy(k), ProxyInv(k)
    PROVE  ProxyInv(k)'
<1>1. ~osProxy'
  BY DEF OffProxy, RestartProxy, ShutdownProxy, DisableProxy, ProxySkipped, ProxyDisabled,
     ProxyStillOn, ProxyOffWithError
<1>2. task'[k].pc \in {"idle", "off_lock", "sd_lock"}
  BY GoesTo DEF OffProxy, RestartProxy, ShutdownProxy, DisableProxy
<1>3. task'[k].pc \notin Enabling /\ task'[k].pc # "rs_finish"
  BY <1>2 DEF Enabling
<1> QED BY <1>1, <1>3 DEF ProxyInv, ProxyBacked

\* A step outside an outage and a restart that takes no core down.
LEMMA SettledStep ==
    ASSUME NEW k \in Clients, ProxyInv(k), task[k].pc \in Settled, task'[k].pc \in Settled,
           alive' = alive, osProxy' = osProxy, CoreRuns => CoreRuns'
    PROVE  ProxyInv(k)'
BY ProxyPlaces DEF ProxyInv, ProxyBacked

\* A step of an outage.
LEMMA OutageStep ==
    ASSUME NEW k \in Clients, ProxyInv(k), task[k].pc \in Outage,
           task'[k].pc \in Outage \cup Settled, osProxy' = osProxy
    PROVE  ProxyInv(k)'
BY ProxyPlaces DEF ProxyInv, ProxyBacked

\* A step of a restart to a place that claims nothing.
LEMMA RestartStep ==
    ASSUME NEW k \in Clients, ProxyInv(k), alive, alive' = alive,
           \/ task'[k].pc \in {"rs_recheck", "rs_start", "rs_observe", "rs_restore",
                               "rs_reobserve", "rs_force", "rs_proxy"}
           \/ task'[k].pc = "rs_finish" /\ (task'[k].outcome = "offline" \/ CoreRuns')
    PROVE  ProxyInv(k)'
BY DEF ProxyInv, ProxyBacked, Settled, Enabling, Outage

\* toggle_native_core(true): a start finds the proxy off.
LEMMA OnProxy ==
    ASSUME LifecycleInv, NEW k \in Clients, ProxyInv(k), OnLock(k) \/ OnCheck(k) \/ OnStart(k)
    PROVE  ProxyInv(k)'
<1>1. UNCHANGED <<osProxy, alive>> /\ alive
  BY DEF OnLock, OnCheck, OnStart, proxyVars, boundVars, At
<1>2. /\ {"idle", "on_lock", "on_check"} \subseteq Settled /\ "on_start" \in Outage
      /\ "on_start" \notin Settled \cup Enabling
  BY DEF Settled, Outage, Enabling
<1>3. CASE OnLock(k)
  <2>1. task[k].pc = "on_lock" /\ task'[k].pc = "on_check" /\ UNCHANGED engineVars
    BY <1>3, GoesTo DEF OnLock, At
  <2> QED BY <1>1, <1>2, <2>1, SameCores, SettledStep
<1>4. CASE OnCheck(k)
  <2>1. task[k].pc = "on_check" /\ UNCHANGED engineVars
    BY <1>4 DEF OnCheck, At
  <2>2. CASE "no" \in IsRunningAnswers /\ Goto(k, "on_start")
    <3>1. ~osProxy /\ task'[k].pc = "on_start"
      BY <1>2, <2>1, <2>2, GoesTo, SaysNo, LifecycleTypes DEF ProxyInv, ProxyBacked
    <3> QED BY <1>1, <1>2, <3>1 DEF ProxyInv
  <2>3. CASE Done(k)
    <3>1. task'[k].pc = "idle"
      BY <2>3, GoesTo
    <3> QED BY <1>1, <1>2, <2>1, <3>1, SameCores, SettledStep
  <2> QED BY <1>4, <2>2, <2>3 DEF OnCheck
<1>5. CASE OnStart(k)
  <2>1. task[k].pc = "on_start" /\ task \in [Clients -> TaskType] /\ task[k] \in TaskType
    BY <1>5, LifecycleTypes DEF OnStart, At
  <2>2. Done(k) \/ task' = [task EXCEPT ![k].tries = @ + 1]
    BY <1>5 DEF OnStart, BindRetry
  <2>3. task'[k].pc \in {"idle", "on_start"}
    BY <2>1, <2>2, GoesTo DEF TaskType
  <2> QED BY <1>1, <1>2, <2>1, <2>3, OutageStep
<1> QED BY <1>3, <1>4, <1>5

\* toggle_native_core(false) and shutdown_native_runtime, after the proxy.
LEMMA EndProxy ==
    ASSUME LifecycleInv, NEW k \in Clients, ProxyInv(k),
           \/ OffStop(k) \/ OffForce(k) \/ OffDiscard(k)
           \/ ShutdownStop(k) \/ ShutdownDiscard(k)
    PROVE  ProxyInv(k)'
<1>1. UNCHANGED osProxy
  BY DEF OffStop, OffForce, OffDiscard, ShutdownStop, ShutdownDiscard, proxyVars
<1>2. task[k].pc \in {"off_lock", "off_force", "off_discard", "sd_lock", "sd_discard"}
  BY DEF OffStop, OffForce, OffDiscard, ShutdownStop, ShutdownDiscard, At
<1>3. task'[k].pc \in {"idle", "off_force", "off_discard", "sd_discard", "sd_exit"}
  BY GoesTo DEF OffStop, OffForce, OffDiscard, ShutdownStop, ShutdownDiscard
<1>4. task[k].pc \in Outage /\ task'[k].pc \in Outage \cup Settled
  BY <1>2, <1>3 DEF Outage, Settled
<1> QED BY <1>1, <1>4, OutageStep

\* The process exit comes after the proxy was taken off.
LEMMA ExitProxy ==
    ASSUME LifecycleInv, NEW k \in Clients, ProxyInv(k), ShutdownExit(k)
    PROVE  ProxyInv(k)'
<1>1. task[k].pc = "sd_exit" /\ osProxy' = osProxy /\ task'[k].pc = "idle"
  BY DEF ShutdownExit, ProcessGone, At, Idle
<1>2. "sd_exit" \in Outage /\ "idle" \in Settled
  BY DEF Outage, Settled
<1> QED BY <1>1, <1>2, OutageStep

\* restart_native_core: a request that has not stopped the core yet.
LEMMA PrepareProxy ==
    ASSUME LifecycleInv, NEW k \in Clients, ProxyInv(k),
           RestartLock(k) \/ RestartPrepare(k) \/ PrepareLock(k) \/ PrepareTun(k) \/ ReleaseTun(k)
    PROVE  ProxyInv(k)'
<1>1. UNCHANGED <<osProxy, alive>>
  BY DEF RestartLock, RestartPrepare, PrepareLock, PrepareTun, ReleaseTun, proxyVars, boundVars
<1>2. /\ task[k].pc \in {"rs_lock", "rs_prepare", "pt_lock", "pt_prepare", "rl_lock"}
      /\ task \in [Clients -> TaskType] /\ task[k] \in TaskType /\ EngineInv
  BY LifecycleTypes DEF RestartLock, RestartPrepare, PrepareLock, PrepareTun, ReleaseTun, At
<1>3. task'[k].pc \in {"rs_prepare", "rs_stop", "pt_prepare", "idle"}
  <2>1. CASE RestartLock(k)
    BY <1>2, <2>1 DEF RestartLock, TaskType
  <2>2. CASE RestartPrepare(k) \/ PrepareLock(k) \/ PrepareTun(k) \/ ReleaseTun(k)
    BY <2>2, GoesTo DEF RestartPrepare, PrepareLock, PrepareTun, ReleaseTun
  <2> QED BY <2>1, <2>2
<1>4. CoreRuns => CoreRuns'
  <2>1. \/ UNCHANGED engineVars \/ DiscardPrepared
        \/ \E ans \in {"ok", "err"} : PrepareConfig(task[k].cfg, ans)
    BY DEF RestartLock, RestartPrepare, PrepareLock, PrepareTun, ReleaseTun
  <2> QED BY <1>2, <2>1, SameCores, PrepareKeepsCore, DiscardKeepsCore
<1>5. task[k].pc \in Settled /\ task'[k].pc \in Settled
  BY <1>2, <1>3 DEF Settled
<1> QED BY <1>1, <1>4, <1>5, SettledStep

\* Its calls while the core is exchanged: with a core reported, one runs.
LEMMA RestartProxyInv ==
    ASSUME LifecycleInv, NEW k \in Clients, ProxyInv(k),
           \/ RestartStop(k) \/ RestartRecheck(k) \/ RestartStart(k) \/ RestartObserve(k)
           \/ RestartRestore(k) \/ RestartReobserve(k) \/ RestartForce(k)
    PROVE  ProxyInv(k)'
<1>1. alive /\ alive' = alive
  BY DEF RestartStop, RestartRecheck, RestartStart, RestartObserve, RestartRestore,
     RestartReobserve, RestartForce, boundVars, At
<1>2. task \in [Clients -> TaskType] /\ task[k] \in TaskType /\ TransactionInv(k) /\ EngineInv
  BY LifecycleTypes
<1>3. CASE RestartStop(k)
  <2>1. task'[k].pc \in {"rs_start", "rs_force", "rs_recheck"}
    BY <1>3, GoesTo DEF RestartStop
  <2> QED BY <1>1, <2>1, RestartStep
<1>4. CASE RestartForce(k)
  <2>1. task'[k].pc = "rs_finish" /\ task'[k].outcome = "offline"
    BY <1>4, FinishesWith DEF RestartForce
  <2> QED BY <1>1, <2>1, RestartStep
<1>5. CASE RestartRecheck(k) \/ RestartObserve(k) \/ RestartReobserve(k)
  <2>1. UNCHANGED engineVars
    BY <1>5 DEF RestartRecheck, RestartObserve, RestartReobserve
  <2>2. \/ "yes" \in IsRunningAnswers /\ \E outcome \in Outcomes : Finish(k, outcome)
        \/ Finish(k, "offline") \/ Goto(k, "rs_start") \/ Goto(k, "rs_force")
        \/ task' = [task EXCEPT ![k].pc = "rs_restore", ![k].tries = 0]
    BY <1>5 DEF RestartRecheck, RestartObserve, RestartReobserve, Outcomes
  <2>3. CASE "yes" \in IsRunningAnswers /\ \E outcome \in Outcomes : Finish(k, outcome)
    <3>1. CoreRuns' /\ task'[k].pc = "rs_finish"
      BY <2>1, <2>3, SaysYes, SameCores, FinishesWith
    <3> QED BY <1>1, <3>1, RestartStep
  <2>4. CASE Finish(k, "offline")
    BY <1>1, <2>4, FinishesWith, RestartStep
  <2>5. CASE Goto(k, "rs_start") \/ Goto(k, "rs_force")
    <3>1. task'[k].pc \in {"rs_start", "rs_force"}
      BY <2>5, GoesTo
    <3> QED BY <1>1, <3>1, RestartStep
  <2>6. CASE task' = [task EXCEPT ![k].pc = "rs_restore", ![k].tries = 0]
    <3>1. task'[k].pc = "rs_restore"
      BY <1>2, <2>6 DEF TaskType
    <3> QED BY <1>1, <3>1, RestartStep
  <2> QED BY <2>2, <2>3, <2>4, <2>5, <2>6
<1>6. CASE RestartStart(k) \/ RestartRestore(k)
  <2>1. PICK c, ans : /\ c # None /\ StartConfig(c, ans)
                      /\ \/ ans = "ok" /\ \E outcome \in Outcomes : Finish(k, outcome)
                         \/ task' = [task EXCEPT ![k].tries = @ + 1]
                         \/ Goto(k, "rs_observe") \/ Goto(k, "rs_reobserve")
    <3>1. CASE RestartStart(k)
      <4>1. task[k].cfg # None
        <5>1. task[k].pc \in Targeted
          BY <3>1 DEF RestartStart, At, Targeted
        <5> QED BY <1>2, <5>1, ConfigAssumption DEF TransactionInv
      <4> QED BY <3>1, <4>1 DEF RestartStart, BindRetry, Outcomes
    <3>2. CASE RestartRestore(k)
      <4>1. task[k].prev # None
        BY <1>2, <3>2 DEF TransactionInv, StartingInv, RestartRestore, At
      <4> QED BY <3>2, <4>1 DEF RestartRestore, BindRetry, Outcomes
    <3> QED BY <1>6, <3>1, <3>2
  <2>2. CASE ans = "ok" /\ \E outcome \in Outcomes : Finish(k, outcome)
    <3>1. CoreRuns' /\ task'[k].pc = "rs_finish"
      BY <1>2, <2>1, <2>2, StartedRuns, FinishesWith
    <3> QED BY <1>1, <3>1, RestartStep
  <2>3. CASE task' = [task EXCEPT ![k].tries = @ + 1]
    <3>1. task[k].pc \in {"rs_start", "rs_restore"}
      BY <1>6 DEF RestartStart, RestartRestore, At
    <3>2. task'[k].pc \in {"rs_start", "rs_restore"}
      BY <1>2, <2>3, <3>1 DEF TaskType
    <3> QED BY <1>1, <3>2, RestartStep
  <2>4. CASE Goto(k, "rs_observe") \/ Goto(k, "rs_reobserve")
    <3>1. task'[k].pc \in {"rs_observe", "rs_reobserve"}
      BY <2>4, GoesTo
    <3> QED BY <1>1, <3>1, RestartStep
  <2> QED BY <2>1, <2>2, <2>3, <2>4
<1> QED BY <1>3, <1>4, <1>5, <1>6

\* What is recorded as running still runs; offline, the proxy is next.
LEMMA FinishProxy ==
    ASSUME LifecycleInv, NEW k \in Clients, ProxyInv(k), RestartFinish(k)
    PROVE  ProxyInv(k)'
<1>1. /\ UNCHANGED <<osProxy, alive>> /\ alive /\ task[k].pc = "rs_finish"
      /\ DiscardPrepared /\ EngineInv
  BY LifecycleTypes DEF RestartFinish, proxyVars, boundVars, At
<1>2. CASE task[k].outcome = "offline" /\ Goto(k, "rs_proxy")
  <2>1. task'[k].pc = "rs_proxy"
    BY <1>2, GoesTo
  <2> QED BY <1>1, <2>1, RestartStep
<1>3. CASE task[k].outcome # "offline" /\ Done(k)
  <2>1. ProxyBacked /\ task'[k].pc = "idle"
    BY <1>1, <1>3, GoesTo DEF ProxyInv
  <2>2. ProxyBacked'
    BY <1>1, <2>1, DiscardKeepsCore DEF ProxyBacked
  <2> QED BY <1>1, <2>1, <2>2 DEF ProxyInv, Enabling, Outage
<1> QED BY <1>2, <1>3 DEF RestartFinish

\* set_native_system_proxy(true): the core was seen, and nobody takes it down.
LEMMA EnableProxy ==
    ASSUME LifecycleInv, Faults = {}, NEW k \in Clients, ProxyInv(k),
           ProxyOn(k) \/ ProxyApply(k) \/ ProxyMark(k)
    PROVE  ProxyInv(k)'
<1>1. alive /\ alive' = alive /\ UNCHANGED engineVars
  BY DEF ProxyOn, ProxyApply, ProxyMark, boundVars, At
<1>2. /\ {"idle", "px_lock"} \subseteq Settled /\ {"px_apply", "px_mark"} = Enabling
      /\ {"px_apply", "px_mark"} \cap (Settled \cup Outage) = {}
      /\ "idle" \notin Enabling \cup Outage
  BY DEF Settled, Enabling, Outage
<1>3. CASE ProxyOn(k)
  <2>1. task[k].pc = "px_lock" /\ osProxy' = osProxy
    BY <1>3 DEF ProxyOn, At
  <2>2. CASE EnsureCoreRunning /\ Goto(k, "px_apply")
    <3>1. CoreRuns' /\ task'[k].pc = "px_apply"
      BY <1>1, <2>2, SaysYes, SameCores, GoesTo DEF EnsureCoreRunning
    <3> QED BY <1>1, <1>2, <3>1 DEF ProxyInv, ProxyBacked
  <2>3. CASE Done(k)
    <3>1. task'[k].pc = "idle"
      BY <2>3, GoesTo
    <3> QED BY <1>1, <1>2, <2>1, <3>1, SameCores, SettledStep
  <2> QED BY <1>3, <2>2, <2>3 DEF ProxyOn
<1>4. CASE ProxyApply(k) \/ ProxyMark(k)
  <2>1. task[k].pc \in Enabling /\ task'[k].pc \in {"px_mark", "idle"}
    BY <1>2, <1>4, GoesTo DEF ProxyApply, ProxyMark, At
  <2>2. CoreRuns'
    BY <1>1, <2>1, SameCores DEF ProxyInv
  <2>3. task'[k].pc \notin Outage
    BY <1>2, <2>1
  <2> QED BY <1>1, <2>2, <2>3 DEF ProxyInv, ProxyBacked
<1> QED BY <1>3, <1>4

\* A request arrives.
LEMMA NewProxy ==
    ASSUME LifecycleInv, NEW k \in Clients, ProxyInv(k), NewRequest(k)
    PROVE  ProxyInv(k)'
<1>1. PICK pc \in {"on_lock", "rs_lock", "pt_lock", "off_proxy", "rl_lock", "px_lock", "sd_proxy"},
           c \in Configs \cup {None} : Request(k, pc, c)
  BY DEF NewRequest
<1>2. /\ task[k].pc = "idle" /\ task'[k].pc = pc
      /\ UNCHANGED <<engineVars, osProxy, alive>>
  BY <1>1, LifecycleTypes DEF Request, At, Idle, TaskType, proxyVars
<1>3. "idle" \in Settled /\ pc \in Settled
  BY DEF Settled
<1> QED BY <1>2, <1>3, SameCores, SettledStep

\* Around the only request.
LEMMA AroundProxy ==
    ASSUME LifecycleInv, Faults = {}, MaxCrashes = 0, NEW k \in Clients, ProxyInv(k),
           Crash \/ Startup \/ Surroundings \/ UNCHANGED vars
    PROVE  ProxyInv(k)'
<1>1. ~Crash
  BY DEF Crash, LifecycleInv, LifecycleTypeOK
<1>2. CASE Startup
  <2>1. ~osProxy' /\ UNCHANGED <<engineVars, task>>
    <3>1. osProxy = FALSE
      BY <1>2 DEF Startup, ProxyInv, LifecycleInv, LifecycleTypeOK
    <3>2. osProxy' = FALSE
      BY <1>2, <3>1 DEF Startup
    <3> QED BY <1>2, <3>2 DEF Startup
  <2> QED BY <2>1, SameCores DEF ProxyInv, ProxyBacked
<1>3. CASE Surroundings \/ UNCHANGED vars
  <2>1. UNCHANGED <<osProxy, alive, task>>
    BY <1>3 DEF Surroundings, vars, apiVars, boundVars
  <2>2. CoreRuns => CoreRuns'
    <3>1. \/ UNCHANGED engineVars \/ PortTaken \/ PortReleased
          \/ \E h \in Helpers : HelperExits(h)
      BY <1>3 DEF Surroundings, vars
    <3> QED BY <3>1, SameCores, LeavingKeepsCore DEF LifecycleInv
  <2> QED BY <2>1, <2>2 DEF ProxyInv, ProxyBacked
<1> QED BY <1>1, <1>2, <1>3

\* One request at a time, with OS calls that work and no crash: every step
\* leaves an enabled proxy with a core behind it, or the request still to come
\* that takes the proxy off.
LEMMA ProxyStepInv ==
    ASSUME NEW k, Clients = {k}, Faults = {}, MaxCrashes = 0,
           LifecycleInv, ProxyInv(k), [Next]_vars
    PROVE  ProxyInv(k)'
<1>1. k \in Clients
  OBVIOUS
<1>2. CASE NewRequest(k)
  BY <1>1, <1>2, NewProxy
<1>3. CASE CoreStep(k)
  <2>1. CASE OnLock(k) \/ OnCheck(k) \/ OnStart(k)
    BY <1>1, <2>1, OnProxy
  <2>2. CASE OffProxy(k) \/ RestartProxy(k) \/ ShutdownProxy(k)
    BY <1>1, <2>2, DisableWorks
  <2>3. CASE OffStop(k) \/ OffForce(k) \/ OffDiscard(k) \/ ShutdownStop(k) \/ ShutdownDiscard(k)
    BY <1>1, <2>3, EndProxy
  <2>4. CASE RestartLock(k) \/ RestartPrepare(k) \/ PrepareLock(k) \/ PrepareTun(k) \/ ReleaseTun(k)
    BY <1>1, <2>4, PrepareProxy
  <2>5. CASE \/ RestartStop(k) \/ RestartRecheck(k) \/ RestartStart(k) \/ RestartObserve(k)
             \/ RestartRestore(k) \/ RestartReobserve(k) \/ RestartForce(k)
    BY <1>1, <2>5, RestartProxyInv
  <2>6. CASE RestartFinish(k)
    BY <1>1, <2>6, FinishProxy
  <2>7. CASE ProxyOn(k) \/ ProxyApply(k) \/ ProxyMark(k)
    BY <1>1, <2>7, EnableProxy
  <2>8. CASE ShutdownExit(k)
    BY <1>1, <2>8, ExitProxy
  <2> QED BY <1>3, <2>1, <2>2, <2>3, <2>4, <2>5, <2>6, <2>7, <2>8 DEF CoreStep
<1>4. CASE Crash \/ Startup \/ Surroundings \/ AtRest \/ UNCHANGED vars
  BY <1>1, <1>4, AroundProxy DEF AtRest
<1> QED BY <1>2, <1>3, <1>4 DEF Next

\* With one request at a time, working OS calls and no crash, the OS proxy never
\* points at a core that is gone when nothing is in flight: every stop takes the
\* proxy off before the core, and a restart that ends offline takes it off after.
\* With two requests the statement is false (core_off_race).
THEOREM LifecycleNoDanglingProxy ==
    ASSUME NEW k, Clients = {k}, Faults = {}, MaxCrashes = 0
    PROVE  Spec => []NoDanglingProxy
<1>1. Init => ProxyInv(k)
  <2>1. "idle" \notin Enabling \cup Outage
    BY DEF Enabling, Outage
  <2> QED BY <2>1 DEF Init, ProxyInv, ProxyBacked, Idle
<1>2. LifecycleInv /\ ProxyInv(k) /\ [Next]_vars => ProxyInv(k)'
  BY ProxyStepInv
<1>3. ProxyInv(k) => NoDanglingProxy
  <2>1. "idle" \in Settled
    BY DEF Settled
  <2> QED BY <2>1 DEF ProxyInv, ProxyBacked, NoDanglingProxy
<1> QED BY <1>1, <1>2, <1>3, LifecycleSafe, PTL DEF Spec
=============================================================================
