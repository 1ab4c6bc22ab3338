------------------------- MODULE SingBoxEngineProofs -------------------------
(***************************************************************************)
(* EngineInv is an inductive invariant of the engine, for any sets of      *)
(* configurations and of helpers. The argument: a helper table only grows  *)
(* by one helper, in PrepareLaunch, which the preparation then owns; every *)
(* other action moves a handle between backend and preparation or drops    *)
(* it, and what is dropped is no longer up (lemma DropEnds).               *)
(***************************************************************************)
EXTENDS SingBoxEngine, TLAPS

HelperTable == [Helpers -> [state : {"gone", "up", "leaving"},
                            core : Configs \cup {None}]]

-----------------------------------------------------------------------------
\* Dropping the helpers of D leaves a helper table in which no helper of D is
\* up and every other one is what it was (PrivilegedCore::shutdown and drop).
LEMMA DropEnds ==
    ASSUME NEW D \in SUBSET Helpers, NEW t \in HelperTable,
           NEW u \in AfterDrop(t, D)
    PROVE  /\ u \in HelperTable
           /\ \A h \in D : u[h].state # "up"
           /\ \A h \in Helpers \ D : u[h] = t[h]
<1>1. PICK stuck \in SUBSET D :
        u = [h \in Helpers |->
               CASE h \notin D -> t[h]
                 [] h \in D /\ h \in stuck /\ t[h].state = "up" ->
                      [state |-> "leaving", core |-> t[h].core]
                 [] OTHER -> Gone]
  BY DEF AfterDrop
<1>2. ASSUME NEW h \in Helpers \ D PROVE u[h] = t[h]
  BY <1>1, <1>2
<1>3. ASSUME NEW h \in D
      PROVE u[h] = Gone \/ u[h] = [state |-> "leaving", core |-> t[h].core]
  <2>1. CASE h \in stuck /\ t[h].state = "up"
    BY <1>1, <1>3, <2>1
  <2>2. CASE ~(h \in stuck /\ t[h].state = "up")
    BY <1>1, <1>3, <2>2
  <2>3. QED BY <2>1, <2>2
<1>4. ASSUME NEW h \in D
      PROVE /\ u[h] \in [state : {"gone", "up", "leaving"}, core : Configs \cup {None}]
            /\ u[h].state # "up"
  <2>1. h \in Helpers /\ t[h] \in [state : {"gone", "up", "leaving"},
                                 core : Configs \cup {None}]
    BY DEF HelperTable
  <2>2. CASE u[h] = Gone
    BY <2>2 DEF Gone
  <2>3. CASE u[h] = [state |-> "leaving", core |-> t[h].core]
    BY <2>1, <2>3
  <2>4. QED BY <1>3, <2>2, <2>3
<1>5. u = [h \in Helpers |-> u[h]]
  BY <1>1
<1>6. ASSUME NEW h \in Helpers \ D
      PROVE u[h] \in [state : {"gone", "up", "leaving"}, core : Configs \cup {None}]
  BY <1>2 DEF HelperTable
<1>7. u \in HelperTable
  BY <1>4, <1>5, <1>6 DEF HelperTable
<1>8. QED BY <1>2, <1>4, <1>7

\* What an answer of SingBox::is_running tells: with "no", the core of the
\* backend does not run, and a privileged backend is a live, idle helper.
LEMMA NotRunning ==
    ASSUME "no" \in IsRunningAnswers
    PROVE  /\ backend \in Helpers => HelperUp(backend) /\ helpers[backend].core = None
           /\ backend = "Embedded" /\ backend \notin Helpers => embedded = None
BY DEF IsRunningAnswers

\* A ping answered TRUE came from a helper that is up.
LEMMA PingTrue ==
    ASSUME NEW h, TRUE \in PingAnswers(h)
    PROVE  HelperUp(h)
BY DEF PingAnswers

-----------------------------------------------------------------------------
\* The engine starts with no core, no preparation and no helper.
LEMMA InitInv == EngineInit => EngineInv
BY HelperAssumption, ConfigAssumption
   DEF EngineInit, EngineInv, TypeOK, NoOrphanHelper, RunningCoreIsReachable,
       PreparedIsNotLive, NoPrepared, Gone, HelperUp, Owned

\* A call that only lets go of handles: the helpers of D are dropped from a
\* table t that has no helper up which was not up, and no core which was not
\* there; what remains owned covers all of the owned helpers outside D.
LEMMA LettingGo ==
    ASSUME EngineInv,
           NEW D \in SUBSET Helpers, NEW t \in HelperTable,
           \A h \in Helpers : t[h].state = "up" => HelperUp(h),
           \A h \in Helpers : t[h].core # None => helpers[h].core # None,
           helpers' \in AfterDrop(t, D),
           backend' \in {backend, "Stopped"},
           embedded' \in {None, embedded},
           embedded' # None => backend' = "Embedded",
           prepared' \in {prepared, NoPrepared, [some |-> TRUE, helper |-> None]},
           portBusy' \in BOOLEAN,
           backend \in Helpers /\ backend' # backend => backend \in D,
           prepared' # prepared => {prepared.helper} \cap Helpers \subseteq D
    PROVE  EngineInv'
<1>1. /\ helpers' \in HelperTable
      /\ \A h \in D : helpers'[h].state # "up"
      /\ \A h \in Helpers \ D : helpers'[h] = t[h]
  BY DropEnds
<1>2. TypeOK'
  <2>1. helpers' \in HelperTable
    BY <1>1
  <2>2. prepared' \in [some : BOOLEAN, helper : Helpers \cup {None}]
    <3>1. CASE prepared' = prepared
      BY <3>1 DEF EngineInv, TypeOK
    <3>2. CASE prepared' = NoPrepared
      BY <3>2 DEF NoPrepared
    <3>3. CASE prepared' = [some |-> TRUE, helper |-> None]
      BY <3>3
    <3>4. QED BY <3>1, <3>2, <3>3
  <2>3. backend' \in {"Stopped", "Embedded"} \cup Helpers
    BY DEF EngineInv, TypeOK
  <2>4. embedded' \in Configs \cup {None}
    BY DEF EngineInv, TypeOK
  <2>5. QED BY <2>1, <2>2, <2>3, <2>4 DEF TypeOK, HelperTable
<1>3. NoOrphanHelper'
  BY <1>1 DEF EngineInv, NoOrphanHelper, HelperUp, Owned, TypeOK
<1>4. RunningCoreIsReachable'
  BY <1>1 DEF EngineInv, RunningCoreIsReachable, HelperUp, TypeOK
<1>5. PreparedIsNotLive'
  BY HelperAssumption DEF EngineInv, PreparedIsNotLive, NoPrepared, TypeOK
<1>6. QED BY <1>2, <1>3, <1>4, <1>5 DEF EngineInv
-----------------------------------------------------------------------------
\* A step that changes nothing.
LEMMA Stutter == EngineInv /\ UNCHANGED engineVars => EngineInv'
BY DEF EngineInv, engineVars, TypeOK, NoOrphanHelper, RunningCoreIsReachable,
       PreparedIsNotLive, HelperUp, Owned

\* SingBox::prepare_config.
LEMMA PrepareReuseInv ==
    ASSUME EngineInv, NEW c \in Configs, NEW ans, PrepareReuse(c, ans)
    PROVE  EngineInv'
<1>1. CASE c \in TunConfigs
  <2>1. prepared' = prepared
    BY <1>1 DEF PrepareReuse, EngineInv, TypeOK
  <2>2. helpers' \in AfterDrop(helpers, {})
    BY <1>1 DEF PrepareReuse
  <2>3. QED BY <2>1, <2>2, LettingGo DEF PrepareReuse, EngineInv, TypeOK, HelperTable,
             RunningCoreIsReachable, HelperUp
<1>2. CASE c \notin TunConfigs
  <2>1. /\ prepared' = [some |-> TRUE, helper |-> None]
        /\ helpers' \in AfterDrop(helpers, {prepared.helper} \cap Helpers)
    BY <1>2 DEF PrepareReuse
  <2>2. QED BY <2>1, LettingGo DEF PrepareReuse, EngineInv, TypeOK, HelperTable,
             RunningCoreIsReachable, HelperUp
<1>3. QED BY <1>1, <1>2

\* A preparation that finds the running helper reusable takes it as it is.
LEMMA PrepareCurrentInv ==
    ASSUME EngineInv, NEW c \in Configs, NEW ans,
           PrepareCurrent(c, ans) \/ PreparePlain(c, ans)
    PROVE  EngineInv'
<1>1. CASE PrepareCurrent(c, ans)
  BY <1>1, LettingGo DEF PrepareCurrent, EngineInv, TypeOK, HelperTable,
     RunningCoreIsReachable, HelperUp
<1>2. CASE PreparePlain(c, ans)
  BY <1>2 DEF PreparePlain, EngineInv, TypeOK, NoOrphanHelper, Owned,
     RunningCoreIsReachable, PreparedIsNotLive, HelperUp
<1>3. QED BY <1>1, <1>2

\* A preparation that launches keeps the new helper or leaves it to its lease.
LEMMA PrepareLaunchInv ==
    ASSUME EngineInv, NEW c \in Configs, NEW ans, PrepareLaunch(c, ans)
    PROVE  EngineInv'
<1>1. PICK h \in Helpers \ Owned :
        /\ helpers[h].state = "gone"
        /\ prepared' = [some |-> TRUE, helper |-> h]
        /\ helpers' \in AfterDrop([helpers EXCEPT ![h] = [state |-> "up", core |-> None]],
                                 {prepared.helper} \cap Helpers)
  BY DEF PrepareLaunch
<1> DEFINE t == [helpers EXCEPT ![h] = [state |-> "up", core |-> None]]
           D == {prepared.helper} \cap Helpers
<1>2. t \in HelperTable
  BY DEF EngineInv, TypeOK, HelperTable
<1>3. /\ helpers' \in HelperTable
      /\ \A g \in D : helpers'[g].state # "up"
      /\ \A g \in Helpers \ D : helpers'[g] = t[g]
  <2> HIDE DEF t, D
  <2>1. D \in SUBSET Helpers /\ helpers' \in AfterDrop(t, D)
    BY <1>1 DEF t, D
  <2>2. QED BY <1>2, <2>1, DropEnds
<1>4. h # backend /\ h \notin D
  BY DEF Owned
<1>5. TypeOK'
  BY <1>1, <1>3 DEF PrepareLaunch, EngineInv, TypeOK, HelperTable
<1>6. NoOrphanHelper'
  BY <1>1, <1>3 DEF PrepareLaunch, EngineInv, NoOrphanHelper, HelperUp, Owned, TypeOK
<1>7. RunningCoreIsReachable'
  BY <1>1, <1>3 DEF PrepareLaunch, EngineInv, RunningCoreIsReachable, HelperUp, TypeOK
<1>8. PreparedIsNotLive'
  BY <1>1, <1>4 DEF PrepareLaunch, PreparedIsNotLive
<1>9. QED BY <1>5, <1>6, <1>7, <1>8 DEF EngineInv

\* SingBox::discard_prepared_config.
LEMMA DiscardInv == EngineInv /\ DiscardPrepared => EngineInv'
<1> SUFFICES ASSUME EngineInv, DiscardPrepared PROVE EngineInv'
  OBVIOUS
<1>1. PICK idle \in BOOLEAN :
        LET D == ({prepared.helper} \cup (IF idle THEN {backend} ELSE {})) \cap Helpers
        IN /\ idle => backend \in Helpers
           /\ prepared' = NoPrepared
           /\ backend' = IF idle THEN "Stopped" ELSE backend
           /\ helpers' \in AfterDrop(helpers, D)
           /\ UNCHANGED <<embedded, portBusy>>
  BY DEF DiscardPrepared
<1>2. idle => backend # "Embedded"
  BY <1>1, HelperAssumption
<1>3. QED BY <1>1, <1>2, LettingGo DEF EngineInv, TypeOK, HelperTable,
           RunningCoreIsReachable, HelperUp
-----------------------------------------------------------------------------
\* SingBox::start_config, with an embedded core.
LEMMA StartEmbeddedInv ==
    ASSUME EngineInv, NEW c \in Configs, NEW ans, StartEmbedded(c, ans)
    PROVE  EngineInv'
<1>1. CASE ans = "ok" /\ embedded' = c /\ backend' = "Embedded"
           /\ helpers' \in AfterDrop(helpers, Owned)
  <2>1. Owned \in SUBSET Helpers /\ helpers \in HelperTable
    BY DEF Owned, EngineInv, TypeOK, HelperTable
  <2>2. /\ helpers' \in HelperTable
        /\ \A g \in Owned : helpers'[g].state # "up"
        /\ \A g \in Helpers \ Owned : helpers'[g] = helpers[g]
    BY <1>1, <2>1, DropEnds
  <2>3. \A g \in Helpers : helpers'[g].state # "up"
    BY <2>2 DEF EngineInv, NoOrphanHelper, HelperUp
  <2>4. QED BY <1>1, <2>2, <2>3, ConfigAssumption
          DEF StartEmbedded, EngineInv, TypeOK, NoOrphanHelper, RunningCoreIsReachable,
              PreparedIsNotLive, HelperUp, NoPrepared, HelperTable
<1>2. CASE helpers' \in AfterDrop(helpers, {prepared.helper} \cap Helpers)
           /\ UNCHANGED <<backend, embedded>>
  BY <1>2, LettingGo DEF StartEmbedded, EngineInv, TypeOK, HelperTable,
     RunningCoreIsReachable, HelperUp
<1>3. QED BY <1>1, <1>2 DEF StartEmbedded

\* What a Start request can leave in the helper table: only the core of the
\* helper it was sent to can change, and that helper was up and the port free.
LEMMA HelperStartEffect ==
    ASSUME EngineInv, NEW h \in Helpers, NEW c \in Configs, NEW ans,
           NEW t \in HelperStart(h, c, ans)
    PROVE  /\ t \in HelperTable
           /\ \A g \in Helpers : t[g].state = helpers[g].state
           /\ \A g \in Helpers \ {h} : t[g] = helpers[g]
<1>1. t = helpers \/ t = [helpers EXCEPT ![h].core = c]
  BY DEF HelperStart
<1>2. QED BY <1>1 DEF EngineInv, TypeOK, HelperTable

\* SingBox::start_config, with a TUN: the start runs in the prepared helper,
\* else in the helper of the previous core; the loser of the two is dropped.
LEMMA StartTunInv ==
    ASSUME EngineInv, NEW c \in Configs, NEW ans, StartTun(c, ans)
    PROVE  EngineInv'
<1>1. PICK ready \in IF backend \in Helpers THEN PingAnswers(backend) ELSE {FALSE} :
         LET previous == IF ready THEN backend ELSE None
             stale    == IF ready THEN {} ELSE {backend} \cap Helpers
             h        == IF prepared.helper # None THEN prepared.helper ELSE previous
         IN \/ /\ h = None
               /\ ans = "notPrepared"
               /\ backend' = "Stopped"
               /\ helpers' \in AfterDrop(helpers, stale)
               /\ UNCHANGED portBusy
            \/ /\ h # None
               /\ \E t \in HelperStart(h, c, ans) :
                    LET D == stale \cup (IF ans = "ok" THEN {previous} \ {h, None}
                                         ELSE {prepared.helper} \ {None})
                    IN /\ helpers' \in AfterDrop(t, D)
                       /\ PortAfterClose(ClosesCore(t, D))
               /\ backend' = IF ans = "ok" \/ prepared.helper = None THEN h
                             ELSE IF previous # None THEN previous ELSE "Stopped"
  BY DEF StartTun
<1> DEFINE previous == IF ready THEN backend ELSE None
           stale == IF ready THEN {} ELSE {backend} \cap Helpers
           h == IF prepared.helper # None THEN prepared.helper ELSE previous
<1>2. /\ ready => backend \in Helpers
      /\ prepared' = NoPrepared /\ embedded' = None
      /\ None \notin Helpers /\ "Stopped" \notin Helpers /\ "Embedded" \notin Helpers
      /\ prepared.helper \in Helpers \cup {None}
      /\ prepared.helper # None => prepared.helper # backend
      /\ helpers \in HelperTable
  BY HelperAssumption
     DEF StartTun, PingAnswers, EngineInv, TypeOK, PreparedIsNotLive, HelperTable
\* The helper of the backend runs no core, and no other helper does.
<1>3. \A g \in Helpers : HelperUp(g) => helpers[g].core = None
  BY NotRunning DEF StartTun, EngineInv, RunningCoreIsReachable
<1>4. CASE h = None /\ backend' = "Stopped" /\ helpers' \in AfterDrop(helpers, stale)
           /\ UNCHANGED portBusy
  <2>1. prepared.helper = None /\ ~ready /\ stale = {backend} \cap Helpers
    BY <1>2, <1>4
  <2>2. /\ helpers' \in HelperTable
        /\ \A g \in stale : helpers'[g].state # "up"
        /\ \A g \in Helpers \ stale : helpers'[g] = helpers[g]
    <3>1. stale \in SUBSET Helpers
      OBVIOUS
    <3> HIDE DEF stale
    <3>2. QED BY <1>2, <1>4, <3>1, DropEnds
  <2>3. QED BY <1>2, <1>4, <2>1, <2>2
          DEF EngineInv, TypeOK, NoOrphanHelper, RunningCoreIsReachable,
              PreparedIsNotLive, HelperUp, Owned, NoPrepared, HelperTable
<1>5. CASE h # None
  <2>1. h \in Helpers
    BY <1>2, <1>5
  <2> DEFINE D == stale \cup (IF ans = "ok" THEN {previous} \ {h, None}
                              ELSE {prepared.helper} \ {None})
  <2>2. PICK t \in HelperStart(h, c, ans) :
          helpers' \in AfterDrop(t, D) /\ PortAfterClose(ClosesCore(t, D))
    BY <1>1, <1>5
  <2>3. backend' = IF ans = "ok" \/ prepared.helper = None THEN h
                   ELSE IF previous # None THEN previous ELSE "Stopped"
    BY <1>1, <1>5
  <2>4. /\ t \in HelperTable
        /\ \A g \in Helpers : t[g].state = helpers[g].state
        /\ \A g \in Helpers \ {h} : t[g] = helpers[g]
    BY <2>1, <2>2, HelperStartEffect
  <2>5. D \in SUBSET Helpers
    BY <1>2
  <2>6. /\ helpers' \in HelperTable
        /\ \A g \in D : helpers'[g].state # "up"
        /\ \A g \in Helpers \ D : helpers'[g] = t[g]
    <3> HIDE DEF D
    <3>1. QED BY <2>2, <2>4, <2>5, DropEnds
  \* Nobody but the new backend is up afterwards.
  <2>7. Owned \subseteq D \cup {backend'}
    BY <1>2, <2>1, <2>3 DEF Owned
  <2>8. \A g \in Helpers : helpers'[g].state = "up" => g = backend'
    BY <2>4, <2>6, <2>7 DEF EngineInv, NoOrphanHelper, HelperUp
  <2>9. backend' \in Helpers \cup {"Stopped"}
    BY <1>2, <2>1, <2>3
  <2>10. portBusy' \in BOOLEAN
    BY <2>2 DEF PortAfterClose, EngineInv, TypeOK, ClosesCore
  <2>11. TypeOK'
    BY <1>2, <2>6, <2>9, <2>10 DEF TypeOK, NoPrepared, HelperTable
  <2>12. NoOrphanHelper' /\ RunningCoreIsReachable' /\ PreparedIsNotLive'
    BY <1>2, <2>8
       DEF NoOrphanHelper, RunningCoreIsReachable, PreparedIsNotLive, HelperUp, Owned,
           NoPrepared
  <2>13. QED BY <2>11, <2>12 DEF EngineInv
<1>6. QED BY <1>1, <1>4, <1>5

\* SingBox::start_config.
LEMMA StartInv ==
    ASSUME EngineInv, NEW c \in Configs, NEW ans, StartConfig(c, ans)
    PROVE  EngineInv'
BY Stutter, StartTunInv, StartEmbeddedInv DEF StartConfig, StartRefused

-----------------------------------------------------------------------------
\* SingBox::stop.
LEMMA StopInv == ASSUME EngineInv, NEW ans, Stop(ans) PROVE EngineInv'
<1>1. CASE StopNothing(ans)
  BY <1>1, Stutter DEF StopNothing
<1>2. CASE StopEmbedded(ans)
  <2>1. helpers' \in AfterDrop(helpers, {}) \/ UNCHANGED helpers
        \/ helpers' \in AfterDrop(helpers, {prepared.helper} \cap Helpers)
    BY <1>2 DEF StopEmbedded
  <2>2. CASE ans = "ok" /\ backend' = "Stopped" /\ UNCHANGED <<prepared, helpers>>
    BY <1>2, <2>2, HelperAssumption
       DEF StopEmbedded, EngineInv, TypeOK, NoOrphanHelper, Owned, HelperUp,
           RunningCoreIsReachable, PreparedIsNotLive, PortAfterClose
  <2>3. CASE /\ prepared' = NoPrepared
             /\ helpers' \in AfterDrop(helpers, {prepared.helper} \cap Helpers)
             /\ UNCHANGED backend
    BY <1>2, <2>3, LettingGo
       DEF StopEmbedded, EngineInv, TypeOK, HelperTable, HelperUp, PortAfterClose
  <2>4. QED BY <1>2, <2>2, <2>3 DEF StopEmbedded
<1>3. CASE StopPrivileged(ans)
  <2> DEFINE stopped == [helpers EXCEPT ![backend].core = None]
  <2>1. /\ backend \in Helpers /\ embedded' = embedded /\ embedded = None
        /\ helpers \in HelperTable /\ stopped \in HelperTable
        /\ \A g \in Helpers : stopped[g].state = helpers[g].state
        /\ \A g \in Helpers : stopped[g].core # None => helpers[g].core # None
    BY <1>3, HelperAssumption
       DEF StopPrivileged, EngineInv, TypeOK, HelperTable, RunningCoreIsReachable
  <2>2. portBusy' \in BOOLEAN
    BY <1>3 DEF StopPrivileged, PortAfterClose, EngineInv, TypeOK
  <2>3. CASE backend' = backend /\ helpers' = stopped /\ UNCHANGED prepared
    BY <2>1, <2>2, <2>3
       DEF EngineInv, TypeOK, HelperTable, NoOrphanHelper, Owned, HelperUp,
           RunningCoreIsReachable, PreparedIsNotLive
  <2>4. CASE /\ backend' = "Stopped" /\ helpers' \in AfterDrop(stopped, {backend})
             /\ UNCHANGED prepared
    <3> HIDE DEF stopped
    <3>1. QED BY <2>1, <2>2, <2>4, LettingGo DEF HelperUp
  <2>5. ASSUME NEW t \in {helpers, stopped},
               prepared' = NoPrepared, UNCHANGED backend,
               helpers' \in AfterDrop(t, {prepared.helper} \cap Helpers)
        PROVE  EngineInv'
    <3> HIDE DEF stopped
    <3>1. t \in HelperTable /\ \A g \in Helpers : t[g].state = helpers[g].state
      BY <2>1
    <3>2. \A g \in Helpers : t[g].core # None => helpers[g].core # None
      BY <2>1
    <3>3. QED BY <2>1, <2>2, <2>5, <3>1, <3>2, LettingGo DEF HelperUp
  <2>6. QED BY <1>3, <2>3, <2>4, <2>5 DEF StopPrivileged
<1>4. QED BY <1>1, <1>2, <1>3 DEF Stop

\* SingBox::force_shutdown.
LEMMA ForceInv == EngineInv /\ ForceShutdown => EngineInv'
<1> SUFFICES ASSUME EngineInv, ForceShutdown PROVE EngineInv'
  OBVIOUS
<1>1. Owned \in SUBSET Helpers /\ helpers \in HelperTable
  BY DEF Owned, EngineInv, TypeOK, HelperTable
<1>2. portBusy' \in BOOLEAN
  BY DEF ForceShutdown, PortAfterClose, ClosesCore, EngineInv, TypeOK
<1>3. {prepared.helper} \cap Helpers \subseteq Owned
  BY DEF Owned
<1>4. backend \in Helpers => backend \in Owned
  BY DEF Owned
<1>5. QED BY <1>1, <1>2, <1>3, <1>4, LettingGo DEF ForceShutdown, HelperUp

-----------------------------------------------------------------------------
\* The death of the application, of a helper, and what happens to the port.
LEMMA ProcessDiesInv == EngineInv /\ ProcessDies => EngineInv'
<1> SUFFICES ASSUME EngineInv, ProcessDies PROVE EngineInv'
  OBVIOUS
<1>1. ASSUME NEW h \in Helpers
      PROVE  /\ helpers'[h] \in [state : {"gone", "up", "leaving"},
                                 core : Configs \cup {None}]
             /\ helpers'[h].state # "up"
  <2>1. CASE HelperUp(h)
    <3>1. helpers'[h] = [helpers[h] EXCEPT !.state = "leaving"]
      BY <2>1 DEF ProcessDies
    <3>2. QED BY <3>1 DEF EngineInv, TypeOK
  <2>2. CASE ~HelperUp(h)
    BY <2>2 DEF ProcessDies, HelperUp, EngineInv, TypeOK
  <2>3. QED BY <2>1, <2>2
<1>2. helpers' = [h \in Helpers |-> helpers'[h]]
  BY DEF ProcessDies
<1>3. TypeOK'
  BY <1>1, <1>2 DEF ProcessDies, NoPrepared, PortAfterClose, EngineInv, TypeOK
<1>4. QED BY <1>1, <1>3, HelperAssumption
      DEF EngineInv, ProcessDies, NoOrphanHelper, RunningCoreIsReachable,
          PreparedIsNotLive, NoPrepared, HelperUp, Owned

\* What happens around the engine preserves the invariant.
LEMMA EnvironmentInv == EngineInv /\ Environment => EngineInv'
<1> SUFFICES ASSUME EngineInv, Environment PROVE EngineInv'
  OBVIOUS
<1>1. ASSUME NEW h \in Helpers, HelperCrashes(h) \/ HelperExits(h) PROVE EngineInv'
  <2>1. /\ helpers' = [helpers EXCEPT ![h] = Gone]
        /\ UNCHANGED <<backend, embedded, prepared>>
        /\ portBusy' \in BOOLEAN
    BY <1>1 DEF HelperCrashes, HelperExits, PortAfterClose, EngineInv, TypeOK
  <2>2. TypeOK'
    BY <2>1 DEF EngineInv, TypeOK, Gone
  <2>3. NoOrphanHelper' /\ RunningCoreIsReachable' /\ PreparedIsNotLive'
    BY <2>1 DEF EngineInv, TypeOK, NoOrphanHelper, RunningCoreIsReachable,
       PreparedIsNotLive, HelperUp, Owned, Gone
  <2>4. QED BY <2>2, <2>3 DEF EngineInv
<1>2. CASE PortTaken \/ PortReleased
  BY <1>2 DEF PortTaken, PortReleased, EngineInv, TypeOK, NoOrphanHelper,
     RunningCoreIsReachable, PreparedIsNotLive, HelperUp, Owned
<1>3. QED BY <1>1, <1>2 DEF Environment

-----------------------------------------------------------------------------
\* Every step of the engine and of its environment preserves the invariant.
LEMMA StepInv == EngineInv /\ [EngineNext]_engineVars => EngineInv'
<1> SUFFICES ASSUME EngineInv, [EngineNext]_engineVars PROVE EngineInv'
  OBVIOUS
<1>1. ASSUME NEW c \in Configs, NEW ans, PrepareConfig(c, ans) PROVE EngineInv'
  <2>1. CASE PrepareRefused(ans)
    BY <2>1, Stutter DEF PrepareRefused
  <2>2. QED BY <1>1, <2>1, PrepareReuseInv, PrepareCurrentInv, PrepareLaunchInv
            DEF PrepareConfig
<1>2. CASE \E c \in Configs, ans \in {"ok", "err"} : PrepareConfig(c, ans)
  BY <1>1, <1>2
<1>3. CASE \E c \in Configs, ans \in {"ok", "inuse", "already", "notPrepared", "err"} :
             StartConfig(c, ans)
  BY <1>3, StartInv
<1>4. CASE \E ans \in {"ok", "err"} : Stop(ans)
  BY <1>4, StopInv
<1>5. CASE DiscardPrepared \/ ForceShutdown \/ ProcessDies \/ Environment
  BY <1>5, DiscardInv, ForceInv, ProcessDiesInv, EnvironmentInv
<1>6. CASE UNCHANGED engineVars
  BY <1>6, Stutter
<1>7. QED BY <1>2, <1>3, <1>4, <1>5, <1>6 DEF EngineNext

\* The engine keeps its invariant in every behaviour, for every set of helpers
\* and configurations: type correctness, no administrator helper out of reach,
\* no core running behind the back of the engine, and a preparation that is
\* never the live helper.
THEOREM EngineSafe == EngineSpec => []EngineInv
<1>1. EngineInit => EngineInv
  BY InitInv
<1>2. EngineInv /\ [EngineNext]_engineVars => EngineInv'
  BY StepInv
<1>3. QED BY <1>1, <1>2, PTL DEF EngineSpec

\* Type correctness of the engine.
THEOREM EngineTypeOK == EngineSpec => []TypeOK
<1>1. EngineInv => TypeOK
  BY DEF EngineInv
<1>2. QED BY <1>1, EngineSafe, PTL

\* No sequence of engine calls leaks an elevated helper: one that still holds
\* its lease is the backend's or the preparation's.
THEOREM EngineNoOrphanHelper == EngineSpec => []NoOrphanHelper
<1>1. EngineInv => NoOrphanHelper
  BY DEF EngineInv
<1>2. QED BY <1>1, EngineSafe, PTL

\* A core that runs is the backend's, so is_running tells of every core.
THEOREM EngineCoreIsReachable == EngineSpec => []RunningCoreIsReachable
<1>1. EngineInv => RunningCoreIsReachable
  BY DEF EngineInv
<1>2. QED BY <1>1, EngineSafe, PTL

\* Dropping a preparation never takes the live core down.
THEOREM EnginePreparedIsNotLive == EngineSpec => []PreparedIsNotLive
<1>1. EngineInv => PreparedIsNotLive
  BY DEF EngineInv
<1>2. QED BY <1>1, EngineSafe, PTL
=============================================================================
