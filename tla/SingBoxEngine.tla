---------------------------- MODULE SingBoxEngine ----------------------------
(***************************************************************************)
(* The engine object of packages/singbox/src/lib.rs: struct SingBox with   *)
(* its backend (no core, a core embedded in this process, or a core inside *)
(* an elevated TUN helper) and its prepared configuration, together with   *)
(* the helper processes it launches and the mixed port every core binds.   *)
(*                                                                         *)
(* Each public method is an action with its answer as the last argument,   *)
(* so that a caller (module CoreLifecycle) can branch on what it got.      *)
(* The engine itself is used under one lock: its methods never overlap.    *)
(***************************************************************************)
EXTENDS Naturals, FiniteSets

CONSTANTS
    Configs,     \* the core configurations a caller may ask for
    TunConfigs,  \* those with a TUN inbound: they need an elevated helper
    Helpers,     \* identities of helper processes, reused once free
    None         \* no configuration, no helper

ASSUME ConfigAssumption == TunConfigs \subseteq Configs /\ None \notin Configs
ASSUME HelperAssumption == Helpers \cap {None, "Stopped", "Embedded"} = {}

VARIABLES
    backend,     \* "Stopped", "Embedded" or the helper of a Privileged backend
    embedded,    \* configuration run by the in-process core, None without a handle
    prepared,    \* SingBox.prepared_config: is there one, and the helper it owns
    helpers,     \* per helper: the process and the core configuration it runs
    portBusy     \* the mixed port is in TIME_WAIT or taken by another program

engineVars == <<backend, embedded, prepared, helpers, portBusy>>

NoPrepared == [some |-> FALSE, helper |-> None]
\* Regression: the child is killed but never waited for.
GoneUnreaped == [state |-> "zombie", core |-> None]
Gone == [state |-> "gone", core |-> None]

TypeOK ==
    /\ backend \in {"Stopped", "Embedded"} \cup Helpers
    /\ embedded \in Configs \cup {None}
    /\ prepared \in [some : BOOLEAN, helper : Helpers \cup {None}]
    /\ helpers \in [Helpers -> [state : {"gone", "up", "leaving"},
                                core : Configs \cup {None}]]
    /\ portBusy \in BOOLEAN

EngineInit ==
    /\ backend = "Stopped"
    /\ embedded = None
    /\ prepared = NoPrepared
    /\ helpers = [h \in Helpers |-> Gone]
    /\ portBusy \in BOOLEAN

-----------------------------------------------------------------------------
HelperUp(h) == helpers[h].state = "up"

\* The helpers this process still holds a lease and a child handle for.
Owned == {backend, prepared.helper} \cap Helpers

PortFree ==
    /\ ~portBusy
    /\ embedded = None
    /\ \A h \in Helpers : helpers[h].core = None

\* Drop (or shutdown) of the helpers in D, from table t: the Exit request and
\* the kill after five seconds usually end the process at once; otherwise the
\* lease is closed and the process is left to its own watchdog.
AfterDrop(t, D) ==
    { [h \in Helpers |->
         CASE h \notin D -> t[h]
           [] h \in D /\ h \in stuck /\ t[h].state = "up" ->
                [state |-> "leaving", core |-> t[h].core]
           [] OTHER -> Gone] : stuck \in SUBSET D }

\* Closing a core that had connections leaves its port in TIME_WAIT.
PortAfterClose(closed) == portBusy' \in {portBusy, portBusy \/ closed}

ClosesCore(t, D) == \E h \in D : t[h].core # None

\* A Ping that came back: only a live helper answers, and it may fail to.
PingAnswers(h) == IF HelperUp(h) THEN BOOLEAN ELSE {FALSE}

\* SingBox::is_running. A helper is asked over RPC, which can always fail.
IsRunningAnswers ==
    IF backend \in Helpers
    THEN {"err"} \cup (IF ~HelperUp(backend) THEN {}
                       ELSE IF helpers[backend].core # None THEN {"yes"} ELSE {"no"})
    ELSE IF backend = "Embedded" /\ embedded # None THEN {"yes"} ELSE {"no"}

-----------------------------------------------------------------------------
(***************************************************************************)
(* SingBox::prepare_config(c), answering "ok" or "err".                    *)
(***************************************************************************)
PrepareRefused(ans) == \* check_config, or the authorization, failed
    /\ ans = "err"
    /\ UNCHANGED engineVars

PrepareReuse(c, ans) == \* an earlier preparation is retargeted at c
    /\ ans = "ok"
    /\ prepared.some
    /\ \/ c \notin TunConfigs
       \/ prepared.helper # None /\ TRUE \in PingAnswers(prepared.helper)
    /\ prepared' = [some |-> TRUE,
                    helper |-> IF c \in TunConfigs THEN prepared.helper ELSE None]
    /\ helpers' \in AfterDrop(helpers,
                       IF c \in TunConfigs THEN {} ELSE {prepared.helper} \cap Helpers)
    /\ UNCHANGED <<backend, embedded, portBusy>>

\* The prepared helper, if any, did not answer its ping.
PreparedUnusable ==
    prepared.helper # None => FALSE \in PingAnswers(prepared.helper)

\* Regression: the running helper itself is handed to the preparation.
PrepareTakesCurrent(c, ans) ==
    /\ ans = "ok"
    /\ c \in TunConfigs
    /\ PreparedUnusable
    /\ backend \in Helpers /\ TRUE \in PingAnswers(backend)
    /\ prepared' = [some |-> TRUE, helper |-> backend]
    /\ helpers' \in AfterDrop(helpers, {prepared.helper} \cap Helpers)
    /\ UNCHANGED <<backend, embedded, portBusy>>

PrepareCurrent(c, ans) == \* the helper running the current core will do
    /\ ans = "ok"
    /\ c \in TunConfigs
    /\ PreparedUnusable
    /\ backend \in Helpers /\ TRUE \in PingAnswers(backend)
    /\ prepared' = [some |-> TRUE, helper |-> None]
    /\ helpers' \in AfterDrop(helpers, {prepared.helper} \cap Helpers)
    /\ UNCHANGED <<backend, embedded, portBusy>>

PrepareLaunch(c, ans) == \* the administrator authorizes a new helper
    /\ ans = "ok"
    /\ c \in TunConfigs
    /\ PreparedUnusable
    /\ backend \in Helpers => FALSE \in PingAnswers(backend)
    /\ \E h \in Helpers \ Owned :
         /\ helpers[h].state = "gone"
         /\ prepared' = [some |-> TRUE, helper |-> h]
         /\ helpers' \in AfterDrop(
                [helpers EXCEPT ![h] = [state |-> "up", core |-> None]],
                {prepared.helper} \cap Helpers)
    /\ UNCHANGED <<backend, embedded, portBusy>>

PreparePlain(c, ans) == \* nothing prepared yet and no helper needed
    /\ ans = "ok"
    /\ c \notin TunConfigs
    /\ ~prepared.some
    /\ prepared' = [some |-> TRUE, helper |-> None]
    /\ UNCHANGED <<backend, embedded, helpers, portBusy>>

PrepareConfig(c, ans) ==
    \/ PrepareRefused(ans)
    \/ PrepareReuse(c, ans)
    \/ PrepareCurrent(c, ans)
    \/ PrepareLaunch(c, ans)
    \/ PreparePlain(c, ans)

(***************************************************************************)
(* SingBox::discard_prepared_config.                                       *)
(***************************************************************************)
DiscardPrepared ==
    \E running \in IsRunningAnswers :
      LET idle == backend \in Helpers /\ running = "no"
          D == ({prepared.helper} \cup (IF idle THEN {backend} ELSE {})) \cap Helpers
      IN /\ prepared' = NoPrepared
         /\ backend' = IF idle THEN "Stopped" ELSE backend
         /\ helpers' \in AfterDrop(helpers, D)
         /\ UNCHANGED <<embedded, portBusy>>

-----------------------------------------------------------------------------
(***************************************************************************)
(* SingBox::start_config(c), answering "ok", "inuse" (the port is taken),  *)
(* "already", "notPrepared" (TunPermissionNotPrepared) or "err".           *)
(***************************************************************************)
StartRefused(ans) == \* is_running failed or said yes, or check_config failed
    /\ \/ ans = "err"
       \/ ans = "already" /\ "yes" \in IsRunningAnswers
    /\ UNCHANGED engineVars

\* What the Start request to helper h can leave in the table. An answer that
\* is lost or late reads "err" although the helper did start the core.
HelperStart(h, c, ans) ==
    LET started == [helpers EXCEPT ![h].core = c] IN
    CASE ans = "ok" -> IF HelperUp(h) /\ PortFree THEN {started} ELSE {}
      [] ans = "inuse" -> IF HelperUp(h) /\ ~PortFree THEN {helpers} ELSE {}
      [] ans = "err" -> {helpers} \cup (IF HelperUp(h) /\ PortFree THEN {started} ELSE {})
      [] OTHER -> {}

StartTun(c, ans) ==
    /\ c \in TunConfigs
    /\ "no" \in IsRunningAnswers
    /\ prepared' = NoPrepared
    /\ embedded' = None
    /\ \E ready \in IF backend \in Helpers THEN PingAnswers(backend) ELSE {FALSE} :
         LET previous == IF ready THEN backend ELSE None
             stale    == IF ready THEN {} ELSE {backend} \cap Helpers
             h        == IF prepared.helper # None THEN prepared.helper ELSE previous
         IN \/ /\ h = None
               /\ ans = "notPrepared"
               /\ backend' = "Stopped"
               /\ helpers' \in AfterDrop(helpers, stale)
               /\ UNCHANGED portBusy
            \/ /\ h # None
               /\ \E t \in HelperStart(h, c, ans) :
                    LET D == stale \cup (IF ans = "ok" THEN {previous} \ {h, None}
                                         ELSE {prepared.helper} \ {None})
                    IN /\ helpers' \in AfterDrop(t, D)
                       /\ PortAfterClose(ClosesCore(t, D))
               /\ backend' = IF ans = "ok" \/ prepared.helper = None THEN h
                             ELSE IF previous # None THEN previous ELSE "Stopped"

\* Regression: the helper of the previous backend is not shut down.
StartEmbeddedLeaks(c, ans) ==
    /\ c \notin TunConfigs
    /\ "no" \in IsRunningAnswers
    /\ ans = "ok" /\ PortFree
    /\ prepared' = NoPrepared
    /\ embedded' = c
    /\ backend' = "Embedded"
    /\ helpers' \in AfterDrop(helpers, {prepared.helper} \cap Helpers)
    /\ UNCHANGED portBusy

StartEmbedded(c, ans) ==
    /\ c \notin TunConfigs
    /\ "no" \in IsRunningAnswers
    /\ prepared' = NoPrepared
    /\ \/ /\ ans = "ok"
          /\ PortFree
          /\ embedded' = c
          /\ backend' = "Embedded"
          /\ helpers' \in AfterDrop(helpers, Owned)
       \/ /\ (ans = "inuse" /\ ~PortFree) \/ ans = "err"
          /\ helpers' \in AfterDrop(helpers, {prepared.helper} \cap Helpers)
          /\ UNCHANGED <<backend, embedded>>
    /\ UNCHANGED portBusy

StartConfig(c, ans) ==
    \/ StartRefused(ans)
    \/ StartTun(c, ans)
    \/ StartEmbedded(c, ans)

-----------------------------------------------------------------------------
(***************************************************************************)
(* SingBox::stop, answering "ok" or "err", and SingBox::force_shutdown.    *)
(***************************************************************************)
StopNothing(ans) ==
    /\ backend = "Stopped"
    /\ ans = "err"
    /\ UNCHANGED engineVars

\* Regression: a failed stop gives the backend up with its core still running.
StopEmbeddedGivesUp(ans) ==
    /\ backend = "Embedded"
    /\ backend' = "Stopped"
    /\ embedded' = IF ans = "ok" THEN None ELSE embedded
    /\ UNCHANGED <<prepared, helpers, portBusy>>

StopEmbedded(ans) == \* the handle is gone even when the stop reports an error
    /\ backend = "Embedded"
    /\ embedded' = None
    /\ \/ /\ ans = "ok"
          /\ embedded # None
          /\ backend' = "Stopped"
          /\ UNCHANGED <<prepared, helpers>>
       \/ /\ ans = "err"
          /\ prepared' = NoPrepared
          /\ helpers' \in AfterDrop(helpers, {prepared.helper} \cap Helpers)
          /\ UNCHANGED backend
    /\ PortAfterClose(embedded # None)

StopPrivileged(ans) ==
    /\ backend \in Helpers
    /\ UNCHANGED embedded
    /\ LET stopped == [helpers EXCEPT ![backend].core = None]
           closed  == helpers[backend].core # None
       IN \/ /\ ans = "ok" /\ HelperUp(backend) /\ closed
             /\ UNCHANGED prepared
             /\ IF prepared.some
                THEN backend' = backend /\ helpers' = stopped
                ELSE backend' = "Stopped" /\ helpers' \in AfterDrop(stopped, {backend})
             /\ PortAfterClose(TRUE)
          \/ /\ ans = "err" \* refused, or done with the answer lost
             /\ prepared' = NoPrepared
             /\ UNCHANGED backend
             /\ \E t \in {helpers, stopped} :
                  /\ helpers' \in AfterDrop(t, {prepared.helper} \cap Helpers)
                  /\ PortAfterClose(t = stopped /\ closed)

Stop(ans) == StopNothing(ans) \/ StopEmbedded(ans) \/ StopPrivileged(ans)

ForceShutdown ==
    /\ backend' = "Stopped"
    /\ embedded' = None
    /\ prepared' = NoPrepared
    /\ helpers' \in AfterDrop(helpers, Owned)
    /\ PortAfterClose(embedded # None \/ ClosesCore(helpers, Owned))

-----------------------------------------------------------------------------
(***************************************************************************)
(* What happens around the engine.                                         *)
(***************************************************************************)
HelperCrashes(h) == \* the elevated process dies with its core
    /\ helpers[h].state = "up"
    /\ helpers' = [helpers EXCEPT ![h] = Gone]
    /\ PortAfterClose(helpers[h].core # None)
    /\ UNCHANGED <<backend, embedded, prepared>>

HelperExits(h) == \* the watchdog notices that the lease is closed
    /\ helpers[h].state = "leaving"
    /\ helpers' = [helpers EXCEPT ![h] = Gone]
    /\ PortAfterClose(helpers[h].core # None)
    /\ UNCHANGED <<backend, embedded, prepared>>

PortTaken == \* another program binds the free port
    /\ PortFree
    /\ portBusy' = TRUE
    /\ UNCHANGED <<backend, embedded, prepared, helpers>>

PortReleased == \* TIME_WAIT expires, or that program leaves
    /\ portBusy
    /\ portBusy' = FALSE
    /\ UNCHANGED <<backend, embedded, prepared, helpers>>

ProcessDies == \* the whole application is gone: its leases are closed by the OS
    /\ backend' = "Stopped"
    /\ embedded' = None
    /\ prepared' = NoPrepared
    /\ helpers' = [h \in Helpers |-> IF HelperUp(h)
                                     THEN [helpers[h] EXCEPT !.state = "leaving"]
                                     ELSE helpers[h]]
    /\ PortAfterClose(embedded # None)

Environment ==
    \/ \E h \in Helpers : HelperCrashes(h) \/ HelperExits(h)
    \/ PortTaken
    \/ PortReleased

-----------------------------------------------------------------------------
\* The methods in any order a caller may use them.
EngineNext ==
    \/ \E c \in Configs, ans \in {"ok", "err"} : PrepareConfig(c, ans)
    \/ \E c \in Configs, ans \in {"ok", "inuse", "already", "notPrepared", "err"} :
          StartConfig(c, ans)
    \/ \E ans \in {"ok", "err"} : Stop(ans)
    \/ DiscardPrepared
    \/ ForceShutdown
    \/ ProcessDies
    \/ Environment

EngineSpec == EngineInit /\ [][EngineNext]_engineVars

-----------------------------------------------------------------------------
(***************************************************************************)
(* Safety.                                                                 *)
(***************************************************************************)
\* Every elevated helper that still holds its lease belongs to the backend or
\* to the preparation, so some later stop, discard or drop will end it: no
\* sequence of starts, failures and replacements (SingBox::start_config,
\* prepare_config, stop) leaves an administrator process nobody can reach.
NoOrphanHelper == \A h \in Helpers : HelperUp(h) => h \in Owned

\* A core that runs is the core of the current backend: whenever
\* SingBox::is_running says no, nothing runs in this process or in a helper
\* with a live lease, also after a start or a stop whose answer was lost.
RunningCoreIsReachable ==
    /\ embedded # None => backend = "Embedded"
    /\ \A h \in Helpers : HelperUp(h) /\ helpers[h].core # None => backend = h

\* The helper being prepared is never the one whose core is running: dropping
\* a preparation cannot take the live core down.
PreparedIsNotLive ==
    prepared.helper # None => prepared.some /\ prepared.helper # backend

EngineInv ==
    /\ TypeOK
    /\ NoOrphanHelper
    /\ RunningCoreIsReachable
    /\ PreparedIsNotLive
=============================================================================
