---------------------------- MODULE CoreLifecycle ----------------------------
(***************************************************************************)
(* The requests of packages/api/src/core.rs and platform.rs that start,    *)
(* stop, restart and prepare the core and manage the system proxy, served  *)
(* concurrently: the desktop shell, browser tabs and the tray each have a  *)
(* request in flight, on a blocking thread of its own.                     *)
(*                                                                         *)
(* Two mutexes order them: core_slot (held across a whole start or restart *)
(* transaction, only tried by the system proxy) and the operation lock of  *)
(* the system proxy. One step is one call on the engine or on the OS.      *)
(***************************************************************************)
EXTENDS SingBoxEngine

CONSTANTS
    Clients,      \* requests that may be in flight at the same time
    MaxAttempts,  \* attempts of start_config_with_bind_retry (45 in the code)
    MaxRequests,  \* bound on the requests of one behaviour
    MaxCrashes,   \* bound on the process deaths of one behaviour
    Faults        \* which calls may fail: "osread", "osapply", "oswrite", "helper"

ASSUME ClientAssumption == None \notin Clients
ASSUME BoundAssumption == MaxAttempts \in Nat \ {0} /\ MaxRequests \in Nat
                          /\ MaxCrashes \in Nat

VARIABLES
    config,     \* NativeCore.config: the configuration on record for the core
    coreLock,   \* holder of core_slot
    proxyLock,  \* holder of system_proxy_operation_lock
    osProxy,    \* the OS proxy setting points at the mixed port of Kitty Pro
    sentinel,   \* the file system-proxy.pending exists
    task,       \* per client: where its request stands
    alive,      \* the application process runs
    requests,   \* requests accepted so far (bound)
    crashes     \* process deaths so far (bound)

apiVars == <<config, coreLock, proxyLock, osProxy, sentinel, task>>
proxyVars == <<proxyLock, osProxy, sentinel>>
boundVars == <<alive, requests, crashes>>
vars == <<engineVars, apiVars, boundVars>>

CorePcs == {"on_check", "on_start", "off_force", "off_discard", "rs_prepare",
            "rs_stop", "rs_recheck", "rs_start", "rs_observe", "rs_restore",
            "rs_reobserve", "rs_force", "rs_finish", "pt_prepare", "sd_discard"}
FreePcs == {"idle", "on_lock", "off_proxy", "off_lock", "rs_lock", "rs_proxy",
            "pt_lock", "rl_lock", "px_lock", "sd_proxy", "sd_lock", "sd_exit"}
ProxyPcs == {"px_apply", "px_mark"}
Outcomes == {"none", "candidate", "preserved", "restored", "offline"}

Idle == [pc |-> "idle", cfg |-> None, prev |-> None, tries |-> 0, outcome |-> "none"]

LifecycleTypeOK ==
    /\ TypeOK
    /\ config \in Configs \cup {None}
    /\ coreLock \in Clients \cup {None}
    /\ proxyLock \in Clients \cup {None}
    /\ osProxy \in BOOLEAN
    /\ sentinel \in BOOLEAN
    /\ task \in [Clients -> [pc : CorePcs \cup FreePcs \cup ProxyPcs,
                             cfg : Configs \cup {None},
                             prev : Configs \cup {None},
                             tries : 0..MaxAttempts - 1,
                             outcome : Outcomes]]
    /\ alive \in BOOLEAN
    /\ requests \in 0..MaxRequests
    /\ crashes \in 0..MaxCrashes

Init ==
    /\ EngineInit
    /\ config = None
    /\ coreLock = None
    /\ proxyLock = None
    /\ osProxy = FALSE
    /\ sentinel = FALSE
    /\ task = [k \in Clients |-> Idle]
    /\ alive = TRUE
    /\ requests = 0
    /\ crashes = 0

-----------------------------------------------------------------------------
At(k, pc) == alive /\ task[k].pc = pc
Goto(k, pc) == task' = [task EXCEPT ![k].pc = pc]
Done(k) == task' = [task EXCEPT ![k] = Idle]
Lock(k) == coreLock = None /\ coreLock' = k
Unlock == coreLock' = None

\* A request arrives at an idle client, as pc with configuration c.
Request(k, pc, c) ==
    /\ At(k, "idle")
    /\ requests < MaxRequests
    /\ requests' = requests + 1
    /\ task' = [task EXCEPT ![k] = [Idle EXCEPT !.pc = pc, !.cfg = c]]
    /\ UNCHANGED <<engineVars, config, coreLock, proxyVars, alive, crashes>>

NewRequest(k) ==
    \/ \E c \in Configs, pc \in {"on_lock", "rs_lock", "pt_lock"} : Request(k, pc, c)
    \/ \E pc \in {"off_proxy", "rl_lock", "px_lock", "sd_proxy"} : Request(k, pc, None)

-----------------------------------------------------------------------------
(***************************************************************************)
(* disable_managed_system_proxy_before_core_outage, which every outage     *)
(* runs without core_slot: continue at next, or give up the request. It    *)
(* reads the status and then turns the proxy off under two holds of the    *)
(* operation lock; turning it off is idempotent, so the two are one step   *)
(* at the time of the second.                                              *)
(***************************************************************************)
ProxySkipped == \* the status could not be read, or is not ours
    /\ "osread" \in Faults \/ ~osProxy
    /\ UNCHANGED <<osProxy, sentinel>>

ProxyDisabled ==
    /\ osProxy
    /\ osProxy' = FALSE
    /\ sentinel' = FALSE

ProxyStillOn ==
    /\ osProxy
    /\ "osapply" \in Faults
    /\ UNCHANGED <<osProxy, sentinel>>

ProxyOffWithError == \* the automatic proxy, or the final status read, failed
    /\ osProxy
    /\ osProxy' = FALSE
    /\ \/ "osapply" \in Faults /\ UNCHANGED sentinel
       \/ "osread" \in Faults /\ sentinel' = FALSE

DisableProxy(k, pc, next, onError) ==
    /\ At(k, pc)
    /\ proxyLock = None
    /\ \/ (ProxySkipped \/ ProxyDisabled) /\ next
       \/ (ProxyStillOn \/ ProxyOffWithError) /\ onError
    /\ UNCHANGED <<engineVars, config, coreLock, proxyLock, boundVars>>

-----------------------------------------------------------------------------
(***************************************************************************)
(* toggle_native_core(true, c).                                            *)
(***************************************************************************)
OnLock(k) ==
    /\ At(k, "on_lock")
    /\ Lock(k)
    /\ Goto(k, "on_check")
    /\ UNCHANGED <<engineVars, config, proxyVars, boundVars>>

OnCheck(k) ==
    /\ At(k, "on_check")
    /\ \/ /\ "no" \in IsRunningAnswers
          /\ config' = None
          /\ Goto(k, "on_start")
          /\ UNCHANGED coreLock
       \/ /\ IsRunningAnswers \cap {"yes", "err"} # {}
          /\ Unlock /\ Done(k)
          /\ UNCHANGED config
    /\ UNCHANGED <<engineVars, proxyVars, boundVars>>

\* Regression: one attempt too many.
BindRetryOnceMore(k, c, ok, failed) ==
    \E ans \in {"ok", "inuse", "already", "notPrepared", "err"} :
       /\ StartConfig(c, ans)
       /\ \/ ans = "ok" /\ ok
          \/ /\ ans = "inuse" /\ task[k].tries < MaxAttempts
             /\ task' = [task EXCEPT ![k].tries = @ + 1]
             /\ UNCHANGED <<config, coreLock>>
          \/ /\ ans # "ok"
             /\ ans = "inuse" => task[k].tries >= MaxAttempts
             /\ failed

\* start_config_with_bind_retry(c) at pc: one attempt. It succeeds, sleeps a
\* second and tries again while the port is in use, or fails.
BindRetry(k, c, ok, failed) ==
    \E ans \in {"ok", "inuse", "already", "notPrepared", "err"} :
       /\ StartConfig(c, ans)
       /\ \/ ans = "ok" /\ ok
          \/ /\ ans = "inuse" /\ task[k].tries + 1 < MaxAttempts
             /\ task' = [task EXCEPT ![k].tries = @ + 1]
             /\ UNCHANGED <<config, coreLock>>
          \/ /\ ans # "ok"
             /\ ans = "inuse" => task[k].tries + 1 >= MaxAttempts
             /\ failed

OnStart(k) ==
    /\ At(k, "on_start")
    /\ BindRetry(k, task[k].cfg,
                 config' = task[k].cfg /\ Unlock /\ Done(k),
                 Unlock /\ Done(k) /\ UNCHANGED config)
    /\ UNCHANGED <<proxyVars, boundVars>>

(***************************************************************************)
(* toggle_native_core(false).                                              *)
(***************************************************************************)
OffProxy(k) == DisableProxy(k, "off_proxy", Goto(k, "off_lock"), Done(k))

OffStop(k) ==
    /\ At(k, "off_lock")
    /\ coreLock = None
    /\ \/ /\ "yes" \in IsRunningAnswers
          /\ coreLock' = k
          /\ \/ Stop("ok") /\ Goto(k, "off_discard")
             \/ Stop("err") /\ Goto(k, "off_force")
       \/ /\ "no" \in IsRunningAnswers
          /\ coreLock' = k
          /\ Goto(k, "off_discard")
          /\ UNCHANGED engineVars
       \/ /\ "err" \in IsRunningAnswers
          /\ Done(k)
          /\ UNCHANGED <<engineVars, coreLock>>
    /\ UNCHANGED <<config, proxyVars, boundVars>>

OffForce(k) ==
    /\ At(k, "off_force")
    /\ ForceShutdown
    /\ config' = None
    /\ Unlock /\ Done(k)
    /\ UNCHANGED <<proxyVars, boundVars>>

OffDiscard(k) ==
    /\ At(k, "off_discard")
    /\ DiscardPrepared
    /\ config' = None
    /\ Unlock /\ Done(k)
    /\ UNCHANGED <<proxyVars, boundVars>>

-----------------------------------------------------------------------------
(***************************************************************************)
(* restart_native_core(c) with restart_core_transaction under core_slot.   *)
(***************************************************************************)
RestartLock(k) ==
    /\ At(k, "rs_lock")
    /\ Lock(k)
    /\ task' = [task EXCEPT ![k].pc = "rs_prepare", ![k].prev = config]
    /\ UNCHANGED <<engineVars, config, proxyVars, boundVars>>

\* Regression: the refused preflight returns without releasing core_slot.
RestartPrepareKeepsLock(k) ==
    /\ At(k, "rs_prepare")
    /\ \/ PrepareConfig(task[k].cfg, "ok") /\ Goto(k, "rs_stop") /\ UNCHANGED coreLock
       \/ PrepareConfig(task[k].cfg, "err") /\ Done(k) /\ UNCHANGED coreLock
    /\ UNCHANGED <<config, proxyVars, boundVars>>

RestartPrepare(k) ==
    /\ At(k, "rs_prepare")
    /\ \/ PrepareConfig(task[k].cfg, "ok") /\ Goto(k, "rs_stop") /\ UNCHANGED coreLock
       \/ PrepareConfig(task[k].cfg, "err") /\ Done(k) /\ Unlock
    /\ UNCHANGED <<config, proxyVars, boundVars>>

Finish(k, outcome) ==
    task' = [task EXCEPT ![k].pc = "rs_finish", ![k].outcome = outcome]

RestartStop(k) ==
    /\ At(k, "rs_stop")
    /\ \/ "no" \in IsRunningAnswers /\ Goto(k, "rs_start") /\ UNCHANGED engineVars
       \/ "err" \in IsRunningAnswers /\ Goto(k, "rs_force") /\ UNCHANGED engineVars
       \/ /\ "yes" \in IsRunningAnswers
          /\ \/ Stop("ok") /\ Goto(k, "rs_start")
             \/ Stop("err") /\ Goto(k, "rs_recheck")
    /\ UNCHANGED <<config, coreLock, proxyVars, boundVars>>

\* The stop reported an error: what does the engine say now?
RestartRecheck(k) ==
    /\ At(k, "rs_recheck")
    /\ \/ "yes" \in IsRunningAnswers /\ Finish(k, "preserved")
       \/ "no" \in IsRunningAnswers /\ Goto(k, "rs_start")
       \/ "err" \in IsRunningAnswers /\ Goto(k, "rs_force")
    /\ UNCHANGED <<engineVars, config, coreLock, proxyVars, boundVars>>

RestartStart(k) ==
    /\ At(k, "rs_start")
    /\ BindRetry(k, task[k].cfg,
                 Finish(k, "candidate") /\ UNCHANGED <<config, coreLock>>,
                 Goto(k, "rs_observe") /\ UNCHANGED <<config, coreLock>>)
    /\ UNCHANGED <<proxyVars, boundVars>>

\* start_core_and_observe after a failed start of the candidate.
RestartObserve(k) ==
    /\ At(k, "rs_observe")
    /\ \/ "yes" \in IsRunningAnswers /\ Finish(k, "candidate")
       \/ /\ "no" \in IsRunningAnswers
          /\ IF task[k].prev = None
             THEN Finish(k, "offline")
             ELSE task' = [task EXCEPT ![k].pc = "rs_restore", ![k].tries = 0]
       \/ "err" \in IsRunningAnswers /\ Goto(k, "rs_force")
    /\ UNCHANGED <<engineVars, config, coreLock, proxyVars, boundVars>>

\* restore_previous_core.
RestartRestore(k) ==
    /\ At(k, "rs_restore")
    /\ BindRetry(k, task[k].prev,
                 Finish(k, "restored") /\ UNCHANGED <<config, coreLock>>,
                 Goto(k, "rs_reobserve") /\ UNCHANGED <<config, coreLock>>)
    /\ UNCHANGED <<proxyVars, boundVars>>

RestartReobserve(k) ==
    /\ At(k, "rs_reobserve")
    /\ \/ "yes" \in IsRunningAnswers /\ Finish(k, "restored")
       \/ "no" \in IsRunningAnswers /\ Finish(k, "offline")
       \/ "err" \in IsRunningAnswers /\ Goto(k, "rs_force")
    /\ UNCHANGED <<engineVars, config, coreLock, proxyVars, boundVars>>

\* Regression: the core is reported offline without being shut down.
RestartForceSkipped(k) ==
    /\ At(k, "rs_force")
    /\ Finish(k, "offline")
    /\ UNCHANGED <<engineVars, config, coreLock, proxyVars, boundVars>>

RestartForce(k) ==
    /\ At(k, "rs_force")
    /\ ForceShutdown
    /\ Finish(k, "offline")
    /\ UNCHANGED <<config, coreLock, proxyVars, boundVars>>

\* Regression: the candidate is recorded although the old core runs.
ConfigAlwaysCandidate(t) == IF t.outcome = "offline" THEN None ELSE t.cfg

\* core_config_after_restart.
ConfigAfterRestart(t) ==
    CASE t.outcome = "candidate" -> t.cfg
      [] t.outcome \in {"preserved", "restored"} -> t.prev
      [] OTHER -> None

RestartFinish(k) ==
    /\ At(k, "rs_finish")
    /\ DiscardPrepared
    /\ config' = ConfigAfterRestart(task[k])
    /\ Unlock
    /\ IF task[k].outcome = "offline" THEN Goto(k, "rs_proxy") ELSE Done(k)
    /\ UNCHANGED <<proxyVars, boundVars>>

\* Regression: a core left offline does not take the system proxy with it.
RestartProxyForgotten(k) ==
    /\ At(k, "rs_proxy")
    /\ Done(k)
    /\ UNCHANGED <<engineVars, config, coreLock, proxyVars, boundVars>>

\* finish_core_restart, after core_slot was released.
RestartProxy(k) == DisableProxy(k, "rs_proxy", Done(k), Done(k))

-----------------------------------------------------------------------------
(***************************************************************************)
(* prepare_native_tun_mode(c) and release_native_tun_mode.                 *)
(***************************************************************************)
PrepareLock(k) ==
    /\ At(k, "pt_lock")
    /\ coreLock = None
    /\ \/ "no" \in IsRunningAnswers /\ coreLock' = k /\ Goto(k, "pt_prepare")
       \/ IsRunningAnswers \cap {"yes", "err"} # {} /\ Done(k) /\ UNCHANGED coreLock
    /\ UNCHANGED <<engineVars, config, proxyVars, boundVars>>

PrepareTun(k) ==
    /\ At(k, "pt_prepare")
    /\ \E ans \in {"ok", "err"} : PrepareConfig(task[k].cfg, ans)
    /\ Unlock /\ Done(k)
    /\ UNCHANGED <<config, proxyVars, boundVars>>

ReleaseTun(k) ==
    /\ At(k, "rl_lock")
    /\ coreLock = None
    /\ \/ "no" \in IsRunningAnswers /\ DiscardPrepared
       \/ IsRunningAnswers \cap {"yes", "err"} # {} /\ UNCHANGED engineVars
    /\ Done(k)
    /\ UNCHANGED <<config, coreLock, proxyVars, boundVars>>

-----------------------------------------------------------------------------
(***************************************************************************)
(* set_native_system_proxy(true). Turning it off is OffProxy's inner part. *)
(***************************************************************************)
\* ensure_core_is_running only tries core_slot, and lets go of it at once.
EnsureCoreRunning ==
    /\ coreLock = None
    /\ "yes" \in IsRunningAnswers

EnsureFails ==
    \/ coreLock # None
    \/ IsRunningAnswers \cap {"no", "err"} # {}

ProxyOn(k) ==
    /\ At(k, "px_lock")
    /\ proxyLock = None
    /\ \/ EnsureCoreRunning /\ proxyLock' = k /\ Goto(k, "px_apply")
       \/ EnsureFails /\ Done(k) /\ UNCHANGED proxyLock
    /\ UNCHANGED <<engineVars, config, coreLock, osProxy, sentinel, boundVars>>

ProxyApply(k) ==
    /\ At(k, "px_apply")
    /\ \/ /\ osProxy' = TRUE
          /\ Goto(k, "px_mark")
          /\ UNCHANGED proxyLock
       \/ /\ "osapply" \in Faults
          /\ Done(k)
          /\ proxyLock' = None
          /\ UNCHANGED osProxy
    /\ UNCHANGED <<engineVars, config, coreLock, sentinel, boundVars>>

ProxyMark(k) ==
    /\ At(k, "px_mark")
    /\ \/ sentinel' = TRUE
       \/ "oswrite" \in Faults /\ UNCHANGED sentinel
    /\ proxyLock' = None
    /\ Done(k)
    /\ UNCHANGED <<engineVars, config, coreLock, osProxy, boundVars>>

-----------------------------------------------------------------------------
(***************************************************************************)
(* shutdown_native_runtime at the end of the event loop, and the process   *)
(* exit that follows it; a crash; the next start of the application with   *)
(* cleanup_stale_system_proxy_sentinel.                                    *)
(***************************************************************************)
ShutdownProxy(k) == DisableProxy(k, "sd_proxy", Goto(k, "sd_lock"), Goto(k, "sd_lock"))

ShutdownStop(k) ==
    /\ At(k, "sd_lock")
    /\ coreLock = None
    /\ \/ /\ "yes" \in IsRunningAnswers
          /\ \/ Stop("ok") /\ coreLock' = k /\ Goto(k, "sd_discard")
             \/ Stop("err") /\ Goto(k, "sd_exit") /\ UNCHANGED coreLock
       \/ /\ "no" \in IsRunningAnswers
          /\ coreLock' = k /\ Goto(k, "sd_discard")
          /\ UNCHANGED engineVars
       \/ /\ "err" \in IsRunningAnswers
          /\ Goto(k, "sd_exit")
          /\ UNCHANGED <<engineVars, coreLock>>
    /\ UNCHANGED <<config, proxyVars, boundVars>>

ShutdownDiscard(k) ==
    /\ At(k, "sd_discard")
    /\ DiscardPrepared
    /\ config' = None
    /\ Unlock
    /\ Goto(k, "sd_exit")
    /\ UNCHANGED <<proxyVars, boundVars>>

\* The memory of the process is gone, with its locks and its requests.
ProcessGone ==
    /\ alive' = FALSE
    /\ ProcessDies
    /\ config' = None
    /\ coreLock' = None
    /\ proxyLock' = None
    /\ task' = [k \in Clients |-> Idle]
    /\ UNCHANGED <<osProxy, sentinel, requests>>

ShutdownExit(k) ==
    /\ At(k, "sd_exit")
    /\ ProcessGone
    /\ UNCHANGED crashes

Crash ==
    /\ alive
    /\ crashes < MaxCrashes
    /\ crashes' = crashes + 1
    /\ ProcessGone

\* Something accepts on the mixed port: a core of ours, or another program.
ListenerAnswers ==
    IF \E h \in Helpers : helpers[h].core # None THEN {TRUE}
    ELSE IF portBusy THEN BOOLEAN ELSE {FALSE}

Startup ==
    /\ ~alive
    /\ alive' = TRUE
    /\ \/ /\ ~sentinel \/ "osread" \in Faults
             \/ (osProxy /\ (TRUE \in ListenerAnswers \/ "osapply" \in Faults))
          /\ UNCHANGED <<osProxy, sentinel>>
       \/ /\ sentinel
          /\ osProxy => FALSE \in ListenerAnswers
          /\ osProxy' = FALSE
          /\ sentinel' = FALSE
    /\ UNCHANGED <<engineVars, config, coreLock, proxyLock, task, requests, crashes>>

-----------------------------------------------------------------------------
CoreStep(k) ==
    \/ OnLock(k) \/ OnCheck(k) \/ OnStart(k)
    \/ OffProxy(k) \/ OffStop(k) \/ OffForce(k) \/ OffDiscard(k)
    \/ RestartLock(k) \/ RestartPrepare(k) \/ RestartStop(k) \/ RestartRecheck(k)
    \/ RestartStart(k) \/ RestartObserve(k) \/ RestartRestore(k)
    \/ RestartReobserve(k) \/ RestartForce(k) \/ RestartFinish(k) \/ RestartProxy(k)
    \/ PrepareLock(k) \/ PrepareTun(k) \/ ReleaseTun(k)
    \/ ProxyOn(k) \/ ProxyApply(k) \/ ProxyMark(k)
    \/ ShutdownProxy(k) \/ ShutdownStop(k) \/ ShutdownDiscard(k) \/ ShutdownExit(k)

Surroundings ==
    /\ \/ \E h \in Helpers : "helper" \in Faults /\ HelperCrashes(h)
       \/ \E h \in Helpers : HelperExits(h)
       \/ PortTaken
       \/ PortReleased
    /\ UNCHANGED <<apiVars, boundVars>>

AtRest == \* the bound on requests is reached and all are answered
    /\ requests = MaxRequests
    /\ \A k \in Clients : task[k].pc = "idle"
    /\ UNCHANGED vars

Next ==
    \/ \E k \in Clients : NewRequest(k) \/ CoreStep(k)
    \/ Crash
    \/ Startup
    \/ Surroundings
    \/ AtRest

Spec == Init /\ [][Next]_vars

\* A request that can take its next step takes it: the blocking threads of the
\* runtime run, and every RPC has a deadline.
FairSpec == Spec /\ \A k \in Clients : WF_vars(CoreStep(k))

-----------------------------------------------------------------------------
CoreRuns == embedded # None \/ \E h \in Helpers : HelperUp(h) /\ helpers[h].core # None

\* Whenever core_slot is free, the configuration on record is the one the core
\* runs: every path of a restart (candidate, preserved, restored) records what
\* it left running, so the next rollback restores the right configuration.
ConfigDescribesCore ==
    coreLock = None /\ config # None =>
        /\ embedded \in {None, config}
        /\ \A h \in Helpers : HelperUp(h) => helpers[h].core \in {None, config}

\* The answer of a restart is the truth: with the candidate, the restored or the
\* preserved configuration reported, no other core runs; with the core reported
\* offline, none does. Only a preserved core that was not on record (prev) may
\* run any configuration.
RestartTellsTheTruth ==
    \A k \in Clients : At(k, "rs_finish") =>
        LET said == ConfigAfterRestart(task[k])
        IN task[k].outcome # "preserved" \/ said # None =>
             /\ embedded \in {None, said}
             /\ \A h \in Helpers : HelperUp(h) => helpers[h].core \in {None, said}

\* When nothing is in flight, the OS proxy points at a core that runs.
NoDanglingProxy ==
    alive /\ osProxy /\ (\A k \in Clients : task[k].pc = "idle") => CoreRuns

\* Every request is answered: no lost lock, no endless retry, no deadlock
\* between core_slot and the system proxy lock.
RequestsEnd == \A k \in Clients : (task[k].pc # "idle") ~> (task[k].pc = "idle")

-----------------------------------------------------------------------------
(***************************************************************************)
(* The inductive invariant.                                                *)
(***************************************************************************)
\* Each lock is held inside its transaction, and by one client.
LocksAreHeld ==
    /\ \A k \in Clients : coreLock = k <=> task[k].pc \in CorePcs
    /\ \A k \in Clients : proxyLock = k <=> task[k].pc \in ProxyPcs

\* The cores that run, here or in a helper, run configurations of S.
OnlyRuns(S) ==
    /\ embedded \in S \cup {None}
    /\ \A h \in Helpers : HelperUp(h) => helpers[h].core \in S \cup {None}

\* A request that will start a core carries its configuration.
Targeted == {"on_lock", "on_check", "on_start", "rs_lock", "rs_prepare", "rs_stop",
             "rs_recheck", "rs_start", "rs_observe", "pt_lock", "pt_prepare"}

\* Inside these stretches of a transaction the record may be out of date; what
\* runs is known from the request.
StartingInv(k) ==
    /\ task[k].pc = "on_start" => config = None /\ OnlyRuns({task[k].cfg})
    /\ task[k].pc \in {"rs_start", "rs_observe"} => OnlyRuns({task[k].cfg})
    /\ task[k].pc \in {"rs_restore", "rs_reobserve"} =>
         task[k].prev # None /\ OnlyRuns({task[k].prev})

FinishingInv(k) ==
    task[k].pc = "rs_finish" =>
        /\ task[k].outcome # "none"
        /\ task[k].outcome = "candidate" => OnlyRuns({task[k].cfg})
        /\ task[k].outcome = "restored" => OnlyRuns({task[k].prev})
        /\ task[k].outcome = "preserved" /\ task[k].prev # None => OnlyRuns({task[k].prev})
        /\ task[k].outcome = "offline" => OnlyRuns({})

TransactionInv(k) ==
    /\ task[k].pc \in Targeted => task[k].cfg \in Configs
    /\ task[k].pc \in {"rs_prepare", "rs_stop", "rs_recheck"} => task[k].prev = config
    /\ StartingInv(k)
    /\ FinishingInv(k)

\* Elsewhere the record is right.
Unrecorded == {"rs_start", "rs_observe", "rs_restore", "rs_reobserve", "rs_force", "rs_finish"}

RecordInv ==
    (\A k \in Clients : task[k].pc \notin Unrecorded) /\ config # None => OnlyRuns({config})

LifecycleInv ==
    /\ LifecycleTypeOK
    /\ EngineInv
    /\ LocksAreHeld
    /\ RecordInv
    /\ \A k \in Clients : TransactionInv(k)

-----------------------------------------------------------------------------
(***************************************************************************)
(* What the comments of the code say, each refuted by a run of its own.    *)
(***************************************************************************)
\* core.rs, toggle_native_core: "Never leave the OS pointing at a loopback
\* listener that is about to disappear." Switching the core off takes it down
\* only while the OS proxy is off.
OffStopsUnderNoProxy ==
    [][\A k \in Clients : OffStop(k) /\ CoreRuns /\ ~CoreRuns' => ~osProxy]_vars

\* platform.rs, write_system_proxy_sentinel: if the process dies before it can
\* restore the settings, "the next startup notices the leftover".
SentinelCoversProxy == ~alive /\ osProxy => sentinel

\* core.rs, start_config_with_bind_retry: retrying "makes toggling TUN ...
\* succeed instead of erroring": a retry still has the helper it was given.
RetryKeepsHelper ==
    \A k \in Clients :
        task[k].pc \in {"on_start", "rs_start"} /\ task[k].tries > 0
        /\ task[k].cfg \in TunConfigs => Owned # {}
=============================================================================
