------------------------------ MODULE UiRuntime ------------------------------
(***************************************************************************)
(* The controls of one window that reach the core or the system proxy      *)
(* (ui runtime.rs, the power button and banner of overview.rs, the toggles *)
(* of toggles.rs and settings.rs, the tray and heartbeat of proxy_app.rs,  *)
(* RestartCoreButton of chrome.rs): one task per click, the busy signals     *)
(* it claims, its calls, and what it shows of their answers.               *)
(*                                                                         *)
(* CoreLifecycle has the calls themselves; here one is a step that answers *)
(* truthfully. A task dies with the page that spawned it, its signals do     *)
(* not.                                                                    *)
(***************************************************************************)
EXTENDS Naturals, FiniteSets

CONSTANTS
    MaxClicks,     \* bound on the clicks
    MaxUiMishaps   \* bound on deaths of the core, failed reads and left pages

ASSUME UiAssumption == MaxClicks \in Nat /\ MaxUiMishaps \in Nat

VARIABLES
    srv,      \* the core, the TUN and LAN settings it runs, the system proxy
    ui,       \* the page, and what the window shows of srv
    busy,     \* the busy signals that are set
    uiTask,     \* per control: the task of its last click
    beat,     \* the heartbeat: idle, or the status it is about to show
    stale,    \* history: a handler or a first poll read a status that was not
              \* true, or the restart button's future ran with a request older
              \* than the settings
    beside,   \* history: the banner's future ran beside another task
    orphaned, \* history: signals whose task died with its page
    clicks, mishaps

uiVars == <<srv, ui, busy, uiTask, beat, stale, beside, orphaned, clicks, mishaps>>

Pages == {"overview", "settings", "other"}
Controls == {"power", "tun", "lan", "proxy", "restart", "banner", "member"}
Signals == {"core_busy", "core_restarting", "system_proxy_busy", "runtime_action_busy"}
CoreStates == {"off", "on", "waiting", "unavailable"}
ProxyShown == {"on", "off", "unread"}
NoUiTask == [stage |-> "none", home |-> "app", owns |-> {}, want |-> FALSE,
           tun |-> FALSE, lan |-> FALSE, answer |-> "none"]

UiTypeOK ==
    /\ srv \in [core : {"off", "on", "waiting"}, tun : BOOLEAN, lan : BOOLEAN, proxy : BOOLEAN]
    /\ ui \in [page : Pages, connected : BOOLEAN, tun : BOOLEAN, lan : BOOLEAN,
               proxy : ProxyShown, pending : BOOLEAN]
    /\ busy \subseteq Signals /\ orphaned \subseteq Signals
    /\ uiTask \in [Controls -> [stage : {"none", "queued", "prepare", "check", "call",
                                       "answered", "reread", "proxyread"},
                              home : Pages \cup {"app"}, owns : SUBSET Signals,
                              want : BOOLEAN, tun : BOOLEAN, lan : BOOLEAN,
                              answer : {"none", "ok", "waiting", "err"}]]
    /\ beat \in CoreStates \cup {"idle"}
    /\ stale \in BOOLEAN /\ beside \in BOOLEAN /\ clicks \in 0..MaxClicks /\ mishaps \in 0..MaxUiMishaps

\* A window opens, on a core that may run already.
UiInit ==
    /\ \E up \in {"on", "off"} :
          srv = [core |-> up, tun |-> FALSE, lan |-> FALSE, proxy |-> FALSE]
    /\ ui = [page |-> "overview", connected |-> FALSE, tun |-> FALSE, lan |-> FALSE,
             proxy |-> "off", pending |-> FALSE]
    /\ busy = {} /\ orphaned = {}
    /\ uiTask = [c \in Controls |-> NoUiTask]
    /\ beat = "idle"
    /\ stale = FALSE /\ beside = FALSE /\ clicks = 0 /\ mishaps = 0

UiIdle(c) == uiTask[c].stage = "none"
Mishap == mishaps < MaxUiMishaps /\ mishaps' = mishaps + 1
UiAt(c, stage) == uiTask[c].stage = stage
Goto(c, stage) == uiTask' = [uiTask EXCEPT ![c].stage = stage]
\* The end of a task releases what it claimed.
EndTask(c) ==
    /\ uiTask' = [uiTask EXCEPT ![c] = NoUiTask]
    /\ busy' = busy \ uiTask[c].owns
\* The task claims signals it did not claim at the click.
ClaimMore(c, more, stage) ==
    /\ busy' = busy \cup more
    /\ uiTask' = [uiTask EXCEPT ![c].stage = stage, ![c].owns = @ \cup more]

-----------------------------------------------------------------------------
(***************************************************************************)
(* Clicks. RuntimeSignals::busy guards each, and the signals are claimed   *)
(* in the handler, before the task is spawned.                               *)
(***************************************************************************)
\* The handler, or a task at its first poll, reads a status that is not true.
MarkStale ==
    /\ stale' = (stale \/ srv.core # (IF ui.connected THEN "on" ELSE "off"))
    /\ UNCHANGED beside
Click(c, homes, claims, rec) ==
    /\ clicks < MaxClicks /\ UiIdle(c) /\ ui.page \in homes
    /\ clicks' = clicks + 1
    /\ busy' = busy \cup claims
    /\ uiTask' = [uiTask EXCEPT ![c] = rec]
    /\ MarkStale
    /\ UNCHANGED <<srv, ui, beat, orphaned, mishaps>>

New(stage, home, owns, want, tun, lan) ==
    [stage |-> stage, home |-> home, owns |-> owns, want |-> want,
     tun |-> tun, lan |-> lan, answer |-> "none"]

NoneBusy == busy = {}

\* spawn_core_toggle: with TUN on, a start asks for the permission first.
PowerClick ==
    LET want == ~ui.connected
    IN /\ NoneBusy
       /\ Click("power", {"overview"}, {"core_busy"},
                New(IF want /\ ui.tun THEN "prepare" ELSE "call", ui.page,
                    {"core_busy"}, want, ui.tun, ui.lan))

\* spawn_tun_toggle: its task arms core_restarting, when it finds the core
\* connected; else the helper is prepared or released.
TunClick ==
    /\ NoneBusy
    /\ Click("tun", {"overview", "settings"}, {"runtime_action_busy"},
             New("queued", ui.page, {"runtime_action_busy"}, ~ui.tun, ~ui.tun, ui.lan))

TunRuns ==
    /\ UiAt("tun", "queued")
    /\ IF ui.connected THEN ClaimMore("tun", {"core_restarting"}, "call")
       ELSE Goto("tun", "prepare") /\ UNCHANGED busy
    /\ MarkStale
    /\ UNCHANGED <<srv, ui, beat, orphaned, clicks, mishaps>>

\* Regression: core_restarting is armed inside the task and the guard is gone.
LanClickUnguarded ==
    Click("lan", {"overview", "settings"}, {},
          New("queued", ui.page, {}, ~ui.lan, ui.tun, ~ui.lan))

\* spawn_allow_lan_toggle: a setting of the next start unless connected.
LanClick ==
    LET claims == {"runtime_action_busy", "core_restarting"}
    IN /\ NoneBusy
       /\ Click("lan", {"overview", "settings"}, claims,
                New("queued", ui.page, claims, ~ui.lan, ui.tun, ~ui.lan))

LanRuns ==
    /\ UiAt("lan", "queued")
    /\ IF ui.connected THEN Goto("lan", "call") /\ UNCHANGED <<ui, busy>>
       ELSE ui' = [ui EXCEPT !.lan = uiTask["lan"].want] /\ EndTask("lan")
    /\ MarkStale
    /\ UNCHANGED <<srv, beat, orphaned, clicks, mishaps>>

\* SystemProxyToggle and the tray's entry, which also claims the action.
ProxyClick ==
    \E home \in {ui.page, "app"} :
       LET claims == {"system_proxy_busy"} \cup
                     (IF home = "app" THEN {"runtime_action_busy"} ELSE {})
       IN /\ NoneBusy
          /\ ui.proxy # "unread"
          /\ home = "app" \/ (ui.page = "overview" /\ (ui.proxy = "on" \/ ui.connected))
          /\ Click("proxy", Pages, claims,
                   New("call", home, claims, ui.proxy = "off", FALSE, FALSE))

\* RestartCoreButton, outside every page, builds its request in the handler;
\* the pending banner only queues a future, which reads the settings when it
\* runs; a group member, a subscription to use, or the tray's choice of either
\* claims the action first.
RestartClick ==
    /\ NoneBusy /\ ui.connected
    /\ Click("restart", Pages, {}, New("queued", "app", {}, TRUE, ui.tun, ui.lan))

BannerClick ==
    /\ NoneBusy /\ ui.pending /\ ui.connected
    /\ Click("banner", {"overview"}, {}, New("queued", ui.page, {}, TRUE, ui.tun, ui.lan))

MemberClick ==
    \E home \in {ui.page, "app"} :
       /\ NoneBusy /\ (home = "app" \/ ui.page = "other")
       /\ Click("member", Pages, {"runtime_action_busy"},
                New("queued", home, {"runtime_action_busy"}, TRUE, ui.tun, ui.lan))

\* The future runs.  restart_core_from_ui looks at core_restarting, and only
\* RestartCoreButton at the others as well; a member restarts a connected core
\* that its API could not tell.
QueuedRuns(c) ==
    /\ c \in {"restart", "banner", "member"} /\ UiAt(c, "queued")
    /\ \/ /\ \/ "core_restarting" \in busy \/ c = "member"
             \/ c = "restart" /\ busy # {}
          /\ EndTask(c)
       \/ /\ "core_restarting" \notin busy
          /\ c = "restart" => busy = {}
          /\ c = "member" => ui.connected
          /\ busy' = busy \cup {"core_restarting"}
          /\ uiTask' = [uiTask EXCEPT
                ![c] = IF c = "restart" THEN [@ EXCEPT !.stage = "call", !.owns = {"core_restarting"}]
                       ELSE New("call", @.home, @.owns \cup {"core_restarting"}, TRUE,
                                ui.tun, ui.lan)]
    /\ stale' = \/ stale
                \/ c = "restart" /\ <<uiTask[c].tun, uiTask[c].lan>> # <<ui.tun, ui.lan>>
    /\ beside' = (beside \/ (c = "banner" /\ busy # {}))
    /\ UNCHANGED <<srv, ui, beat, orphaned, clicks, mishaps>>

-----------------------------------------------------------------------------
(***************************************************************************)
(* The calls. An answer comes in a later round of polls than the first     *)
(* poll of every task queued before it.                                    *)
(***************************************************************************)
NoneQueued == \A c \in Controls : ~UiAt(c, "queued")
Answered(c, answer) == uiTask' = [uiTask EXCEPT ![c].stage = "answered", ![c].answer = answer]

\* set_core_enabled. Starting a running core and stopping a stopped one are
\* answered without touching it; stopping takes the system proxy along.
CallPower ==
    /\ UiAt("power", "call") /\ NoneQueued
    /\ LET t == uiTask["power"]
       IN \/ /\ t.want /\ srv.core = "on"
             /\ Answered("power", "ok") /\ UNCHANGED srv
          \/ /\ t.want /\ srv.core # "on"
             /\ \E up \in {"on", "waiting"} :
                   /\ srv' = [srv EXCEPT !.core = up, !.tun = t.tun, !.lan = t.lan]
                   /\ Answered("power", IF up = "on" THEN "ok" ELSE "waiting")
          \/ /\ ~t.want
             /\ srv' = [srv EXCEPT !.core = "off", !.proxy = FALSE]
             /\ Answered("power", "ok")
          \/ Answered("power", "err") /\ UNCHANGED srv
    /\ UNCHANGED <<ui, busy, beat, stale, beside, orphaned, clicks, mishaps>>

\* restart_core: the candidate runs, or the old core does, or none and then
\* the system proxy is off.
CallRestart(c) ==
    /\ c \in {"tun", "lan", "restart", "banner", "member"} /\ UiAt(c, "call") /\ NoneQueued
    /\ \/ \E up \in {"on", "waiting"} :
             /\ srv' = [srv EXCEPT !.core = up, !.tun = uiTask[c].tun, !.lan = uiTask[c].lan]
             /\ Answered(c, IF up = "on" THEN "ok" ELSE "waiting")
       \/ /\ srv' \in {srv, [srv EXCEPT !.core = "off", !.proxy = FALSE]}
          /\ Answered(c, "err")
    /\ UNCHANGED <<ui, busy, beat, stale, beside, orphaned, clicks, mishaps>>

\* set_system_proxy needs a running core to turn it on.
CallProxy ==
    /\ UiAt("proxy", "call") /\ NoneQueued
    /\ \/ /\ uiTask["proxy"].want => srv.core = "on"
          /\ srv' = [srv EXCEPT !.proxy = uiTask["proxy"].want]
          /\ Answered("proxy", "ok")
       \/ Answered("proxy", "err") /\ UNCHANGED srv
    /\ UNCHANGED <<ui, busy, beat, stale, beside, orphaned, clicks, mishaps>>

\* prepare_tun_mode and release_tun_mode: refused while the core runs.
Prepare(c) ==
    /\ c \in {"power", "tun"} /\ UiAt(c, "prepare") /\ NoneQueued
    /\ \/ /\ srv.core # "on"
          /\ IF c = "power" THEN Goto(c, "call") /\ UNCHANGED <<ui, busy>>
             ELSE ui' = [ui EXCEPT !.tun = uiTask[c].want] /\ EndTask(c)
       \/ Goto(c, "check") /\ UNCHANGED <<ui, busy>>
    /\ UNCHANGED <<srv, beat, stale, beside, orphaned, clicks, mishaps>>

\* After a refused preparation: the status may have been stale. A start goes
\* on when the core runs, a release restarts it without TUN.
Check(c) ==
    /\ c \in {"power", "tun"} /\ UiAt(c, "check")
    /\ LET goesOn == srv.core = "on" /\ (c = "tun" => ~uiTask[c].want)
       IN \/ /\ goesOn /\ UNCHANGED mishaps
             /\ ClaimMore(c, IF c = "tun" THEN {"core_restarting"} ELSE {}, "call")
          \/ ~goesOn /\ EndTask(c) /\ UNCHANGED mishaps
          \/ goesOn /\ Mishap /\ EndTask(c)
    /\ UNCHANGED <<srv, ui, beat, stale, beside, orphaned, clicks>>

-----------------------------------------------------------------------------
(***************************************************************************)
(* What the window shows of an answer.                                     *)
(***************************************************************************)
\* apply_core_status, and restart_core_from_ui for every accepted restart.
Accept(c) ==
    LET up == uiTask[c].answer = "ok" /\ (c = "power" => uiTask[c].want)
        clears == up \/ c \in {"restart", "banner", "member"}
    IN [ui EXCEPT !.connected = up, !.pending = @ /\ ~clears,
                  !.tun = IF c = "tun" THEN uiTask[c].want ELSE @,
                  !.lan = IF c = "lan" THEN uiTask[c].want ELSE @]

\* Regression: a failed restart does not re-read what the backend did.
ShowAnswerForgets(c) ==
    /\ UiAt(c, "answered") /\ c # "proxy"
    /\ IF uiTask[c].answer = "err" THEN EndTask(c) /\ UNCHANGED ui
       ELSE /\ ui' = Accept(c)
            /\ IF c = "power" /\ ~ui'.connected
               THEN Goto(c, "proxyread") /\ UNCHANGED busy ELSE EndTask(c)
    /\ UNCHANGED <<srv, beat, stale, beside, orphaned, clicks, mishaps>>

\* A failure is re-read; a stop and a failed start re-read the system proxy.
ShowAnswer(c) ==
    /\ UiAt(c, "answered") /\ c # "proxy"
    /\ IF uiTask[c].answer = "err" THEN Goto(c, "reread") /\ UNCHANGED <<ui, busy>>
       ELSE /\ ui' = Accept(c)
            /\ IF c = "power" /\ ~ui'.connected
               THEN Goto(c, "proxyread") /\ UNCHANGED busy ELSE EndTask(c)
    /\ UNCHANGED <<srv, beat, stale, beside, orphaned, clicks, mishaps>>

\* A read of the system proxy, or a failure to read it.
ReadProxy(shown) ==
    \/ shown = (IF srv.proxy THEN "on" ELSE "off") /\ UNCHANGED mishaps
    \/ shown = "unread" /\ Mishap

\* set_system_proxy's answer, or the status after a refusal.
ShowProxy ==
    /\ UiAt("proxy", "answered")
    /\ \E shown \in ProxyShown :
          /\ IF uiTask["proxy"].answer = "err" THEN ReadProxy(shown)
             ELSE shown = (IF uiTask["proxy"].want THEN "on" ELSE "off") /\ UNCHANGED mishaps
          /\ ui' = [ui EXCEPT !.proxy = shown]
    /\ EndTask("proxy")
    /\ UNCHANGED <<srv, beat, stale, beside, orphaned, clicks>>

\* refresh_runtime_state; that of the power button leaves the proxy out.
Reread(c) ==
    /\ UiAt(c, "reread")
    /\ \E shown \in ProxyShown :
          /\ IF c = "power" THEN shown = ui.proxy /\ UNCHANGED mishaps ELSE ReadProxy(shown)
          /\ ui' = [ui EXCEPT !.connected = srv.core = "on", !.proxy = shown]
    /\ IF c = "power" /\ ~(uiTask[c].want /\ ui'.connected)
       THEN Goto(c, "proxyread") /\ UNCHANGED busy ELSE EndTask(c)
    /\ UNCHANGED <<srv, beat, stale, beside, orphaned, clicks>>

ProxyRead ==
    /\ UiAt("power", "proxyread")
    /\ \E shown \in ProxyShown : ReadProxy(shown) /\ ui' = [ui EXCEPT !.proxy = shown]
    /\ EndTask("power")
    /\ UNCHANGED <<srv, beat, stale, beside, orphaned, clicks>>

-----------------------------------------------------------------------------
(***************************************************************************)
(* The heartbeat, in every view, reads and then shows.                     *)
(***************************************************************************)
BeatReads ==
    /\ beat = "idle" /\ beat' = srv.core
    /\ UNCHANGED <<srv, ui, busy, uiTask, stale, beside, orphaned, clicks, mishaps>>

BeatFails ==
    /\ beat = "idle" /\ Mishap /\ beat' = "unavailable"
    /\ UNCHANGED <<srv, ui, busy, uiTask, stale, beside, orphaned, clicks>>

\* Regression: a heartbeat notices a core that stopped, never one that started.
BeatShowsOnlyLosses ==
    /\ beat # "idle" /\ beat' = "idle"
    /\ ui' = [ui EXCEPT !.connected = @ /\ beat = "on"]
    /\ UNCHANGED <<srv, busy, uiTask, stale, beside, orphaned, clicks, mishaps>>

BeatShows ==
    /\ beat # "idle" /\ beat' = "idle"
    /\ ui' = [ui EXCEPT !.connected = beat = "on"]
    /\ UNCHANGED <<srv, busy, uiTask, stale, beside, orphaned, clicks, mishaps>>

-----------------------------------------------------------------------------
\* The user moves: the tasks of the page that goes are dropped.
Navigate(page) ==
    /\ page # ui.page
    /\ LET dropped == {c \in Controls : ~UiIdle(c) /\ uiTask[c].home = ui.page}
       IN /\ IF dropped = {} THEN UNCHANGED mishaps ELSE Mishap
          /\ uiTask' = [c \in Controls |-> IF c \in dropped THEN NoUiTask ELSE uiTask[c]]
          /\ orphaned' = orphaned \cup UNION {uiTask[c].owns : c \in dropped}
          /\ stale' = (stale \/ dropped # {})
          /\ UNCHANGED beside
    /\ ui' = [ui EXCEPT !.page = page]
    /\ UNCHANGED <<srv, busy, beat, clicks>>

\* flag_config_pending: an edit while connected.
EditConfig ==
    /\ ui.connected /\ ~ui.pending /\ ui' = [ui EXCEPT !.pending = TRUE]
    /\ UNCHANGED <<srv, busy, uiTask, beat, stale, beside, orphaned, clicks, mishaps>>

CoreDies ==
    /\ srv.core = "on" /\ Mishap /\ srv' = [srv EXCEPT !.core = "off"]
    /\ UNCHANGED <<ui, busy, uiTask, beat, stale, beside, orphaned, clicks>>

\* The VPN consent of Android is given or refused.
ConsentEnds ==
    /\ srv.core = "waiting" /\ \E up \in {"on", "off"} : srv' = [srv EXCEPT !.core = up]
    /\ UNCHANGED <<ui, busy, uiTask, beat, stale, beside, orphaned, clicks, mishaps>>

TaskStep(c) ==
    \/ CallRestart(c) \/ Prepare(c) \/ Check(c) \/ ShowAnswer(c) \/ Reread(c)
    \/ c = "power" /\ (CallPower \/ ProxyRead)
    \/ c = "proxy" /\ (CallProxy \/ ShowProxy)
    \/ c = "tun" /\ TunRuns
    \/ c = "lan" /\ LanRuns
    \/ QueuedRuns(c)

UiNext ==
    \/ PowerClick \/ TunClick \/ LanClick \/ ProxyClick \/ RestartClick
    \/ BannerClick \/ MemberClick
    \/ \E c \in Controls : TaskStep(c)
    \/ BeatReads \/ BeatFails \/ BeatShows
    \/ \E page \in Pages : Navigate(page)
    \/ EditConfig \/ CoreDies \/ ConsentEnds

\* Tasks are polled until they end, and the heartbeat never stops.
UiFairness ==
    /\ \A c \in Controls : WF_uiVars(TaskStep(c))
    /\ WF_uiVars(BeatReads \/ BeatFails) /\ WF_uiVars(BeatShows)

UiSpec == UiInit /\ [][UiNext]_uiVars /\ UiFairness

-----------------------------------------------------------------------------
\* RuntimeSignals::busy keeps the runtime calls of one window apart.  The one
\* way around it is the banner: its future looks at core_restarting alone, and
\* one that runs beside another task lets each clear the flag of the other.
OneRuntimeCall == beside \/ Cardinality({c \in Controls : UiAt(c, "call")}) <= 1

\* When nothing is in flight and no task was started on a stale status, the TUN,
\* LAN and system proxy switches show what the backend has; the failure paths
\* re-read what they changed.
ShownIsTrue ==
    (\A c \in Controls : UiIdle(c)) /\ ~stale /\ ~beside =>
        /\ ui.proxy # "unread" => (ui.proxy = "on") = srv.proxy
        /\ srv.core = "on" => ui.tun = srv.tun /\ ui.lan = srv.lan

\* Every busy signal is released, but for those whose page was left.
BusyEnds == []<>(busy \subseteq orphaned)

\* The heartbeat makes the shown connection follow the core.
UiConverges == <>[](srv.core = "on") => <>[]ui.connected
UiConvergesDown == <>[](srv.core = "off") => <>[](~ui.connected)
=============================================================================
