# Formal models of Kitty Pro

TLA+ models of Kitty Pro: the core and its elevated helpers, the requests that
start, stop and restart it, the system proxy, the cached rule files, the profile
file, the remote sync, the latency probe, the update check, the windows that drive
all of this, the background start of the web server, and the documents these parts
exchange. TLC checks the models on small instances (`MC*.tla` and the `.cfg`
files); TLAPS proves every safety property the passing runs check, and what bundles,
settings, releases and the server's guard promise, for every instance, under the
hypotheses section 4 names (`*Proofs.tla`). `PROJECT.json` is the index: components, runs, the source
lines each definition stands for, one mutation per property that TLC must find,
hazards, findings and theorems.

## 1. Inventory

### Components, their state and how they interact

| Component | State | Operations | Talks to | Model |
|---|---|---|---|---|
| **Engine** `singbox/src/lib.rs` | `SingBox { backend, prepared_config }`; a backend is nothing, an in-process core or a TUN helper | `prepare_config`, `discard_prepared_config`, `start_config`, `stop`, `force_shutdown`, `is_running` | the Go core over FFI, a helper over RPC | SingBoxEngine |
| **Desktop helper** `singbox/src/desktop_helper.rs` | an elevated process with one core, a lease connection to its owner, a sequential serve loop, a watchdog | launch, `start`, `stop`, `is_running`, `is_ready`, shutdown | its owner, the operating system | DesktopHelper |
| **macOS helper** `singbox/src/macos.rs` | the same, with a lease the owner listens on, a socket, and the system's resolver | the same | its owner, the operating system | MacHelper |
| **Core lifecycle** `api/src/core.rs` | `NativeCore { engine, config }` behind the mutex `core_slot` | `toggle_native_core`, `restart_native_core` with `restart_core_transaction`, `prepare_native_tun_mode`, `release_native_tun_mode` | engine, system proxy | CoreLifecycle |
| **System proxy, shutdown** `api/src/platform.rs` | the OS proxy, `system-proxy.pending`, an operation lock | `set_native_system_proxy`, `cleanup_stale_system_proxy_sentinel`, `shutdown_native_runtime` | OS, core lifecycle | CoreLifecycle |
| **Rule-set cache** `api/src/rule_set_cache.rs` | two rule files, two backups, two temporaries, a transaction file, a commit marker, an async lock | readiness check, update, install, rollback, recovery | remote download | RuleSetInstall, RuleSetPair |
| **Atomic writes** `api/src/atomic_write.rs` | temporary and backup files beside a destination | `atomic_write_bytes`, `recover_interrupted_writes` | every persisted file | ProfileStore |
| **Remote sync** `api/src/sync.rs`, `lib.rs`, `ui/src/app/sync.rs` | `sync.json` (target, secrets, baseline), the remote manifest, objects and legacy document, the windows' copies of the profile | `push`, `pull`, `commit_sync_pull`, `save_sync_config`, autosave | WebDAV or S3, profile | RemoteSync, SyncSession, SyncBundle, SyncFormat |
| **Latency sessions** `api/src/latency.rs`, `ui/src/app/nodes.rs` | a registry of sessions with results, a counter and a done flag; a polling loop per window | start, push and finish of the worker, poll, cancel, reaping | engine (a probe core) | LatencySession |
| **Update check** `api/src/update.rs`, `proxy-core/src/update.rs`, `ui/src/app/updates.rs` | `update.json` under a lock; a generation, a status and a busy flag per window | check, dismiss, settings | GitHub releases | UpdateCheck, ReleaseRules |
| **Profile** `proxy-core/src/model.rs`, `ui/src/app/{domain,subscriptions,rules}.rs` | the profile document and the signals that show it | migrate, import, refresh, use, delete, edit rules | everything above | ProfileModel, SubscriptionBook, RulesEditor |
| **Subscription parser** `proxy-core/src/parser.rs` | none | text to nodes and rejected entries | profile | SubscriptionParser |
| **Configuration** `proxy-core/src/{singbox_config,script}.rs` | none | request to core configuration, what a script may change | core lifecycle | ConnectionConfig |
| **Window** `ui/src/app/{proxy_app,runtime,toggles,overview}.rs` | signals: connection, mode, busy flags, generations | power, restart, TUN, LAN and proxy switches, tray, heartbeat | core lifecycle | UiRuntime |
| **Web server and command line** `web/src/{main,cli}.rs` | a port, a detached child, a session token | background start, the guard of the API | everything, as a browser's server | DaemonStart, ControlGuard |
| **Shell** `desktop/src/main.rs` | windows, tray | clean-up at startup, shutdown | all | CoreLifecycle, UiRuntime (partly) |
| **Android, Go bridge, autostart, route watcher, URL policy** | a VPN service, a table of cores, OS registrations | | | not modelled, section 6 |

### What is hard

* **Concurrency.** Several requests (window, tray, browser tabs) run at once on
  blocking threads. `core_slot` is held through a whole restart; the system
  proxy only tries it. The rule-set cache has an async lock its first check does
  not take. A helper is another process with its own life. A window runs one
  future per click, and a future dies with the page that spawned it.
* **Stale reads.** A window shows what an earlier answer said; a heartbeat may
  answer after the click that changed what it read; a baseline on disk is shared
  by windows that hold profiles of different ages.
* **Failure.** An RPC can fail after its effect; a stop can fail and have
  stopped; an OS call can fail half way; a file operation can fail between two
  renames; a helper can ignore its shutdown; a caller gives up and its request is
  carried out all the same.
* **Crashes.** The process can die between any two writes: a sentinel file, a
  transaction file with a marker, backups and temporaries are there for that. An
  owner can die and leave an elevated process behind.
* **Other writers.** A sync target is shared with devices that run at the same
  time, with older versions of the program, and with clean-up rules.
* **Documents.** The order of two rule lists decides where a connection goes, and
  every tag one list names must exist in another.

### What makes each component correct

* **Engine.** No elevated helper with a live lease is ever out of reach
  (`NoOrphanHelper`); "not running" is never said over a core that runs
  (`RunningCoreIsReachable`); discarding a preparation cannot take the live core
  down (`PreparedIsNotLive`).
* **Helpers.** The last answer tells what the core in the helper's hands does now,
  although requests that timed out are still carried out (`AnswersAreCurrent`); a
  shutdown that returned left nothing (`ShutdownMeansGone`); a lease that closes ends
  the process and its core (`NothingLingers`); the resolver does not point into a
  tunnel that is gone (`DnsImpliesRoute`, with one exception of the code).
* **Core lifecycle.** The configuration on record is the one that runs, so a
  rollback restores the right one (`ConfigDescribesCore`); the answer of a
  restart is true (`RestartTellsTheTruth`); no path waits for ever and every
  request is answered (`RequestsEnd`).
* **System proxy.** At rest the OS proxy never points at a dead port
  (`NoDanglingProxy`); a dead process leaves a sentinel (`SentinelCoversProxy`,
  which the code does not achieve).
* **Rule-set cache.** The two files are replaced as one, through any crash and any
  failing operation (`InstallsThePair`); "ready" means both files of one download
  (`ReadyMeansPair`); leftovers of earlier runs do no harm (`RecoveryIsSafe`).
* **Profile file.** What a save confirmed is found by the next start
  (`AckedIsKept`), and a load never sees part of a file (`FileIsAtomic`).
* **Remote sync.** A normal upload never replaces what its device has not held
  (`NoLostUpdate`) and is later than what it replaces (`UpdatedAtGrows`); readers
  see complete revisions (`ManifestComplete`); the baseline tells the truth
  (`BaselineIsHeld`, `BaselineAgrees`); what another device uploaded survives the
  windows of this one (`SafePushKeepsOthers`).
* **Latency.** A session is not removed while it is young and polled
  (`OnlyOldOrDoneLeave`); a loop accounts for every result of a registered one, and
  its closing count includes the results it did not get (`ResultsAreAccounted`).
* **Update check.** What the server confirmed stays, and it asks GitHub by itself
  only while the switch is on and the interval over (`UpdateStateIsObeyed`); an older answer never replaces a newer
  one (`AnswersNeverRegress`).
* **Window.** Its runtime calls do not run at once (`OneRuntimeCall`); what it
  shows at rest is so (`ShownIsTrue`); every busy flag is released and the shown
  connection follows the core (`AppSettles`).
* **Subscriptions and rules.** What is shown hangs together and a core that lags is
  flagged (`ShownIsCurrent`); the rule list keeps its limits and its ids, whatever
  is armed or open (`RulesStayUsable`).
* **Configuration.** Every tag it names exists and nothing needs itself
  (`ConfigsAreClosed`); names and connections go where rules, overrides and mode
  say (`RoutesFollowPolicy`).
* **Background start.** What it reports is so, and it leaves no child of a start that
  failed (`DaemonStartIsTruthful`).

## 2. The models

`MCCoreLifecycle` and `MCRemoteSync` give the two largest models their values. `MCHost` and `MCApp` put models that share no state side by side: a variable
`focus`, drawn at the start, says which of them moves. Their properties are
checked as if each had a run of its own.

### SingBoxEngine

`SingBox` of `singbox/src/lib.rs` and the helper processes it launches. `backend`
is the enum `CoreBackend` (`"Stopped"`, `"Embedded"` or the helper that a
`Privileged` backend owns), `prepared` the field `prepared_config`, `embedded`
the core of this process, `helpers` the processes, `portBusy` a mixed port that
is in TIME_WAIT or taken. Each public method is one action whose last argument is
its answer: `PrepareConfig`, `DiscardPrepared`, `StartConfig`, `Stop`,
`ForceShutdown`; `IsRunningAnswers` is the set of answers `is_running` can give.
The actions are disjunctions of named cases (`PrepareReuse`, `PrepareCurrent`,
`PrepareLaunch`, ...), one for each path of the method.

* The helper serves its RPCs one after the other, so an RPC that answers with an
  error was carried out or was not: both are outcomes of `"err"`.
* `AfterDrop` is `Drop` and `shutdown`: an Exit request, five seconds, a kill.
  A helper that survives is `"leaving"`: its lease is closed, its own watchdog
  ends it (`HelperExits`), and it belongs to nobody. DesktopHelper and MacHelper
  are the two ends of that, and show that the watchdog does.
* `Helpers` are identities, free again once the process is gone, so three of
  them are enough for the current, the prepared and a leaving one.

### DesktopHelper, MacHelper

Owner and helper as two processes. A request is a connection with a number: the
owner waits for the answer of the last one it made (`dhOwner.asked`) and gives up
after a timeout (`CallFails`); the helper accepts from a backlog (`ServeNext`), acts
(`Dispatch`) and answers (`Reply`), also to a caller that has gone.
The lease is the connection whose end is the signal: `Watchdog` is the thread
that waits for it. The helper reads its token (`ReadToken`), connects to the
listener of `launch` (`ConnectLease`: `"offered"`) and goes on; the owner accepts
when it looks (`AcceptLease`: `"held"`), or gives up first. A lease nobody accepted
stays open for as long as the listener does, which is until `launch` returns
(`LeaseListening`, `CloseLease`). On Linux the spawned process is the helper, on Windows a
shell around it (`dhDirect`), which is why a kill reaches the helper only in the
first case. The macOS helper connects back to the owner's lease, publishes the
resolver after the core runs (`MacPublishDns`) and withdraws it before the core
stops (`MacWithdrawDns`). A stop that fails leaves the helper without a handle
(`StopFails`, `MacLoses`): `dhCore` and `mhCore` are the core in its hands, `lost`
remembers that another may run on. An accept that fails ends the desktop helper's
loop (`AcceptFails`) and drops the macOS helper's state in the order of its fields
(`MacAcceptFails`, `MacStateDropped`). When the process ends, core, tunnel routes and
the resolver's session key go with it in one step. Either side can die at any step.

### CoreLifecycle (EXTENDS SingBoxEngine)

The requests of `api/src/core.rs` and `platform.rs`, each a small program whose
program counter is in `task`; `coreLock` is `core_slot`, `proxyLock` the
operation lock of the system proxy, `config` is `NativeCore.config`. One step is
one call on the engine or the OS; `start_config_with_bind_retry` is one step per
attempt. The outcomes of `restart_core_transaction` (candidate, preserved,
restored, offline) are in `task[k].outcome`, and `ConfigAfterRestart` is
`core_config_after_restart`.

* `disable_managed_system_proxy_before_core_outage` reads the status and turns
  the proxy off under two holds of the operation lock. Turning off is
  idempotent, so the two are one step at the time of the second.
* A proxy setting that was applied to some network services only is not told
  apart from one that was applied to all.
* `AtRest` lets a behaviour that used up its requests stutter, so that a real
  deadlock is still reported.

### RuleSetInstall, RuleSetPair

`RuleSetPair` is the promise: one variable, the cached pair, replaced as a whole.
`RuleSetInstall` is `rule_set_cache.rs`, one step per change of the directory:
the temporaries, the transaction file (opened, then written), the backups by
rename, the renames into place, the commit marker, and backwards
the rollback and the recovery; tests with no change between them are one step
with what follows, except where a test decides about a deletion that comes
later. The refinement mapping `Pair` is "what a recovery would
leave", so the pair changes at the very step that writes the commit marker.

### ProfileStore

The profile file under `atomic_write_bytes` and the residue clean-up of a
starting process, one step per file operation: the temporary, the rename over the
destination where the system allows it, otherwise the move aside, the rename and
the removal of the backup, and the way back when one fails. `psAcked` is what a
save confirmed. A save whose answer is an error may have replaced the file. The
loads of a process (`Readers`) run at once: each sees `RECOVERED` unset, lists the
directory and sweeps what it listed (`LoadBegin`, `SweepList`, `SweepLook`,
`SweepMove`), and the first one that ends sets it. `psCrossed` is a history: a save
began beside a sweep that had not ended.

### RemoteSync

`push`, `pull` and the commit of `api/src/sync.rs` and `lib.rs`, for several
devices with one target. One step is one HTTP request or one local write;
`task[d]` is the request under `operation_lock` of device d. `PushNormal` takes
the lock and does the first request (reading the manifest), `ReadLegacy` the
second, `UploadObject` and `PutManifest` are `upload_bundle`, `Reread` is the
question for the ETag a store did not give, `SaveState` is
`save_native_sync_state`.

* Writes have identities `1, 2, ...`, which are also their ETags: the model
  assumes strong validators (a new ETag for every write) and a store that
  evaluates the condition of a PUT and writes in one step. `0` is "absent" or
  "no ETag". A condition is the set of revisions it accepts.
* `etags` says which answers carry an ETag: those to GET and PUT, to GET only, or
  none. It is chosen once.
* A content is a set of section objects. Objects are named by their content and
  nothing removes them here (SyncBundle has the target that loses one), so the
  requests of a download are one step at the time of the last.
* What a device's profile holds is its history `seen`; the copies of the profile
  in windows are SyncSession's.
* `RevisionsAreKnown` guards two properties: where a store gives no ETag to a
  PUT, the code takes the revision it re-reads for its own if `updated_at` is
  equal, and an explicit overwrite by another device may share that time.
  Without explicit overwrites the guess is right (`OwnWrite`), which is what the
  properties and the proof say.

### SyncSession, SyncBundle, SyncFormat

`SyncSession` is what is above the protocol: windows that show a profile, edit
it and save it after a delay, a profile file, one baseline on disk, and the sync
card's tasks, which die with their page. `SyncBundle` is one device against a
target that loses objects; `Known` are the objects a push does not send again, none
when it is forced. `SyncFormat` is the bundle as operators: sections,
names by content, the manifest and its limits, the checks of a download, and the
target's configuration with secrets that are kept when the form sends none.

### LatencySession, UpdateCheck, UiRuntime

`LatencySession`: one step per lock, load or store of worker and poll. A poll
takes the results in one step and reads `done` and the counter in the next, which
is what makes a push in between interesting. The loop is the page's: it starts
(`PressRefresh`, `Register`, or `StartFails`, `StartRefused`), polls, hears
(`PollAnswer`) or does not hear (`PollLost`) what the server took, and is dropped when the page
is left (`LeaveNodes`), while the busy flag is the window's. `UpdateCheck`: the
server's state file, whose lock a fetch holds across its request; the clock a check
reads before it waits for that lock (`ReadClock`); the cards' requests with the
generation they were started under. `UiRuntime`: `uiTask[c]` is the future of
control c, `busy` the signals (`core_busy`, `core_restarting`, ...); a step
is what a future does between two awaits, since the window is single-threaded.
`srv` is the core as it is, `ui` what the window believes, `beat` the heartbeat,
which may show after a change what it read before. `stale` and `beside` are
histories: a task was started on a status that was out of date, the banner's
future ran beside another task.

### ProfileModel, SubscriptionBook, RulesEditor

`ProfileModel` holds the functions of `model.rs` and `domain.rs` on profiles:
migration, normalisation and limits, rule validation and the smallest free id,
namespacing of tags, the sync snapshot and its application.
`SubscriptionBook` is the page that imports, refreshes, uses and deletes, and the
groups' choices, with a restart in flight and what it puts back when it fails. A
choice (`SelectMember`) shows the node, asks the core (`CallReaches`), and writes the
selections it had read when the answer comes (`CallAnswered`); a call that fails, or
whose answer is lost, restarts the core (`CallFails`). The history `crossed` says that
what is shown changed while a restart or a call was on its way, that a subscription
was taken into use during a refresh (the tray does not wait for it), or that the
answer of a call was lost: that is when the code's flag can be wrong (section 5). `RulesEditor` is the page
with an editor that may be open and a delete that may be armed while the list
changes under them.

### SubscriptionParser, ConnectionConfig, ReleaseRules, ControlGuard

Pure algorithms as operators, on pieces instead of characters: an entry is a
record of what the parser branches on, a configuration a record of outbounds,
servers and rules. `ConnectionConfig` evaluates its own result the way the core
does (`Matching`: the first rule that matches), so that the properties are about
where a connection goes; a rule asks about what it names (`Questioned`), and
`Answering` is the rule that answers. What it keeps of a list goes through `Retain`
of `Lists`, the filter of the code by the places that pass it, which is what the proofs
reason about. `DocumentChecks` states what these promise of every
document of a small set, as assumptions TLC evaluates in the run `app`: tags stay
distinct, migration settles in one step, a snapshot travels and keeps what is
local, moves permute, an asset that is taken fits the system, "newer" is an order,
the calendar is the civil one, bundles travel and secrets survive, the server
answers exactly its own pages, the child of a background start listens where the
parent looks.

### DaemonStart

Parents and detached children on one address. The parent's test binds and lets
go (`TestPort`, `DropTest`), so two starts can pass it; a probe counts only when the answer
carries the start's own token (`TokenAnswers`); a parent that gives up kills its child.

## 3. The runs

| Run | Instance | What it shows |
|---|---|---|
| `lifecycle` | 2 clients, 3 requests, 2 helpers, 2 attempts, 1 crash, every call may fail; 250,226 states | `LifecycleTypeOK`, `ConfigDescribesCore`, `RestartTellsTheTruth` and, under weak fairness, `RequestsEnd` |
| `lifecycle_serial` | 1 client, 5 requests, 3 attempts, no failing OS call, no crash; 13,986 states | `NoDanglingProxy` |
| `host` | engine: 2 configurations, 3 helpers; each helper: 4 requests, 2 mishaps; rule files: 1 client at a time, 2 installations, 2 crashes, 1 fault; profile file: 1 process, 2 loads at once, 3 saves, 1 mishap; 2 background starts, 2 probes, 2 mishaps; 89,062 states | `HostTypeOK` and the properties of the six models |
| `app` | latency: 2 windows, 2 sessions, 2 polls, 1 slot; update: 1 card, 2 actions, 1 release, clock 1 to 2, interval 1, 1 fault; controls: 2 clicks, 1 mishap; subscriptions: 2, 4 actions, 2 restarts; rules: 6 edits; sync card: 3 uploads, 1 reload; 2,538 connection requests; 296,249 states | `AppTypeOK`, the properties of the six models, of every sampled configuration, and the assumptions of `DocumentChecks` |
| `remote_sync` | 2 devices, 2 contents, 3 writes, 1 mishap; 4.2 million states up to symmetry | `TypeOK`, `ManifestComplete`, `BaselineIsHeld`, `BaselineAgrees`, `NoLostUpdate`, `UpdatedAtGrows` |
| `core_off_race` | 2 clients, no fault | violation: the core is switched off under an enabled proxy |
| `sentinel_gap` | 1 client, 1 crash | violation: an enabled proxy without a sentinel |
| `retry_helper` | 1 client, 1 request | violation: the retry has no helper left |
| `rule_set_race` | 2 clients, 1 installation, nothing fails | violation: one file of each download stays |
| `sync_legacy` | as `remote_sync` with 2 mishaps | violation: a re-published document is shadowed |
| `sync_overwrite` | 1 window, pages may be left and answers lost, 3 uploads | violation: a normal upload drops another device's edit |
| `sync_reupload` | 1 device, 2 pushes, 1 lost object | violation: a new upload does not repair the bundle |

**Bounds and why they are enough.** *Engine*: the state space is finite and
unbounded in time; a start, an earlier helper and one that ignored its shutdown
need three helpers. *Helpers*: four requests give a start, one that times
out while it runs, and two that find the result; two mishaps are a timeout and a
death after it. *Lifecycle*: three requests are enough for one that holds a
lock, one that waits and one that arrives when the first ends; two attempts tell
the last one from an earlier one (the code has 45); five serial requests are
enough for start, proxy on, restart and the two that follow its failure.
`lifecycle` names the calls that may fail in `Faults`, so that a run can ask about
a system without them: `NoDanglingProxy` is claimed for one request at a time
and working OS calls only, because the code continues after a failed status
read, and because of `core_off_race`. *Rule set*: two
installations give an old, a middle and a new pair; two crashes, so that the
recovery is interrupted too; one failing operation at any point. There is one
client because the recovery takes no lock: `rule_set_race` is what two can do.
*Profile file*: three saves are one that is confirmed, one that is cut off and
one after it; two loads are two first loads that sweep at once (the proof has any
number); one mishap, one process, and a load before the first save, because
`AckedIsKept` fails without them (section 5). *Background start*: two
parents, an older server, and two mishaps, so that a child dies and a parent is
killed. *Latency*: one slot for two sessions makes reaping happen; a time to live of one
tick makes an old and a young session; two polls tell the last from
an earlier one. *Update*: the clock moves once, over an interval of one tick, so a check is asked
before or after it moves and waits for the lock across that moment; with one check
forced and one not, the stored time can be older, equal or newer than the one a check
read. One release, there from the start or published meanwhile, tells answers apart;
a second one after an ignored one is left to the proof, which has any number. *Controls*:
two clicks are enough for every pair of controls; the invariant was also run
with four, and is proved for any number. *Subscriptions and rules*: small
limits (2 rules, 2 subscriptions, 4 nodes) so that every limit is reached.
*Sync*: three writes give a chain in which the second is checked against the
first and replaced by the third; two contents, one a subset of the other, share
an object; two devices, since the properties are about one device and "the
others". `MaxClock = 1` makes all clocks equal and standing, the hardest case
for `UpdatedAtGrows`; the proof covers every other. One mishap is one lost answer,
failed save, crash, change of the target or publication by an older build; the
proof covers any number.

**Deadlock.** It is checked in `lifecycle`, `lifecycle_serial`, `remote_sync` and
their violation runs. `host`, `app`, `sync_overwrite` and `sync_reupload` set
`CHECK_DEADLOCK FALSE`: their processes may really stop (a helper that is gone, a
parent that has answered), and a behaviour ends when its bounds are used up. What
must not stop early is stated as liveness there (`NothingLingers`, `AppSettles`).

**Fairness.** `RequestsEnd` assumes `WF_vars(CoreStep(k))` for every client: a
request that can continue does. The requests run on blocking threads of a
runtime that schedules them, and every wait in them has a deadline (each RPC, the
launch of a helper, the shutdown, the second between two attempts), so a step
is taken or answers with an error. Weak fairness is enough for `core_slot`
because a bounded number of requests competes for it; with an unbounded stream
the mutex of the code does not promise order, and neither does the model.
`NothingLingers` assumes that the watchdog's thread, the helper's own loop, the
operating system's end of a killed process and the owner's shutdown go on
(`HelperFairness`, `MacFairness`), and that a parent does (`DaemonFairness`): threads
that only wait for a socket with a timeout or a system call. For the macOS helper
the watchdog alone is enough, as it ends the process. `AppSettles`
assumes that a spawned future is polled (`TaskStep`), that the heartbeat's timer
fires and its answer is shown, and that a latency loop goes on or the server does for
it (`LoopStep`): the executor of the window polls every woken future, each of their
calls returns, and what a dropped loop had asked the server still carries out. The
loop of a page that was left does not go on, and its flag is excepted. No fairness is assumed of clicks, new requests, deaths or of the
surroundings.

## 4. The proofs

**SingBoxEngineProofs.** `EngineSafe` is `EngineSpec => []EngineInv` with `EngineInv`
= type invariant and the three safety invariants, which together are inductive: that no
helper is orphaned when a backend is replaced needs to know that the preparation
never owns the running helper (`PreparedIsNotLive`), and that dropping the
preparation leaves the core reachable needs it again. One lemma per method says
that it preserves `EngineInv`; `LettingGo` is the common part, what `AfterDrop`
leaves. Assumed: `ConfigAssumption` (the TUN configurations are configurations, `None`
is none) and `HelperAssumption` (helpers are not the other backends). Nothing is assumed
about how many configurations and helpers there are. The theorems that follow
state each part.

**CoreLifecycleProofs.** `LifecycleSafe` is `Spec => []LifecycleInv`, for any set of
clients, any number of attempts, requests and crashes, and any set `Faults`.
`ConfigDescribesCore` and `RestartTellsTheTruth` are not inductive: while a restart
swaps the cores the record is out of date on purpose. `LifecycleInv` says what is
true instead at each place of a transaction: `StartingInv` (between the stop
and the outcome only the candidate, or only the previous configuration, can run),
`FinishingInv` (each outcome with what may run then), `TransactionInv` (the snapshot
`prev` is still the record until the core is stopped), and `RecordInv` (outside those
stretches the record is right). The argument has three parts:

* what the calls on the engine do to the cores that run (`NothingRuns`, `StartRuns`,
  `StopRuns`, `StoppedRuns`, `ForceRuns` and so on). They need the engine's own
  invariant: that `is_running` says no means that nothing runs because every core
  is the backend's (`RunningCoreIsReachable`), and `force_shutdown` ends every core
  because every helper is owned (`NoOrphanHelper`);
* `FreeStep` and `CoreTaskStep`: a step outside `core_slot` moves neither
  core nor record, and a step under it meets no other request inside a transaction, so
  each action is left with one request;
* `EngineStep`: every step is a step of `EngineNext` or leaves the engine alone, because
  a request that starts a core carries a configuration (`Targeted`, and `prev # None`
  at a restoration). `EngineInv` is therefore preserved by the engine's own
  theorem, and its theorems hold of the requests, as `LifecycleNoOrphanHelper` does.

`LifecycleNoDanglingProxy` is about one client at a time, working OS calls and no
crash (`Clients = {k}`, `Faults = {}`, `MaxCrashes = 0`): with two clients it is false
(`core_off_race`). Those are the hypotheses of the run `lifecycle_serial`, here with
any number of requests, attempts, helpers and configurations. `ProxyInv` goes
through the places a request can be at: in the settled ones (`Settled`) an enabled proxy has
a running core behind it (`ProxyBacked`), an outage has taken the proxy off before
it touches the core (`Outage`), a request that is about to enable it has seen a core
(`Enabling`), and a restart claims nothing between the stop of the old core and its
outcome. It rests on `LifecycleInv`: that `is_running` tells the truth (`SaysYes`, `SaysNo`) is
the engine's theorem, and that a preparation or its release leaves the running core
alone (`PrepareKeepsCore`, `DropKeepsCore`) is `PreparedIsNotLive`.

Assumed: `ClientAssumption` (`None` is no client), `BoundAssumption` (the bounds are
natural numbers, at least one attempt) and the engine's assumptions.

**RuleSetInstallProofs.** For one request at a time (`Clients = {k}`; with two the
theorems are false, `rule_set_race`), and any number of downloads, deaths and failing
operations. `DiskInv` says what the directory looks like after any step, which is
all a process that starts after a death can count on: without a transaction the
pair is whole, or one backup is left of a version that had no transactions; with
one and no marker, what the files were before can be put back (`Undoable`); with
both, the new pair is complete. `PhaseInv` says what the running request may count
on where it stands; the two rest on each other, so the lemma of each action proves
both. `RuleSetReady`, `RuleSetCommitted` and `RuleSetHalfWritten` follow, and
`RuleSetRefines` (`Spec => InstallsThePair`): `PairIsWhole` says that what a recovery
would leave is a pair or nothing, `PairStays` that nothing ever becomes of a pair.
Assumed: `ValueAssumption`, `BoundAssumption`.

**RemoteSyncProofs.** `SyncSafe` is `Spec => []SyncInv`, for any set of devices and of
contents, any clocks, any number of writes and mishaps. The properties are not inductive. What has to be
added is, for the remote, that identities and times stay behind the number of
writes (`RemoteInv`), and for each device (`DeviceInv`) what its request carries:

* a revision recorded anywhere (baseline, download, task) comes with that
  revision's own time (`Recorded`);
* the condition of a normal upload is a check that still stands: if the remote is
  still at that revision, this device has reached its time and has held its content
  (`StillChecked`). Another device's write makes the premise false, it never makes
  the conclusion false: that is why the check and the PUT may be far apart;
* an upload whose ETag is unknown is recorded by its time alone. Until someone
  overwrites explicitly, the remote is that upload or later than it (`OwnWrite`),
  which is why adopting a revision by an equal time is right.

`OthersUnmoved` and `OthersSeeWrite` say that a step of one device keeps what is true
of another, so the lemma of each action looks at one device. `MayReplace` and
`ReplacedUnderCondition` turn the invariant into the two action properties, `SyncNoLostUpdate`
and `SyncUpdatedAtGrows`. Assumed: `SyncAssumption`, the bounds are natural numbers.

**HostProofs.** Four models, then their composition.

* *Helpers*, for any number of requests, timeouts, failing stops and deaths. That an answer is current
  is an argument about the queue: requests are numbered, the backlog is in the order of
  their numbers (`QueueInv`, `NumberInv`), and a request changes the core when it is
  dispatched, so when the owner has the answer of its last request everything older
  has been carried out and nothing younger exists (`TruthInv`). The core is the one in
  the helper's hands: of one that ran on after a failed stop no answer speaks.
  `ProcessInv` and `RouteInv` are the order of core, resolver and process; the one
  path that breaks it, the accept error of macOS, has its place in the property.
* *Background start*, for any number of starts, probes and mishaps. `Listeners` ties
  the port to the life of the child that holds it; a parent that has answered knows
  its child's fate because the token it saw is its own (`DaemonTellsTheTruth`).
* *Profile file*, for any number of versions and of loads at once, of one process that loads
  before it saves and meets at most one death or failing operation (`Processes = {p}`,
  `LoadFirst`, `MaxStoreMishaps <= 1`, the hypotheses of the run `host`; section 5 says
  what happens without them). `WholeInv`: no file is torn. `KeptInv`, as long as no save
  began beside an unfinished sweep (`psCrossed`): the file is the newest version there
  is; while it is missing the newest backup is, and it is missing only inside a save or
  before the sweep of a start; what a process that has not swept finds is at most one
  backup, so the newest of them is the right one to put back; and what a save may count
  on where it stands. `StoreKeepsAcked` and `StoreIsAtomic` follow.
* *Host.* A step of the composition is a step of the part in `focus` and leaves the
  others alone, so each part runs by its own specification (`HostRunsHelper` and
  so on) and `HostAnswersAreCurrent`, `HostRecoveryIsSafe` and `HostTyped` follow from the
  parts' theorems, with the hypotheses of those.

Assumed: the bounds are numbers.

**UiRuntimeProofs.** For any number of clicks, left pages and failures. While a
control is active some signal is set and no other control is active (`OneInv`); a
future that has not been polled has claimed nothing and can release nothing
(`LateInv`). `OneRuntimeCall` follows: the runtime's calls do not meet, unless the
banner's future has run beside another task (section 5). `UiShownIsTrue` needs what
holds while a task is on its way: either the switches are right, or some control
still owes the window the answer that sets them (`SwitchesOwed`, `ProxyOwed`), and what a control
carries fits what the backend did for it (`Fits`). That is `TrueInv`; `UiKept` says
that it is kept together with the types and `UiInv`.

**ProfileProofs.** The lists of these two pages have any length, so the proofs start with
lemmas about order: what `Retain` keeps of a list is in its order and drops nothing else,
shown by counting the places up to one (`Rank`).

* *Subscriptions* (`BookSafe`), for any groups and any number of imports, refreshes,
  deletes, pulls, choices and restarts. No two subscriptions have the same id (`Distinct`),
  because none is larger than the number of steps that could have given it (`Numbered`), and
  a tag names one node of one of them (`Owned`). The rest is claimed of histories without what
  `crossed` stands for (`Uncrossed`; section 5 says what happens otherwise): the selected node
  is one of the nodes (`TagOk`), the selection of `proxy` is that node but during a call
  (`ProxyOk`), the active subscription is there (`ActiveOk`), the nodes are its nodes
  (`NodesOk`), a restart in flight holds what its failure will put back (`RestartInv`), and a
  call in flight what its answer will write (`CallInv`). That relates the core: one that
  runs another request than the page asks for is flagged (`SameRun`), and during a call
  it runs what was shown before, or that with the choice (`Asks`).
* *Rules* (`EditorSafe`), for any drafts and any number of edits and timers.
  `NextRuleIsFresh` is a pigeonhole: below the limit some id from 1 to the limit is
  free. A rearranged list is still valid (`RearrangedIsValid`); and a delete is armed for an
  entry of the shown tab and disarmed with it, so that an id that is given out again
  is not deleted by the second click of the entry that had it (`EditorRulesStayUsable`).

* *Configurations* (`ConfigCloses`, `RoutesFollow`), for any number of nodes, rules,
  overrides, name servers and selections. A configuration is a concatenation of lists, some of
  them retained from others. Two lemmas carry the proofs: the first rule that fits in
  `s \o t` is that of `s`, or else that of `t` (`AnswerIn`, `DecideIn`), and the first
  of a retained list is the first of the list that passes (`InOrderRises`). With
  them each part of the configuration is looked at alone: which tags it defines and names
  (`OutboundsAre`, `ServersAre`, `DnsPartsAre`, `RoutePartsAre`), and what it decides of a connection
  (`OverridesDecide`, `DirectRulesAnswer`, `RouteIs`, `ServerAnswers`). "Nothing needs itself" is shown by
  levels, from below: the direct and the bootstrap server, the servers of overrides and of a
  subscription, the nodes, the proxy group, the server behind the proxy; each needs only what
  is below it (`LevelsSettle`, `NoCircle`).
  The hypotheses (`ConnectionRequest`) are what the code guarantees of a request: the
  modes and actions of its types, tags that are distinct (`uniquify`, `parser.rs:846`) and none of the
  builder's own (every node's tag has the prefix of its subscription, `domain.rs:106`).
  `RoutesFollow` has two halves: which way a connection leaves, for any facts about it; and
  which server answers a name, for names that are no addresses and not of the zones that
  are always direct (`PlainNames`).

Assumed: `ProfileAssumption` (the limits are numbers, at least one subscription),
`BookAssumption`, `EditorAssumption`.

**AppProofs.** The other windows, their composition, and four documents.

* *Latency*, for any number of windows, sessions and tags: a session's counter is one
  behind what was pushed exactly between the two writes of its worker, and a
  loop that has seen done has nothing left to wait for (`SessionInv`, `LoopInv`); a
  session has one reader (`OneReader`), so what was pushed is in the session, in the
  poll or with the window (`KeptInv`) until an answer is lost.
* *Update check*, for any number of windows, requests, failures and deaths of the
  server: who works on the file holds the lock and knows what is stored (`RequestInv`),
  whatever time it read before it got the lock, and no answer is of a later generation than its window's (`MonitorInv`).
* *Sync card* (`SessionKeepsOthers`), for one window whose tasks are not cut off and whose answers arrive; with
  interruptions the property is false (`sync_overwrite`). `SeenInv`: a baseline that names
  the target's revision stands for content the window has seen or is about to be shown.
* *Application.* As for the host, each part runs by its own specification
  (`AppRunsLatency` and so on); `AppTyped` and the others follow. A behaviour keeps the request
  it was started with (`DocumentStays`), and the requests of the run are of the kind the theorems about
  configurations ask for (`SampleIsRequests`): hence `AppConfigsAreClosed`, `AppRoutesFollowPolicy`.
* *Bundles* (`BundleTravels`). The manifest lists each section of a bundle once, under the name of its content
  (`ManifestLists`), so a download either finds every content it names and gives the bundle
  as it was, or gives none. `PushedBundleArrives` is the other side of `sync_reupload`, for any texts and any
  number of pushes and losses: `BundleInv` says that the device holds a bundle and that
  every object is under its content's name, which is why a forced push repairs
  the target and an unforced one only when nothing is missing.
* *Settings* (`SettingsKeepSecrets`, `EndpointMovesOnce`): a mask is never stored, whatever a window
  sends; saving what was shown changes nothing; a baseline goes when the address
  changes. The one hypothesis on what is stored, that no secret is the mask, is
  what the first conclusion says of what is saved.
* *Releases.* `NewerOrdersVersions`: `is_newer` is a strict order in which any two
  different versions compare, for numbers of any size and pre-release lists of any
  length. The lists are compared at their first difference (`FirstDifference`), which exists because a
  set of numbers has a least element.
* *Guard.* `OwnPagesAnswered`: what a browser sends is answered exactly for the
  server's own pages, for any addresses, allowed names and tokens. TLC evaluates these
  documents' statements on small sets too (`DocumentChecks`).

Assumed: each model's assumption (bounds are numbers; the sync card's own and other edits
are different ones; a manifest may list every section).

**Model-checked only.**

* The other assumptions of `DocumentChecks`: the tags of a parsed subscription, the
  migration, the travel of a snapshot, the moves of a rule, the choice of an asset, the calendar, the
  arguments of a background start. Several are about folds, which are inductions over data
  that the prover cannot be given (the names `ParseUriLines` has given out, the arguments
  read so far); the rest are finite case splits that TLC goes through.
* That the total of a bundle is within the limit is a hypothesis of `BundleTravels` and a guard of
  the push; the sum itself is a fold and stays opaque.
* The liveness properties `RequestsEnd`, `NothingLingers` and `AppSettles`.
* What is false in general and proved with the run's own hypotheses, as said
  above: rule files with two requests, the profile file with two processes, the proxy with
  two clients, the sync card with pages that are left.

## 5. Where the code and its documents disagree

Each has a run whose counterexample is the scenario; `PROJECT.json` quotes the lines.

* `core_off_race`: a toggle-off disables the OS proxy before it takes `core_slot`.
  A request that enables the proxy fits in between, and the core is then stopped under it.
* `sentinel_gap`: the proxy is applied before the sentinel is written.
* `retry_helper`: the first attempt of a TUN start that finds the port busy
  shuts down the helper it was given, so the retry cannot succeed.
* `rule_set_race`: the first readiness check runs a recovery without the lock
  and can undo half of an installation that is being committed.
* `sync_legacy`: the condition that the manifest be absent does not notice an
  older build that publishes the other document again.
* `sync_overwrite`: a pull moves the baseline before its answer is shown; when the
  page is left in between, or the answer of the commit is lost, the next normal
  upload replaces what was pulled.
* `sync_reupload`: an upload never sends again what the manifest names, so a lost
  object stays lost although the error message asks for that upload.

What else the models showed. Where a property would fail, it names the exception
(`beside`, `stale`, `crossed`, `psCrossed`, `"dropping"`, the constants of a run), so
that the rest is checked:

* *Helpers.* `launch` keeps its lease listener until the helper's shutdown is over
  (`desktop_helper.rs:45`). On Linux, when a launch is given up with the helper's
  connection still in that listener, nothing ends the helper: the watchdog gets no
  end of file, an unprivileged owner cannot kill a root child, and `child.wait()`
  (:276) does not return; `ShutdownReturns` excepts it. `EmbeddedCore::stop` lets its
  handle go before it knows that the stop worked (`singbox/src/lib.rs:153`), so after
  a stop that failed a macOS helper answers the next one Ok (`macos.rs:889`) over a core
  that may still run; `lost` marks it, and the end of the process is what ends that
  core. After an accept error `run_helper` returns past the end of its loop
  (`macos.rs:783`), and `HelperState` drops its core (:411) before its resolver (:412):
  for that moment the resolver points at a tunnel that is gone.

* *Window.* The banner's restart looks at `core_restarting` only. Started beside
  another task, each clears the other's flag, and after a few clicks two runtime calls
  run at once (`beside` in `OneRuntimeCall`). A page that is left takes its
  futures along and not their busy signals (`orphaned` in `BusyEnds`). A LAN
  switch that reads a stale status sends the setting the core already has; a
  restart sends the settings of the moment it was clicked (`stale` in
  `ShownIsTrue`).
* *Subscriptions.* `config_pending` is cleared at the end of a restart also when
  something changed during it (`runtime.rs`, around line 150), so the drift is not
  flagged. A failed restart puts back signals that a deletion has changed
  meanwhile. A choice of a group writes, after its await, the selections it read before it
  (`nodes.rs:627`), over those a prune or a pull has set meanwhile; when the answer was
  lost and the restart that follows is refused without stopping the core, the shown choice
  goes back and the core keeps the new one, with no flag. The tray takes a subscription
  into use without waiting for a refresh of all: when its restart fails after the refresh
  has ended, it puts back nodes the refresh has replaced. The banner's
  restart can also run beside a choice (see *Window*): UiRuntime has that, the
  subscriptions' model has one call of the core at a time. A refresh of a subscription that is not in use neither prunes its
  selections nor flags the core.
* *Profile.* A profile that cannot be read for a moment is taken for an unreadable one,
  and the empty profile the window shows is saved over it by the first edit
  (`proxy_app.rs:548`). Two failures in a row, a save before the first load, or a second
  process in the same directory can lose a confirmed version (`LoadFirst`,
  `MaxStoreMishaps`, `Processes`). `RECOVERED` is read before the sweep and set after it
  (`atomic_write.rs:276`; its comment at :269 says the sweep runs once), so two first loads
  both sweep, and where a rename does not overwrite the later one can put a backup it
  had listed over a version that was confirmed meanwhile (`psCrossed`).
* *Latency.* Results that are pushed between a poll's take and its read of `done`
  are counted and not delivered (`latency.rs:409`). The results of a poll whose answer
  is lost are gone (`nodes.rs:229`), and the session with them when it was done. A nodes
  page that is left takes its loop along and not `latency_busy` (`nodes.rs:187`,
  `proxy_app.rs:127`): the button stays disabled, and the session waits for its
  time to pass.
* *Update.* A check reads the clock before it waits for the lock (`update.rs:213`): one
  that waited for a later one's answer finds the stored time in its future, takes that for
  a clock that was set back, asks GitHub again and stores the older time. On Windows the state file is removed before the rename. Leaving the settings
  page while the card checks leaves its busy flag set (`BusyWhileChecking`).
* *Configuration.* The download outbound that `core.rs:407` adds names a resolver
  `dns-local`, which no configuration of `singbox_config.rs` defines; `ConfigsAreClosed`
  is checked with cached rule files, when that outbound is not there. A custom rule that
  sends a name of the domestic list to the proxy sends its question to the direct
  server all the same (`singbox_config.rs:322`).
* *Web server.* Over plain HTTP from another machine a browser sends neither
  `Origin` nor `Sec-Fetch-Site` with a GET, so the guard answers the server's own
  page with 403 (`main.rs:283`). The session cookie lives twelve hours and no
  answer of the API renews it. On Windows a start on `0.0.0.0` probes an address
  nobody can connect to (`cli.rs:303`). The port test of one start can make the
  child of another fail to bind; a second start cleans up the proxy sentinel of the
  first before it finds the port taken (`main.rs:95`); a parent that is killed
  leaves its child running.

## 6. What is not modelled

* Traffic, logs, outbound selection and connection views: they read the core or
  forward to it. Log lines kept by sequence number lose what came before a restart
  when the new sequence passes the old cursor; nothing else has a state there.
* The byte formats of the RPC protocol, request signing, percent decoding, base64,
  URL and JSON syntax, and the XML of WebDAV: conversions with unit tests; the models
  start where a piece has been told apart.
* The launch dialogs (polkit, UAC, osascript) are one step with an answer.
* Server functions are stateless wrappers; the outbound URL policy is a predicate
  over addresses.
* Autostart, the macOS route watcher and the Android service are calls of operating
  system interfaces, and their order is that system's. The Go bridge is a table of
  handles in front of the external sing-box library; what the engine may assume
  of it is in SingBoxEngine.
* Rendering, icons, installers, styles.

## 7. Plan

Built in this order, because a wrong answer leaves an administrator process, a dead
proxy, a lost profile or a wrong route behind: the engine, the lifecycle on top
of it, the rule files against their abstract pair, the sync; then the helpers'
own side, the profile file, the windows and their sync card, the latency probe,
the update check, the pure documents, the background start; and the proofs of
every safety property the passing runs check.

What would add most next: the Android service against UiRuntime's consent
(`mobile/android/KittyVpnService.kt`), theorems about migration, snapshots and moves
of rules, with the filters of `ProfileModel` written with `Retain`, and an instance of
`app` with four clicks.
