----------------------------- MODULE SyncSession -----------------------------
(***************************************************************************)
(* The sync card of the settings page (ui sync.rs) and the autosave of     *)
(* proxy_app.rs over the server functions sync_push, sync_pull and         *)
(* commit_sync_pull: what the windows show, the profile file and the one   *)
(* baseline of this device, and the target it shares with another device.*)
(* RemoteSync has the protocol below the server functions; here an upload  *)
(* or a download of the target is one step.                                *)
(*                                                                         *)
(* A document is the set of edits it holds: users of this model only add.  *)
(***************************************************************************)
EXTENDS Naturals, FiniteSets

CONSTANTS
    SyncWindows,  \* windows of the application on this device
    LocalEdits,   \* edits made on this device
    OtherEdits,   \* edits the other device makes
    Interrupts,   \* TRUE: tasks and autosaves may be cut off by leaving or reloading, and
                  \* the answer of a commit may be lost
    MaxReloads,   \* bound on crashes and reloads of a window
    MaxUploads    \* bound on the writes of the target

ASSUME SessionAssumption ==
    /\ LocalEdits \cap OtherEdits = {}
    /\ Interrupts \in BOOLEAN /\ MaxReloads \in Nat /\ MaxUploads \in Nat

VARIABLES
    target,   \* the target: content, revision, and who wrote it last
    device,   \* this device: the profile file and the stored baseline
    syncWin,  \* per window: signals, pending autosave, sync page, conflict panel
    syncTask, \* per window: the task of its sync page
    reloads

ssVars == <<target, device, syncWin, syncTask, reloads>>

Edits == LocalEdits \cup OtherEdits
NoSyncTask == [stage |-> "none", content |-> {}, rev |-> 0]

SessionTypeOK ==
    /\ target \in [content : SUBSET Edits, rev : 0..MaxUploads,
                   by : {"none", "other", "safe", "forced"}]
    /\ device \in [file : SUBSET Edits, base : 0..MaxUploads]
    /\ syncWin \in [SyncWindows -> [content : SUBSET Edits, unsaved : BOOLEAN,
                                page : BOOLEAN, conflict : BOOLEAN]]
    /\ syncTask \in [SyncWindows -> [stage : {"none", "fetched", "saved", "committed"},
                                 content : SUBSET Edits, rev : 0..MaxUploads]]
    /\ reloads \in 0..MaxReloads

SessionInit ==
    /\ target = [content |-> {}, rev |-> 0, by |-> "none"]
    /\ device = [file |-> {}, base |-> 0]
    /\ syncWin = [w \in SyncWindows |-> [content |-> {}, unsaved |-> FALSE,
                                     page |-> FALSE, conflict |-> FALSE]]
    /\ syncTask = [w \in SyncWindows |-> NoSyncTask]
    /\ reloads = 0

Write(content, by) ==
    /\ target.rev < MaxUploads
    /\ target' = [content |-> content, rev |-> target.rev + 1, by |-> by]

\* operation_lock: between the first and the last write of a commit.
SyncLockFree == \A w \in SyncWindows : syncTask[w].stage # "saved"

\* The buttons of the sync page: off while `busy`.
SyncIdle(w) == syncWin[w].page /\ syncTask[w] = NoSyncTask

-----------------------------------------------------------------------------
OtherDeviceEdits(e) ==
    /\ e \notin target.content
    /\ Write(target.content \cup {e}, "other")
    /\ UNCHANGED <<device, syncWin, syncTask, reloads>>

\* Rules, subscriptions and the script are edited on other pages.
Edit(w, e) ==
    /\ ~syncWin[w].page /\ e \notin syncWin[w].content
    /\ syncWin' = [syncWin EXCEPT ![w].content = @ \cup {e}, ![w].unsaved = TRUE]
    /\ UNCHANGED <<target, device, syncTask, reloads>>

\* The debounced save writes what the window shows over the file.
Autosave(w) ==
    /\ syncWin[w].unsaved
    /\ device' = [device EXCEPT !.file = syncWin[w].content]
    /\ syncWin' = [syncWin EXCEPT ![w].unsaved = FALSE]
    /\ UNCHANGED <<target, syncTask, reloads>>

OpenPage(w) ==
    /\ ~syncWin[w].page
    /\ syncWin' = [syncWin EXCEPT ![w].page = TRUE, ![w].conflict = FALSE]
    /\ UNCHANGED <<target, device, syncTask, reloads>>

\* Leaving the page drops the task it spawned, wherever that stands.
LeavePage(w) ==
    /\ syncWin[w].page /\ (Interrupts \/ syncTask[w] = NoSyncTask)
    /\ syncWin' = [syncWin EXCEPT ![w].page = FALSE]
    /\ syncTask' = [syncTask EXCEPT ![w] = NoSyncTask]
    /\ UNCHANGED <<target, device, reloads>>

\* A reload or a crash and a start: load_profile reads the file.
Reload(w) ==
    /\ reloads < MaxReloads /\ reloads' = reloads + 1
    /\ Interrupts \/ (syncTask[w] = NoSyncTask /\ ~syncWin[w].unsaved)
    /\ syncWin' = [syncWin EXCEPT ![w] = [content |-> device.file, unsaved |-> FALSE,
                                  page |-> FALSE, conflict |-> FALSE]]
    /\ syncTask' = [syncTask EXCEPT ![w] = NoSyncTask]
    /\ UNCHANGED <<target, device>>

-----------------------------------------------------------------------------
\* sync_pull.
PullFetch(w) ==
    /\ SyncIdle(w) /\ SyncLockFree /\ target.rev > 0
    /\ syncTask' = [syncTask EXCEPT ![w] = [stage |-> "fetched", content |-> target.content,
                                    rev |-> target.rev]]
    /\ UNCHANGED <<target, device, syncWin, reloads>>

\* commit_sync_pull: the profile, then the baseline.
CommitProfile(w) ==
    /\ syncTask[w].stage = "fetched" /\ SyncLockFree
    /\ device' = [device EXCEPT !.file = syncTask[w].content]
    /\ syncTask' = [syncTask EXCEPT ![w].stage = "saved"]
    /\ UNCHANGED <<target, syncWin, reloads>>

\* Regression: the baseline recorded is whatever the target is at by now.
CommitBaselineNow(w) ==
    /\ syncTask[w].stage = "saved"
    /\ device' = [device EXCEPT !.base = target.rev]
    /\ syncTask' = [syncTask EXCEPT ![w].stage = "committed"]
    /\ UNCHANGED <<target, syncWin, reloads>>

CommitBaseline(w) ==
    /\ syncTask[w].stage = "saved"
    /\ device' \in {device, [device EXCEPT !.base = syncTask[w].rev]}
    /\ syncTask' = [syncTask EXCEPT ![w].stage = "committed"]
    /\ UNCHANGED <<target, syncWin, reloads>>

\* apply_sync_snapshot: the signals follow, and the autosave with them.
Apply(w) ==
    /\ syncTask[w].stage = "committed"
    /\ syncWin' = [syncWin EXCEPT ![w].content = syncTask[w].content, ![w].unsaved = TRUE,
                          ![w].conflict = FALSE]
    /\ syncTask' = [syncTask EXCEPT ![w] = NoSyncTask]
    /\ UNCHANGED <<target, device, reloads>>

\* A task that fails reports and leaves everything else alone: before the
\* commit, or when only the answer of the commit is lost.
PullFails(w) ==
    /\ syncTask[w].stage \in {"fetched"} \cup (IF Interrupts THEN {"committed"} ELSE {})
    /\ syncTask' = [syncTask EXCEPT ![w] = NoSyncTask]
    /\ UNCHANGED <<target, device, syncWin, reloads>>

\* sync_push under the stored baseline, whatever the window holds.
Upload(w, by) ==
    /\ Write(syncWin[w].content, by)
    /\ device' = [device EXCEPT !.base = target'.rev]
    /\ syncWin' = [syncWin EXCEPT ![w].conflict = FALSE]
    /\ UNCHANGED <<syncTask, reloads>>

SafePush(w) ==
    /\ SyncIdle(w) /\ SyncLockFree
    /\ target.rev \in {0, device.base}
    /\ Upload(w, "safe")

SafePushRefused(w) ==
    /\ SyncIdle(w) /\ SyncLockFree
    /\ target.rev \notin {0, device.base}
    /\ syncWin' = [syncWin EXCEPT ![w].conflict = TRUE]
    /\ UNCHANGED <<target, device, syncTask, reloads>>

ForcePush(w) == SyncIdle(w) /\ SyncLockFree /\ Upload(w, "forced")

SessionNext ==
    \/ \E e \in OtherEdits : OtherDeviceEdits(e)
    \/ \E w \in SyncWindows :
          \/ \E e \in LocalEdits : Edit(w, e)
          \/ Autosave(w) \/ OpenPage(w) \/ LeavePage(w) \/ Reload(w)
          \/ PullFetch(w) \/ CommitProfile(w) \/ CommitBaseline(w) \/ Apply(w)
          \/ PullFails(w) \/ SafePush(w) \/ SafePushRefused(w) \/ ForcePush(w)

SessionSpec == SessionInit /\ [][SessionNext]_ssVars

-----------------------------------------------------------------------------
\* sync.rs of the UI on the upload button: the conditional write is there so
\* that it "avoids quietly overwriting other devices' updates".  An upload that
\* is not forced keeps every edit of the other device the target held (of one
\* window without interruptions: with them it does not, run sync_overwrite).
SafePushKeepsOthers ==
    [][target' # target /\ target'.by = "safe" =>
           target.content \cap OtherEdits \subseteq target'.content]_ssVars
=============================================================================
