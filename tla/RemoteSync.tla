----------------------------- MODULE RemoteSync -----------------------------
(***************************************************************************)
(* packages/api/src/sync.rs and the server functions of lib.rs that call   *)
(* it: devices that share one remote target, each with a baseline of its   *)
(* own in sync.json. The target holds a bundle (section objects named by   *)
(* their content and a manifest that lists them) and may still hold the    *)
(* single document of older builds. One step is one HTTP request or one    *)
(* write of a local file; operation_lock orders the requests of a device.  *)
(*                                                                         *)
(* Every write of the manifest or of the document has an identity, which   *)
(* is also its ETag; 0 stands for "absent" and for "no ETag".              *)
(***************************************************************************)
EXTENDS Integers

CONSTANTS
    Devices,
    Contents,  \* what a profile may hold: sets of section objects
    MaxClock,  \* bound on what a device's clock reads
    MaxWrites, \* bound on the writes of manifest and legacy document
    MaxMishaps \* bound on crashes, failed writes, lost answers, changes of the
               \* target and publications by an older build

ASSUME SyncAssumption == MaxClock \in Nat \ {0} /\ MaxWrites \in Nat /\ MaxMishaps \in Nat

VARIABLES
    etags,     \* which answers of the store carry an ETag: "get", "put"
    manifest,  \* the remote manifest
    objects,   \* the remote section objects
    legacy,    \* the remote single document
    sync,      \* per device: last_sync_at and last_remote_revision
    task,      \* per device: where the request under operation_lock stands
    pulled,    \* per device: a downloaded snapshot a window has yet to commit
    seen,      \* history, per device: the writes whose content it held
    forced,    \* history: some upload was an explicit overwrite
    writes,    \* writes so far (bound, and the source of identities)
    mishaps    \* mishaps so far (bound)

remoteVars == <<manifest, objects, legacy>>
vars == <<etags, remoteVars, sync, task, pulled, seen, forced, writes, mishaps>>

Objects == UNION Contents
Revisions == 0..MaxWrites
Times == 0..MaxClock + MaxWrites

NoDocument == [id |-> 0, at |-> 0, files |-> {}]
NoBaseline == [at |-> 0, rev |-> 0]

\* UploadCondition: the revisions of the manifest under which a PUT is accepted.
Unconditional == Revisions
Missing == {0}
Match(rev) == {rev}

Idle == [pc |-> "idle", force |-> FALSE, content |-> {}, todo |-> {},
         cond |-> Unconditional, id |-> 0, at |-> 0, rev |-> 0]

Documents == [id : Revisions, at : Times, files : SUBSET Objects]

TypeOK ==
    /\ etags \in {{}, {"get"}, {"get", "put"}}
    /\ manifest \in Documents
    /\ objects \subseteq Objects
    /\ legacy \in Documents
    /\ sync \in [Devices -> [at : Times, rev : Revisions]]
    /\ task \in [Devices -> [pc : {"idle", "legacy", "upload", "reread",
                                   "pull_legacy", "fetch", "save"},
                             force : BOOLEAN, content : SUBSET Objects,
                             todo : SUBSET Objects, cond : SUBSET Revisions,
                             id : Revisions, at : Times, rev : Revisions]]
    /\ pulled \in [Devices -> [id : Revisions, at : Times, rev : Revisions]]
    /\ seen \in [Devices -> SUBSET Revisions]
    /\ forced \in BOOLEAN
    /\ writes \in Revisions
    /\ mishaps \in 0..MaxMishaps

NothingPulled == [id |-> 0, at |-> 0, rev |-> 0]

Init ==
    /\ etags \in {{}, {"get"}, {"get", "put"}}
    /\ manifest = NoDocument
    /\ objects = {}
    /\ legacy = NoDocument
    /\ sync = [d \in Devices |-> NoBaseline]
    /\ task = [d \in Devices |-> Idle]
    /\ pulled = [d \in Devices |-> NothingPulled]
    /\ seen = [d \in Devices |-> {}]
    /\ forced = FALSE
    /\ writes = 0
    /\ mishaps = 0

-----------------------------------------------------------------------------
Mishap == mishaps < MaxMishaps /\ mishaps' = mishaps + 1
NoMishap == UNCHANGED mishaps

At(d, pc) == task[d].pc = pc
Goto(d, pc) == task' = [task EXCEPT ![d].pc = pc]
Done(d) == task' = [task EXCEPT ![d] = Idle]

\* The ETag an answer to a GET shows of the document that was read.
Shown(doc) == IF "get" \in etags THEN doc.id ELSE 0

\* require_baseline and require_not_newer.
RequireBaseline(d, rev) ==
    /\ sync[d] # NoBaseline
    /\ rev # 0
    /\ sync[d].rev \in {0, rev}

RequireNotNewer(d, at) == at <= sync[d].at

-----------------------------------------------------------------------------
(***************************************************************************)
(* sync_push.                                                              *)
(***************************************************************************)
NewPush(content, force) ==
    [Idle EXCEPT !.pc = "upload", !.force = force, !.content = content, !.todo = content]

\* An explicit overwrite reads nothing and uploads unconditionally.
PushForced(d, content) ==
    /\ At(d, "idle")
    /\ task' = [task EXCEPT ![d] = NewPush(content, TRUE)]
    /\ forced' = TRUE
    /\ UNCHANGED <<etags, remoteVars, sync, pulled, seen, writes, mishaps>>

\* A normal upload starts with remote_state, whose first request reads the
\* manifest. Uploads only what that does not name, and only over that.
Checked(d, content, cond) ==
    IF manifest.id = 0
    THEN [NewPush(content, FALSE) EXCEPT !.pc = "legacy"]
    ELSE IF RequireBaseline(d, Shown(manifest)) /\ RequireNotNewer(d, manifest.at)
    THEN [NewPush(content, FALSE) EXCEPT !.cond = cond, !.todo = content \ manifest.files]
    ELSE Idle

\* Regression: the check passes but the upload does not carry its condition.
PushUnconditional(d, content) ==
    /\ At(d, "idle")
    /\ task' = [task EXCEPT ![d] = Checked(d, content, Unconditional)]
    /\ UNCHANGED <<etags, remoteVars, sync, pulled, seen, forced, writes, mishaps>>

PushNormal(d, content) ==
    /\ At(d, "idle")
    /\ task' = [task EXCEPT ![d] = Checked(d, content, Match(Shown(manifest)))]
    /\ UNCHANGED <<etags, remoteVars, sync, pulled, seen, forced, writes, mishaps>>

\* Nothing is there and nothing was, or a document this device may replace.
LegacyAllows(d) ==
    \/ legacy.id = 0 /\ sync[d] = NoBaseline
    \/ legacy.id # 0 /\ RequireBaseline(d, Shown(legacy)) /\ RequireNotNewer(d, legacy.at)

\* remote_state, second request: the document of an older build. The upload that
\* follows is the first of a bundle. (id remembers what was read, for a property.)
ReadLegacy(d) ==
    /\ At(d, "legacy")
    /\ \/ /\ LegacyAllows(d)
          /\ task' = [task EXCEPT ![d].pc = "upload", ![d].cond = Missing, ![d].id = legacy.id]
       \/ /\ ~LegacyAllows(d)
          /\ Done(d)
    /\ UNCHANGED <<etags, remoteVars, sync, pulled, seen, forced, writes, mishaps>>

\* upload_bundle: the section objects, one by one and unconditionally ...
UploadObject(d) ==
    /\ At(d, "upload")
    /\ \E o \in task[d].todo :
         /\ objects' = objects \cup {o}
         /\ task' = [task EXCEPT ![d].todo = @ \ {o}]
    /\ UNCHANGED <<etags, manifest, legacy, sync, pulled, seen, forced, writes, mishaps>>

\* Regression: the manifest does not wait for the objects.
ReadyToPutEarly(d) == At(d, "upload")

\* ... and when all are there, the manifest.
ReadyToPut(d) == At(d, "upload") /\ task[d].todo = {}

\* Regressions: the clock alone, and the clock on top of the baseline.
UpdatedAtClock(d, now) == now
UpdatedAtSum(d, now) == now + sync[d].at + 1

\* snapshot.updated_at, on a device whose clock reads now.
UpdatedAt(d, now) == IF now > sync[d].at THEN now ELSE sync[d].at + 1

\* The store accepts the manifest. Its answer shows the ETag, or does not, or
\* is lost on the way.
PutAccepted(d, now) ==
    LET doc == [id |-> writes + 1, at |-> UpdatedAt(d, now), files |-> task[d].content]
        written == [Idle EXCEPT !.at = doc.at]
    IN /\ manifest.id \in task[d].cond
       /\ writes < MaxWrites
       /\ writes' = writes + 1
       /\ manifest' = doc
       /\ seen' = [seen EXCEPT ![d] = @ \cup {doc.id}]
       /\ \/ Done(d) /\ Mishap
          \/ /\ "put" \in etags /\ NoMishap
             /\ task' = [task EXCEPT ![d] = [written EXCEPT !.pc = "save", !.rev = doc.id]]
          \/ /\ "put" \notin etags /\ NoMishap
             /\ task' = [task EXCEPT ![d] = [written EXCEPT !.pc = "reread"]]

PutRefused(d) == \* 412: the remote changed after the check
    /\ manifest.id \notin task[d].cond
    /\ Done(d)
    /\ UNCHANGED <<manifest, seen, writes, mishaps>>

PutManifest(d) ==
    /\ ReadyToPut(d)
    /\ PutRefused(d) \/ \E now \in 1..MaxClock : PutAccepted(d, now)
    /\ UNCHANGED <<etags, objects, legacy, sync, pulled, forced>>

Adopt(d, rev) == task' = [task EXCEPT ![d].pc = "save", ![d].rev = rev]

\* Regression: the manifest found is taken for the one written.
RereadAnything(d) ==
    /\ At(d, "reread")
    /\ Adopt(d, Shown(manifest))
    /\ UNCHANGED <<etags, remoteVars, sync, pulled, seen, forced, writes, mishaps>>

\* The PUT had no ETag: take the manifest's if it carries the time just written.
\* When the request fails the revision stays unknown.
Reread(d) ==
    /\ At(d, "reread")
    /\ \/ Adopt(d, IF manifest.at = task[d].at THEN Shown(manifest) ELSE 0) /\ NoMishap
       \/ Adopt(d, 0) /\ Mishap
    /\ UNCHANGED <<etags, remoteVars, sync, pulled, seen, forced, writes>>

\* save_native_sync_state after a push or a commit; a failure is a warning.
SaveState(d) ==
    /\ At(d, "save")
    /\ \/ sync' = [sync EXCEPT ![d] = [at |-> task[d].at, rev |-> task[d].rev]] /\ NoMishap
       \/ UNCHANGED sync /\ Mishap
    /\ Done(d)
    /\ UNCHANGED <<etags, remoteVars, pulled, seen, forced, writes>>

-----------------------------------------------------------------------------
(***************************************************************************)
(* sync_pull and commit_sync_pull.                                         *)
(***************************************************************************)
Pull(d) ==
    /\ At(d, "idle")
    /\ pulled[d] = NothingPulled
    /\ task' = [task EXCEPT ![d] =
                  IF manifest.id = 0 THEN [Idle EXCEPT !.pc = "pull_legacy"]
                  ELSE [Idle EXCEPT !.pc = "fetch", !.todo = manifest.files,
                          !.id = manifest.id, !.at = manifest.at, !.rev = Shown(manifest)]]
    /\ UNCHANGED <<etags, remoteVars, sync, pulled, seen, forced, writes, mishaps>>

PullLegacy(d) ==
    /\ At(d, "pull_legacy")
    /\ pulled' = [pulled EXCEPT ![d] =
                    [id |-> legacy.id, at |-> legacy.at, rev |-> Shown(legacy)]]
    /\ Done(d)
    /\ UNCHANGED <<etags, remoteVars, sync, seen, forced, writes, mishaps>>

\* download_bundle: a missing object fails the whole pull. Objects are never
\* removed, so the requests for them are one step at the time of the last.
FetchBundle(d) ==
    /\ At(d, "fetch")
    /\ pulled' = [pulled EXCEPT ![d] =
                    IF task[d].todo \subseteq objects
                    THEN [id |-> task[d].id, at |-> task[d].at, rev |-> task[d].rev] ELSE @]
    /\ Done(d)
    /\ UNCHANGED <<etags, remoteVars, sync, seen, forced, writes, mishaps>>

\* Regression: the state is saved before the profile, which then fails.
CommitStateFirst(d) ==
    /\ At(d, "idle")
    /\ pulled[d] # NothingPulled
    /\ pulled' = [pulled EXCEPT ![d] = NothingPulled]
    /\ sync' = [sync EXCEPT ![d] = [at |-> pulled[d].at, rev |-> pulled[d].rev]]
    /\ seen' \in {seen, [seen EXCEPT ![d] = @ \cup {pulled[d].id}]}
    /\ UNCHANGED <<etags, remoteVars, task, forced, writes, mishaps>>

\* commit_sync_pull saves the profile first, then the state; other requests of
\* the device may have run since the pull.
Commit(d) ==
    /\ At(d, "idle")
    /\ pulled[d] # NothingPulled
    /\ pulled' = [pulled EXCEPT ![d] = NothingPulled]
    /\ \/ /\ seen' = [seen EXCEPT ![d] = @ \cup {pulled[d].id}]
          /\ task' = [task EXCEPT ![d] = [Idle EXCEPT !.pc = "save", !.at = pulled[d].at,
                                            !.rev = pulled[d].rev]]
          /\ NoMishap
       \/ UNCHANGED <<seen, task>> /\ Mishap
    /\ UNCHANGED <<etags, remoteVars, sync, forced, writes>>

-----------------------------------------------------------------------------
\* save_sync_config with another target, and later with this one again:
\* merge_sync_metadata drops the baseline.
Retarget(d) ==
    /\ At(d, "idle")
    /\ sync[d] # NoBaseline
    /\ sync' = [sync EXCEPT ![d] = NoBaseline]
    /\ Mishap
    /\ UNCHANGED <<etags, remoteVars, task, pulled, seen, forced, writes>>

\* A request to the remote fails, or the process ends: the request under the
\* lock is over, and with the process goes what a window had downloaded.
RequestFails(d) ==
    /\ task[d].pc \in {"legacy", "upload", "pull_legacy", "fetch"}
    /\ Done(d)
    /\ UNCHANGED <<etags, remoteVars, sync, pulled, seen, forced, writes, mishaps>>

Crash(d) ==
    /\ Mishap
    /\ Done(d)
    /\ pulled' = [pulled EXCEPT ![d] = NothingPulled]
    /\ UNCHANGED <<etags, remoteVars, sync, seen, forced, writes>>

\* A device with an older build publishes its single document.
OldBuildPublishes ==
    /\ writes < MaxWrites
    /\ writes' = writes + 1
    /\ Mishap
    /\ \E now \in 1..MaxClock : legacy' = [id |-> writes + 1, at |-> now, files |-> {}]
    /\ UNCHANGED <<etags, manifest, objects, sync, task, pulled, seen, forced>>

Next ==
    \/ \E d \in Devices :
         \/ \E content \in Contents : PushForced(d, content) \/ PushNormal(d, content)
         \/ ReadLegacy(d)
         \/ UploadObject(d) \/ PutManifest(d) \/ Reread(d)
         \/ SaveState(d)
         \/ Pull(d) \/ PullLegacy(d)
         \/ FetchBundle(d)
         \/ Commit(d)
         \/ Retarget(d) \/ RequestFails(d) \/ Crash(d)
    \/ OldBuildPublishes

Spec == Init /\ [][Next]_vars

-----------------------------------------------------------------------------
\* A reader only ever sees complete revisions: the manifest, and every manifest
\* a download is working on, names objects that are there (upload_bundle).
ManifestComplete ==
    /\ manifest.files \subseteq objects
    /\ \A d \in Devices : At(d, "fetch") => task[d].todo \subseteq objects

\* A store that answers uploads without an ETag makes the revision of an upload
\* a guess by its time, which an explicit overwrite may share; without one of
\* the two the guess is right.
RevisionsAreKnown == "put" \in etags \/ ~forced

\* Device d puts its manifest over the one that is there.
Replaces(d) == At(d, "upload") /\ ~At(d, "upload")' /\ manifest' # manifest

\* A normal upload only replaces a revision whose content this device has held,
\* whatever the other devices did between its check and its upload.
NoLostUpdate ==
    [][\A d \in Devices :
         Replaces(d) /\ ~task[d].force /\ manifest.id # 0 /\ RevisionsAreKnown
           => manifest.id \in seen[d]]_vars

\* A normal upload is newer than what it replaces, although clocks differ and
\* step back: the other devices can tell that they are behind.
UpdatedAtGrows ==
    [][\A d \in Devices :
         Replaces(d) /\ ~task[d].force => manifest'.at > manifest.at]_vars

\* The baseline never gets ahead of the profile: the revision on record is one
\* whose content this device holds or held (commit_sync_pull, sync_push).
BaselineIsHeld ==
    \A d \in Devices : RevisionsAreKnown /\ sync[d].rev # 0 => sync[d].rev \in seen[d]

\* A device at the remote's revision is at its time too, so after a download its
\* next normal upload is not refused as older than what it just downloaded.
BaselineAgrees ==
    \A d \in Devices :
        sync[d].rev # 0 /\ sync[d].rev = manifest.id => sync[d].at = manifest.at

-----------------------------------------------------------------------------
(***************************************************************************)
(* The inductive invariant: what is true of the remote, and of each device *)
(* whatever the others do.                                                 *)
(***************************************************************************)
\* Identities are given out in order; times run ahead of the clocks by at most
\* one a write.
RemoteInv ==
    /\ \A doc \in {manifest, legacy} :
         /\ doc.id <= writes /\ doc.at <= MaxClock + writes
         /\ doc.id = 0 => doc.at = 0
    /\ legacy.id = manifest.id => legacy.id = 0
    /\ manifest.files \subseteq objects

\* A revision recorded with a time is recorded with its own time.
Recorded(r) ==
    /\ r.rev <= writes /\ r.at <= MaxClock + writes
    /\ r.rev # 0 /\ r.rev = manifest.id => r.at = manifest.at

\* An upload that got no ETag is recorded by its time alone: until someone
\* overwrites explicitly, the remote is that upload or has a later time.
OwnWrite(d, at) ==
    "get" \in etags =>
        /\ "put" \notin etags
        /\ ~forced => at <= manifest.at /\ (at = manifest.at => manifest.id \in seen[d])

RecordInv(d, r) ==
    /\ r.rev # 0 /\ RevisionsAreKnown => r.rev \in seen[d]
    /\ r.rev = 0 /\ r.at # 0 => OwnWrite(d, r.at)

BaselineInv(d) == Recorded(sync[d]) /\ RecordInv(d, sync[d])

Downloaded(r) == r.id # 0 /\ r.rev = IF "get" \in etags THEN r.id ELSE 0

DownloadInv(d) ==
    /\ Recorded(pulled[d]) /\ pulled[d].id <= writes
    /\ pulled[d] = NothingPulled \/ Downloaded(pulled[d])

\* A normal upload carries the condition of a check whose outcome still stands.
StillChecked(d, rev) ==
    rev # 0 => /\ rev <= writes
               /\ rev = manifest.id => manifest.at <= sync[d].at
               /\ RevisionsAreKnown => rev \in seen[d]

UploadInv(d) ==
    /\ task[d].content \ task[d].todo \subseteq objects
    /\ ~task[d].force => \A rev \in task[d].cond : StillChecked(d, rev)

TaskInv(d) ==
    /\ Recorded(task[d]) /\ task[d].id <= writes
    /\ task[d].force => forced
    /\ At(d, "legacy") => ~task[d].force /\ task[d].todo = task[d].content
    /\ At(d, "upload") => UploadInv(d)
    /\ At(d, "reread") => task[d].rev = 0 /\ task[d].at # 0
    /\ At(d, "reread") \/ At(d, "save") => RecordInv(d, task[d])
    /\ At(d, "fetch") => Downloaded(task[d]) /\ task[d].todo \subseteq objects

DeviceInv(d) == BaselineInv(d) /\ DownloadInv(d) /\ TaskInv(d)

SyncInv == TypeOK /\ RemoteInv /\ \A d \in Devices : DeviceInv(d)

-----------------------------------------------------------------------------
\* sync.rs, push: the first bundle asserts that the manifest is absent, so "if an
\* old build re-published the single document in the meantime, this create fails
\* instead of silently shadowing it". A run refutes it.
LegacyNotShadowed ==
    [][\A d \in Devices :
         Replaces(d) /\ ~task[d].force /\ task[d].id # 0 => legacy.id = task[d].id]_vars
=============================================================================
