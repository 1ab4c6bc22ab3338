-------------------------- MODULE RemoteSyncProofs --------------------------
(***************************************************************************)
(* SyncInv is an inductive invariant of the sync, for any set of devices   *)
(* and of contents, any clocks and any number of writes. The argument: a   *)
(* step of one device leaves what is true of the others in place (lemmas   *)
(* OthersUnmoved and OthersSeeWrite), so each action is left with the device *)
(* that takes it.                                                          *)
(***************************************************************************)
EXTENDS RemoteSync, TLAPS

RecordType == [at : Times, rev : Revisions]
DownloadType == [id : Revisions, at : Times, rev : Revisions]
TaskType == [pc : {"idle", "legacy", "upload", "reread", "pull_legacy", "fetch", "save"},
             force : BOOLEAN, content : SUBSET Objects, todo : SUBSET Objects,
             cond : SUBSET Revisions, id : Revisions, at : Times, rev : Revisions]

-----------------------------------------------------------------------------
\* Types of the constants' values, and of the records the actions start from.
LEMMA ConstantTypes ==
    /\ 0 \in Revisions /\ 0 \in Times
    /\ \A r \in Revisions : r \in Nat
    /\ \A t \in Times : t \in Nat
    /\ NoDocument \in Documents
    /\ NoBaseline \in RecordType
    /\ NothingPulled \in DownloadType
    /\ Idle \in TaskType
    /\ \A c \in Contents : c \in SUBSET Objects
    /\ MaxClock \in Nat \ {0} /\ MaxWrites \in Nat
BY SyncAssumption DEF Revisions, Times, NoDocument, Documents, NoBaseline, NothingPulled,
   Idle, RecordType, DownloadType, TaskType, Unconditional, Objects

\* The fields of the variables, for the provers.
LEMMA FieldTypes ==
    ASSUME TypeOK, NEW d \in Devices
    PROVE  /\ task \in [Devices -> TaskType] /\ task[d] \in TaskType
           /\ sync \in [Devices -> RecordType] /\ sync[d] \in RecordType
           /\ pulled \in [Devices -> DownloadType] /\ pulled[d] \in DownloadType
           /\ seen[d] \in SUBSET Revisions
           /\ sync[d].at \in Nat /\ sync[d].rev \in Nat
           /\ manifest.id \in Nat /\ manifest.at \in Nat
           /\ legacy.id \in Nat /\ legacy.at \in Nat
           /\ writes \in Nat
BY ConstantTypes DEF TypeOK, TaskType, RecordType, DownloadType, Documents

-----------------------------------------------------------------------------
\* A step of device d that leaves the manifest alone: what is true of another
\* device e stays true. Objects only grow, and an overwrite only weakens.
LEMMA OthersUnmoved ==
    ASSUME SyncInv, NEW e \in Devices,
           UNCHANGED <<etags, manifest, writes>>,
           objects \subseteq objects', forced => forced',
           task'[e] = task[e], sync'[e] = sync[e],
           pulled'[e] = pulled[e], seen'[e] = seen[e]
    PROVE  DeviceInv(e)'
<1>1. BaselineInv(e) /\ DownloadInv(e) /\ TaskInv(e)
  BY DEF SyncInv, DeviceInv
<1>2. RevisionsAreKnown' => RevisionsAreKnown
  BY DEF RevisionsAreKnown
<1>3. \A r : RecordInv(e, r) => RecordInv(e, r)'
  BY <1>2 DEF RecordInv, OwnWrite
<1>4. \A r : Recorded(r) => Recorded(r)'
  BY DEF Recorded
<1>5. BaselineInv(e)'
  BY <1>1, <1>3, <1>4 DEF BaselineInv
<1>6. DownloadInv(e)'
  BY <1>1, <1>4 DEF DownloadInv, Downloaded
<1>7. UploadInv(e) => UploadInv(e)'
  BY <1>2 DEF UploadInv, StillChecked
<1>8. TaskInv(e)'
  BY <1>1, <1>3, <1>4, <1>7 DEF TaskInv, At, Downloaded
<1> QED BY <1>5, <1>6, <1>8 DEF DeviceInv

\* So only the device that takes such a step is left to look at.
LEMMA DeviceStep ==
    ASSUME SyncInv, NEW d \in Devices, TypeOK', DeviceInv(d)',
           UNCHANGED <<etags, manifest, legacy, writes>>,
           objects \subseteq objects', forced => forced',
           \A e \in Devices \ {d} :
              /\ task'[e] = task[e] /\ sync'[e] = sync[e]
              /\ pulled'[e] = pulled[e] /\ seen'[e] = seen[e]
    PROVE  SyncInv'
<1>1. RemoteInv'
  BY DEF SyncInv, RemoteInv
<1>2. \A e \in Devices : DeviceInv(e)'
  BY OthersUnmoved
<1> QED BY <1>1, <1>2 DEF SyncInv

\* A step that only moves the task of a device, to t.
LEMMA TaskStep ==
    ASSUME SyncInv, NEW d \in Devices, NEW t \in TaskType,
           task' = [task EXCEPT ![d] = t],
           UNCHANGED <<etags, manifest, legacy, sync, pulled, seen, writes>>,
           objects' \in SUBSET Objects, objects \subseteq objects',
           forced' \in BOOLEAN, forced => forced', mishaps' \in 0..MaxMishaps,
           TaskInv(d)'
    PROVE  SyncInv'
<1>1. TypeOK'
  BY FieldTypes DEF SyncInv, TypeOK, TaskType
<1>2. BaselineInv(d)' /\ DownloadInv(d)'
  <2>1. BaselineInv(d) /\ DownloadInv(d)
    BY DEF SyncInv, DeviceInv
  <2>2. RevisionsAreKnown' => RevisionsAreKnown
    BY DEF RevisionsAreKnown
  <2> QED BY <2>1, <2>2 DEF BaselineInv, DownloadInv, RecordInv, OwnWrite, Recorded, Downloaded
<1>3. DeviceInv(d)'
  BY <1>2 DEF DeviceInv
<1>4. task \in [Devices -> TaskType]
  BY FieldTypes DEF SyncInv
<1> QED BY <1>1, <1>3, <1>4, DeviceStep

\* A request that is over leaves nothing to show.
LEMMA IdleTask ==
    ASSUME SyncInv, NEW d \in Devices, task'[d] = Idle, writes' = writes
    PROVE  TaskInv(d)'
<1>1. writes \in Nat /\ MaxClock \in Nat
  BY FieldTypes, ConstantTypes DEF SyncInv
<1> QED BY <1>1 DEF TaskInv, Idle, At, Recorded

-----------------------------------------------------------------------------
\* The task of a new upload, field by field.
LEMMA NewPushFields ==
    ASSUME NEW c \in Contents, NEW force \in BOOLEAN
    PROVE  LET t == NewPush(c, force)
           IN /\ t \in TaskType
              /\ t.pc = "upload" /\ t.force = force /\ t.content = c /\ t.todo = c
              /\ t.cond = Unconditional /\ t.id = 0 /\ t.at = 0 /\ t.rev = 0
BY ConstantTypes DEF NewPush, Idle, TaskType

\* An explicit overwrite carries no condition, so it has nothing to have checked.
LEMMA PushForcedInv ==
    ASSUME SyncInv, NEW d \in Devices, NEW c \in Contents, PushForced(d, c)
    PROVE  SyncInv'
<1> DEFINE t == NewPush(c, TRUE)
<1>1. t \in TaskType
  BY ConstantTypes DEF NewPush, Idle, TaskType
<1>2. task \in [Devices -> TaskType] /\ writes \in Nat /\ MaxClock \in Nat
  BY FieldTypes, ConstantTypes DEF SyncInv
<1>3. TaskInv(d)'
  BY <1>2 DEF PushForced, NewPush, Idle, TaskInv, At, Recorded, UploadInv
<1>4. /\ task' = [task EXCEPT ![d] = t] /\ forced' = TRUE
      /\ UNCHANGED <<etags, manifest, legacy, objects, sync, pulled, seen, writes, mishaps>>
      /\ objects \in SUBSET Objects /\ mishaps \in 0..MaxMishaps
  BY DEF PushForced, remoteVars, SyncInv, TypeOK
<1> QED BY <1>1, <1>3, <1>4, TaskStep

\* The check of a normal upload is what the upload needs: a revision it matches
\* is one this device has held and whose time it has reached.
LEMMA CheckHolds ==
    ASSUME SyncInv, NEW d \in Devices, manifest.id # 0,
           RequireBaseline(d, Shown(manifest)), RequireNotNewer(d, manifest.at)
    PROVE  Shown(manifest) = manifest.id /\ StillChecked(d, manifest.id)
<1>1. "get" \in etags /\ Shown(manifest) = manifest.id
  BY DEF RequireBaseline, Shown
<1>2. manifest.id <= writes /\ manifest.at <= sync[d].at
  BY DEF SyncInv, RemoteInv, RequireNotNewer
<1>3. ASSUME RevisionsAreKnown PROVE manifest.id \in seen[d]
  <2>1. BaselineInv(d)
    BY DEF SyncInv, DeviceInv
  <2>2. CASE sync[d].rev = manifest.id
    BY <1>3, <2>1, <2>2 DEF BaselineInv, RecordInv
  <2>3. CASE sync[d].rev = 0
    <3>1. sync[d].at # 0
      BY <2>3, FieldTypes DEF RequireBaseline, NoBaseline, SyncInv, RecordType
    <3>2. "put" \notin etags /\ (~forced => sync[d].at <= manifest.at
                                     /\ (sync[d].at = manifest.at => manifest.id \in seen[d]))
      BY <1>1, <2>1, <2>3, <3>1 DEF BaselineInv, RecordInv, OwnWrite
    <3>3. sync[d].at \in Nat /\ manifest.at \in Nat
      BY FieldTypes DEF SyncInv
    <3> QED BY <1>2, <1>3, <3>2, <3>3 DEF RevisionsAreKnown
  <2> QED BY <1>1, <2>2, <2>3 DEF RequireBaseline
<1> QED BY <1>1, <1>2, <1>3 DEF StillChecked

\* A normal upload starts with nothing, or under the condition CheckHolds grants.
LEMMA PushNormalInv ==
    ASSUME SyncInv, NEW d \in Devices, NEW c \in Contents, PushNormal(d, c)
    PROVE  SyncInv'
<1> DEFINE t == Checked(d, c, Match(Shown(manifest)))
<1>1. t \in TaskType
  <2>1. Shown(manifest) \in Revisions /\ manifest.files \in SUBSET Objects
    BY ConstantTypes DEF Shown, SyncInv, TypeOK, Documents
  <2>2. NewPush(c, FALSE) \in TaskType
    BY ConstantTypes DEF NewPush, Idle, TaskType
  <2> QED BY <2>1, <2>2, ConstantTypes DEF Checked, Match, TaskType
<1>2. task \in [Devices -> TaskType] /\ writes \in Nat /\ MaxClock \in Nat
  BY FieldTypes, ConstantTypes DEF SyncInv
<1>3. /\ task' = [task EXCEPT ![d] = t]
      /\ UNCHANGED <<etags, manifest, legacy, objects, sync, pulled, seen, forced, writes, mishaps>>
      /\ objects \in SUBSET Objects /\ forced \in BOOLEAN /\ mishaps \in 0..MaxMishaps
      /\ task'[d] = t
  BY <1>2 DEF PushNormal, remoteVars, SyncInv, TypeOK
<1>4. TaskInv(d)'
  <2>1. CASE manifest.id = 0
    BY <1>2, <1>3, <2>1 DEF Checked, NewPush, Idle, TaskInv, At, Recorded
  <2>2. CASE /\ manifest.id # 0
             /\ RequireBaseline(d, Shown(manifest)) /\ RequireNotNewer(d, manifest.at)
    <3>1. Shown(manifest) = manifest.id /\ StillChecked(d, manifest.id)
      BY <2>2, CheckHolds
    <3>2. StillChecked(d, manifest.id)'
      BY <1>3, <3>1 DEF StillChecked, RevisionsAreKnown
    <3>3. manifest.files \subseteq objects
      BY DEF SyncInv, RemoteInv
    <3>4. t = [NewPush(c, FALSE) EXCEPT !.cond = {manifest.id}, !.todo = c \ manifest.files]
      BY <2>2, <3>1 DEF Checked, Match
    <3>5. /\ task'[d].pc = "upload" /\ task'[d].content = c /\ task'[d].todo = c \ manifest.files
          /\ task'[d].cond = {manifest.id} /\ ~task'[d].force
          /\ task'[d].id = 0 /\ task'[d].at = 0 /\ task'[d].rev = 0
      <4>1. PICK n \in TaskType :
              /\ n = NewPush(c, FALSE)
              /\ n.pc = "upload" /\ n.force = FALSE /\ n.content = c
              /\ n.id = 0 /\ n.at = 0 /\ n.rev = 0
        BY NewPushFields
      <4>2. task'[d] = [n EXCEPT !.cond = {manifest.id}, !.todo = c \ manifest.files]
        BY <1>3, <3>4, <4>1
      <4> QED BY <4>1, <4>2 DEF TaskType
    <3>6. UploadInv(d)'
      BY <1>3, <3>2, <3>3, <3>5 DEF UploadInv
    <3> QED BY <1>2, <1>3, <3>5, <3>6 DEF TaskInv, At, Recorded
  <2>3. CASE /\ manifest.id # 0
             /\ ~(RequireBaseline(d, Shown(manifest)) /\ RequireNotNewer(d, manifest.at))
    BY <1>3, <2>3, IdleTask DEF Checked
  <2> QED BY <2>1, <2>2, <2>3
<1> QED BY <1>1, <1>3, <1>4, TaskStep

\* A new task that changes no variable but task and, perhaps, the bound.
LEMMA QuietTask ==
    ASSUME SyncInv, NEW d \in Devices, NEW t \in TaskType,
           task' = [task EXCEPT ![d] = t],
           UNCHANGED <<etags, remoteVars, sync, pulled, seen, forced, writes>>,
           mishaps' \in 0..MaxMishaps,
           TaskInv(d)'
    PROVE  SyncInv'
<1>1. /\ UNCHANGED <<etags, manifest, legacy, objects, sync, pulled, seen, forced, writes>>
      /\ objects \in SUBSET Objects
      /\ forced \in BOOLEAN
  BY DEF remoteVars, SyncInv, TypeOK
<1>2. /\ UNCHANGED <<etags, manifest, legacy, sync, pulled, seen, writes>>
      /\ objects' \in SUBSET Objects /\ objects \subseteq objects'
  BY <1>1
<1>3. forced' \in BOOLEAN /\ (forced => forced')
  BY <1>1
<1> QED BY <1>2, <1>3, TaskStep

\* The bound on mishaps keeps its type.
LEMMA MishapType ==
    ASSUME TypeOK, Mishap \/ NoMishap
    PROVE  mishaps' \in 0..MaxMishaps
BY SyncAssumption DEF TypeOK, Mishap, NoMishap

\* The first bundle asserts that the manifest is absent: revision 0 of no one.
LEMMA ReadLegacyInv ==
    ASSUME SyncInv, NEW d \in Devices, ReadLegacy(d)
    PROVE  SyncInv'
<1>1. /\ task \in [Devices -> TaskType] /\ task[d] \in TaskType
      /\ writes \in Nat /\ MaxClock \in Nat /\ Idle \in TaskType
      /\ legacy.id \in Revisions /\ legacy.id <= writes
      /\ mishaps' \in 0..MaxMishaps
  BY FieldTypes, ConstantTypes DEF SyncInv, TypeOK, Documents, RemoteInv, ReadLegacy
<1>2. CASE LegacyAllows(d)
  <2> DEFINE t == [task[d] EXCEPT !.pc = "upload", !.cond = Missing, !.id = legacy.id]
  <2>1. task' = [task EXCEPT ![d] = t] /\ task[d].pc = "legacy"
    BY <1>1, <1>2 DEF ReadLegacy, At
  <2>2. t \in TaskType
    BY <1>1, ConstantTypes DEF TaskType, Missing
  <2>3. /\ task'[d].pc = "upload" /\ task'[d].cond = {0} /\ task'[d].id = legacy.id
        /\ task'[d].force = task[d].force /\ task'[d].content = task[d].content
        /\ task'[d].todo = task[d].todo /\ task'[d].at = task[d].at
        /\ task'[d].rev = task[d].rev
    BY <1>1, <2>1 DEF TaskType, Missing
  <2>4. TaskInv(d)
    BY DEF SyncInv, DeviceInv
  <2>5. TaskInv(d)'
    BY <1>1, <2>1, <2>3, <2>4 DEF TaskInv, At, Recorded, UploadInv, StillChecked,
       ReadLegacy, remoteVars
  <2> QED BY <1>1, <2>1, <2>2, <2>5, QuietTask DEF ReadLegacy
<1>3. CASE ~LegacyAllows(d)
  <2>1. task' = [task EXCEPT ![d] = Idle] /\ task'[d] = Idle
    BY <1>1, <1>3 DEF ReadLegacy, Done
  <2>2. TaskInv(d)'
    BY <2>1, IdleTask DEF ReadLegacy
  <2> QED BY <1>1, <2>1, <2>2, QuietTask DEF ReadLegacy
<1> QED BY <1>2, <1>3

\* What is left to upload shrinks by what the target has gained.
LEMMA UploadObjectInv ==
    ASSUME SyncInv, NEW d \in Devices, UploadObject(d)
    PROVE  SyncInv'
<1>1. PICK o \in task[d].todo :
        objects' = objects \cup {o} /\ task' = [task EXCEPT ![d].todo = @ \ {o}]
  BY DEF UploadObject
<1> DEFINE t == [task[d] EXCEPT !.todo = @ \ {o}]
<1>2. /\ task \in [Devices -> TaskType] /\ task[d] \in TaskType
      /\ objects \in SUBSET Objects /\ forced \in BOOLEAN /\ mishaps \in 0..MaxMishaps
  BY FieldTypes DEF SyncInv, TypeOK
<1>3. /\ task' = [task EXCEPT ![d] = t] /\ task'[d] = t /\ task[d].pc = "upload"
      /\ UNCHANGED <<etags, manifest, legacy, sync, pulled, seen, forced, writes, mishaps>>
  BY <1>1, <1>2 DEF UploadObject, At
<1>4. t \in TaskType /\ o \in Objects
  BY <1>1, <1>2 DEF TaskType
<1>5. /\ t.pc = "upload" /\ t.force = task[d].force /\ t.content = task[d].content
      /\ t.todo = task[d].todo \ {o} /\ t.cond = task[d].cond /\ t.id = task[d].id
      /\ t.at = task[d].at /\ t.rev = task[d].rev
  BY <1>2, <1>3 DEF TaskType
<1>6. TaskInv(d)
  BY DEF SyncInv, DeviceInv
<1>7. UploadInv(d)'
  BY <1>1, <1>3, <1>5, <1>6 DEF TaskInv, At, UploadInv, StillChecked, RevisionsAreKnown
<1>8. TaskInv(d)'
  BY <1>3, <1>5, <1>6, <1>7 DEF TaskInv, At, Recorded
<1> QED BY <1>1, <1>2, <1>3, <1>4, <1>8, TaskStep

\* The revision found is recorded only with the time the upload has written.
LEMMA RereadInv ==
    ASSUME SyncInv, NEW d \in Devices, Reread(d)
    PROVE  SyncInv'
<1>1. PICK rev \in {0, manifest.id} :
        /\ task' = [task EXCEPT ![d].pc = "save", ![d].rev = rev]
        /\ rev # 0 => "get" \in etags /\ manifest.at = task[d].at
  BY DEF Reread, Adopt, Shown
<1> DEFINE t == [task[d] EXCEPT !.pc = "save", !.rev = rev]
<1>2. /\ task \in [Devices -> TaskType] /\ task[d] \in TaskType
      /\ manifest.id \in Revisions /\ manifest.id <= writes
      /\ mishaps' \in 0..MaxMishaps
  BY FieldTypes, MishapType DEF SyncInv, TypeOK, Documents, RemoteInv, Reread
<1>3. /\ task' = [task EXCEPT ![d] = t] /\ task'[d] = t /\ task[d].pc = "reread"
      /\ UNCHANGED <<etags, remoteVars, sync, pulled, seen, forced, writes>>
  BY <1>1, <1>2 DEF Reread, At
<1>4. t \in TaskType
  BY <1>2, ConstantTypes DEF TaskType
<1>5. /\ t.pc = "save" /\ t.rev = rev /\ t.force = task[d].force /\ t.id = task[d].id
      /\ t.at = task[d].at
  BY <1>2 DEF TaskType
<1>6. TaskInv(d)
  BY DEF SyncInv, DeviceInv
<1>7. Recorded(task[d])'
  BY <1>1, <1>2, <1>3, <1>5, <1>6, FieldTypes DEF TaskInv, Recorded, remoteVars, SyncInv
<1>8. RecordInv(d, task[d])'
  <2>1. RecordInv(d, task[d]) /\ task[d].rev = 0 /\ task[d].at # 0
    BY <1>3, <1>6 DEF TaskInv, At
  <2>2. OwnWrite(d, task[d].at)
    BY <2>1 DEF RecordInv
  <2>3. OwnWrite(d, task[d].at)'
    BY <1>3, <1>5, <2>2 DEF OwnWrite, remoteVars
  <2>4. ASSUME rev # 0, RevisionsAreKnown PROVE manifest.id \in seen[d]
    BY <1>1, <2>2, <2>4 DEF OwnWrite, RevisionsAreKnown
  <2>5. RevisionsAreKnown' => RevisionsAreKnown
    BY <1>3 DEF RevisionsAreKnown
  <2>6. rev # 0 => rev = manifest.id
    BY <1>1
  <2> QED BY <1>3, <1>5, <2>3, <2>4, <2>5, <2>6 DEF RecordInv
<1>9. TaskInv(d)'
  BY <1>3, <1>5, <1>6, <1>7, <1>8 DEF TaskInv, At
<1> QED BY <1>2, <1>3, <1>4, <1>9, QuietTask

\* The request of d is over; y, p and s are what it leaves of the baseline, the
\* downloaded snapshot and the history of d.
LEMMA DoneStep ==
    ASSUME SyncInv, NEW d \in Devices, NEW t \in TaskType,
           NEW y \in RecordType, NEW p \in DownloadType, NEW s \in SUBSET Revisions,
           task' = [task EXCEPT ![d] = t],
           sync' = [sync EXCEPT ![d] = y],
           pulled' = [pulled EXCEPT ![d] = p],
           seen' = [seen EXCEPT ![d] = s],
           UNCHANGED <<etags, remoteVars, forced, writes>>,
           mishaps' \in 0..MaxMishaps,
           DeviceInv(d)'
    PROVE  SyncInv'
<1>1. /\ task \in [Devices -> TaskType] /\ sync \in [Devices -> RecordType]
      /\ pulled \in [Devices -> DownloadType] /\ seen \in [Devices -> SUBSET Revisions]
  BY FieldTypes DEF SyncInv, TypeOK
<1>2. /\ UNCHANGED <<etags, manifest, legacy, objects, forced, writes>>
  BY DEF remoteVars
<1>3. TypeOK'
  BY <1>1, <1>2 DEF SyncInv, TypeOK, TaskType, RecordType, DownloadType
<1>4. \A e \in Devices \ {d} :
         /\ task'[e] = task[e] /\ sync'[e] = sync[e]
         /\ pulled'[e] = pulled[e] /\ seen'[e] = seen[e]
  BY <1>1
<1> QED BY <1>2, <1>3, <1>4, DeviceStep

\* What an unmoved part of a device keeps.
LEMMA PartsUnmoved ==
    ASSUME SyncInv, NEW d \in Devices,
           UNCHANGED <<etags, remoteVars, forced, writes>>,
           seen[d] \subseteq seen'[d]
    PROVE  /\ \A r : Recorded(r) => Recorded(r)'
           /\ \A r : RecordInv(d, r) => RecordInv(d, r)'
           /\ sync'[d] = sync[d] => BaselineInv(d)'
           /\ pulled'[d] = pulled[d] => DownloadInv(d)'
<1>1. BaselineInv(d) /\ DownloadInv(d)
  BY DEF SyncInv, DeviceInv
<1>2. \A r : Recorded(r) => Recorded(r)'
  BY DEF Recorded, remoteVars
<1>3. \A r : RecordInv(d, r) => RecordInv(d, r)'
  BY DEF RecordInv, OwnWrite, RevisionsAreKnown, remoteVars
<1>4. sync'[d] = sync[d] => BaselineInv(d)'
  BY <1>1, <1>2, <1>3 DEF BaselineInv
<1>5. pulled'[d] = pulled[d] => DownloadInv(d)'
  BY <1>1, <1>2 DEF DownloadInv, Downloaded
<1> QED BY <1>2, <1>3, <1>4, <1>5

\* No baseline, and nothing downloaded, are always right.
LEMMA NothingRecorded ==
    ASSUME TypeOK, NEW d \in Devices
    PROVE  /\ sync[d] = NoBaseline => BaselineInv(d)
           /\ pulled[d] = NothingPulled => DownloadInv(d)
<1>1. writes \in Nat /\ MaxClock \in Nat
  BY FieldTypes, ConstantTypes
<1> QED BY <1>1 DEF BaselineInv, DownloadInv, Recorded, RecordInv, NoBaseline, NothingPulled

\* The baseline takes over what is true of the task.
LEMMA SaveStateInv ==
    ASSUME SyncInv, NEW d \in Devices, SaveState(d)
    PROVE  SyncInv'
<1> DEFINE new == [at |-> task[d].at, rev |-> task[d].rev]
<1>1. PICK y \in {sync[d], new} : sync' = [sync EXCEPT ![d] = y]
  <2>1. sync = [sync EXCEPT ![d] = sync[d]]
    BY FieldTypes DEF SyncInv
  <2> QED BY <2>1 DEF SaveState
<1>2. /\ task[d] \in TaskType /\ sync[d] \in RecordType /\ Idle \in TaskType
      /\ task \in [Devices -> TaskType] /\ sync \in [Devices -> RecordType]
      /\ pulled \in [Devices -> DownloadType] /\ seen \in [Devices -> SUBSET Revisions]
      /\ pulled[d] \in DownloadType /\ seen[d] \in SUBSET Revisions
      /\ mishaps' \in 0..MaxMishaps
  BY FieldTypes, ConstantTypes, MishapType DEF SyncInv, SaveState, TypeOK
<1>3. y \in RecordType
  BY <1>2 DEF TaskType, RecordType
<1>4. /\ UNCHANGED <<etags, remoteVars, pulled, seen, forced, writes>>
      /\ task' = [task EXCEPT ![d] = Idle] /\ task'[d] = Idle /\ task[d].pc = "save"
      /\ sync'[d] = y
      /\ pulled' = [pulled EXCEPT ![d] = pulled[d]] /\ seen' = [seen EXCEPT ![d] = seen[d]]
  BY <1>1, <1>2 DEF SaveState, Done, At
<1>5. BaselineInv(d)'
  <2>1. CASE y = sync[d]
    BY <1>4, <2>1, PartsUnmoved
  <2>2. CASE y = new
    <3>1. Recorded(task[d]) /\ RecordInv(d, task[d])
      BY <1>4 DEF SyncInv, DeviceInv, TaskInv, At
    <3>2. Recorded(new) /\ RecordInv(d, new)
      BY <3>1 DEF Recorded, RecordInv
    <3>3. Recorded(sync[d])' /\ RecordInv(d, sync[d])'
      BY <1>4, <2>2, <3>2 DEF Recorded, RecordInv, OwnWrite, RevisionsAreKnown, remoteVars
    <3> QED BY <1>4, <2>2, <3>2, <3>3 DEF BaselineInv, Recorded, remoteVars
  <2> QED BY <2>1, <2>2
<1>6. DownloadInv(d)'
  BY <1>4, PartsUnmoved
<1>7. TaskInv(d)'
  BY <1>4, IdleTask
<1> QED BY <1>1, <1>2, <1>3, <1>4, <1>5, <1>6, <1>7, DoneStep DEF DeviceInv

\* A baseline that is dropped claims nothing.
LEMMA RetargetInv ==
    ASSUME SyncInv, NEW d \in Devices, Retarget(d)
    PROVE  SyncInv'
<1>1. /\ task[d] \in TaskType /\ NoBaseline \in RecordType
      /\ task \in [Devices -> TaskType] /\ sync \in [Devices -> RecordType]
      /\ pulled \in [Devices -> DownloadType] /\ seen \in [Devices -> SUBSET Revisions]
      /\ pulled[d] \in DownloadType /\ seen[d] \in SUBSET Revisions
      /\ mishaps' \in 0..MaxMishaps
  BY FieldTypes, ConstantTypes, MishapType DEF SyncInv, Retarget, TypeOK
<1>2. /\ UNCHANGED <<etags, remoteVars, task, pulled, seen, forced, writes>>
      /\ sync' = [sync EXCEPT ![d] = NoBaseline] /\ sync'[d] = NoBaseline
      /\ task' = [task EXCEPT ![d] = task[d]] /\ task[d].pc = "idle"
      /\ pulled' = [pulled EXCEPT ![d] = pulled[d]] /\ seen' = [seen EXCEPT ![d] = seen[d]]
  BY <1>1 DEF Retarget, At
<1>3. writes \in Nat /\ MaxClock \in Nat
  BY FieldTypes, ConstantTypes DEF SyncInv
<1>4. BaselineInv(d)'
  BY <1>2, <1>3 DEF BaselineInv, Recorded, RecordInv, NoBaseline
<1>5. DownloadInv(d)'
  BY <1>2, PartsUnmoved
<1>6. TaskInv(d)
  BY DEF SyncInv, DeviceInv
<1>7. TaskInv(d)'
  BY <1>2, <1>6 DEF TaskInv, At, Recorded, remoteVars
<1> QED BY <1>1, <1>2, <1>4, <1>5, <1>7, DoneStep DEF DeviceInv

\* A download starts from a manifest whose objects are all there.
LEMMA PullInv ==
    ASSUME SyncInv, NEW d \in Devices, Pull(d)
    PROVE  SyncInv'
<1>1. /\ task \in [Devices -> TaskType] /\ Idle \in TaskType
      /\ writes \in Nat /\ MaxClock \in Nat
      /\ manifest.id \in Revisions /\ manifest.at \in Times
      /\ manifest.files \in SUBSET Objects /\ Shown(manifest) \in Revisions
      /\ mishaps' \in 0..MaxMishaps
  BY FieldTypes, ConstantTypes DEF SyncInv, TypeOK, Documents, Shown, Pull
<1>2. UNCHANGED <<etags, remoteVars, sync, pulled, seen, forced, writes, mishaps>>
  BY DEF Pull
<1>3. CASE manifest.id = 0
  <2> DEFINE t == [Idle EXCEPT !.pc = "pull_legacy"]
  <2>1. task' = [task EXCEPT ![d] = t] /\ task'[d] = t
    BY <1>1, <1>3 DEF Pull
  <2>2. t \in TaskType /\ t.pc = "pull_legacy" /\ t.id = 0 /\ t.at = 0 /\ t.rev = 0 /\ ~t.force
    BY ConstantTypes DEF Idle, TaskType
  <2>3. TaskInv(d)'
    BY <1>1, <1>2, <2>1, <2>2 DEF TaskInv, At, Recorded
  <2> QED BY <1>1, <1>2, <2>1, <2>2, <2>3, QuietTask
<1>4. CASE manifest.id # 0
  <2> DEFINE t == [Idle EXCEPT !.pc = "fetch", !.todo = manifest.files,
                     !.id = manifest.id, !.at = manifest.at, !.rev = Shown(manifest)]
  <2>1. task' = [task EXCEPT ![d] = t] /\ task'[d] = t
    BY <1>1, <1>4 DEF Pull
  <2>2. t \in TaskType
    BY <1>1 DEF TaskType, Idle
  <2>3. /\ t.pc = "fetch" /\ t.todo = manifest.files /\ t.id = manifest.id
        /\ t.at = manifest.at /\ t.rev = Shown(manifest) /\ ~t.force
    BY <1>1 DEF TaskType, Idle
  <2>4. RemoteInv
    BY DEF SyncInv
  <2>5. Recorded(task[d])' /\ task'[d].id <= writes'
    BY <1>1, <1>2, <2>1, <2>3, <2>4 DEF Recorded, RemoteInv, Shown, remoteVars
  <2>6. Downloaded(task[d])' /\ task'[d].todo \subseteq objects'
    BY <1>2, <1>4, <2>1, <2>3, <2>4 DEF Downloaded, RemoteInv, Shown, remoteVars
  <2>7. TaskInv(d)'
    BY <2>1, <2>3, <2>5, <2>6 DEF TaskInv, At
  <2> QED BY <1>1, <1>2, <2>1, <2>2, <2>7, QuietTask
<1> QED BY <1>3, <1>4

\* A download that ends with p in the window.
LEMMA DownloadStep ==
    ASSUME SyncInv, NEW d \in Devices, NEW p \in DownloadType,
           pulled' = [pulled EXCEPT ![d] = p],
           Done(d),
           UNCHANGED <<etags, remoteVars, sync, seen, forced, writes>>,
           mishaps' \in 0..MaxMishaps,
           Recorded(p), p.id <= writes, p = NothingPulled \/ Downloaded(p)
    PROVE  SyncInv'
<1>1. /\ task \in [Devices -> TaskType] /\ sync \in [Devices -> RecordType]
      /\ pulled \in [Devices -> DownloadType] /\ seen \in [Devices -> SUBSET Revisions]
      /\ sync[d] \in RecordType /\ seen[d] \in SUBSET Revisions /\ Idle \in TaskType
  BY FieldTypes, ConstantTypes DEF SyncInv, TypeOK
<1>2. /\ task' = [task EXCEPT ![d] = Idle] /\ task'[d] = Idle
      /\ pulled'[d] = p
      /\ sync' = [sync EXCEPT ![d] = sync[d]] /\ seen' = [seen EXCEPT ![d] = seen[d]]
  BY <1>1 DEF Done
<1>3. BaselineInv(d)'
  BY PartsUnmoved
<1>4. DownloadInv(d)'
  BY <1>2 DEF DownloadInv, Downloaded, Recorded, remoteVars
<1>5. TaskInv(d)'
  BY <1>2, IdleTask
<1> QED BY <1>1, <1>2, <1>3, <1>4, <1>5, DoneStep DEF DeviceInv

\* A snapshot of the single document is recorded under its own revision.
LEMMA PullLegacyInv ==
    ASSUME SyncInv, NEW d \in Devices, PullLegacy(d)
    PROVE  SyncInv'
<1> DEFINE p == [id |-> legacy.id, at |-> legacy.at, rev |-> Shown(legacy)]
<1>1. p \in DownloadType /\ mishaps' \in 0..MaxMishaps
  BY ConstantTypes DEF DownloadType, Shown, SyncInv, TypeOK, Documents, PullLegacy
<1>2. RemoteInv /\ legacy.id \in Nat /\ manifest.id \in Nat /\ writes \in Nat
  BY FieldTypes DEF SyncInv
<1>3. Recorded(p) /\ p.id <= writes
  BY <1>2 DEF RemoteInv, Recorded, Shown
<1>4. p = NothingPulled \/ Downloaded(p)
  BY <1>2 DEF RemoteInv, NothingPulled, Downloaded, Shown
<1> QED BY <1>1, <1>3, <1>4, DownloadStep DEF PullLegacy

\* A complete download hands its manifest to the window, another leaves the window be.
LEMMA FetchBundleInv ==
    ASSUME SyncInv, NEW d \in Devices, FetchBundle(d)
    PROVE  SyncInv'
<1> DEFINE new == [id |-> task[d].id, at |-> task[d].at, rev |-> task[d].rev]
<1>1. PICK p \in {pulled[d], new} : pulled' = [pulled EXCEPT ![d] = p]
  BY DEF FetchBundle
<1>2. /\ UNCHANGED <<etags, remoteVars, sync, seen, forced, writes, mishaps>>
      /\ Done(d) /\ task[d].pc = "fetch"
      /\ mishaps' \in 0..MaxMishaps
  BY DEF FetchBundle, At, SyncInv, TypeOK
<1>3. task[d] \in TaskType /\ pulled[d] \in DownloadType
  BY FieldTypes DEF SyncInv
<1>4. p \in DownloadType
  BY <1>3 DEF TaskType, DownloadType
<1>5. Recorded(p) /\ p.id <= writes /\ (p = NothingPulled \/ Downloaded(p))
  <2>1. DownloadInv(d) /\ TaskInv(d)
    BY DEF SyncInv, DeviceInv
  <2>2. CASE p = pulled[d]
    BY <2>1, <2>2 DEF DownloadInv
  <2>3. CASE p = new
    BY <1>2, <2>1, <2>3 DEF TaskInv, At, Recorded, Downloaded
  <2> QED BY <2>2, <2>3
<1> QED BY <1>1, <1>2, <1>4, <1>5, DownloadStep

\* The profile is saved before the task that records its revision.
LEMMA CommitInv ==
    ASSUME SyncInv, NEW d \in Devices, Commit(d)
    PROVE  SyncInv'
<1>1. /\ task \in [Devices -> TaskType] /\ sync \in [Devices -> RecordType]
      /\ pulled \in [Devices -> DownloadType] /\ seen \in [Devices -> SUBSET Revisions]
      /\ sync[d] \in RecordType /\ seen[d] \in SUBSET Revisions /\ pulled[d] \in DownloadType
      /\ task[d] \in TaskType /\ Idle \in TaskType /\ NothingPulled \in DownloadType
      /\ mishaps' \in 0..MaxMishaps
  BY FieldTypes, ConstantTypes, MishapType DEF SyncInv, TypeOK, Commit
<1>2. /\ UNCHANGED <<etags, remoteVars, sync, forced, writes>>
      /\ pulled' = [pulled EXCEPT ![d] = NothingPulled] /\ pulled'[d] = NothingPulled
      /\ sync' = [sync EXCEPT ![d] = sync[d]]
      /\ pulled[d] # NothingPulled /\ task[d].pc = "idle"
  BY <1>1 DEF Commit, At
<1>3. DownloadInv(d) /\ TaskInv(d) /\ writes \in Nat /\ MaxClock \in Nat
  BY FieldTypes, ConstantTypes DEF SyncInv, DeviceInv
<1>4. DownloadInv(d)'
  BY <1>2, <1>3 DEF DownloadInv, Recorded, NothingPulled
<1>5. CASE seen' = seen /\ task' = task
  <2>1. /\ task' = [task EXCEPT ![d] = task[d]] /\ seen' = [seen EXCEPT ![d] = seen[d]]
        /\ seen[d] \subseteq seen'[d]
    BY <1>1, <1>5
  <2>2. BaselineInv(d)'
    BY <1>2, <2>1, PartsUnmoved
  <2>3. TaskInv(d)'
    BY <1>2, <1>3, <1>5 DEF TaskInv, At, Recorded, remoteVars
  <2> QED BY <1>1, <1>2, <1>4, <2>1, <2>2, <2>3, DoneStep DEF DeviceInv
<1>6. CASE /\ seen' = [seen EXCEPT ![d] = @ \cup {pulled[d].id}]
           /\ task' = [task EXCEPT ![d] = [Idle EXCEPT !.pc = "save", !.at = pulled[d].at,
                                              !.rev = pulled[d].rev]]
  <2> DEFINE t == [Idle EXCEPT !.pc = "save", !.at = pulled[d].at, !.rev = pulled[d].rev]
             s == seen[d] \cup {pulled[d].id}
  <2>1. t \in TaskType /\ s \in SUBSET Revisions
    BY <1>1 DEF TaskType, DownloadType, Idle
  <2>2. /\ task' = [task EXCEPT ![d] = t] /\ task'[d] = t
        /\ seen' = [seen EXCEPT ![d] = s] /\ seen'[d] = s
    BY <1>1, <1>6
  <2>3. /\ t.pc = "save" /\ ~t.force /\ t.id = 0 /\ t.at = pulled[d].at /\ t.rev = pulled[d].rev
    BY <1>1 DEF Idle, TaskType, DownloadType
  <2>4. BaselineInv(d)'
    BY <1>2, <2>2, PartsUnmoved
  <2>5. Recorded(task[d])'
    BY <1>2, <1>3, <2>2, <2>3 DEF DownloadInv, Recorded, remoteVars
  <2>6. pulled[d].id # 0 /\ pulled[d].rev = IF "get" \in etags THEN pulled[d].id ELSE 0
    BY <1>2, <1>3 DEF DownloadInv, Downloaded
  <2>7. RecordInv(d, task[d])'
    BY <1>2, <2>2, <2>3, <2>6 DEF RecordInv, OwnWrite, remoteVars
  <2>8. TaskInv(d)'
    BY <1>2, <1>3, <2>2, <2>3, <2>5, <2>7 DEF TaskInv, At
  <2> QED BY <1>1, <1>2, <1>4, <2>1, <2>2, <2>4, <2>8, DoneStep DEF DeviceInv
<1> QED BY <1>5, <1>6 DEF Commit

\* A failed request leaves the remote and the baseline as they were.
LEMMA RequestFailsInv ==
    ASSUME SyncInv, NEW d \in Devices, RequestFails(d)
    PROVE  SyncInv'
<1>1. /\ task \in [Devices -> TaskType] /\ Idle \in TaskType /\ mishaps' \in 0..MaxMishaps
  BY FieldTypes, ConstantTypes DEF SyncInv, TypeOK, RequestFails
<1>2. task' = [task EXCEPT ![d] = Idle] /\ task'[d] = Idle
  BY <1>1 DEF RequestFails, Done
<1>3. TaskInv(d)'
  BY <1>2, IdleTask DEF RequestFails
<1> QED BY <1>1, <1>2, <1>3, QuietTask DEF RequestFails

\* A process that ends loses the request and what a window held.
LEMMA CrashInv ==
    ASSUME SyncInv, NEW d \in Devices, Crash(d)
    PROVE  SyncInv'
<1>1. NothingPulled \in DownloadType /\ mishaps' \in 0..MaxMishaps
  BY ConstantTypes, MishapType DEF SyncInv, Crash
<1>2. Recorded(NothingPulled) /\ NothingPulled.id <= writes
  BY FieldTypes, ConstantTypes DEF SyncInv, Recorded, NothingPulled
<1> QED BY <1>1, <1>2, DownloadStep DEF Crash

-----------------------------------------------------------------------------
\* A write gives out a new identity. What a device has recorded or checked is of
\* older writes, and unless someone overwrites the new manifest has a later time.
LEMMA OthersSeeWrite ==
    ASSUME SyncInv, NEW e \in Devices,
           writes' = writes + 1,
           UNCHANGED <<etags, objects, sync, pulled, forced>>,
           seen[e] \subseteq seen'[e],
           manifest'.at \in Nat,
           \/ manifest' = manifest
           \/ manifest'.id = writes + 1 /\ (~forced => manifest.at < manifest'.at)
    PROVE  /\ BaselineInv(e)' /\ DownloadInv(e)'
           /\ task'[e] = task[e] => TaskInv(e)'
<1>1. /\ writes \in Nat /\ MaxClock \in Nat /\ manifest.id \in Nat /\ manifest.at \in Nat
      /\ sync[e].rev \in Nat /\ sync[e].at \in Nat
      /\ pulled[e].rev \in Nat /\ pulled[e].at \in Nat /\ pulled[e].id \in Nat
      /\ task[e].rev \in Nat /\ task[e].at \in Nat /\ task[e].id \in Nat
      /\ \A rev \in task[e].cond : rev \in Nat
  BY FieldTypes, ConstantTypes DEF SyncInv, DownloadType, TaskType
<1>2. BaselineInv(e) /\ DownloadInv(e) /\ TaskInv(e)
  BY DEF SyncInv, DeviceInv
<1>3. ASSUME NEW r, r.rev \in Nat, r.at \in Nat, Recorded(r)
      PROVE  Recorded(r)'
  BY <1>1, <1>3 DEF Recorded
<1>4. ASSUME NEW r, r.rev \in Nat, r.at \in Nat, RecordInv(e, r)
      PROVE  RecordInv(e, r)'
  <2>1. RevisionsAreKnown' <=> RevisionsAreKnown
    BY DEF RevisionsAreKnown
  <2>2. OwnWrite(e, r.at) => OwnWrite(e, r.at)'
    BY <1>1, <1>4 DEF OwnWrite
  <2> QED BY <1>4, <2>1, <2>2 DEF RecordInv
<1>5. BaselineInv(e)'
  <2>1. Recorded(sync[e])' /\ RecordInv(e, sync[e])'
    BY <1>1, <1>2, <1>3, <1>4 DEF BaselineInv
  <2> QED BY <2>1 DEF BaselineInv
<1>6. DownloadInv(e)'
  <2>1. Recorded(pulled[e])'
    BY <1>1, <1>2, <1>3 DEF DownloadInv
  <2> QED BY <1>1, <1>2, <2>1 DEF DownloadInv, Downloaded
<1>7. ASSUME task'[e] = task[e] PROVE TaskInv(e)'
  <2>1. Recorded(task[e])'
    BY <1>1, <1>2, <1>3, <1>7 DEF TaskInv, Recorded
  <2>2. RecordInv(e, task[e]) => RecordInv(e, task[e])'
    BY <1>1, <1>4, <1>7 DEF RecordInv, OwnWrite
  <2>3. ASSUME NEW rev \in task[e].cond, StillChecked(e, rev)
        PROVE  StillChecked(e, rev)'
    BY <1>1, <2>3 DEF StillChecked, RevisionsAreKnown
  <2>4. UploadInv(e) => UploadInv(e)'
    BY <1>7, <2>3 DEF UploadInv
  <2> QED BY <1>1, <1>2, <1>7, <2>1, <2>2, <2>4 DEF TaskInv, At, Downloaded
<1> QED BY <1>5, <1>6, <1>7

\* Times leave room for one more write.
LEMMA RoomForWrite ==
    ASSUME SyncInv, writes < MaxWrites
    PROVE  /\ writes + 1 \in Revisions /\ writes + 1 # 0
           /\ \A now \in 1..MaxClock : now \in Times
           /\ \A at \in Nat : at <= MaxClock + writes + 1 => at \in Times
           /\ \A d \in Devices : \A now \in 1..MaxClock :
                /\ UpdatedAt(d, now) \in Nat \ {0}
                /\ UpdatedAt(d, now) > sync[d].at
                /\ UpdatedAt(d, now) <= MaxClock + writes + 1
<1>1. writes \in Nat /\ MaxClock \in Nat \ {0} /\ MaxWrites \in Nat
  BY SyncAssumption DEF SyncInv, TypeOK, Revisions
<1>2. ASSUME NEW d \in Devices, NEW now \in 1..MaxClock
      PROVE  /\ UpdatedAt(d, now) \in Nat \ {0}
             /\ UpdatedAt(d, now) > sync[d].at
             /\ UpdatedAt(d, now) <= MaxClock + writes + 1
  <2>1. sync[d].at \in Nat
    BY FieldTypes DEF SyncInv
  <2>2. sync[d].at <= MaxClock + writes
    BY DEF SyncInv, DeviceInv, BaselineInv, Recorded
  <2> QED BY <1>1, <2>1, <2>2 DEF UpdatedAt
<1> QED BY <1>1, <1>2 DEF Revisions, Times

\* A publication by an older build writes the single document only.
LEMMA OldBuildInv ==
    ASSUME SyncInv, OldBuildPublishes
    PROVE  SyncInv'
<1>1. PICK now \in 1..MaxClock : legacy' = [id |-> writes + 1, at |-> now, files |-> {}]
  BY DEF OldBuildPublishes
<1>2. /\ writes < MaxWrites /\ writes' = writes + 1
      /\ UNCHANGED <<etags, manifest, objects, sync, task, pulled, seen, forced>>
      /\ mishaps' \in 0..MaxMishaps
  BY MishapType DEF OldBuildPublishes, SyncInv
<1>3. /\ writes + 1 \in Revisions /\ now \in Times
      /\ writes \in Nat /\ MaxClock \in Nat /\ manifest.id \in Nat /\ manifest.at \in Nat
  BY <1>2, RoomForWrite, SyncAssumption DEF SyncInv, TypeOK, Revisions, Documents, Times
<1>4. TypeOK'
  <2>1. legacy' \in Documents
    BY <1>1, <1>3 DEF Documents
  <2> QED BY <1>2, <1>3, <2>1 DEF SyncInv, TypeOK
<1>5. RemoteInv'
  <2>1. RemoteInv
    BY DEF SyncInv
  <2>2. manifest.id <= writes /\ manifest.at <= MaxClock + writes
    BY <2>1 DEF RemoteInv
  <2>3. /\ legacy'.id = writes + 1 /\ legacy'.at = now
        /\ now <= MaxClock /\ now \in Nat
    BY <1>1
  <2> QED BY <1>2, <1>3, <2>1, <2>2, <2>3 DEF RemoteInv
<1>6. ASSUME NEW d \in Devices PROVE DeviceInv(d)'
  BY <1>2, <1>3, OthersSeeWrite DEF DeviceInv
<1> QED BY <1>4, <1>5, <1>6 DEF SyncInv

\* What the condition of a normal upload lets it replace: a revision it is newer
\* than and, where revisions are known, has held.
LEMMA MayReplace ==
    ASSUME SyncInv, NEW d \in Devices, NEW now \in 1..MaxClock, writes < MaxWrites,
           At(d, "upload"), ~task[d].force, manifest.id \in task[d].cond
    PROVE  /\ manifest.at < UpdatedAt(d, now)
           /\ manifest.id # 0 /\ RevisionsAreKnown => manifest.id \in seen[d]
<1>1. StillChecked(d, manifest.id)
  BY DEF SyncInv, DeviceInv, TaskInv, UploadInv
<1>2. manifest.id = 0 => manifest.at = 0
  BY DEF SyncInv, RemoteInv
<1>3. /\ UpdatedAt(d, now) \in Nat \ {0} /\ UpdatedAt(d, now) > sync[d].at
      /\ sync[d].at \in Nat /\ manifest.at \in Nat
  BY RoomForWrite, FieldTypes DEF SyncInv
<1> QED BY <1>1, <1>2, <1>3 DEF StillChecked

\* The task that an accepted upload leaves: none, one that records the write, or
\* one that has yet to ask for its revision.
LEMMA PutTask ==
    ASSUME SyncInv, NEW d \in Devices, NEW now \in 1..MaxClock, PutAccepted(d, now)
    PROVE  \E t \in TaskType :
             /\ task' = [task EXCEPT ![d] = t] /\ task'[d] = t
             /\ t.id = 0 /\ ~t.force
             /\ \/ t.pc = "idle" /\ t.at = 0 /\ t.rev = 0
                \/ /\ t.pc = "save" /\ t.at = UpdatedAt(d, now) /\ t.rev = writes + 1
                \/ /\ t.pc = "reread" /\ t.at = UpdatedAt(d, now) /\ t.rev = 0
                   /\ "put" \notin etags
<1> DEFINE at == UpdatedAt(d, now)
           written == [Idle EXCEPT !.at = at]
<1>1. at \in Times /\ writes + 1 \in Revisions /\ Idle \in TaskType
  BY RoomForWrite, ConstantTypes DEF PutAccepted
<1>2. task \in [Devices -> TaskType]
  BY FieldTypes DEF SyncInv
<1>3. CASE Done(d)
  BY <1>1, <1>2, <1>3 DEF Done, Idle
<1>4. CASE task' = [task EXCEPT ![d] = [written EXCEPT !.pc = "save", !.rev = writes + 1]]
  <2> DEFINE t == [written EXCEPT !.pc = "save", !.rev = writes + 1]
  <2>1. t \in TaskType /\ t.pc = "save" /\ t.at = at /\ t.rev = writes + 1
        /\ t.id = 0 /\ ~t.force
    BY <1>1 DEF TaskType, Idle
  <2> QED BY <1>2, <1>4, <2>1
<1>5. CASE /\ task' = [task EXCEPT ![d] = [written EXCEPT !.pc = "reread"]]
           /\ "put" \notin etags
  <2> DEFINE t == [written EXCEPT !.pc = "reread"]
  <2>1. t \in TaskType /\ t.pc = "reread" /\ t.at = at /\ t.rev = 0
        /\ t.id = 0 /\ ~t.force
    BY <1>1 DEF TaskType, Idle
  <2> QED BY <1>2, <1>5, <2>1
<1> QED BY <1>3, <1>4, <1>5 DEF PutAccepted

\* An accepted manifest names objects that are there, and its device has held it.
LEMMA PutAcceptedInv ==
    ASSUME SyncInv, NEW d \in Devices, ReadyToPut(d), NEW now \in 1..MaxClock,
           PutAccepted(d, now), UNCHANGED <<etags, objects, legacy, sync, pulled, forced>>
    PROVE  SyncInv'
<1> DEFINE at == UpdatedAt(d, now)
           s == seen[d] \cup {writes + 1}
<1>1. PICK t \in TaskType :
        /\ task' = [task EXCEPT ![d] = t] /\ task'[d] = t
        /\ t.id = 0 /\ ~t.force
        /\ \/ t.pc = "idle" /\ t.at = 0 /\ t.rev = 0
           \/ t.pc = "save" /\ t.at = at /\ t.rev = writes + 1
           \/ t.pc = "reread" /\ t.at = at /\ t.rev = 0 /\ "put" \notin etags
  BY PutTask
<1>2. /\ manifest.id \in task[d].cond /\ writes < MaxWrites /\ writes' = writes + 1
      /\ manifest' = [id |-> writes + 1, at |-> at, files |-> task[d].content]
      /\ seen' = [seen EXCEPT ![d] = s]
      /\ mishaps' \in 0..MaxMishaps
      /\ task[d].pc = "upload" /\ task[d].todo = {}
  BY MishapType DEF PutAccepted, ReadyToPut, At, SyncInv
<1>3. /\ writes + 1 \in Revisions /\ at \in Times /\ at \in Nat /\ at # 0
      /\ at <= MaxClock + writes + 1
      /\ writes \in Nat /\ MaxClock \in Nat /\ manifest.id \in Nat /\ manifest.at \in Nat
      /\ legacy.id \in Nat /\ legacy.at \in Nat
  BY <1>2, RoomForWrite, FieldTypes, ConstantTypes DEF SyncInv
<1>4. /\ manifest'.id = writes + 1 /\ manifest'.at = at /\ manifest'.files = task[d].content
      /\ seen'[d] = s
  BY <1>2 DEF SyncInv, TypeOK
<1>5. TaskInv(d)
  BY DEF SyncInv, DeviceInv
<1>6. task[d].content \subseteq objects
  BY <1>2, <1>5 DEF TaskInv, At, UploadInv
<1>7. TypeOK'
  <2>1. task \in [Devices -> TaskType] /\ task[d] \in TaskType /\ seen[d] \in SUBSET Revisions
    BY FieldTypes DEF SyncInv
  <2>2. task' \in [Devices -> TaskType]
    BY <1>1, <2>1
  <2>3. manifest' \in Documents
    BY <1>2, <1>3, <2>1 DEF Documents, TaskType
  <2>4. seen' \in [Devices -> SUBSET Revisions]
    BY <1>2, <1>3, <2>1 DEF SyncInv, TypeOK
  <2> QED BY <1>2, <1>3, <2>2, <2>3, <2>4 DEF SyncInv, TypeOK, TaskType
<1>8. RemoteInv'
  <2>1. legacy.id <= writes /\ legacy.at <= MaxClock + writes /\ (legacy.id = 0 => legacy.at = 0)
    BY DEF SyncInv, RemoteInv
  <2> QED BY <1>2, <1>3, <1>4, <1>6, <2>1 DEF RemoteInv
<1>9. ~forced => manifest.at < at
  BY <1>2, <1>5, MayReplace DEF TaskInv, At
<1>10. ASSUME NEW e \in Devices
       PROVE  /\ BaselineInv(e)' /\ DownloadInv(e)'
              /\ task'[e] = task[e] => TaskInv(e)'
  <2>1. seen[e] \subseteq seen'[e]
    BY <1>2 DEF SyncInv, TypeOK
  <2> QED BY <1>2, <1>3, <1>4, <1>9, <2>1, OthersSeeWrite
<1>11. TaskInv(d)'
  <2>1. Recorded(t)'
    BY <1>1, <1>2, <1>3, <1>4 DEF Recorded
  <2>2. t.rev = 0 /\ t.at # 0 => OwnWrite(d, t.at)'
    BY <1>1, <1>3, <1>4 DEF OwnWrite
  <2>3. RecordInv(d, t)'
    BY <1>1, <1>4, <2>2 DEF RecordInv
  <2>4. Recorded(task[d])' /\ RecordInv(d, task[d])'
    BY <1>1, <2>1, <2>3
  <2>5. task'[d].id <= writes'
    BY <1>1, <1>2, <1>3
  <2> QED BY <1>1, <1>3, <2>4, <2>5 DEF TaskInv, At
<1>12. ASSUME NEW e \in Devices PROVE DeviceInv(e)'
  <2>1. CASE e = d
    BY <1>10, <1>11, <2>1 DEF DeviceInv
  <2>2. CASE e # d
    <3>1. task'[e] = task[e]
      BY <1>1, <2>2 DEF SyncInv, TypeOK
    <3> QED BY <1>10, <3>1 DEF DeviceInv
  <2> QED BY <2>1, <2>2
<1> QED BY <1>7, <1>8, <1>12 DEF SyncInv

\* The manifest is refused and nothing moves, or it is accepted.
LEMMA PutManifestInv ==
    ASSUME SyncInv, NEW d \in Devices, PutManifest(d)
    PROVE  SyncInv'
<1>1. CASE PutRefused(d)
  <2>1. /\ task' = [task EXCEPT ![d] = Idle] /\ task'[d] = Idle
        /\ UNCHANGED <<etags, remoteVars, sync, pulled, seen, forced, writes>>
        /\ mishaps' \in 0..MaxMishaps /\ Idle \in TaskType
    BY <1>1, FieldTypes, ConstantTypes DEF PutManifest, PutRefused, Done, remoteVars, SyncInv, TypeOK
  <2>2. TaskInv(d)'
    BY <2>1, IdleTask
  <2> QED BY <2>1, <2>2, QuietTask
<1>2. CASE \E now \in 1..MaxClock : PutAccepted(d, now)
  BY <1>2, PutAcceptedInv DEF PutManifest
<1> QED BY <1>1, <1>2 DEF PutManifest

-----------------------------------------------------------------------------
\* No remote, no baseline.
LEMMA InitInv == Init => SyncInv
<1> SUFFICES ASSUME Init PROVE SyncInv
  OBVIOUS
<1>1. TypeOK
  <2>1. /\ task \in [Devices -> TaskType] /\ sync \in [Devices -> RecordType]
        /\ pulled \in [Devices -> DownloadType] /\ seen \in [Devices -> SUBSET Revisions]
    BY ConstantTypes DEF Init
  <2>2. /\ manifest \in Documents /\ legacy \in Documents /\ writes \in Revisions
        /\ mishaps \in 0..MaxMishaps
    BY ConstantTypes, SyncAssumption DEF Init
  <2> QED BY <2>1, <2>2 DEF Init, TypeOK, TaskType, RecordType, DownloadType
<1>2. RemoteInv
  BY ConstantTypes DEF Init, RemoteInv, NoDocument
<1>3. ASSUME NEW d \in Devices PROVE DeviceInv(d)
  <2>1. sync[d] = NoBaseline /\ pulled[d] = NothingPulled /\ task[d] = Idle
        /\ writes = 0 /\ MaxClock \in Nat
    BY ConstantTypes DEF Init
  <2>2. BaselineInv(d) /\ DownloadInv(d)
    BY <1>1, <2>1, NothingRecorded
  <2>3. TaskInv(d)
    BY <2>1 DEF TaskInv, Idle, At, Recorded
  <2> QED BY <2>2, <2>3 DEF DeviceInv
<1> QED BY <1>1, <1>2, <1>3 DEF SyncInv

\* Every step of the sync preserves the invariant, one lemma per action.
LEMMA StepInv == SyncInv /\ [Next]_vars => SyncInv'
<1> SUFFICES ASSUME SyncInv, [Next]_vars PROVE SyncInv'
  OBVIOUS
<1>1. CASE OldBuildPublishes
  BY <1>1, OldBuildInv
<1>2. ASSUME NEW d \in Devices, NEW c \in Contents, PushForced(d, c) \/ PushNormal(d, c)
      PROVE  SyncInv'
  BY <1>2, PushForcedInv, PushNormalInv
<1>3. ASSUME NEW d \in Devices, ReadLegacy(d) \/ UploadObject(d) \/ PutManifest(d) \/ Reread(d)
      PROVE  SyncInv'
  BY <1>3, ReadLegacyInv, UploadObjectInv, PutManifestInv, RereadInv
<1>4. ASSUME NEW d \in Devices, SaveState(d) \/ Retarget(d) \/ RequestFails(d) \/ Crash(d)
      PROVE  SyncInv'
  BY <1>4, SaveStateInv, RetargetInv, RequestFailsInv, CrashInv
<1>5. ASSUME NEW d \in Devices, Pull(d) \/ PullLegacy(d) \/ FetchBundle(d) \/ Commit(d)
      PROVE  SyncInv'
  BY <1>5, PullInv, PullLegacyInv, FetchBundleInv, CommitInv
<1>6. CASE UNCHANGED vars
  BY <1>6 DEF vars, remoteVars, SyncInv, TypeOK, RemoteInv, DeviceInv, BaselineInv, DownloadInv,
     TaskInv, UploadInv, StillChecked, Recorded, RecordInv, OwnWrite, Downloaded,
     RevisionsAreKnown, At
<1> QED BY <1>1, <1>2, <1>3, <1>4, <1>5, <1>6 DEF Next

-----------------------------------------------------------------------------
\* The invariant holds of every reachable state of the sync (sync.rs).
THEOREM SyncSafe == Spec => []SyncInv
BY InitInv, StepInv, PTL DEF Spec

\* Types, with the bound on the times a chain of uploads can reach.
THEOREM SyncTypeOK == Spec => []TypeOK
<1>1. SyncInv => TypeOK
  BY DEF SyncInv
<1> QED BY <1>1, SyncSafe, PTL

\* upload_bundle writes the manifest last: no reader of the target finds a
\* manifest that names an object the target lacks, and no download under way does.
THEOREM SyncManifestComplete == Spec => []ManifestComplete
<1>1. SyncInv => ManifestComplete
  BY DEF SyncInv, RemoteInv, DeviceInv, TaskInv, ManifestComplete
<1> QED BY <1>1, SyncSafe, PTL

\* The baseline in sync.json names a revision whose content the device has held:
\* a profile that failed to save never leaves a baseline behind.
THEOREM SyncBaselineIsHeld == Spec => []BaselineIsHeld
<1>1. SyncInv => BaselineIsHeld
  BY DEF SyncInv, DeviceInv, BaselineInv, RecordInv, BaselineIsHeld
<1> QED BY <1>1, SyncSafe, PTL

\* A baseline at the remote's revision carries the remote's time, so that
\* require_not_newer does not refuse a device that is up to date.
THEOREM SyncBaselineAgrees == Spec => []BaselineAgrees
<1>1. SyncInv => BaselineAgrees
  BY DEF SyncInv, DeviceInv, BaselineInv, Recorded, BaselineAgrees
<1> QED BY <1>1, SyncSafe, PTL

\* Only the PUT of a device replaces the manifest while that device uploads, and
\* only under the condition of its check.
LEMMA ReplacedUnderCondition ==
    ASSUME SyncInv, [Next]_vars, NEW d \in Devices, Replaces(d)
    PROVE  /\ At(d, "upload") /\ manifest.id \in task[d].cond /\ writes < MaxWrites
           /\ \E now \in 1..MaxClock : manifest'.at = UpdatedAt(d, now)
<1>1. task[d].pc = "upload" /\ task'[d] # task[d] /\ manifest' # manifest
  BY DEF Replaces, At
<1>2. PICK e \in Devices : PutManifest(e)
  BY <1>1 DEF Next, vars, remoteVars, PushForced, PushNormal, ReadLegacy, UploadObject, Reread,
     SaveState, Pull, PullLegacy, FetchBundle, Commit, Retarget, RequestFails, Crash,
     OldBuildPublishes
<1>3. PICK now \in 1..MaxClock : PutAccepted(e, now)
  BY <1>1, <1>2 DEF PutManifest, PutRefused
<1>4. e = d
  <2>1. PICK t \in TaskType : task' = [task EXCEPT ![e] = t]
    BY <1>3, PutTask
  <2> QED BY <1>1, <2>1 DEF SyncInv, TypeOK
<1> QED BY <1>1, <1>3, <1>4 DEF PutAccepted, At

\* A normal upload replaces only a revision whose content its device has held,
\* however the requests of other devices fall between its check and its PUT.
THEOREM SyncNoLostUpdate == Spec => NoLostUpdate
<1> DEFINE Step == \A d \in Devices :
             Replaces(d) /\ ~task[d].force /\ manifest.id # 0 /\ RevisionsAreKnown
               => manifest.id \in seen[d]
<1>1. SyncInv /\ [Next]_vars => [Step]_vars
  <2> SUFFICES ASSUME SyncInv, [Next]_vars, NEW d \in Devices,
                      Replaces(d), ~task[d].force, manifest.id # 0, RevisionsAreKnown
               PROVE  manifest.id \in seen[d]
    OBVIOUS
  <2>1. /\ At(d, "upload") /\ manifest.id \in task[d].cond /\ writes < MaxWrites
        /\ \E now \in 1..MaxClock : manifest'.at = UpdatedAt(d, now)
    BY ReplacedUnderCondition
  <2> QED BY <2>1, MayReplace
<1> QED BY <1>1, SyncSafe, PTL DEF Spec, NoLostUpdate

\* A normal upload is later than what it replaces, whatever the clocks read.
THEOREM SyncUpdatedAtGrows == Spec => UpdatedAtGrows
<1> DEFINE Step == \A d \in Devices :
             Replaces(d) /\ ~task[d].force => manifest'.at > manifest.at
<1>1. SyncInv /\ [Next]_vars => [Step]_vars
  <2> SUFFICES ASSUME SyncInv, [Next]_vars, NEW d \in Devices, Replaces(d), ~task[d].force
               PROVE  manifest'.at > manifest.at
    OBVIOUS
  <2>1. PICK now \in 1..MaxClock :
          /\ At(d, "upload") /\ manifest.id \in task[d].cond /\ writes < MaxWrites
          /\ manifest'.at = UpdatedAt(d, now)
    BY ReplacedUnderCondition
  <2>2. manifest.at < UpdatedAt(d, now) /\ manifest.at \in Nat /\ UpdatedAt(d, now) \in Nat
    BY <2>1, MayReplace, RoomForWrite, FieldTypes DEF SyncInv
  <2> QED BY <2>1, <2>2
<1> QED BY <1>1, SyncSafe, PTL DEF Spec, UpdatedAtGrows
=============================================================================
