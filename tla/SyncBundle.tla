----------------------------- MODULE SyncBundle -----------------------------
(* One device that pushes and pulls whole bundles (sync.rs of api) against a
   target that may lose an object: the comment of upload_bundle leaves the
   expiry of old objects to a bucket rule, which goes by age.  The requests
   one by one, and other devices, are RemoteSync's.                         *)
EXTENDS SyncFormat

CONSTANTS
    BundleTexts,          \* what an edit writes into a section
    MaxBundlePushes,
    MaxLostObjects

VARIABLES
    sbStore,     \* object name to the content the target holds under it
    sbManifest,  \* the manifest it holds
    sbLocal,     \* the snapshot of this device, which holds the baseline
    sbPushed,    \* accepted pushes
    sbPulled     \* what the last pull gave
sbVars == <<sbStore, sbManifest, sbLocal, sbPushed, sbPulled>>

EmptyBundle == [s \in Range(BundleSections) |-> EmptyContent]
BundleInit ==
    /\ sbLocal = EmptyBundle /\ sbManifest = ManifestOf(EmptyBundle) /\ sbPulled = EmptyBundle
    /\ sbStore = [n \in Uploads(EmptyBundle, {}) |-> n[2]]
    /\ sbPushed = 0

EditSection(s, text) ==
    /\ text # sbLocal[s].text /\ sbPushed < MaxBundlePushes
    /\ sbLocal' = [sbLocal EXCEPT ![s] = [text |-> text, size |-> 1, good |-> TRUE]]
    /\ UNCHANGED <<sbStore, sbManifest, sbPushed, sbPulled>>

\* The objects a push does not send again.
Known(force) == IF force THEN {} ELSE {file.name : file \in Range(sbManifest)}

\* A push checks that the manifest is the one of its baseline; forced, it
\* reads nothing and uploads every object.
PushBundle(force) ==
    /\ sbPushed < MaxBundlePushes
    /\ SnapshotOk(sbLocal) /\ TotalSize(ManifestOf(sbLocal)) <= MaxSyncBytes
    /\ LET new == Uploads(sbLocal, Known(force))
       IN  sbStore' = [n \in DOMAIN sbStore \cup new |-> IF n \in new THEN n[2] ELSE sbStore[n]]
    /\ sbManifest' = ManifestOf(sbLocal)
    /\ sbPushed' = sbPushed + 1
    /\ UNCHANGED <<sbLocal, sbPulled>>

PullBundle ==
    /\ sbPulled' = DownloadBundle(sbManifest, sbStore)
    /\ UNCHANGED <<sbStore, sbManifest, sbLocal, sbPushed>>

\* The bucket's lifecycle rule, or a clean-up by hand, removes an object.
LoseObject(name) ==
    /\ Cardinality({f \in Range(sbManifest) : f.name \notin DOMAIN sbStore}) < MaxLostObjects
    /\ sbStore' = [n \in DOMAIN sbStore \ {name} |-> sbStore[n]]
    /\ UNCHANGED <<sbManifest, sbLocal, sbPushed, sbPulled>>

BundleNext ==
    \/ \E i \in DOMAIN BundleSections, t \in BundleTexts : EditSection(BundleSections[i], t)
    \/ \E force \in BOOLEAN : PushBundle(force)
    \/ PullBundle
    \/ \E name \in DOMAIN sbStore : LoseObject(name)
BundleSpec == BundleInit /\ [][BundleNext]_sbVars

-----------------------------------------------------------------------------
(* After an upload the bundle can be downloaded again: that is what the error
   of a download whose object is missing or damaged tells its user to do
   ("please upload again", sync.rs:744, :838).                              *)
ReuploadRepairs ==
    [][sbPulled = BundleFailure /\ sbPushed' > sbPushed
          => DownloadBundle(sbManifest', sbStore') = sbLocal']_sbVars
=============================================================================
