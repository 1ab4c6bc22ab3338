----------------------------- MODULE SyncFormat -----------------------------
(***************************************************************************)
(* What the sync of sync.rs (api) stores: the sections of a snapshot as    *)
(* objects named after their content, the manifest that lists them, the    *)
(* checks of a download, and the device's configuration of the target with *)
(* its secrets.  RemoteSync has the requests and their interleavings.      *)
(*                                                                         *)
(* A snapshot maps the sections to a content or NoContent, a content is    *)
(* [text, size, good]; an endpoint is [scheme, host, aws, extra],   *)
(* where aws says that the text names amazonaws.com and extra that it has  *)
(* credentials, a query or a fragment.                                     *)
(***************************************************************************)
EXTENDS Lists, Integers, Sequences, FiniteSets, SequencesExt, FiniteSetsExt

CONSTANTS
    MaxSyncBytes,         \* MAX_SYNC_BYTES
    MaxBundleFiles        \* MAX_BUNDLE_FILES

BundleSections == <<"subscriptions", "custom-rules", "dns-overrides", "config-script">>
\* A snapshot may lack the two sections older builds do not know.
Optional == {"dns-overrides", "config-script"}
NoContent == [text |-> "absent", size |-> 0, good |-> TRUE]
EmptyContent == [text |-> "empty", size |-> 0, good |-> TRUE]
BundleFailure == [error |-> "refused"]

\* A manifest may list every section there is.
ASSUME SyncAssumption ==
    MaxSyncBytes \in Nat /\ MaxBundleFiles \in Nat /\ MaxBundleFiles >= Len(BundleSections)

-----------------------------------------------------------------------------
(* The document.                                                           *)
ObjectName(section, content) == <<section, content>>
Entry(section, content) ==
    [section |-> section, name |-> ObjectName(section, content), size |-> content.size,
     sha |-> content]
Carried(snapshot) ==
    Retain(BundleSections, {i \in DOMAIN BundleSections : snapshot[BundleSections[i]] # NoContent})
ManifestOf(snapshot) ==
    [i \in DOMAIN Carried(snapshot) |-> Entry(Carried(snapshot)[i], snapshot[Carried(snapshot)[i]])]

TotalSize(manifest) == FoldSeq(LAMBDA file, sum : sum + file.size, 0, manifest)
SnapshotOk(snapshot) == \A i \in DOMAIN BundleSections : snapshot[BundleSections[i]].good

\* What a push uploads before the manifest: the objects it does not know.
Uploads(snapshot, known) == {file.name : file \in Range(ManifestOf(snapshot))} \ known

ManifestOk(manifest) ==
    /\ Len(manifest) <= MaxBundleFiles
    /\ \A i, j \in DOMAIN manifest : manifest[i].section = manifest[j].section => i = j
    /\ \A i \in DOMAIN manifest :
          /\ manifest[i].section \in Range(BundleSections)
          /\ manifest[i].name[1] = manifest[i].section

\* An object of the store is the content held under its name, if any.
Arrives(store, file) ==
    /\ file.name \in DOMAIN store
    /\ store[file.name].size = file.size /\ store[file.name] = file.sha

TakeSection(manifest, store, section) ==
    LET named == {i \in DOMAIN manifest : manifest[i].section = section} IN
    IF named # {} THEN store[manifest[CHOOSE i \in named : TRUE].name]
    ELSE IF section \in Optional THEN NoContent ELSE EmptyContent

DownloadBundle(manifest, store) ==
    IF /\ ManifestOk(manifest)
       /\ \A i \in DOMAIN manifest : Arrives(store, manifest[i])
       /\ TotalSize(manifest) <= MaxSyncBytes
    THEN LET snapshot == [s \in Range(BundleSections) |-> TakeSection(manifest, store, s)]
         IN  IF SnapshotOk(snapshot) THEN snapshot ELSE BundleFailure
    ELSE BundleFailure

-----------------------------------------------------------------------------
(* The configuration of the target.                                        *)
Blank == [scheme |-> "blank", host |-> "", aws |-> FALSE, extra |-> FALSE]
Placeholder == "masked"
NoText == ""

EndpointOk(e, bare) ==
    /\ e.scheme \in {"http", "https"} \cup (IF bare THEN {"bare"} ELSE {})
    /\ e.host # "" /\ ~e.extra
PathOk(path) == path # <<>> /\ \A i \in DOMAIN path : path[i] \notin {"", ".", "..", "bad"}
ConfigOk(c) ==
    /\ c.enabled /\ PathOk(c.path)
    /\ \/ /\ c.provider = "webdav" /\ EndpointOk(c.webdav, FALSE)
          /\ c.username = "" => c.password = ""
       \/ /\ c.provider = "s3" /\ c.bucket \notin {"", "bad"} /\ c.region \notin {"", "bad"}
          /\ c.access # "" /\ c.secret # ""
          /\ c.s3 = Blank \/ EndpointOk(c.s3, TRUE)

Mask(secret) == IF secret = NoText THEN NoText ELSE Placeholder
MaskedForClient(c) == [c EXCEPT !.password = Mask(@), !.secret = Mask(@)]
ResolveSecrets(stored, c) ==
    [c EXCEPT !.password = IF @ = Placeholder THEN stored.password ELSE @,
              !.secret = IF @ = Placeholder THEN stored.secret ELSE @]
SameTarget(a, b) ==
    /\ a.provider = b.provider /\ a.path = b.path
    /\ IF a.provider = "webdav" THEN a.webdav = b.webdav /\ a.username = b.username
       ELSE a.s3 = b.s3 /\ a.bucket = b.bucket /\ a.region = b.region /\ a.access = b.access
SaveAccepted(stored, c) == c.enabled => ConfigOk(ResolveSecrets(stored, c))
SaveConfig(stored, c) ==
    LET saved == ResolveSecrets(stored, c) IN
    IF SameTarget(stored, c) THEN [saved EXCEPT !.at = stored.at, !.revision = stored.revision]
    ELSE [saved EXCEPT !.at = 0, !.revision = NoText]

\* The one endpoint an older build stored goes to the provider it was for.
MigrateEndpoint(c) ==
    LET own == IF c.provider = "s3" THEN "s3" ELSE "webdav" IN
    [c EXCEPT !.legacy = Blank, ![own] = IF @ = Blank THEN c.legacy ELSE @]

\* Amazon's own addresses come from the bucket and the region alone.
RemoteUrl(c, name) ==
    IF c.provider = "webdav" THEN <<c.webdav.scheme, c.webdav.host, name>>
    ELSE IF c.s3 = Blank \/ c.s3.aws
         THEN IF c.bucket = "dotted" THEN <<"https", c.region, c.bucket, name>>
              ELSE <<"https", c.bucket, c.region, name>>
         ELSE <<IF c.s3.scheme = "bare" THEN "https" ELSE c.s3.scheme, c.s3.host, c.bucket, name>>

-----------------------------------------------------------------------------
(* The calendar of a signed request.                                       *)
CivilFromDays(days) ==
    LET shifted == days + 719468
        era == (IF shifted >= 0 THEN shifted ELSE shifted - 146096) \div 146097
        doe == shifted - era * 146097
        yoe == (doe - doe \div 1460 + doe \div 36524 - doe \div 146096) \div 365
        doy == doe - (365 * yoe + yoe \div 4 - yoe \div 100)
        mp == (5 * doy + 2) \div 153
        month == IF mp < 10 THEN mp + 3 ELSE mp - 9
    IN  <<yoe + era * 400 + (IF month <= 2 THEN 1 ELSE 0), month, doy - (153 * mp + 2) \div 5 + 1>>
=============================================================================
