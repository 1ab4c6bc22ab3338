---------------------------- MODULE ReleaseRules ----------------------------
(* Which asset of a release this installation may take, which of two versions
   is newer and which day a date is (proxy-core/src/update.rs).  An asset
   name is its suffix and the set of words in it.                           *)
EXTENDS Integers, Sequences

NonInstallerSuffixes == {".sha256", ".sha512", ".asc", ".sig"}
InstallerSuffixes == {".apk", ".appimage", ".deb", ".dmg", ".exe", ".msi", ".tar.gz", ".zip"}

IsInstallable(name) ==
    name.suffix \in InstallerSuffixes /\ name.words \cap {"source", "sources"} = {}

OsTokens == [macos |-> {"macos", "darwin", "osx", ".dmg"}, windows |-> {"windows", ".msi", ".exe"},
             linux |-> {"linux", "ubuntu", ".deb", ".appimage"}, android |-> {"android", ".apk"}]
DeclaredOs(name) ==
    {os \in DOMAIN OsTokens : OsTokens[os] \cap (name.words \cup {name.suffix}) # {}}

ArchGroups == [aarch64 |-> {"aarch64", "arm64", "armv8", "v8a"},
               x86_64 |-> {"x86_64", "amd64", "x64"}, armv7 |-> {"armv7", "armeabi", "arm32"}]
ArchGroup(arch) == {g \in DOMAIN ArchGroups : arch \in ArchGroups[g]}
ListedArchs(name) == {g \in DOMAIN ArchGroups : ArchGroups[g] \cap name.words # {}}

(* The kind the running shell reports, and the one a name declares.         *)
KindOfPlatform(platform) ==
    CASE platform \in {"android", "mobile"} -> "android"
      [] platform \in {"web", "web control", "web-server"} -> "web"
      [] platform \in {"desktop", "macos", "darwin", "windows", "linux"} -> "desktop"
      [] OTHER -> "none"

KindOfAsset(name) ==
    IF ~IsInstallable(name) THEN "none"
    ELSE IF "web" \in name.words THEN "web"
    ELSE IF name.suffix = ".apk" \/ "android" \in name.words THEN "android"
    ELSE IF DeclaredOs(name) # {} THEN "desktop" ELSE "none"

OsAgrees(name, target) ==
    IF DeclaredOs(name) = {} THEN target.kind # "desktop" ELSE target.os \in DeclaredOs(name)

ArchAgrees(name, target) ==
    \/ "universal" \in name.words
    \/ ListedArchs(name) = {}
    \/ ArchGroup(target.arch) \cap ListedArchs(name) # {}

AssetMatchesTarget(name, target) ==
    KindOfAsset(name) = target.kind /\ OsAgrees(name, target) /\ ArchAgrees(name, target)

AssetPriority(name) ==
    IF name.suffix \in {".msi", ".dmg", ".apk"} THEN 0
    ELSE IF name.suffix \in {".appimage", ".deb"} THEN 1 ELSE 2

(* The candidates of least priority; the code takes the first of them.      *)
SelectAsset(assets, target) ==
    LET fit == {a \in assets : AssetMatchesTarget(a, target)}
    IN  {a \in fit : \A b \in fit : AssetPriority(a) <= AssetPriority(b)}
-----------------------------------------------------------------------------
(* A version is three numbers and its pre-release identifiers: <<0, n>> for a
   numeric one, which sorts before every <<1, word>>.                       *)
Before(x, y) == x[1] < y[1] \/ (x[1] = y[1] /\ x[2] < y[2])

SeqBefore(s, t) ==
    \E i \in 1 .. Len(t) :
        /\ i <= Len(s) + 1
        /\ \A j \in 1 .. i - 1 : s[j] = t[j]
        /\ i <= Len(s) => Before(s[i], t[i])

NumbersBefore(u, v) ==
    \/ u.major < v.major
    \/ u.major = v.major /\ (u.minor < v.minor \/ (u.minor = v.minor /\ u.patch < v.patch))
SameNumbers(u, v) == u.major = v.major /\ u.minor = v.minor /\ u.patch = v.patch

PreBefore(s, t) == s # <<>> /\ (t = <<>> \/ SeqBefore(s, t))

IsNewer(current, latest) ==
    \/ NumbersBefore(current, latest)
    \/ SameNumbers(current, latest) /\ PreBefore(current.pre, latest.pre)
-----------------------------------------------------------------------------
DaysFromCivil(year, month, day) ==
    LET y == IF month <= 2 THEN year - 1 ELSE year
        era == (IF y >= 0 THEN y ELSE y - 399) \div 400
        yoe == y - era * 400
        m == IF month > 2 THEN month - 3 ELSE month + 9
        doy == (153 * m + 2) \div 5 + day - 1
        doe == yoe * 365 + yoe \div 4 - yoe \div 100 + doy
    IN  era * 146097 + doe - 719468

(* A stamp outside these fields is refused; a leap second is not.           *)
StampAccepted(s) ==
    /\ s.month \in 1 .. 12 /\ s.day \in 1 .. 31 /\ s.year \in 1970 .. 9999
    /\ s.hour <= 23 /\ s.minute <= 59 /\ s.second <= 60

(* Ages are told in the largest unit that fits, and never when the answering
   clock is unknown.                                                        *)
AgeUnit(ago) == IF ago = 0 THEN "now" ELSE IF ago < 60 THEN "second" ELSE IF ago < 3600
                THEN "minute" ELSE IF ago < 86400 THEN "hour" ELSE "day"
AgeLabel(since, now) ==
    IF now = 0 THEN "unknown" ELSE IF since = 0 THEN "never"
    ELSE AgeUnit(IF now > since THEN now - since ELSE 0)
=============================================================================
