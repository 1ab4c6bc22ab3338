--------------------------- MODULE DocumentChecks ---------------------------
(* What the pure algorithms promise of every document of a small set, as
   assumptions that TLC evaluates, and the connection requests that MCApp
   turns into configurations.                                               *)
EXTENDS ConnectionConfig, SubscriptionParser, ReleaseRules, ProfileModel, SyncFormat, ControlGuard

UpTo(n, S) == UNION {[1 .. k -> S] : k \in 0 .. n}
-----------------------------------------------------------------------------
(* Connection requests.                                                     *)
HostNode == [tag |-> <<"n", 1>>, literal |-> FALSE, facts |-> {"a"}, server |-> "host.a"]
LiteralNode == [tag |-> <<"n", 2>>, literal |-> TRUE, facts |-> {}, server |-> "192.0.2.1"]
CustomRules ==
    {[on |-> x[1], valid |-> x[2], match |-> x[3], value |-> x[4], action |-> x[5]] : x \in
        {<<TRUE, TRUE, "domain", "a", "direct">>, <<TRUE, TRUE, "domain", "a", "proxy">>,
         <<TRUE, TRUE, "domain", "b", "direct">>, <<TRUE, TRUE, "process", "p", "block">>,
         <<TRUE, TRUE, "cidr", "net", "direct">>, <<FALSE, TRUE, "domain", "a", "direct">>,
         <<TRUE, FALSE, "domain", "b", "direct">>}}
Override(on, suffix, literal) == [on |-> on, suffix |-> suffix, literal |-> literal]
DnsOverrides ==
    {<<>>, <<Override(TRUE, "a", TRUE)>>, <<Override(FALSE, "b", TRUE), Override(TRUE, "a", FALSE)>>}
PlainRequest ==
    [nodes |-> <<HostNode, LiteralNode>>, selected |-> <<"n", 2>>, mode |-> "rule", tun |-> TRUE,
     rules |-> <<>>, overrides |-> <<>>, nameservers |-> <<>>, selections |-> << >>]

\* Requests whose routes differ, and requests whose servers and exits differ.
RoutedRequests ==
    [nodes : {<<HostNode, LiteralNode>>}, selected : {<<"n", 2>>}, nameservers : {<<>>},
     rules : UpTo(2, CustomRules), mode : {"rule", "global", "direct"}, tun : BOOLEAN,
     overrides : DnsOverrides, selections : {<<>>}]
LinkedRequests ==
    [nodes : {<<HostNode>>, <<LiteralNode, HostNode>>}, selected : {<<"n", 2>>},
     nameservers : UpTo(2, [https : BOOLEAN, literal : BOOLEAN]),
     rules : {<<>>}, mode : {"rule", "global", "direct"}, tun : BOOLEAN, overrides : DnsOverrides,
     selections : {Tag("proxy") :> <<"n", i>> : i \in 1 .. 2}]
RequestSample == RoutedRequests \cup LinkedRequests
RoutedFacts == {"a", "b", "p", "net", "private", "geosite-cn", "geoip-cn"}
NameFacts == {"a", "b", "p", "geosite-cn"}
-----------------------------------------------------------------------------
(* Subscriptions.                                                           *)
Link(scheme, name, good) ==
    [scheme |-> scheme, name |-> name, parses |-> good, host |-> TRUE, port |-> TRUE, user |-> TRUE,
     pass |-> "given", security |-> TRUE, bare |-> TRUE, query |-> FALSE]
Lines == {[kind |-> "blank"]} \cup
    {[kind |-> "link", link |-> Link(scheme, name, good)] :
        scheme \in {"trojan", "ss"}, name \in {NoName, <<"hk">>, <<"hk", 2>>}, good \in BOOLEAN}

(* However entries are named and whichever are rejected, no two nodes of a
   subscription have one tag (parser.rs:823), and every link is accounted
   for: a selector with two members of one name would be refused.           *)
ASSUME TagsStayDistinct ==
    \A lines \in UpTo(3, Lines) :
        LET report == ParseUriLines(lines) IN
        /\ \A i, j \in DOMAIN report.nodes : report.nodes[i].tag = report.nodes[j].tag => i = j
        /\ report # Failure =>
              Len(report.nodes) + Len(report.rejected) =
                 Cardinality({i \in DOMAIN lines : lines[i].kind = "link"})

-----------------------------------------------------------------------------
(* Profiles.                                                                *)
Rule(id, match, value) == [id |-> id, on |-> TRUE, match |-> match, value |-> value, action |-> "direct"]
RuleLists == {rules \in UpTo(3, {Rule(id, m, "a") : id \in 1 .. 3, m \in {"domain", "process_name"}}) :
                \A i, j \in DOMAIN rules : rules[i].id = rules[j].id => i = j}
Sources == {[id |-> id, source |-> source, nodes |-> nodes, resolvers |-> "auto", rejected |-> 0] :
    id \in 1 .. 2, source \in {"", "url"}, nodes \in {<<>>, <<<<1, "a">>, NoTag>>, <<<<2, "b">>>>}}
Profiles ==
    {[subs |-> subs, active |-> 1, tag |-> <<1, "a">>, selections |-> "media" :> tag, rules |-> rules,
      dns |-> "dns", script |-> [on |-> TRUE, text |-> "long"], device |-> device] :
        subs \in UpTo(2, Sources), tag \in {<<1, "a">>, <<2, "b">>, <<0, "other">>},
        rules \in {<<>>, <<Rule(1, "domain", "long"), Rule(2, "domain", "a")>>},
        device \in {"here", "there"}}

(* What a start migrates it has migrated for good (model.rs:686): the next
   start changes nothing, and nothing selected is then a node that is gone. *)
ASSUME MigrationSettles ==
    \A p \in Profiles :
        LET once == MigrateProfile(p) IN
        /\ MigrateProfile(once) = once
        /\ \A g \in DOMAIN once.selections :
              Namespaced(once.selections[g]) => once.selections[g] \in LiveTags(once.subs)

(* A document that is pushed and pulled is what it was, keeps what belongs to
   this device, and the window shows of it what the next start would load:
   its subscriptions with a live node selected (model.rs:595, sync.rs:846).  *)
ASSUME SnapshotsTravel ==
    \A p \in {x \in Profiles : x.device = "here"},
       q \in {x \in Profiles : x.device = "there" /\ x.subs = <<>>} :
        LET stored == ApplySnapshot(SnapshotOf(p), q)
            shown == ShowSnapshot(SnapshotOf(p), q)
        IN  /\ SnapshotOf(stored) = SnapshotOf(p) /\ SnapshotOf(shown) = SnapshotOf(p)
            /\ {stored.device, shown.device} = {"there"}
            /\ ApplySnapshot([SnapshotOf(p) EXCEPT !.dns = NoSection], q).dns = q.dns
            /\ shown.tag \in LiveTags(shown.subs) \cup {NoTag}
            /\ shown.active = ResolveActive(stored.subs, stored.active, stored.tag)

(* Moving a rule permutes the list, leaves the rules that this platform hides
   where they are, and the opposite move takes it back (rules.rs:1129).     *)
ASSUME MovesPermute ==
    \A rules \in RuleLists : \A i \in DOMAIN rules, processes \in BOOLEAN :
        LET moved == MoveRule(rules, rules[i].id, 1, processes) IN
        /\ Len(moved) = Len(rules) /\ Range(moved) = Range(rules)
        /\ \A j \in DOMAIN rules : ~Visible(rules[j], processes) => moved[j] = rules[j]
        /\ moved # rules => MoveRule(moved, rules[i].id, -1, processes) = rules
-----------------------------------------------------------------------------
(* Releases.                                                                *)
Asset(suffix, words) == [suffix |-> suffix, words |-> words]
Names == {Asset(s, w) : s \in {".dmg", ".exe", ".deb", ".apk", ".tar.gz", ".zip", ".sha256"},
                         w \in SUBSET {"macos", "linux", "web", "arm64", "x64", "universal", "source"}}
Assets == {a \in Names : Cardinality(DeclaredOs(a)) <= 1}
Targets == {[kind |-> k, os |-> o, arch |-> a] : k \in {"desktop", "android", "web"},
            o \in {"macos", "windows", "linux", "android"}, a \in {"arm64", "amd64", "riscv"}}

(* What a machine is offered runs on it: an asset whose name tells another
   system or another processor is never chosen, nor is a source archive or a
   checksum, and a shell is not offered the build of another kind
   (update.rs:212).                                                         *)
ASSUME AssetsFit ==
    \A t \in Targets : \A a \in SelectAsset(Assets, t) :
        /\ a.suffix # ".sha256" /\ "source" \notin a.words
        /\ ("web" \in a.words) = (t.kind = "web")
        /\ a.suffix = ".apk" => t.os = "android"
        /\ t.kind = "desktop" /\ t.os = "windows" => a.suffix \in {".exe", ".msi", ".zip", ".tar.gz"}
        /\ "arm64" \in a.words /\ {"x64", "universal"} \cap a.words = {} => t.arch = "arm64"

Identifiers == {<<0, 1>>, <<0, 2>>, <<1, 1>>}
VersionSample == {[major |-> 1, minor |-> m, patch |-> p, pre |-> pre] :
    m \in 0 .. 1, p \in 0 .. 1, pre \in UpTo(2, Identifiers)}

(* Newer is a strict order that compares any two different versions, so two
   installations that see the same releases never prefer each other's
   (update.rs:387, :403).                                                   *)
ASSUME NewerIsAnOrder ==
    /\ \A u, v \in VersionSample :
          /\ ~(IsNewer(u, v) /\ IsNewer(v, u))
          /\ u # v => IsNewer(u, v) \/ IsNewer(v, u)
    /\ \A u, v, x \in {y \in VersionSample : y.minor = 0} :
          IsNewer(u, v) /\ IsNewer(v, x) => IsNewer(u, x)

LeapYear(y) == y % 4 = 0 /\ (y % 100 # 0 \/ y % 400 = 0)
DaysIn(y, m) == IF m = 2 THEN IF LeapYear(y) THEN 29 ELSE 28
                ELSE IF m \in {4, 6, 9, 11} THEN 30 ELSE 31

(* The day after a day is one more, over the turn of months, leap years and
   centuries, from the day zero of the clock on (update.rs:371).            *)
ASSUME DaysAreConsecutive ==
    /\ DaysFromCivil(1970, 1, 1) = 0
    /\ \A y \in 1970 .. 2101, m \in 1 .. 12 :
          /\ \A d \in 2 .. DaysIn(y, m) : DaysFromCivil(y, m, d) = DaysFromCivil(y, m, d - 1) + 1
          /\ DaysFromCivil(IF m = 12 THEN y + 1 ELSE y, IF m = 12 THEN 1 ELSE m + 1, 1)
                = DaysFromCivil(y, m, DaysIn(y, m)) + 1
\* The calendar that signs a request is the one that reads a release's date.
ASSUME CalendarsAgree ==
    \A y \in 1970 .. 2101, m \in 1 .. 12 : \A d \in 1 .. DaysIn(y, m) :
        CivilFromDays(DaysFromCivil(y, m, d)) = <<y, m, d>>
-----------------------------------------------------------------------------
(* Sync documents and targets.                                              *)
Content(text, size, good) == [text |-> text, size |-> size, good |-> good]
Written == {EmptyContent, Content("x", 1, TRUE), Content("y", 2, TRUE), Content("bad", 1, FALSE)}
Snapshots ==
    {("subscriptions" :> c[1] @@ "custom-rules" :> c[2] @@ "dns-overrides" :> c[3]
          @@ "config-script" :> c[4]) :
        c \in Written \X Written \X (Written \cup {NoContent}) \X {NoContent, Content("x", 1, TRUE)}}
StoreOf(snapshot) == [n \in Uploads(snapshot, {}) |-> n[2]]

(* A bundle is what was put into it, whatever the target held before and
   whichever objects of it the upload reused; the download takes every one an
   upload may write, and none that misses or changes a named object
   (sync.rs:720, :925).                                                     *)
ASSUME BundlesTravel ==
    \A s \in {x \in Snapshots : SnapshotOk(x) /\ TotalSize(ManifestOf(x)) <= MaxSyncBytes},
       old \in {x \in Snapshots : x["subscriptions"] = x["custom-rules"]} :
        LET known == DOMAIN StoreOf(old)
            store == [n \in known \cup Uploads(s, known) |-> n[2]]
            manifest == ManifestOf(s)
        IN  /\ DownloadBundle(manifest, store) = s
            /\ \A i \in DOMAIN manifest :
                  LET n == manifest[i].name IN
                  /\ DownloadBundle(manifest, [store EXCEPT ![n].text = "other"]) = BundleFailure
                  /\ DownloadBundle(manifest, [m \in DOMAIN store \ {n} |-> store[m]]) = BundleFailure
                  /\ DownloadBundle(manifest \o <<manifest[i]>>, store) = BundleFailure

Endpoint(scheme, host, aws) ==
    [scheme |-> scheme, host |-> host, aws |-> aws, extra |-> FALSE]
Endpoints == {Blank, Endpoint("https", "h", FALSE), Endpoint("bare", "s3.amazonaws.com", TRUE)}
Stores ==
    {[provider |-> x[1], webdav |-> x[2], s3 |-> x[3], legacy |-> x[4], path |-> <<"a">>,
      username |-> x[5], password |-> x[6], bucket |-> x[7], region |-> "r", access |-> "k",
      secret |-> x[6], enabled |-> TRUE, at |-> 1, revision |-> "e"] :
        x \in {"webdav", "s3"} \X Endpoints \X Endpoints \X {Blank, Endpoint("https", "old", FALSE)}
              \X {"", "u"} \X {"", "word"} \X {"b", "dotted"}}

(* A window that saves the configuration it was shown changes nothing, and
   one that changes the target never takes the other secrets along as the
   mask it saw (sync.rs:136).                                               *)
ASSUME SecretsSurvive ==
    \A c \in Stores :
        /\ SaveConfig(c, MaskedForClient(c)) = c
        /\ \A bucket \in {"b", "dotted"} :
              LET saved == SaveConfig(c, [MaskedForClient(c) EXCEPT !.bucket = bucket]) IN
              /\ saved.password = c.password /\ saved.secret = c.secret
              /\ SameTarget(c, saved) = (saved.at = c.at)

(* A baseline is only kept for the object it was taken from, and an address
   of an older build moves once and only to the provider it was for
   (sync.rs:96, :341).                                                      *)
ASSUME BaselinesStay ==
    /\ \A c, d \in {x \in Stores : x.legacy = Blank /\ ConfigOk(x)} :
          SameTarget(c, d) => RemoteUrl(c, "manifest") = RemoteUrl(d, "manifest")
    /\ \A c \in Stores :
          LET moved == MigrateEndpoint(c) IN
          /\ MigrateEndpoint(moved) = moved
          /\ c.provider = "s3" => moved.webdav = c.webdav
          /\ c.provider = "webdav" => moved.s3 = c.s3
-----------------------------------------------------------------------------
(* The web server.                                                          *)
HostOf(text, ip, local) == [text |-> text, ip |-> ip, local |-> local, dot |-> FALSE]
Hosts == {HostOf("localhost", FALSE, TRUE), HostOf("127.0.0.1", TRUE, TRUE),
          HostOf("192.168.1.3", TRUE, FALSE), HostOf("phone", FALSE, FALSE),
          HostOf("elsewhere", FALSE, FALSE)}
Authority(host, port) == [host |-> host, bracket |-> FALSE, user |-> FALSE, port |-> port]
Origins == {Authority(h, p) : h \in Hosts, p \in RealPorts}
Sessions == {[token |-> "now", lan |-> lan, allowed |-> {"phone"}, dev |-> NoServer] : lan \in BOOLEAN}

\* What a browser sends for a page of `origin' (external): the origin unless it
\* only reads what is its own, the site to encrypted or local servers alone.
Sent(origin, target, get, token) ==
    [api |-> TRUE, get |-> get, host |-> target, token |-> token,
     origin |-> IF get /\ origin = target THEN NoOrigin
                ELSE [scheme |-> "http", authority |-> origin],
     site |-> IF ~target.host.local THEN NoHeader
              ELSE IF origin = target THEN "same-origin"
              ELSE IF origin.host = target.host THEN "same-site" ELSE "cross-site"]

(* The server answers its own pages and no others, nor a page of its last run
   (main.rs:262); what its own pages read over plain HTTP from another
   machine it refuses, because nothing tells where such a request is from.  *)
ASSUME OwnPagesAreServed ==
    \A session \in Sessions, origin, target \in Origins, get \in BOOLEAN, token \in {"now", "before"} :
        (ControlSessionGuard(session, Sent(origin, target, get, token)) = "served")
           = (/\ origin = target /\ token = "now" /\ HostAllowed(session, target)
              /\ ~get \/ target.host.local)

\* The development server puts its own address in front of the pages it passes
\* on: any local name of it will do, another port will not.
ASSUME DevPagesAreServed ==
    \A dev, origin, target \in {a \in Origins : a.host.local} :
        LET session == [token |-> "now", lan |-> FALSE, allowed |-> {}, dev |-> DevServerAuthority(dev)] IN
        (ControlSessionGuard(session, [Sent(origin, origin, FALSE, "now") EXCEPT !.host = target]) = "served")
           = (origin = target \/ origin.port = dev.port)

Words == {Word(w) : w \in {"--help", "--daemon", "--allow-lan", "--port", "--log-file", "8080", "x"}}
            \cup {<<f, v>> : f \in {"--port", "--log-file"}, v \in {"8080", "x", ""}}
Environments == [port : {NoHeader, "7897", "bad"}, ip : {NoHeader, "127.0.0.1", "192.168.1.3", "bad"},
                 lan : BOOLEAN]

(* The process a daemon start leaves behind reads its arguments as its parent
   did, but for the two that were the parent's own, and listens where the
   parent waits for it, with the parent's permission (cli.rs:197, :213).    *)
ASSUME ChildListensThere ==
    \A args \in UpTo(4, Words) :
        LET options == ParseArgs(args)
            child == ParseArgs(ChildArgs(args))
        IN  options # BadOptions /\ options.daemon /\ ~options.help =>
              /\ child = [options EXCEPT !.daemon = FALSE, !.log = ""]
              /\ \A env \in Environments :
                    Address(options, env) # BadOptions =>
                      /\ Address(child, PreparedEnv(options, env)) = Address(options, env)
                      /\ LanModeEnabled(PreparedEnv(child, PreparedEnv(options, env)))
                            = (Address(options, env).ip # "127.0.0.1")
=============================================================================
