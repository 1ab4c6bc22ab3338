-------------------------- MODULE ConnectionConfig --------------------------
(* The configuration a connection request is turned into, as the graph of its
   tags: which server answers a name, which outbound carries a connection
   (proxy-core/src/singbox_config.rs; api/src/core.rs, build_native_config;
   proxy-core/src/script.rs).

   A request is a record [nodes, selected, mode, tun, rules, overrides,
   nameservers, selections]; a rule matches a connection when its value is one
   of the connection's `facts' (its names and suffixes, its networks, its
   process).  A tag is a pair, a word and a number.                          *)
EXTENDS Lists, Integers, Sequences, FiniteSets, SequencesExt, FiniteSetsExt, TLC

Tag(word) == <<word, 0>>
Untagged == Tag("")

EnabledOverrides(r) == Retain(r.overrides, {i \in DOMAIN r.overrides : r.overrides[i].on})
Usable(rule) == rule.on /\ rule.valid
UsableRules(r) == Retain(r.rules, {i \in DOMAIN r.rules : Usable(r.rules[i])})
FakeIp(r) == r.tun /\ r.mode # "direct"
\* The first name server of the subscription that can be used, or 0.
SubscriptionDns(r) == SelectInSeq(r.nameservers, LAMBDA s : s.https)
-----------------------------------------------------------------------------
(* Outbounds.                                                               *)

(* The first enabled override above the node's host resolves it; a literal
   address is not resolved.                                                 *)
ResolverForServer(r, node) ==
    LET i == SelectInSeq(EnabledOverrides(r), LAMBDA d : d.suffix \in node.facts)
    IN  IF node.literal \/ i = 0 THEN Untagged ELSE <<"dns-override", i>>

NodeTags(r) == [i \in 1 .. Len(r.nodes) |-> r.nodes[i].tag]

Selected(r) ==
    IF r.selected \in ToSet(NodeTags(r)) THEN r.selected
    ELSE IF r.nodes = <<>> THEN Tag("direct") ELSE r.nodes[1].tag

Outbounds(r) ==
    {[tag |-> r.nodes[i].tag, kind |-> "node", resolver |-> ResolverForServer(r, r.nodes[i]),
      members |-> <<>>, default |-> Untagged] : i \in 1 .. Len(r.nodes)}
    \cup {[tag |-> Tag("proxy"), kind |-> "selector", resolver |-> Untagged,
           members |-> NodeTags(r), default |-> Selected(r)]}
    \cup {[tag |-> Tag(w), kind |-> w, resolver |-> Untagged, members |-> <<>>, default |-> Untagged] :
             w \in {"direct", "block"}}

(* Every literal endpoint leaves the tunnel, whichever node is selected.     *)
EndpointRoutes(r) ==
    IF r.tun THEN {r.nodes[i].server : i \in {j \in 1 .. Len(r.nodes) : r.nodes[j].literal}}
    ELSE {}
-----------------------------------------------------------------------------
(* Name servers and the rules that choose one.                              *)

DnsServers(r) ==
    {[tag |-> Tag("dns-direct"), resolver |-> Untagged, detour |-> Untagged]}
    \cup {[tag |-> <<"dns-override", i>>, detour |-> Untagged,
           resolver |-> IF EnabledOverrides(r)[i].literal THEN Untagged ELSE Tag("dns-direct")] :
             i \in 1 .. Len(EnabledOverrides(r))}
    \cup IF r.mode = "direct" THEN {} ELSE
         {[tag |-> Tag("dns-bootstrap"), resolver |-> Untagged, detour |-> Untagged],
          [tag |-> Tag("dns-proxy"), resolver |-> Untagged, detour |-> Tag("proxy")]}
         \cup (IF SubscriptionDns(r) = 0 THEN {} ELSE
               {[tag |-> Tag("dns-subscription"), detour |-> Untagged,
                 resolver |-> IF r.nameservers[SubscriptionDns(r)].literal THEN Untagged
                              ELSE Tag("dns-bootstrap")]})
         \cup (IF FakeIp(r) THEN {[tag |-> Tag("dns-fakeip"), resolver |-> Untagged,
                                   detour |-> Untagged]} ELSE {})

DnsRule(fact, server, v4) == [fact |-> fact, server |-> server, v4only |-> v4]
OverrideDnsRules(r) ==
    [i \in 1 .. Len(EnabledOverrides(r)) |->
        DnsRule(EnabledOverrides(r)[i].suffix, <<"dns-override", i>>, FALSE)]

DirectDnsRules(rules) ==
    [i \in DOMAIN rules |-> DnsRule(rules[i].value, Tag("dns-direct"), TRUE)]
Questioned(rule) == rule.action = "direct" /\ rule.match # "cidr"

\* Regression: a rule that is switched off still answers its name directly.
CustomDirectDnsRulesOff(r) ==
    DirectDnsRules(Retain(r.rules, {i \in DOMAIN r.rules : r.rules[i].valid /\ Questioned(r.rules[i])}))

(* Only a direct rule that can match a question becomes a DNS rule.         *)
CustomDirectDnsRules(r) ==
    DirectDnsRules(Retain(r.rules, {i \in DOMAIN r.rules : Usable(r.rules[i]) /\ Questioned(r.rules[i])}))

DnsRules(r) ==
    OverrideDnsRules(r) \o
    (IF r.mode = "direct" THEN <<>> ELSE
        <<DnsRule("ptr", Tag("dns-direct"), FALSE), DnsRule("lan", Tag("dns-direct"), FALSE)>>
        \o (IF r.mode = "rule"
            THEN CustomDirectDnsRules(r) \o <<DnsRule("geosite-cn", Tag("dns-direct"), TRUE)>>
            ELSE <<>>)
        \o (IF FakeIp(r) THEN <<DnsRule("address", Tag("dns-fakeip"), FALSE)>> ELSE <<>>))

DnsFinal(r) == Tag(IF r.mode = "direct" THEN "dns-direct" ELSE "dns-proxy")

\* Regression: what no rule answers, the node's own host name among it, is
\* left to the final server.
DefaultDomainResolverFinal(r) == DnsFinal(r)

DefaultDomainResolver(r) ==
    Tag(IF r.mode = "direct" THEN "dns-direct"
        ELSE IF SubscriptionDns(r) # 0 THEN "dns-subscription" ELSE "dns-bootstrap")
-----------------------------------------------------------------------------
(* Routes.                                                                  *)

RouteRule(fact, action, to) == [fact |-> fact, action |-> action, to |-> to]
\* Two rules for each override: its server resolves the name, which leaves directly.
OverrideRouteRules(r) ==
    [k \in 1 .. 2 * Len(EnabledOverrides(r)) |->
        LET i == (k + 1) \div 2
            suffix == EnabledOverrides(r)[i].suffix
        IN  IF k % 2 = 1 THEN RouteRule(suffix, "resolve", <<"dns-override", i>>)
            ELSE RouteRule(suffix, "route", Tag("direct"))]
CustomRouteRules(r) ==
    [i \in 1 .. Len(UsableRules(r)) |->
        RouteRule(UsableRules(r)[i].value, "route", Tag(UsableRules(r)[i].action))]

RouteRules(r) ==
    <<RouteRule("port 53", "hijack-dns", Untagged)>> \o OverrideRouteRules(r) \o
    (IF r.mode = "rule"
     THEN <<RouteRule("any", "sniff", Untagged), RouteRule("private", "route", Tag("direct"))>>
          \o CustomRouteRules(r)
          \o <<RouteRule("geosite-cn", "route", Tag("direct")),
               RouteRule("geoip-cn", "route", Tag("direct"))>>
     ELSE <<>>)

RouteFinal(r) == Tag(IF r.mode = "direct" THEN "direct" ELSE "proxy")

(* The rule sets are the cached files, or are downloaded by the core itself
   through an outbound of their own.                                        *)
RuleSets(r) == IF r.mode = "rule" THEN {"geosite-cn", "geoip-cn"} ELSE {}
DownloadOutbound(r, cached) ==
    IF r.mode = "rule" /\ ~cached
    THEN {[tag |-> Tag("rule-set-download"), kind |-> "direct", resolver |-> Tag("dns-local"),
           members |-> <<>>, default |-> Untagged]}
    ELSE {}
-----------------------------------------------------------------------------
(* The group choices on record replace the default of a selector that has
   such a member; the groups shown are read back from the result.           *)
ApplySelections(r, outs) ==
    {IF o.kind = "selector" /\ o.tag \in DOMAIN r.selections
          /\ r.selections[o.tag] \in ToSet(o.members)
     THEN [o EXCEPT !.default = r.selections[o.tag]] ELSE o : o \in outs}

ExtractGroups(outs) ==
    {[tag |-> o.tag, members |-> o.members,
      selected |-> IF o.default \in ToSet(o.members) THEN o.default ELSE o.members[1]] :
        o \in {p \in outs : p.kind = "selector" /\ p.members # <<>>}}

BuildConfig(r, cached) ==
    [outbounds |-> ApplySelections(r, Outbounds(r) \cup DownloadOutbound(r, cached)),
     servers |-> DnsServers(r), dnsRules |-> DnsRules(r), dnsFinal |-> DnsFinal(r),
     resolver |-> DefaultDomainResolver(r), routeRules |-> RouteRules(r),
     final |-> RouteFinal(r), ruleSets |-> RuleSets(r), excluded |-> EndpointRoutes(r)]

(* The first rule whose fact holds decides; sniff and resolve go on.         *)
Deciding(rules, facts) ==
    SelectInSeq(rules, LAMBDA x : x.action \in {"route", "hijack-dns"} /\ x.fact \in facts)
RouteOf(c, facts) ==
    LET i == Deciding(c.routeRules, facts)
    IN  IF i = 0 THEN c.final ELSE c.routeRules[i].to
Answering(rules, facts) == SelectInSeq(rules, LAMBDA x : x.fact \in facts)
AnswerOf(c, facts) ==
    LET i == Answering(c.dnsRules, facts)
    IN  IF i = 0 THEN DnsRule("any", c.dnsFinal, FALSE) ELSE c.dnsRules[i]
-----------------------------------------------------------------------------
(* A script may change only these keys of the configuration (paths of keys;
   a change below an allowed leaf is a change of the leaf), and none of the
   fields of the other core may appear.                                     *)
ScriptKeys == {<<"log", "level">>, <<"log", "disabled">>, <<"log", "timestamp">>,
               <<"route", "rules">>, <<"dns", "rules">>, <<"dns", "servers">>, <<"context">>}
ClashKeys == {<<"proxy-groups">>, <<"proxy-providers">>, <<"rule-providers">>, <<"rules">>,
              <<"dns", "fake-ip-filter">>, <<"dns", "nameserver-policy">>,
              <<"dns", "direct-nameserver">>}

(* `delta' holds the changed paths down to the first allowed leaf, with what
   the new value is there.                                                  *)
ScriptAccepted(s) ==
    /\ s.source \in 1 .. s.limits.source
    /\ s.input <= s.limits.config
    /\ ~s.throws /\ s.returns = "object" /\ s.output <= s.limits.config
    /\ ClashKeys \cap s.keys = {}
    /\ s.delta \subseteq ScriptKeys
-----------------------------------------------------------------------------
TagsOf(things) == {t.tag : t \in things}
IfTagged(tag) == {tag} \ {Untagged}

(* What has to answer before an outbound or a server is of use: a server, the
   outbound it is reached through; an outbound with a host name, its resolver
   or else the default one; a selector, any member.                         *)
Needs(c, x) ==
    IF x \in c.servers THEN IfTagged(x.resolver) \cup IfTagged(x.detour)
    ELSE IF x.kind = "selector" THEN ToSet(x.members)
    ELSE IF x.kind = "node" THEN {IF x.resolver = Untagged THEN c.resolver ELSE x.resolver}
    ELSE IfTagged(x.resolver)

\* Of things that need something, some one can always go first.
NothingNeedsItself(c) ==
    \A things \in SUBSET {x \in c.servers \cup c.outbounds : Needs(c, x) # {}} :
        things # {} => \E x \in things : Needs(c, x) \cap TagsOf(things) = {}

(* The core refuses a configuration with a tag nobody defines, and one whose
   name servers wait for each other never connects: every tag that is used is
   defined once, and no server or node is resolved through itself, so the
   host of a node is never asked of a server behind that node
   (singbox_config.rs:187, :260).  With the rule files cached: the outbound
   that downloads them names the resolver dns-local, which nothing defines.  *)
ConfigIsClosed(r) ==
    LET c == BuildConfig(r, TRUE)
        names == TagsOf(c.servers)
        exits == TagsOf(c.outbounds)
    IN  /\ \A s, t \in c.servers : s.tag = t.tag => s = t
        /\ \A o, p \in c.outbounds : o.tag = p.tag => o = p
        /\ {c.resolver, c.dnsFinal} \subseteq names /\ c.final \in exits
        /\ \A s \in c.servers :
              IfTagged(s.resolver) \subseteq names /\ IfTagged(s.detour) \subseteq exits
        /\ \A o \in c.outbounds :
              /\ IfTagged(o.resolver) \subseteq names /\ ToSet(o.members) \subseteq exits
              /\ o.members # <<>> => o.default \in ToSet(o.members)
        /\ \A x \in ToSet(c.dnsRules) : x.server \in names
        /\ \A x \in ToSet(c.routeRules) :
              x.to \in CASE x.action = "resolve" -> names [] x.action = "route" -> exits
                          [] OTHER -> {Untagged}
        /\ NothingNeedsItself(c)

(* The policy, told without rules: an overridden name leaves directly, the
   mode decides, and in rule mode private addresses, then the first rule of
   the user that is switched on, then the lists of China.                   *)
Matching(r, facts) ==
    {i \in DOMAIN r.rules : r.rules[i].on /\ r.rules[i].valid /\ r.rules[i].value \in facts}
Overridden(r, facts) == \E i \in DOMAIN r.overrides :
    r.overrides[i].on /\ r.overrides[i].suffix \in facts
PolicyRoute(r, facts) ==
    IF Overridden(r, facts) \/ r.mode = "direct" THEN "direct"
    ELSE IF r.mode = "global" THEN "proxy"
    ELSE IF "private" \in facts THEN "direct"
    ELSE IF Matching(r, facts) # {} THEN r.rules[Min(Matching(r, facts))].action
    ELSE IF facts \cap {"geosite-cn", "geoip-cn"} # {} THEN "direct" ELSE "proxy"

(* Routes follow the policy, and the name server follows the route
   (README.md:35: "Domains routed DIRECT (geosite-cn plus custom direct rules)
   are answered IPv4-only"): a name that leaves directly is answered by the
   direct server, IPv4 only; of the others only one that a list or a direct
   rule behind the deciding one names as well.  What is left to the proxy gets
   a fake address in TUN mode and is asked through the proxy otherwise.      *)
RouteFollowsPolicy(r, routed, names) ==
    LET c == BuildConfig(r, TRUE)
        Behind(facts) == \/ "geosite-cn" \in facts
                         \/ \E i \in Matching(r, facts) : r.rules[i].action = "direct"
    IN  /\ \A facts \in SUBSET routed :
              /\ RouteOf(c, facts) = Tag(PolicyRoute(r, facts))
              /\ RouteOf(c, facts \cup {"port 53"}) = Untagged
        /\ r.mode # "direct" =>
           \A facts \in SUBSET names : ~Overridden(r, facts) =>
              LET answer == AnswerOf(c, facts \cup {"address"})
                  to == PolicyRoute(r, facts)
              IN  /\ to = "direct" => answer.server = Tag("dns-direct") /\ answer.v4only
                  /\ to # "direct" /\ ~(r.mode = "rule" /\ Behind(facts)) =>
                        answer.server = Tag(IF r.tun THEN "dns-fakeip" ELSE "dns-proxy")
=============================================================================
