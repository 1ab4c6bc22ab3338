------------------------- MODULE SubscriptionParser -------------------------
(***************************************************************************)
(* parser.rs of proxy-core: from the text of a subscription to nodes and   *)
(* rejected entries.  Text is abstracted to what the parser branches on.   *)
(* A slug is a sequence of atoms joined by '-': "hk-2" is <<"hk", 2>>.     *)
(***************************************************************************)
EXTENDS Integers, Sequences, FiniteSets, SequencesExt

CONSTANTS MaxYamlLines, MaxYamlDepth, MaxYamlMarks   \* budgets of one document

ASSUME YamlBudgetAssumption ==
    MaxYamlLines \in Nat /\ MaxYamlDepth \in Nat /\ MaxYamlMarks \in Nat

NoName == <<"(none)">>
Refused == [tag |-> <<>>, protocol |-> "(refused)", tls |-> FALSE, auth |-> "none"]

-----------------------------------------------------------------------------
(* Names.                                                                  *)
\* make_tag: the position is the last atom of every tag.
MakeTag(slug, index) ==
    IF slug = <<>> THEN <<"node", index + 1>> ELSE Append(slug, index + 1)

\* uniquify_tags counts under the tag before the renaming.
Uniquify(tags) ==
    [k \in DOMAIN tags |->
        LET before == Cardinality({j \in DOMAIN tags : j < k /\ tags[j] = tags[k]})
        IN IF before = 0 THEN tags[k] ELSE Append(tags[k], before + 1)]

UniqueNodes(nodes) ==
    LET tags == Uniquify([k \in DOMAIN nodes |-> nodes[k].tag])
    IN [k \in DOMAIN nodes |-> [nodes[k] EXCEPT !.tag = tags[k]]]

NameOr(name, protocol, index) == IF name = NoName THEN <<protocol, index + 1>> ELSE name

Node(protocol, name, index, tls, auth) ==
    [tag |-> MakeTag(NameOr(name, protocol, index), index), protocol |-> protocol,
     tls |-> tls, auth |-> auth]

-----------------------------------------------------------------------------
(* One share link: its scheme, whether it parses, the parts it has.        *)
Standard ==
    [anytls |-> "anytls", hysteria2 |-> "hysteria2", hy2 |-> "hysteria2",
     vless |-> "vless", trojan |-> "trojan"]
Plain == [http |-> "http", https |-> "http", socks |-> "socks5", socks5 |-> "socks5"]
Schemes == DOMAIN Standard \cup DOMAIN Plain \cup {"vmess", "ss"}

AlwaysTls == {"anytls", "hysteria2"}

\* The password when the link has one, otherwise the user name.
Secret(link) == link.pass = "given" \/ (link.pass = "none" /\ link.user)

ParseStandardUrl(link, index) ==
    LET protocol == Standard[link.scheme]
        secret == IF protocol = "vless" THEN link.user ELSE Secret(link)
    IN IF link.parses /\ link.host /\ link.port /\ secret
       THEN Node(protocol, link.name, index, protocol \in AlwaysTls \/ link.security,
                 IF protocol = "vless" THEN "uuid" ELSE "password")
       ELSE Refused

\* The port has a default here.
ParseProxyUrl(link, index) ==
    IF link.parses /\ link.host
    THEN Node(Plain[link.scheme], link.name, index, link.scheme = "https",
              IF link.user \/ link.pass # "none" THEN "user" ELSE "none")
    ELSE Refused

ParseVmess(link, index) ==
    IF link.parses /\ link.host /\ link.port /\ link.user
    THEN Node("vmess", link.name, index, link.security, "uuid")
    ELSE Refused

ParseShadowsocks(link, index) ==
    IF link.parses /\ link.host /\ link.port /\ link.user /\ link.pass # "none"
    THEN Node("shadowsocks", link.name, index, FALSE, "method")
    ELSE Refused

ParseShareLink(link, index) ==
    CASE link.scheme \in DOMAIN Standard -> ParseStandardUrl(link, index)
      [] link.scheme \in DOMAIN Plain -> ParseProxyUrl(link, index)
      [] link.scheme = "vmess" -> ParseVmess(link, index)
      [] link.scheme = "ss" -> ParseShadowsocks(link, index)
      [] OTHER -> Refused

\* An http(s) address is a proxy, not a subscription to download, when it has
\* no path and a name, a user, or a port without a query.
IsHttpProxyShareLink(link) ==
    /\ link.parses /\ link.scheme \in {"http", "https"} /\ link.bare
    /\ \/ link.name # NoName \/ link.user \/ link.pass # "none"
       \/ link.port /\ ~link.query

-----------------------------------------------------------------------------
(* A list of links.                                                        *)
NothingParsed == [nodes |-> <<>>, rejected |-> <<>>]
Failure == [nodes |-> <<>>, rejected |-> <<0>>]

\* A line is blank, a comment, other text, or a link.
TakeLine(report, line, number) ==
    IF line.kind # "link" THEN report
    ELSE LET node == ParseShareLink(line.link, Len(report.nodes))
         IN IF node = Refused
            THEN [report EXCEPT !.rejected = Append(@, number)]
            ELSE [report EXCEPT !.nodes = Append(@, node)]

ParseUriLines(lines) ==
    LET report == FoldLeft(LAMBDA r, k : TakeLine(r, lines[k], k), NothingParsed,
                           [k \in DOMAIN lines |-> k])
    IN IF report = NothingParsed THEN Failure
       ELSE [report EXCEPT !.nodes = UniqueNodes(@)]

-----------------------------------------------------------------------------
(* A Clash document: its raw lines for the two guards, its entries.        *)
\* yaml_input_budget: the lines inside a block scalar are plain text.
BudgetStep(acc, line) ==
    LET inside == acc.block >= 0 /\ (line.blank \/ line.indent > acc.block)
    IN IF inside THEN acc
       ELSE [block |-> IF line.opens THEN line.indent ELSE -1,
             marks |-> acc.marks + Cardinality(line.anchors) + Cardinality(line.aliases),
             ok |-> acc.ok /\ ~line.tagged /\ line.indent <= MaxYamlDepth]

WithinBudget(raw) ==
    LET end == FoldLeft(BudgetStep, [block |-> -1, marks |-> 0, ok |-> TRUE], raw)
    IN Len(raw) <= MaxYamlLines /\ end.ok /\ end.marks <= MaxYamlMarks

\* yaml_expansion_bomb: an anchor that some alias names, anywhere.
ExpansionBomb(raw) ==
    \E i, j \in DOMAIN raw : raw[i].anchors \cap raw[j].aliases # {}

ClashProtocol ==
    [anytls |-> "anytls", hysteria2 |-> "hysteria2", hy2 |-> "hysteria2",
     vmess |-> "vmess", vless |-> "vless", trojan |-> "trojan", ss |-> "shadowsocks",
     shadowsocks |-> "shadowsocks", http |-> "http", https |-> "http",
     socks |-> "socks5", socks5 |-> "socks5"]

ClashAuth(protocol, entry) ==
    CASE protocol \in {"vmess", "vless"} -> IF "uuid" \in entry.keys THEN "uuid" ELSE "missing"
      [] protocol \in {"anytls", "trojan", "hysteria2"} ->
            IF {"password", "auth"} \cap entry.keys # {} THEN "password" ELSE "missing"
      [] protocol = "shadowsocks" ->
            IF {"cipher", "password"} \subseteq entry.keys THEN "method" ELSE "missing"
      [] OTHER -> IF {"username", "password"} \cap entry.keys # {} THEN "user" ELSE "none"

ClashNode(entry, index) ==
    IF entry.type \notin DOMAIN ClashProtocol THEN Refused
    ELSE LET protocol == ClashProtocol[entry.type]
             auth == ClashAuth(protocol, entry)
         IN IF auth # "missing" /\ {"server", "port"} \subseteq entry.keys
            THEN Node(protocol, entry.name, index,
                      protocol \in AlwaysTls \/ entry.type = "https" \/ "tls" \in entry.keys,
                      auth)
            ELSE Refused

ParseClashYaml(document) ==
    IF ~WithinBudget(document.raw) \/ ExpansionBomb(document.raw) \/ ~document.parses
    THEN Failure
    ELSE LET parsed == [k \in DOMAIN document.entries |->
                            ClashNode(document.entries[k], k - 1)]
             where == [k \in DOMAIN parsed |-> k]
         IN [nodes |-> UniqueNodes(SelectSeq(parsed, LAMBDA n : n # Refused)),
             rejected |-> SelectSeq(where, LAMBDA k : parsed[k] = Refused)]

\* parse_subscription: a Clash document by its "proxies:" line, then links as
\* they are, then links in Base64, then the text itself.
HasShareLink(lines) ==
    \E k \in DOMAIN lines : lines[k].kind = "link" /\ lines[k].link.scheme \in Schemes

ParseSubscription(text) ==
    CASE text.format = "empty" -> Failure
      [] text.format = "clash" -> ParseClashYaml(text)
      [] text.format = "base64" /\ ~HasShareLink(text.lines) -> ParseUriLines(text.decoded)
      [] OTHER -> ParseUriLines(text.lines)
=============================================================================
