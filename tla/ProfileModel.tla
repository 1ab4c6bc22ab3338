---------------------------- MODULE ProfileModel ----------------------------
(***************************************************************************)
(* The profile and the pure functions on it: model.rs of proxy-core, the   *)
(* limits of lib.rs of api, domain.rs and the rule list of rules.rs of ui. *)
(* A profile is                                                            *)
(*   [subs, active, tag, selections, rules, dns, script, device]           *)
(* where a subscription is [id, source, nodes, resolvers, rejected], nodes *)
(* are tags <<id, raw>> (a tag another tool wrote has id 0), selections    *)
(* maps a group to a tag, a rule is [id, on, match, value, action] and     *)
(* device stands for everything that never leaves this machine.            *)
(***************************************************************************)
EXTENDS Lists, Integers, Sequences, FiniteSets, SequencesExt, FiniteSetsExt

CONSTANTS
    Canonical,            \* <<match, text>> to the text it normalises to, if valid
    Shortened,            \* a text over its limit to its beginning
    MaxCustomRules,       \* MAX_CUSTOM_RULES
    MaxSubscriptions,     \* MAX_PROFILE_SUBSCRIPTIONS
    MaxNodes,             \* MAX_TOTAL_NODES
    MaxNodesPerSubscription,
    MaxSelections         \* MAX_GROUP_SELECTIONS

NoTag == <<0, "">>
NoId == 0
NoSection == {}
NoSelections == [g \in {} |-> NoTag]

ProcessMatches == {"process_name", "process_path"}

ASSUME ProfileAssumption == MaxCustomRules \in Nat /\ MaxSubscriptions \in Nat \ {0}
-----------------------------------------------------------------------------
(* Subscriptions.                                                          *)
Ids(subs) == {subs[k].id : k \in DOMAIN subs}
NextSubscriptionId(subs) == Max({0} \cup Ids(subs)) + 1
NamespaceNodes(id, raws) == [k \in DOMAIN raws |-> <<id, raws[k]>>]
LiveTags(subs) == UNION {Range(subs[k].nodes) : k \in DOMAIN subs}
\* A tag of the form "subscription-N-...".
Namespaced(tag) == tag[1] # 0

\* retain on the map of group selections.
KeepSelections(selections, keep) ==
    [g \in {h \in DOMAIN selections : selections[h] \in keep} |-> selections[g]]
PruneStale(selections, live) ==
    KeepSelections(selections, {tag \in Range(selections) : ~Namespaced(tag) \/ tag \in live})
SelectProxy(selections, tag) ==
    IF tag = NoTag
    THEN [g \in DOMAIN selections \ {"proxy"} |-> selections[g]]
    ELSE [g \in DOMAIN selections \cup {"proxy"} |->
             IF g = "proxy" THEN tag ELSE selections[g]]

\* A report without nodes, or for a subscription that is gone, changes nothing.
ReportApplies(subs, id, report) == report.nodes # <<>> /\ id \in Ids(subs)
ApplyReport(subs, id, report) ==
    [k \in DOMAIN subs |->
        IF subs[k].id = id
        THEN [subs[k] EXCEPT !.nodes = NamespaceNodes(id, report.nodes),
                             !.resolvers = report.resolvers,
                             !.rejected = report.rejected]
        ELSE subs[k]]

FirstOf(subs, places) == IF places = {} THEN NoId ELSE subs[Min(places)].id
ResolveActive(subs, requested, tag) ==
    LET holder == FirstOf(subs, {k \in DOMAIN subs : tag \in Range(subs[k].nodes)})
    IN IF requested \in Ids(subs) THEN requested
       ELSE IF holder # NoId THEN holder
       ELSE FirstOf(subs, DOMAIN subs)
CollectNodes(subs, id) ==
    IF id \in Ids(subs)
    THEN subs[CHOOSE k \in DOMAIN subs : subs[k].id = id].nodes
    ELSE <<>>
SelectAvailable(nodes, tag) ==
    IF tag \in Range(nodes) THEN tag
    ELSE IF nodes = <<>> THEN NoTag ELSE Head(nodes)

-----------------------------------------------------------------------------
(* Custom rules.                                                           *)
Normalizes(match, text) == <<match, text>> \in DOMAIN Canonical
Key(rule) == <<rule.match, Canonical[<<rule.match, rule.value>>]>>

RulesAreValid(rules) ==
    /\ Len(rules) <= MaxCustomRules
    /\ \A k \in DOMAIN rules : rules[k].id # 0 /\ Normalizes(rules[k].match, rules[k].value)
    /\ \A j, k \in DOMAIN rules :
          j # k => rules[j].id # rules[k].id /\ Key(rules[j]) # Key(rules[k])

RuleIds(rules) == {rules[k].id : k \in DOMAIN rules}
NextRuleId(rules) == Min((1..(Len(rules) + 1)) \ RuleIds(rules))

\* save_custom_rule: a list that would not be valid is not stored.
Edited(rules, editing, draft) ==
    LET id == IF editing = NoId THEN NextRuleId(rules) ELSE editing
        on == IF id \in RuleIds(rules)
              THEN (CHOOSE r \in Range(rules) : r.id = id).on ELSE TRUE
        rule == [id |-> id, on |-> on, match |-> draft.match,
                 value |-> Canonical[<<draft.match, draft.value>>], action |-> draft.action]
    IN IF id \in RuleIds(rules)
       THEN [k \in DOMAIN rules |-> IF rules[k].id = id THEN rule ELSE rules[k]]
       ELSE Append(rules, rule)
CanSave(rules, editing, draft) ==
    /\ editing = NoId => Len(rules) < MaxCustomRules
    /\ editing # NoId => editing \in RuleIds(rules)
    /\ Normalizes(draft.match, draft.value)
    /\ RulesAreValid(Edited(rules, editing, draft))

\* Phones hide the rules about processes, and move the others around them.
Visible(rule, processes) == processes \/ rule.match \notin ProcessMatches
VisibleAt(rules, processes) ==
    InOrder({k \in DOMAIN rules : Visible(rules[k], processes)})
MoveRule(rules, id, offset, processes) ==
    LET at == VisibleAt(rules, processes)
        hits == {v \in DOMAIN at : rules[at[v]].id = id}
        here == Min(hits)
    IN IF hits = {} \/ here + offset \notin DOMAIN at THEN rules
       ELSE [rules EXCEPT ![at[here]] = rules[at[here + offset]],
                          ![at[here + offset]] = rules[at[here]]]

\* connection_custom_rules: a script in force replaces the rules.
ConnectionRules(profile, processes) ==
    IF profile.script.on /\ profile.script.text # "" THEN <<>>
    ELSE SelectSeq(profile.rules, LAMBDA r : Visible(r, processes))

-----------------------------------------------------------------------------
(* Limits, migration and the part that travels.                            *)
WithinLimits(profile) ==
    /\ Len(profile.subs) <= MaxSubscriptions
    /\ \A k \in DOMAIN profile.subs : Len(profile.subs[k].nodes) <= MaxNodesPerSubscription
    /\ FoldLeft(LAMBDA n, s : n + Len(s.nodes), 0, profile.subs) <= MaxNodes
    /\ Len(profile.rules) <= MaxCustomRules
    /\ Cardinality(DOMAIN profile.selections) <= MaxSelections

\* truncate_utf8.
Truncated(text) == IF text \in DOMAIN Shortened THEN Shortened[text] ELSE text

WithoutBlanks(subs) ==
    LET kept == SelectSeq(subs, LAMBDA s : s.source # "")
    IN [k \in DOMAIN kept |->
           [kept[k] EXCEPT !.nodes = SelectSeq(@, LAMBDA tag : tag # NoTag)]]

MigrateProfile(profile) ==
    LET subs == WithoutBlanks(profile.subs)
        rules == SubSeq(profile.rules, 1, Min({MaxCustomRules, Len(profile.rules)}))
    IN [profile EXCEPT
           !.subs = subs,
           !.rules = [k \in DOMAIN rules |->
                         [rules[k] EXCEPT !.value = Truncated(@)]],
           !.script.text = Truncated(@),
           !.selections = PruneStale(@, LiveTags(subs))]

\* from_profile, build_sync_snapshot.  A document of an older build has no
\* section for DNS or for the script.
Section(content) == {content}
SectionOr(section, old) == IF section = NoSection THEN old ELSE CHOOSE s \in section : TRUE
SnapshotOf(profile) ==
    [subs |-> profile.subs, rules |-> profile.rules, dns |-> Section(profile.dns),
     script |-> Section(profile.script)]

\* apply_to_profile: what the server writes to the disk.
ApplySnapshot(snapshot, profile) ==
    [profile EXCEPT
        !.subs = snapshot.subs, !.active = NoId, !.tag = NoTag, !.rules = snapshot.rules,
        !.dns = SectionOr(snapshot.dns, @), !.script = SectionOr(snapshot.script, @),
        !.selections = NoSelections]

\* apply_sync_snapshot: what the window shows.
ShowSnapshot(snapshot, profile) ==
    LET active == ResolveActive(snapshot.subs, NoId, NoTag)
        tag == SelectAvailable(CollectNodes(snapshot.subs, active), NoTag)
    IN [ApplySnapshot(snapshot, profile) EXCEPT
           !.active = active, !.tag = tag, !.selections = SelectProxy(NoSelections, tag)]
=============================================================================
