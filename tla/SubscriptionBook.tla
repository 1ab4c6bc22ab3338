-------------------------- MODULE SubscriptionBook --------------------------
(***************************************************************************)
(* The subscriptions, the selected node and the group selections a window  *)
(* shows, the requests it builds from them, and the flag that says the     *)
(* running core lags behind (ConfigPending): subscriptions.rs, the import  *)
(* dialog, the tray and the startup of proxy_app.rs, ProxyGroupMemberRow   *)
(* of nodes.rs and restart_core_from_ui, over the functions of             *)
(* ProfileModel.  One restart or call is in flight at a time: the banner   *)
(* that restarts beside another, and a page that takes its task with it    *)
(* when it is left, are in UiRuntime.                                      *)
(***************************************************************************)
EXTENDS ProfileModel

CONSTANTS
    RawNodes,         \* names of nodes a source may answer with
    Groups,           \* selector groups besides "proxy"
    MaxBookSteps,     \* bound on the user's actions
    MaxRestarts       \* bound on the restarts among them

ASSUME BookAssumption == "proxy" \notin Groups /\ MaxBookSteps \in Nat /\ MaxRestarts \in Nat

VARIABLES
    shown,      \* subscriptions, active, nodes, tag, selections, edits: the signals
    core,       \* connected and pending as shown, and what the core runs
    restart,    \* the restart or the call in flight, and what was shown before it
    refreshing, \* the refresh in flight: ids still to ask, and whether any applied
    crossed,    \* history: something changed what is shown while a restart or call was
                \* in flight, a switch began during a refresh, or an answer was lost
    bookBudget  \* steps and restarts left

bookVars == <<shown, core, restart, refreshing, crossed, bookBudget>>

Reports == {r \in [nodes : SeqOf(RawNodes, 2), resolvers : {"auto"}, rejected : {0}] :
                IsInjective(r.nodes)}
Nothing == [nodes |-> <<>>, tag |-> NoTag, selections |-> NoSelections, edits |-> 0]
NoRestart == [kind |-> "none"]
NoRefresh == [kind |-> "none", left |-> <<>>, applied |-> 0]

\* build_connection_request.
RequestOf(s) ==
    [nodes |-> s.nodes, tag |-> s.tag, selections |-> s.selections, edits |-> s.edits]

BookInit ==
    /\ shown = [subs |-> <<>>, active |-> NoId, nodes |-> <<>>, tag |-> NoTag,
                selections |-> NoSelections, edits |-> 0]
    /\ core = [connected |-> FALSE, pending |-> FALSE, runs |-> Nothing]
    /\ restart = NoRestart
    /\ refreshing = NoRefresh
    /\ crossed = FALSE
    /\ bookBudget = [steps |-> MaxBookSteps, restarts |-> MaxRestarts]

Restarting == restart # NoRestart
SpendStep == bookBudget.steps > 0 /\ bookBudget' = [bookBudget EXCEPT !.steps = @ - 1]

\* Shows s; a change while connected is flagged when the code flags it.
Show(s, flags) ==
    /\ shown' = s
    /\ core' = [core EXCEPT !.pending = @ \/ flags]
    /\ crossed' = (crossed \/ (Restarting /\ s # shown))

WithActive(s, id, wanted) ==
    LET nodes == CollectNodes(s.subs, id)
    IN [s EXCEPT !.active = id, !.nodes = nodes, !.tag = SelectAvailable(nodes, wanted)]

-----------------------------------------------------------------------------
(* The import dialog: its button is off while the core restarts, its       *)
(* answer may come at any time.                                            *)
Import ==
    /\ SpendStep
    /\ \E report \in Reports :
          LET id == NextSubscriptionId(shown.subs)
              sub == [id |-> id, source |-> "url", nodes |-> NamespaceNodes(id, report.nodes),
                      resolvers |-> report.resolvers, rejected |-> report.rejected]
              s == WithActive([shown EXCEPT !.subs = Append(@, sub)], id, NoTag)
          IN /\ report.nodes # <<>> /\ Len(shown.subs) < MaxSubscriptions
             /\ Show([s EXCEPT !.selections = SelectProxy(@, s.tag)], core.connected)
    /\ UNCHANGED <<restart, refreshing>>

Delete(id) ==
    /\ refreshing = NoRefresh /\ id \in Ids(shown.subs) /\ SpendStep
    /\ LET subs == Retain(shown.subs, {k \in DOMAIN shown.subs : shown.subs[k].id # id})
           pruned == [shown EXCEPT !.subs = subs,
                                   !.selections = PruneStale(@, LiveTags(subs))]
           first == IF subs = <<>> THEN NoId ELSE Head(subs).id
       IN Show(IF shown.active = id THEN WithActive(pruned, first, NoTag)
               ELSE WithActive(pruned, shown.active, shown.tag), core.connected)
    /\ UNCHANGED <<restart, refreshing>>

\* A row's own button, "refresh all", and the recovery of the sync page.
AskRefresh ==
    /\ refreshing = NoRefresh /\ shown.subs # <<>> /\ SpendStep
    /\ \/ refreshing' = [kind |-> "all", applied |-> 0,
                         left |-> [k \in DOMAIN shown.subs |-> shown.subs[k].id]]
       \/ \E id \in Ids(shown.subs) :
             refreshing' = [kind |-> "one", left |-> <<id>>, applied |-> 0]
    /\ UNCHANGED <<shown, core, restart, crossed>>

\* The answer for the next source: a report or a failure.
RefreshAnswer ==
    /\ refreshing.left # <<>>
    /\ LET id == Head(refreshing.left)
           left == Tail(refreshing.left)
       IN \/ /\ \E report \in Reports :
                   /\ ReportApplies(shown.subs, id, report)
                   /\ LET s == [shown EXCEPT !.subs = ApplyReport(@, id, report)]
                          kept == PruneStale(s.selections, LiveTags(s.subs))
                      IN IF refreshing.kind = "one" /\ shown.active = id
                         THEN Show([WithActive(s, id, s.tag) EXCEPT !.selections = kept],
                                   core.connected)
                         ELSE Show(s, FALSE)
             /\ refreshing' = IF refreshing.kind = "one" THEN NoRefresh
                              ELSE [refreshing EXCEPT !.left = left, !.applied = @ + 1]
          \/ /\ refreshing' = IF refreshing.kind = "one" THEN NoRefresh
                              ELSE [refreshing EXCEPT !.left = left]
             /\ UNCHANGED <<shown, core, crossed>>
    /\ UNCHANGED <<restart, bookBudget>>

\* The end of refresh_all_subscriptions.
RefreshAllEnds ==
    /\ refreshing.kind = "all" /\ refreshing.left = <<>>
    /\ LET id == ResolveActive(shown.subs, shown.active, shown.tag)
           s == WithActive(shown, id, shown.tag)
       IN Show([s EXCEPT !.selections = PruneStale(@, LiveTags(s.subs))],
               refreshing.applied > 0 /\ core.connected)
    /\ refreshing' = NoRefresh
    /\ UNCHANGED <<restart, bookBudget>>

-----------------------------------------------------------------------------
(* Actions that restart a connected core, and take back what they showed   *)
(* when the restart fails.                                                 *)
\* A restart; what was shown before can come back.
BeginRestart(kind, request, before) ==
    /\ bookBudget.restarts > 0
    /\ bookBudget' = [bookBudget EXCEPT !.restarts = @ - 1,
                                        !.steps = IF kind = "member" THEN @ ELSE @ - 1]
    /\ restart' = [kind |-> kind, request |-> request, before |-> before]

\* restart_core_from_ui and the power button.
Connect ==
    /\ shown.nodes # <<>>
    /\ ~Restarting /\ bookBudget.steps > 0
    /\ BeginRestart("connect", RequestOf(shown), shown)
    /\ UNCHANGED <<shown, core, refreshing, crossed>>

\* The "use" button of a row, which waits for a refresh, and the tray, which
\* does not: selections of the other subscription go.
Switch(id) ==
    /\ id \in Ids(shown.subs) \ {shown.active}
    /\ ~Restarting /\ bookBudget.steps > 0
    /\ LET s == WithActive(shown, id, NoTag)
           next == [s EXCEPT !.selections = SelectProxy(NoSelections, s.tag)]
       IN shown' = next /\
          IF core.connected THEN BeginRestart("switch", RequestOf(next), shown)
          ELSE SpendStep /\ UNCHANGED restart
    /\ crossed' = (crossed \/ (core.connected /\ refreshing # NoRefresh))
    /\ UNCHANGED <<core, refreshing>>

\* A member of a group, or a node of the tray.  Of a connected core the API is
\* asked: the selected node is shown at once, the selections with the answer.
Chosen(s, group, tag) ==
    [s EXCEPT !.selections = [g \in DOMAIN @ \cup {group} |->
                                 IF g = group THEN tag ELSE @[g]],
              !.tag = IF group = "proxy" THEN tag ELSE @]
SelectMember(group, tag) ==
    /\ tag \in Range(shown.nodes) /\ ~Restarting /\ SpendStep
    /\ IF core.connected
       THEN /\ shown' = [shown EXCEPT !.tag = IF group = "proxy" THEN tag ELSE @]
            /\ restart' = [kind |-> "call", group |-> group, tag |-> tag, told |-> FALSE,
                           before |-> shown]
       ELSE shown' = Chosen(shown, group, tag) /\ UNCHANGED restart
    /\ UNCHANGED <<core, refreshing, crossed>>

Calling == restart.kind = "call"
\* What a call was asked of, with its choice.
Wanted == Chosen(restart.before, restart.group, restart.tag)

\* The core selects, before the window hears of it.
CallReaches ==
    /\ Calling /\ ~restart.told
    /\ restart' = [restart EXCEPT !.told = TRUE]
    /\ core' = [core EXCEPT !.runs = Chosen(@, restart.group, restart.tag)]
    /\ UNCHANGED <<shown, refreshing, crossed, bookBudget>>

\* The selections read before the call are written.
CallAnswered ==
    /\ Calling /\ restart.told
    /\ shown' = [shown EXCEPT !.selections = Wanted.selections]
    /\ restart' = NoRestart
    /\ UNCHANGED <<core, refreshing, crossed, bookBudget>>

\* A failed call, or a lost answer: the core is restarted, with the nodes of
\* the click and what is shown by now.
CallFails ==
    /\ Calling
    /\ shown' = [shown EXCEPT !.selections = Wanted.selections]
    /\ BeginRestart("member", [RequestOf(shown') EXCEPT !.nodes = restart.before.nodes],
                    restart.before)
    /\ crossed' = (crossed \/ restart.told)
    /\ UNCHANGED <<core, refreshing>>

\* An accepted restart clears the flag: it was built from the local state.
Accepted ==
    core' = [connected |-> TRUE, pending |-> FALSE, runs |-> restart.request]

RestartWorks ==
    /\ Restarting /\ ~Calling /\ Accepted /\ restart' = NoRestart
    /\ UNCHANGED <<shown, refreshing, crossed, bookBudget>>

\* Regression: a failed switch forgets the selections it replaced.
PutBackNodes(s, before, kind) ==
    CASE kind = "switch" -> [s EXCEPT !.active = before.active, !.nodes = before.nodes,
                                      !.tag = before.tag]
      [] kind = "member" -> [s EXCEPT !.tag = before.tag, !.selections = before.selections]
      [] OTHER -> s

\* A refused restart leaves the old core or none, and the caller puts back
\* what it read before the call.
PutBack(s, before, kind) ==
    CASE kind = "switch" -> [s EXCEPT !.active = before.active, !.nodes = before.nodes,
                                      !.tag = before.tag, !.selections = before.selections]
      [] kind = "member" -> [s EXCEPT !.tag = before.tag, !.selections = before.selections]
      [] OTHER -> s

RestartFails ==
    /\ Restarting /\ ~Calling
    /\ shown' = PutBack(shown, restart.before, restart.kind)
    /\ \/ UNCHANGED core
       \/ core' = [core EXCEPT !.connected = FALSE]
    /\ restart' = NoRestart
    /\ UNCHANGED <<refreshing, crossed, bookBudget>>

Disconnect ==
    /\ core.connected /\ ~Restarting /\ SpendStep
    /\ core' = [core EXCEPT !.connected = FALSE]
    /\ UNCHANGED <<shown, restart, refreshing, crossed>>

\* notify_rule_change: a rule, a DNS override, the script, the mode.
EditRules ==
    /\ SpendStep
    /\ Show([shown EXCEPT !.edits = @ + 1], core.connected)
    /\ UNCHANGED <<restart, refreshing>>

\* apply_sync_snapshot: a pulled document, flagged whether connected or not.
Pull ==
    /\ SpendStep /\ refreshing = NoRefresh
    /\ \E report \in Reports :
          LET subs == IF report.nodes = <<>> THEN <<>>
                      ELSE <<[id |-> 1, source |-> "url",
                              nodes |-> NamespaceNodes(1, report.nodes),
                              resolvers |-> report.resolvers, rejected |-> report.rejected]>>
              s == WithActive([shown EXCEPT !.subs = subs], ResolveActive(subs, NoId, NoTag),
                              NoTag)
          IN Show([s EXCEPT !.selections = SelectProxy(NoSelections, s.tag)], TRUE)
    /\ UNCHANGED <<restart, refreshing>>

BookNext ==
    \/ Import \/ AskRefresh \/ RefreshAnswer \/ RefreshAllEnds
    \/ \E id \in Ids(shown.subs) : Delete(id) \/ Switch(id)
    \/ \E g \in Groups \cup {"proxy"}, tag \in Range(shown.nodes) : SelectMember(g, tag)
    \/ CallReaches \/ CallAnswered \/ CallFails
    \/ Connect \/ RestartWorks \/ RestartFails \/ Disconnect \/ EditRules \/ Pull

BookSpec == BookInit /\ [][BookNext]_bookVars

-----------------------------------------------------------------------------
BookTypeOK ==
    /\ Len(shown.subs) \in 0..MaxSubscriptions /\ shown.active \in Nat
    /\ {shown.tag} \cup Range(shown.nodes) \cup Range(shown.selections)
           \subseteq {NoTag} \cup (Nat \X RawNodes)
    /\ DOMAIN shown.selections \subseteq Groups \cup {"proxy"}
    /\ {core.connected, core.pending, crossed} \subseteq BOOLEAN
    /\ restart.kind \in {"none", "connect", "switch", "call", "member"}
    /\ refreshing.kind \in {"none", "one", "all"}
    /\ refreshing.applied + Len(refreshing.left) \in 0..MaxSubscriptions
    /\ bookBudget.steps \in 0..MaxBookSteps /\ bookBudget.restarts \in 0..MaxRestarts

\* What a window shows hangs together, unless a refresh is still on its way or
\* `crossed' holds: ids name one subscription each, the nodes are those of the
\* active one, and the selected node is one of them.  The selection of "proxy",
\* when there is one, is the selected node, but for the time of a call.
ShownIsConsistent ==
    ~crossed /\ refreshing = NoRefresh =>
        /\ \A j, k \in DOMAIN shown.subs :
              shown.subs[j].id = shown.subs[k].id => j = k
        /\ shown.active \in Ids(shown.subs) \cup {NoId}
        /\ shown.nodes = CollectNodes(shown.subs, shown.active)
        /\ shown.tag = SelectAvailable(shown.nodes, shown.tag)
        /\ ~Calling /\ "proxy" \in DOMAIN shown.selections =>
              shown.selections["proxy"] = shown.tag

\* runtime.rs, CoreStatusSignals: config_pending is "set while the running core
\* lags behind local edits".  A connected core without the flag runs what is
\* shown.  During a call it runs what was shown before, with the choice once
\* the call has reached it.  Of a core that restarts nothing is said;
\* selections of nodes that are not in the request count for nothing.
Effective(r) ==
    [r EXCEPT !.selections =
        Restrict(@, {g \in DOMAIN @ : @[g] \in ToSet(r.nodes)})]
Runs(s) == Effective(core.runs) = Effective(RequestOf(s))
DriftIsFlagged ==
    core.connected /\ ~core.pending =>
        /\ ~Restarting => Runs(shown)
        /\ Calling => Runs(IF restart.told THEN Wanted ELSE restart.before)
\* The same, of histories without what `crossed' stands for.
DriftIsFlaggedUncrossed == ~crossed => DriftIsFlagged
=============================================================================
