------------------------------- MODULE MCApp -------------------------------
(* The application's windows, side by side for TLC: the latency probe, the
   update card, the runtime controls, the subscriptions, the rules page and
   the sync card, and the documents they build.  They share no state, so one
   of them moves in a behaviour: `focus' is drawn at the start.             *)
EXTENDS DocumentChecks, LatencySession, UpdateCheck, UiRuntime, SubscriptionBook, RulesEditor,
        SyncSession

VARIABLES focus, document

appVars == <<focus, document, latVars, updVars, uiVars, bookVars, reVars, ssVars>>

MCCanon == [x \in {<<"domain", "a">>, <<"domain", "b">>, <<"process_name", "p">>} |-> x[2]]
MCShort == "long" :> "a"
MCDrafts == {[match |-> m[1], value |-> m[2], action |-> "direct"] :
                m \in DOMAIN MCCanon \cup {<<"domain", "bad">>}}

AppInit ==
    /\ LatencyInit /\ UpdateInit /\ UiInit /\ BookInit /\ EditorInit /\ SessionInit
    /\ focus \in {"latency", "update", "ui", "book", "rules", "sync", "document"}
    /\ document \in IF focus = "document" THEN RequestSample ELSE {PlainRequest}
    /\ focus # "update" => updOverwrites /\ updPublished = 0
    /\ focus # "ui" => srv.core = "off"

AppNext ==
    /\ UNCHANGED <<focus, document>>
    /\ \/ focus = "latency" /\ LatencyNext
          /\ UNCHANGED <<updVars, uiVars, bookVars, reVars, ssVars>>
       \/ focus = "update" /\ UpdateNext
          /\ UNCHANGED <<latVars, uiVars, bookVars, reVars, ssVars>>
       \/ focus = "ui" /\ UiNext
          /\ UNCHANGED <<latVars, updVars, bookVars, reVars, ssVars>>
       \/ focus = "book" /\ BookNext
          /\ UNCHANGED <<latVars, updVars, uiVars, reVars, ssVars>>
       \/ focus = "rules" /\ EditorNext
          /\ UNCHANGED <<latVars, updVars, uiVars, bookVars, ssVars>>
       \/ focus = "sync" /\ SessionNext
          /\ UNCHANGED <<latVars, updVars, uiVars, bookVars, reVars>>

\* UiFairness and LatencyFairness, of the behaviours they are about.
AppFairness ==
    /\ \A c \in Controls : WF_uiVars(focus = "ui" /\ TaskStep(c))
    /\ WF_uiVars(focus = "ui" /\ (BeatReads \/ BeatFails)) /\ WF_uiVars(focus = "ui" /\ BeatShows)
    /\ \A w \in Windows : WF_latVars(focus = "latency" /\ LoopStep(w))

AppSpec == AppInit /\ [][AppNext]_appVars /\ AppFairness

\* Every variable of the six keeps its type.
AppTypeOK == LatencyTypeOK /\ UpdateTypeOK /\ UiTypeOK /\ SessionTypeOK /\ EditorTypeOK /\ BookTypeOK

\* A latency loop accounts for every result: none is lost while its session is
\* registered, unless the answer of a poll was, the closing count is final, and
\* it includes what was pushed too late for the last poll (latency.rs:336, :409).
ResultsAreAccounted == NothingLostWhileRegistered /\ CountIsFinal /\ MissedIsCounted

\* The server keeps the settings it confirmed, where a rename overwrites, and
\* asks GitHub by itself only while the stored switch is on and the interval,
\* counted to the moment the check began, is over (update.rs:238, :307).
UpdateStateIsObeyed == AckedSettingsKept /\ AutoFetchIsAllowed

\* Every busy flag is released and the shown connection follows the core
\* (runtime.rs, proxy_app.rs:433; nodes.rs:207); only the flag of a probe whose
\* page was left stays (nodes.rs:187, proxy_app.rs:127).
AppSettles == BusyEnds /\ UiConverges /\ UiConvergesDown /\ LoopsEnd

\* What a window shows of its subscriptions hangs together, and a core that
\* lags behind it is flagged, but for what `crossed' names: a change during a
\* restart or a call of the core, a switch during a refresh, a call whose answer
\* was lost (subscriptions.rs:504, nodes.rs:622).
ShownIsCurrent == ShownIsConsistent /\ DriftIsFlaggedUncrossed

ConfigsAreClosed == focus = "document" => ConfigIsClosed(document)
RoutesFollowPolicy == focus = "document" => RouteFollowsPolicy(document, RoutedFacts, NameFacts)
=============================================================================
