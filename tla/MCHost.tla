------------------------------- MODULE MCHost -------------------------------
(* The processes and files of the host, side by side for TLC: the engine, the
   elevated helpers seen from inside, the cached rule files, the profile file
   and the background start of the server.  They share no state, so one of
   them moves in a behaviour: `focus' is drawn at the start.                *)
EXTENDS SingBoxEngine, DesktopHelper, MacHelper, ProfileStore, RuleSetInstall, DaemonStart

VARIABLE focus

rsVars == vars
hostVars == <<focus, engineVars, dhVars, mhVars, psVars, rsVars, dsVars>>

HostInit ==
    /\ EngineInit /\ HelperInit /\ MacInit /\ StoreInit /\ Init /\ DaemonInit
    /\ focus \in {"engine", "desktop", "mac", "profile", "rules", "daemon"}
    /\ focus # "engine" => ~portBusy
    /\ focus # "desktop" => dhDirect
    /\ focus # "profile" => psOverwrites
    /\ focus # "daemon" => dsPort = NoListener
    /\ focus # "rules" => \A f \in Files : file[f] = Absent /\ backup[f] = Absent

HostNext ==
    /\ UNCHANGED focus
    /\ \/ focus = "engine" /\ EngineNext /\ UNCHANGED <<dhVars, mhVars, psVars, rsVars, dsVars>>
       \/ focus = "desktop" /\ HelperNext /\ UNCHANGED <<engineVars, mhVars, psVars, rsVars, dsVars>>
       \/ focus = "mac" /\ MacNext /\ UNCHANGED <<engineVars, dhVars, psVars, rsVars, dsVars>>
       \/ focus = "profile" /\ StoreNext /\ UNCHANGED <<engineVars, dhVars, mhVars, rsVars, dsVars>>
       \/ focus = "rules" /\ Next /\ UNCHANGED <<engineVars, dhVars, mhVars, psVars, dsVars>>
       \/ focus = "daemon" /\ DaemonNext /\ UNCHANGED <<engineVars, dhVars, mhVars, psVars, rsVars>>

\* HelperFairness, MacFairness and DaemonFairness, of their behaviours.
HostFairness ==
    /\ WF_dhVars(focus = "desktop" /\ Watchdog)
    /\ WF_dhVars(focus = "desktop" /\ (\/ ReadToken \/ ConnectLease \/ BindRpc \/ ServeNext
                                       \/ Dispatch \/ Reply \/ Cleanup))
    /\ WF_dhVars(focus = "desktop" /\ ChildExits) /\ WF_dhVars(focus = "desktop" /\ Call("exit"))
    /\ WF_dhVars(focus = "desktop" /\ (DropLease \/ ChildReaped \/ ChildKilled \/ CallFails))
    /\ WF_mhVars(focus = "mac" /\ MacWatchdog)
    /\ WF_mhVars(focus = "mac" /\ MacConnectLease)
    /\ WF_mhVars(focus = "mac" /\ MacBind)
    /\ \A s \in Starters : WF_dsVars(focus = "daemon" /\ ParentStep(s))

HostSpec == HostInit /\ [][HostNext]_hostVars /\ HostFairness

\* Every variable of the six keeps its type.
HostTypeOK ==
    /\ TypeOK /\ HelperTypeOK /\ MacTypeOK /\ StoreTypeOK /\ RuleSetTypeOK
    /\ DaemonTypeOK /\ PortHasOneOwner

\* What the last answer of a helper says of the core it holds still holds; a
\* core whose stop failed is in no helper's hands any more (lib.rs:153;
\* desktop_helper.rs, macos.rs: dispatch_helper_action and the serve loops).
AnswersAreCurrent == AnswerIsCurrent /\ MacAnswerIsCurrent

\* The state a crash leaves is one the next recovery can finish: a commit marker
\* means complete files, and a half-written transaction or marker is harmless
\* (rule_set_cache.rs:512, :521).
RecoveryIsSafe == CommitMeansComplete /\ HalfWrittenIsHarmless

\* A closed lease ends the elevated helper and its core, on every desktop, and
\* a shutdown of a lease that was accepted returns, or of a child that can be
\* killed, as does the parent of a daemon start
\* (desktop_helper.rs:260, :400, macos.rs:297, :973, cli.rs:279).
NothingLingers ==
    HelperFollowsLease /\ MacHelperFollowsLease /\ ShutdownReturns /\ DaemonStartsReturn
=============================================================================
