------------------------------ MODULE MacHelper ------------------------------
(* The elevated TUN helper of macOS (singbox/src/macos.rs).  The application
   binds a lease socket, runs the helper through osascript and talks to it over
   the helper's own socket; the helper publishes a DNS resolver that points
   into the tunnel, and its watchdog ends the process when the lease closes.  *)
EXTENDS Integers, Sequences, FiniteSets

CONSTANTS
    MaxMacCalls,    \* bound: requests the owner makes
    MaxMacMishaps   \* bound: timeouts, crashes and failing system calls together

ASSUME MacAssumption == {MaxMacCalls, MaxMacMishaps} \subseteq Nat

VARIABLES
    mhOwner,    \* the owner: its step, the request it waits for and its last answer
    mhChild,    \* whether osascript still runs
    mhLease,    \* "none", "offered", "held" or "closed"
    mhSocket,   \* whether the helper's socket is in the file system
    mhHelper,   \* the helper: its step, the request at hand and whether a stop failed
    mhBacklog,  \* connections that wait to be accepted
    mhCore,     \* whether the state holds a core, and with it the tunnel's route
    mhDns,      \* whether the session-owned resolver is published
    mhMishaps

mhVars == <<mhOwner, mhChild, mhLease, mhSocket, mhHelper, mhBacklog, mhCore, mhDns, mhMishaps>>

MacActions == {"ping", "start", "stop", "query", "exit"}
NoMacRequest == [id |-> 0, action |-> "ping"]

MacInit ==
    /\ mhOwner = [pc |-> "launching", calls |-> 0, asked |-> NoMacRequest,
                  last |-> [action |-> "ping", ok |-> FALSE]]
    /\ mhChild = TRUE /\ mhLease = "none" /\ mhSocket = FALSE
    /\ mhHelper = [pc |-> "prompt", request |-> NoMacRequest, ok |-> FALSE, lost |-> FALSE]
    /\ mhBacklog = <<>> /\ mhCore = FALSE /\ mhDns = FALSE /\ mhMishaps = 0

MacMishap == mhMishaps < MaxMacMishaps /\ mhMishaps' = mhMishaps + 1
MacFine == UNCHANGED mhMishaps
MacWaiting == mhOwner.asked # NoMacRequest
MacGone == mhHelper.pc = "gone"
MacServing == mhHelper.pc \notin {"prompt", "connect", "bind", "gone"}

\* launch keeps its listener, and what waits in it, until shutdown is over.
MacListening == mhOwner.pc \in {"launching", "closing", "reaping"}
MacCloseLease == IF mhLease = "none" THEN "none" ELSE "closed"
-----------------------------------------------------------------------------
(* The lease is accepted from a root process, whose pid the owner keeps.    *)
MacAcceptLease ==
    /\ mhOwner.pc = "launching" /\ mhLease = "offered" /\ mhLease' = "held"
    /\ UNCHANGED <<mhOwner, mhChild, mhSocket, mhHelper, mhBacklog, mhCore, mhDns, mhMishaps>>

MacLaunchFails ==
    /\ mhOwner.pc = "launching" /\ ~MacWaiting
    /\ mhOwner' = [mhOwner EXCEPT !.pc = "closing"]
    /\ UNCHANGED <<mhChild, mhLease, mhSocket, mhHelper, mhBacklog, mhCore, mhDns, mhMishaps>>

(* A request needs the pid of the lease and a helper behind the socket.     *)
MacCall(action) ==
    /\ mhLease = "held" /\ ~MacWaiting /\ mhOwner.calls < MaxMacCalls
    /\ \/ mhOwner.pc = "launching" /\ action = "ping"
       \/ mhOwner.pc = "ready" /\ action \in {"start", "stop", "query"}
       \/ mhOwner.pc = "closing" /\ action = "exit" /\ mhOwner.last.action # "exit"
    /\ LET request == [id |-> mhOwner.calls + 1, action |-> action] IN
       IF MacServing /\ mhSocket
       THEN /\ mhBacklog' = Append(mhBacklog, request)
            /\ mhOwner' = [mhOwner EXCEPT !.calls = @ + 1, !.asked = request]
       ELSE /\ mhOwner' = [mhOwner EXCEPT !.calls = @ + 1, !.last = [action |-> action, ok |-> FALSE]]
            /\ UNCHANGED mhBacklog
    /\ UNCHANGED <<mhChild, mhLease, mhSocket, mhHelper, mhCore, mhDns, mhMishaps>>

MacAnswered(ok) ==
    mhOwner' = [mhOwner EXCEPT
        !.last = [action |-> mhOwner.asked.action, ok |-> ok], !.asked = NoMacRequest,
        !.pc = IF @ = "launching" /\ ok THEN "ready" ELSE @]

MacCallFails ==
    /\ MacWaiting /\ MacAnswered(FALSE)
    /\ (MacGone /\ MacFine) \/ MacMishap
    /\ UNCHANGED <<mhChild, mhLease, mhSocket, mhHelper, mhBacklog, mhCore, mhDns>>

MacShutdown ==
    /\ mhOwner.pc = "ready" /\ ~MacWaiting
    /\ mhOwner' = [mhOwner EXCEPT !.pc = "closing"]
    /\ UNCHANGED <<mhChild, mhLease, mhSocket, mhHelper, mhBacklog, mhCore, mhDns, mhMishaps>>

(* Dropping the lease makes the watchdog end the helper, even one that is
   stuck in the core.  A lease that was never accepted stays open.          *)
MacDropLease ==
    /\ mhOwner.pc = "closing" /\ ~MacWaiting
    /\ mhLease = "held" => mhOwner.last.action = "exit" \/ mhOwner.calls = MaxMacCalls
    /\ mhLease' = IF mhLease = "held" THEN "closed" ELSE mhLease
    /\ mhOwner' = [mhOwner EXCEPT !.pc = "reaping"]
    /\ UNCHANGED <<mhChild, mhSocket, mhHelper, mhBacklog, mhCore, mhDns, mhMishaps>>

(* osascript has ended, or is killed after five seconds; both sockets are
   removed, and the listener goes with launch.                              *)
MacReaped ==
    /\ mhOwner.pc = "reaping"
    /\ mhOwner' = [mhOwner EXCEPT !.pc = "done"] /\ mhLease' = MacCloseLease
    /\ mhChild' = FALSE /\ mhSocket' = FALSE
    /\ mhHelper' = IF mhHelper.pc = "prompt" THEN [mhHelper EXCEPT !.pc = "gone"] ELSE mhHelper
    /\ UNCHANGED <<mhBacklog, mhCore, mhDns, mhMishaps>>

MacOwnerDies ==
    /\ MacMishap /\ mhOwner.pc \notin {"done", "dead"}
    /\ mhOwner' = [mhOwner EXCEPT !.pc = "dead", !.asked = NoMacRequest]
    /\ mhLease' = MacCloseLease
    /\ UNCHANGED <<mhChild, mhSocket, mhHelper, mhBacklog, mhCore, mhDns>>
-----------------------------------------------------------------------------
MacMoves(pc) == mhHelper' = [mhHelper EXCEPT !.pc = pc]

MacAuthorized ==
    /\ mhHelper.pc = "prompt" /\ mhChild
    /\ MacMoves("connect") \/ MacMoves("gone")
    /\ UNCHANGED <<mhOwner, mhChild, mhLease, mhSocket, mhBacklog, mhCore, mhDns, mhMishaps>>

MacConnectLease ==
    /\ mhHelper.pc = "connect"
    /\ IF MacListening THEN MacMoves("bind") /\ mhLease' = "offered"
       ELSE MacMoves("gone") /\ UNCHANGED mhLease
    /\ UNCHANGED <<mhOwner, mhChild, mhSocket, mhBacklog, mhCore, mhDns, mhMishaps>>

(* The socket is bound and handed to the user; then the watchdog runs.      *)
MacBind ==
    /\ mhHelper.pc = "bind" /\ MacMoves("serving") /\ mhSocket' = TRUE
    /\ UNCHANGED <<mhOwner, mhChild, mhLease, mhBacklog, mhCore, mhDns, mhMishaps>>

(* The process is over: its descriptors and session keys go with it.        *)
MacEnds == MacMoves("gone") /\ mhCore' = FALSE /\ mhDns' = FALSE

\* Regression: the watchdog waits for the request at hand.
MacWatchdogWaits ==
    /\ mhLease = "closed" /\ mhHelper.pc = "serving"
    /\ MacEnds /\ mhSocket' = FALSE
    /\ UNCHANGED <<mhOwner, mhChild, mhLease, mhBacklog, mhMishaps>>

MacWatchdog ==
    /\ mhLease = "closed" /\ MacServing
    /\ MacEnds /\ mhSocket' = FALSE
    /\ UNCHANGED <<mhOwner, mhChild, mhLease, mhBacklog, mhMishaps>>

MacServeNext ==
    /\ mhHelper.pc = "serving" /\ mhBacklog # <<>>
    /\ mhHelper' = [mhHelper EXCEPT !.pc = "working", !.request = Head(mhBacklog), !.ok = TRUE]
    /\ mhBacklog' = Tail(mhBacklog)
    /\ UNCHANGED <<mhOwner, mhChild, mhLease, mhSocket, mhCore, mhDns, mhMishaps>>

MacReplying(ok) == mhHelper' = [mhHelper EXCEPT !.pc = "replying", !.ok = ok]

(* start: a configuration that is refused or a core that fails ends it; the
   resolver is published after the core runs, or the core is stopped again. *)
MacStartCore ==
    /\ mhHelper.pc = "working" /\ mhHelper.request.action = "start"
    /\ \/ MacReplying(FALSE) /\ UNCHANGED mhCore
       \/ ~mhCore /\ MacMoves("publish") /\ mhCore' = TRUE
    /\ UNCHANGED <<mhOwner, mhChild, mhLease, mhSocket, mhBacklog, mhDns, mhMishaps>>

MacPublishDns ==
    /\ mhHelper.pc = "publish"
    /\ \/ MacReplying(TRUE) /\ mhDns' = TRUE /\ MacFine
       \/ MacMoves("rollback") /\ MacMishap /\ UNCHANGED mhDns
    /\ UNCHANGED <<mhOwner, mhChild, mhLease, mhSocket, mhBacklog, mhCore>>

(* EmbeddedCore::stop lets the handle go even when the stop fails: the core
   may run on, and nothing in the helper reaches it any more.               *)
MacLoses(ok) ==
    mhHelper' = [mhHelper EXCEPT !.pc = "replying", !.ok = ok, !.lost = TRUE]

MacRollback ==
    /\ mhHelper.pc = "rollback" /\ mhCore' = FALSE
    /\ (MacReplying(FALSE) /\ MacFine) \/ (MacLoses(FALSE) /\ MacMishap)
    /\ UNCHANGED <<mhOwner, mhChild, mhLease, mhSocket, mhBacklog, mhDns>>

\* Regression: the core stops first, and the resolver with its answer.
MacWithdrawDnsLate ==
    /\ mhHelper.pc = "working" /\ mhHelper.request.action \in {"stop", "exit"}
    /\ mhDns' = (mhDns /\ mhCore)
    /\ IF mhCore THEN MacMoves("stopping") ELSE MacReplying(TRUE)
    /\ UNCHANGED <<mhOwner, mhChild, mhLease, mhSocket, mhBacklog, mhCore, mhMishaps>>

(* stop and exit: the resolver is withdrawn before the core and its route
   stop.  Without a handle the answer is Ok.                                *)
MacWithdrawDns ==
    /\ mhHelper.pc = "working" /\ mhHelper.request.action \in {"stop", "exit"}
    /\ mhDns' = FALSE
    /\ IF mhCore THEN MacMoves("stopping") ELSE MacReplying(TRUE)
    /\ UNCHANGED <<mhOwner, mhChild, mhLease, mhSocket, mhBacklog, mhCore, mhMishaps>>

MacStopCore ==
    /\ mhHelper.pc = "stopping" /\ mhCore' = FALSE
    /\ (MacReplying(TRUE) /\ MacFine) \/ (MacLoses(FALSE) /\ MacMishap)
    /\ UNCHANGED <<mhOwner, mhChild, mhLease, mhSocket, mhBacklog, mhDns>>

MacQuery ==
    /\ mhHelper.pc = "working" /\ mhHelper.request.action \in {"ping", "query"}
    /\ MacReplying(TRUE)
    /\ UNCHANGED <<mhOwner, mhChild, mhLease, mhSocket, mhBacklog, mhCore, mhDns, mhMishaps>>

(* An answer that cannot be written is dropped; the loop goes on, except
   after an exit that was answered, which also stops what still runs.       *)
MacReply ==
    LET heard == MacWaiting /\ mhOwner.asked.id = mhHelper.request.id
        exits == mhHelper.request.action = "exit"
    IN
    /\ mhHelper.pc = "replying"
    /\ IF heard THEN MacAnswered(mhHelper.ok) ELSE UNCHANGED mhOwner
    /\ \/ exits /\ MacEnds /\ mhSocket' = FALSE
       \/ (~exits \/ ~heard) /\ MacMoves("serving") /\ UNCHANGED <<mhCore, mhDns, mhSocket>>
    /\ UNCHANGED <<mhChild, mhLease, mhBacklog, mhMishaps>>

(* An accept that fails ends the loop with an error, past the stop: the state
   is dropped field by field, the core before the resolver, then the socket
   is removed and the process ends.                                         *)
MacAcceptFails ==
    /\ mhHelper.pc = "serving" /\ MacMoves("dropping") /\ MacMishap
    /\ mhCore' = FALSE
    /\ UNCHANGED <<mhOwner, mhChild, mhLease, mhSocket, mhBacklog, mhDns>>

MacStateDropped ==
    /\ mhHelper.pc = "dropping" /\ MacEnds /\ mhSocket' = FALSE
    /\ UNCHANGED <<mhOwner, mhChild, mhLease, mhBacklog, mhMishaps>>

MacHelperCrashes ==
    /\ MacMishap /\ mhHelper.pc \notin {"prompt", "gone"} /\ MacEnds
    /\ UNCHANGED <<mhOwner, mhChild, mhLease, mhSocket, mhBacklog>>

MacChildExits ==
    /\ MacGone /\ mhChild /\ mhChild' = FALSE
    /\ UNCHANGED <<mhOwner, mhLease, mhSocket, mhHelper, mhBacklog, mhCore, mhDns, mhMishaps>>

MacOwnerStep ==
    \/ MacAcceptLease \/ MacLaunchFails \/ MacCallFails \/ MacShutdown \/ MacDropLease
    \/ MacReaped \/ (\E action \in MacActions : MacCall(action))
MacHelperStep ==
    \/ MacAuthorized \/ MacConnectLease \/ MacBind \/ MacServeNext \/ MacStartCore
    \/ MacPublishDns \/ MacRollback \/ MacWithdrawDns \/ MacStopCore \/ MacQuery \/ MacReply
    \/ MacStateDropped \/ MacChildExits

MacNext ==
    \/ MacOwnerStep \/ MacHelperStep \/ MacWatchdog \/ MacOwnerDies
    \/ MacAcceptFails \/ MacHelperCrashes

(* Only the watchdog and the way to it are counted on: a core may hang.     *)
MacFairness == WF_mhVars(MacWatchdog) /\ WF_mhVars(MacConnectLease) /\ WF_mhVars(MacBind)
-----------------------------------------------------------------------------
MacTypeOK ==
    /\ mhOwner.pc \in {"launching", "ready", "closing", "reaping", "done", "dead"}
    /\ mhOwner.calls \in 0 .. MaxMacCalls
    /\ {mhChild, mhSocket, mhCore, mhDns} \subseteq BOOLEAN
    /\ mhLease \in {"none", "offered", "held", "closed"}
    /\ mhHelper.pc \in {"prompt", "connect", "bind", "serving", "working", "publish", "rollback",
                        "stopping", "replying", "dropping", "gone"}
    /\ mhHelper.lost \in BOOLEAN
    /\ Len(mhBacklog) <= MaxMacCalls /\ mhMishaps \in 0 .. MaxMacMishaps

(* The system's resolver points into the tunnel only while the helper holds
   the core that makes the tunnel's route (macos.rs:439, :460), through
   failing starts, stops and rollbacks, lost leases and crashes.  One way out
   breaks it: after an accept that failed the core is dropped before the
   resolver (macos.rs:783, :411).                                           *)
DnsImpliesRoute == mhDns => mhCore \/ mhHelper.pc = "dropping"

(* An owner told that the start or the stop succeeded is right as long as the
   helper serves it.  The core is the one the helper can reach: beside it,
   only a core whose stop or rollback failed (lost) can run on, and the next
   stop is answered Ok over it (lib.rs:153, macos.rs:889).                  *)
MacAnswerIsCurrent ==
    /\ mhOwner.pc = "ready" /\ ~MacWaiting /\ mhOwner.last.ok
    /\ MacServing /\ mhHelper.pc # "dropping"
    =>
        /\ mhOwner.last.action = "start" => mhCore /\ mhDns
        /\ mhOwner.last.action = "stop" => ~mhCore /\ ~mhDns

(* The root watchdog ends the helper when the lease closes, even if its main
   thread is stuck inside the core (macos.rs:307).                          *)
MacHelperFollowsLease == mhLease = "closed" ~> MacGone
=============================================================================
