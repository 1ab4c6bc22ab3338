---------------------------- MODULE DesktopHelper ----------------------------
(* The elevated TUN helper of Linux and Windows (singbox/src/desktop_helper.rs):
   its owner, the application, and the helper's serve loop and watchdog.  A
   request is one connection: the owner gives up after a timeout, the helper
   still executes what it has accepted or finds in its backlog.             *)
EXTENDS Integers, Sequences, FiniteSets

CONSTANTS
    MaxHelperCalls,    \* bound: requests the owner makes
    MaxHelperMishaps   \* bound: timeouts, crashes and broken answers together

ASSUME DesktopHelperAssumption == {MaxHelperCalls, MaxHelperMishaps} \subseteq Nat

VARIABLES
    dhDirect,   \* the spawned child is the helper itself (Linux), not a shell around it (Windows)
    dhOwner,    \* the owner: its step, its token file, the request it waits for, its last answer
    dhChild,    \* whether the spawned process still runs
    dhLease,    \* "none", "offered", "held" or "closed"
    dhHelper,   \* the helper: its step, its watchdog's flag, the request at hand and
                \* whether a stop failed
    dhBacklog,  \* connections that wait to be accepted
    dhCore,     \* whether the helper holds a core
    dhMishaps

dhVars == <<dhDirect, dhOwner, dhChild, dhLease, dhHelper, dhBacklog, dhCore, dhMishaps>>

HelperActions == {"ping", "start", "stop", "query", "exit"}
NoRequest == [id |-> 0, action |-> "ping"]
NoneYet == [action |-> "ping", ok |-> FALSE]

HelperInit ==
    /\ dhDirect \in BOOLEAN
    /\ dhOwner = [pc |-> "launching", token |-> TRUE, calls |-> 0, asked |-> NoRequest,
                  last |-> NoneYet]
    /\ dhChild = TRUE /\ dhLease = "none"
    /\ dhHelper = [pc |-> "prompt", alive |-> TRUE, request |-> NoRequest, ok |-> FALSE,
                   lost |-> FALSE]
    /\ dhBacklog = <<>> /\ dhCore = FALSE /\ dhMishaps = 0

Mishap == dhMishaps < MaxHelperMishaps /\ dhMishaps' = dhMishaps + 1
Waiting == dhOwner.asked # NoRequest
HelperGone == dhHelper.pc = "gone"
Listening == dhHelper.pc \in {"serving", "working", "replying"}

\* launch keeps its listener, and what waits in it, until shutdown is over.
LeaseListening == dhOwner.pc \in {"launching", "closing", "reaping"}
CloseLease == IF dhLease = "none" THEN "none" ELSE "closed"
-----------------------------------------------------------------------------
(* launch and wait_until_ready: the helper presents the token on the lease
   connection, then a ping is answered.                                     *)
AcceptLease ==
    /\ dhOwner.pc = "launching" /\ dhLease = "offered"
    /\ dhLease' = "held"
    /\ UNCHANGED <<dhDirect, dhOwner, dhChild, dhHelper, dhBacklog, dhCore, dhMishaps>>

(* The child ended, the deadline of the authorization passed, or the token
   could not be read from an accepted lease, which is dropped.              *)
LaunchFails ==
    /\ dhOwner.pc = "launching" /\ ~Waiting
    /\ dhOwner' = [dhOwner EXCEPT !.pc = "closing", !.token = FALSE]
    /\ UNCHANGED dhLease \/ (dhLease = "offered" /\ dhLease' = "closed")
    /\ UNCHANGED <<dhDirect, dhChild, dhHelper, dhBacklog, dhCore, dhMishaps>>

(* A request needs the lease and a listening helper.                        *)
Call(action) ==
    /\ dhLease = "held" /\ ~Waiting /\ dhOwner.calls < MaxHelperCalls
    /\ \/ dhOwner.pc = "launching" /\ action = "ping"
       \/ dhOwner.pc = "ready" /\ action \in {"start", "stop", "query"}
       \/ dhOwner.pc = "closing" /\ action = "exit" /\ dhOwner.last.action # "exit"
    /\ LET request == [id |-> dhOwner.calls + 1, action |-> action] IN
       IF Listening
       THEN /\ dhBacklog' = Append(dhBacklog, request)
            /\ dhOwner' = [dhOwner EXCEPT !.calls = @ + 1, !.asked = request]
       ELSE /\ dhOwner' = [dhOwner EXCEPT !.calls = @ + 1,
                              !.last = [action |-> action, ok |-> FALSE]]
            /\ UNCHANGED dhBacklog
    /\ UNCHANGED <<dhDirect, dhChild, dhLease, dhHelper, dhCore, dhMishaps>>

Answered(ok) ==
    dhOwner' = [dhOwner EXCEPT
        !.last = [action |-> dhOwner.asked.action, ok |-> ok], !.asked = NoRequest,
        !.pc = IF @ = "launching" /\ ok THEN "ready" ELSE @,
        !.token = @ /\ ~(dhOwner.pc = "launching" /\ ok)]

(* The answer does not come in time, or the connection ends without one.    *)
CallFails ==
    /\ Waiting
    /\ \/ HelperGone /\ UNCHANGED dhMishaps
       \/ Mishap
    /\ Answered(FALSE)
    /\ UNCHANGED <<dhDirect, dhChild, dhLease, dhHelper, dhBacklog, dhCore>>

(* shutdown: exit is asked for when there is a lease, the lease is dropped,
   the child gets five seconds and is then killed and waited for.           *)
ShutdownBegins ==
    /\ dhOwner.pc = "ready" /\ ~Waiting
    /\ dhOwner' = [dhOwner EXCEPT !.pc = "closing"]
    /\ UNCHANGED <<dhDirect, dhChild, dhLease, dhHelper, dhBacklog, dhCore, dhMishaps>>

(* A lease that was never accepted stays open.                              *)
DropLease ==
    /\ dhOwner.pc = "closing" /\ ~Waiting
    /\ dhLease = "held" => dhOwner.last.action = "exit" \/ dhOwner.calls = MaxHelperCalls
    /\ dhLease' = IF dhLease = "held" THEN "closed" ELSE dhLease
    /\ dhOwner' = [dhOwner EXCEPT !.pc = "reaping"]
    /\ UNCHANGED <<dhDirect, dhChild, dhHelper, dhBacklog, dhCore, dhMishaps>>

(* With the return of launch its listener goes.                             *)
ChildReaped ==
    /\ dhOwner.pc = "reaping" /\ ~dhChild
    /\ dhOwner' = [dhOwner EXCEPT !.pc = "done"] /\ dhLease' = CloseLease
    /\ UNCHANGED <<dhDirect, dhChild, dhHelper, dhBacklog, dhCore, dhMishaps>>

\* Regression: a helper that runs as root is given up after five seconds.
ChildGivenUp ==
    /\ dhOwner.pc = "reaping" /\ dhChild
    /\ dhChild' = FALSE
    /\ dhHelper' = IF dhHelper.pc = "prompt" THEN [dhHelper EXCEPT !.pc = "gone"] ELSE dhHelper
    /\ UNCHANGED <<dhDirect, dhOwner, dhLease, dhBacklog, dhCore, dhMishaps>>

(* A shell around the helper can be killed and leaves the helper to its
   watchdog; a helper that runs as root cannot, and is waited for.          *)
ChildKilled ==
    /\ dhOwner.pc = "reaping" /\ dhChild
    /\ ~dhDirect \/ dhHelper.pc = "prompt"
    /\ dhChild' = FALSE
    /\ dhHelper' = IF dhHelper.pc = "prompt" THEN [dhHelper EXCEPT !.pc = "gone"] ELSE dhHelper
    /\ UNCHANGED <<dhDirect, dhOwner, dhLease, dhBacklog, dhCore, dhMishaps>>

OwnerDies ==
    /\ Mishap /\ dhOwner.pc \notin {"done", "dead"}
    /\ dhOwner' = [dhOwner EXCEPT !.pc = "dead", !.asked = NoRequest]
    /\ dhLease' = CloseLease
    /\ UNCHANGED <<dhDirect, dhChild, dhHelper, dhBacklog, dhCore>>
-----------------------------------------------------------------------------
HelperMoves(pc) == dhHelper' = [dhHelper EXCEPT !.pc = pc]

(* The authorization is granted or denied.                                  *)
Authorized ==
    /\ dhHelper.pc = "prompt" /\ dhChild
    /\ HelperMoves("arguments") \/ HelperMoves("gone")
    /\ UNCHANGED <<dhDirect, dhOwner, dhChild, dhLease, dhBacklog, dhCore, dhMishaps>>

(* The token file is read, then the lease is connected: it waits in the
   owner's listener, accepted or not.                                       *)
ReadToken ==
    /\ dhHelper.pc = "arguments"
    /\ HelperMoves(IF dhOwner.token THEN "connect" ELSE "gone")
    /\ UNCHANGED <<dhDirect, dhOwner, dhChild, dhLease, dhBacklog, dhCore, dhMishaps>>

ConnectLease ==
    /\ dhHelper.pc = "connect"
    /\ IF LeaseListening THEN HelperMoves("bind") /\ dhLease' = "offered"
       ELSE HelperMoves("gone") /\ UNCHANGED dhLease
    /\ UNCHANGED <<dhDirect, dhOwner, dhChild, dhBacklog, dhCore, dhMishaps>>

(* The reserved port was taken by another program, or is bound.             *)
BindRpc ==
    /\ dhHelper.pc = "bind"
    /\ \/ HelperMoves("serving") /\ UNCHANGED dhMishaps
       \/ Mishap /\ HelperMoves("gone")
    /\ UNCHANGED <<dhDirect, dhOwner, dhChild, dhLease, dhBacklog, dhCore>>

Watchdog ==
    /\ dhLease = "closed" /\ dhHelper.alive
    /\ dhHelper.pc \notin {"prompt", "arguments", "connect", "gone"}
    /\ dhHelper' = [dhHelper EXCEPT !.alive = FALSE]
    /\ UNCHANGED <<dhDirect, dhOwner, dhChild, dhLease, dhBacklog, dhCore, dhMishaps>>

\* Regression: the newest connection is served first.
ServeNewest ==
    /\ dhHelper.pc = "serving"
    /\ IF ~dhHelper.alive THEN HelperMoves("cleanup") /\ UNCHANGED dhBacklog
       ELSE /\ dhBacklog # <<>>
            /\ dhHelper' = [dhHelper EXCEPT !.pc = "working", !.request = dhBacklog[Len(dhBacklog)]]
            /\ dhBacklog' = SubSeq(dhBacklog, 1, Len(dhBacklog) - 1)
    /\ UNCHANGED <<dhDirect, dhOwner, dhChild, dhLease, dhCore, dhMishaps>>

(* The loop looks at the flag, then at the first connection.                *)
ServeNext ==
    /\ dhHelper.pc = "serving"
    /\ IF ~dhHelper.alive THEN HelperMoves("cleanup") /\ UNCHANGED dhBacklog
       ELSE /\ dhBacklog # <<>>
            /\ dhHelper' = [dhHelper EXCEPT !.pc = "working", !.request = Head(dhBacklog)]
            /\ dhBacklog' = Tail(dhBacklog)
    /\ UNCHANGED <<dhDirect, dhOwner, dhChild, dhLease, dhCore, dhMishaps>>

(* A start may be refused or fail, and does when the core runs already; a
   stop without a handle is an error.                                       *)
Dispatch ==
    LET action == dhHelper.request.action IN
    /\ dhHelper.pc = "working"
    /\ \E ok \in BOOLEAN :
         /\ action = "start" /\ ok => ~dhCore
         /\ action = "stop" => ok = dhCore
         /\ action \in {"ping", "exit"} => ok
         /\ dhHelper' = [dhHelper EXCEPT !.pc = "replying", !.ok = ok]
         /\ dhCore' = ((dhCore \/ (action = "start" /\ ok)) /\ action # "stop")
    /\ UNCHANGED <<dhDirect, dhOwner, dhChild, dhLease, dhBacklog, dhMishaps>>

(* EmbeddedCore::stop lets the handle go even when the stop fails: the core
   may run on, and nothing in the helper reaches it any more.               *)
StopFails ==
    /\ dhHelper.pc = "working" /\ dhHelper.request.action = "stop" /\ dhCore
    /\ dhHelper' = [dhHelper EXCEPT !.pc = "replying", !.ok = FALSE, !.lost = TRUE]
    /\ dhCore' = FALSE /\ Mishap
    /\ UNCHANGED <<dhDirect, dhOwner, dhChild, dhLease, dhBacklog>>

(* An accept that fails ends the loop.                                      *)
AcceptFails ==
    /\ dhHelper.pc = "serving" /\ HelperMoves("cleanup") /\ Mishap
    /\ UNCHANGED <<dhDirect, dhOwner, dhChild, dhLease, dhBacklog, dhCore>>

(* The answer reaches an owner that still waits; one that gave up or died may
   have reset the connection, and an answer that cannot be written ends the
   loop.                                                                    *)
Reply ==
    LET heard == Waiting /\ dhOwner.asked.id = dhHelper.request.id IN
    /\ dhHelper.pc = "replying"
    /\ IF heard THEN Answered(dhHelper.ok) ELSE UNCHANGED dhOwner
    /\ \/ HelperMoves(IF dhHelper.request.action = "exit" THEN "cleanup" ELSE "serving")
       \/ ~heard /\ HelperMoves("cleanup")
    /\ UNCHANGED <<dhDirect, dhChild, dhLease, dhBacklog, dhCore, dhMishaps>>

Cleanup ==
    /\ dhHelper.pc = "cleanup" /\ HelperMoves("gone") /\ dhCore' = FALSE
    /\ UNCHANGED <<dhDirect, dhOwner, dhChild, dhLease, dhBacklog, dhMishaps>>

HelperDies ==
    /\ Mishap /\ dhHelper.pc \notin {"prompt", "gone"}
    /\ HelperMoves("gone") /\ dhCore' = FALSE
    /\ UNCHANGED <<dhDirect, dhOwner, dhChild, dhLease, dhBacklog>>

(* The child of the owner ends with the helper.                             *)
ChildExits ==
    /\ HelperGone /\ dhChild /\ dhChild' = FALSE
    /\ UNCHANGED <<dhDirect, dhOwner, dhLease, dhHelper, dhBacklog, dhCore, dhMishaps>>

OwnerNext ==
    \/ AcceptLease \/ LaunchFails \/ CallFails \/ ShutdownBegins \/ DropLease
    \/ ChildReaped \/ ChildKilled
    \/ \E action \in HelperActions : Call(action)
HelperStep ==
    \/ Authorized \/ ReadToken \/ ConnectLease \/ BindRpc \/ Watchdog \/ ServeNext
    \/ Dispatch \/ StopFails \/ AcceptFails \/ Reply \/ Cleanup \/ ChildExits

HelperNext == OwnerNext \/ HelperStep \/ OwnerDies \/ HelperDies

(* The helper's threads run; the owner finishes a shutdown it has begun.    *)
HelperFairness ==
    /\ WF_dhVars(Watchdog)
    /\ WF_dhVars(\/ ReadToken \/ ConnectLease \/ BindRpc \/ ServeNext \/ Dispatch
                 \/ Reply \/ Cleanup)
    /\ WF_dhVars(ChildExits)
    /\ WF_dhVars(Call("exit")) /\ WF_dhVars(DropLease \/ ChildReaped \/ ChildKilled \/ CallFails)
-----------------------------------------------------------------------------
HelperTypeOK ==
    /\ dhDirect \in BOOLEAN /\ dhChild \in BOOLEAN /\ dhCore \in BOOLEAN
    /\ dhOwner.pc \in {"launching", "ready", "closing", "reaping", "done", "dead"}
    /\ dhOwner.token \in BOOLEAN /\ dhOwner.calls \in 0 .. MaxHelperCalls
    /\ dhLease \in {"none", "offered", "held", "closed"}
    /\ dhHelper.lost \in BOOLEAN
    /\ dhHelper.pc \in {"prompt", "arguments", "connect", "bind", "serving", "working", "replying",
                        "cleanup", "gone"}
    /\ Len(dhBacklog) <= MaxHelperCalls
    /\ dhMishaps \in 0 .. MaxHelperMishaps

(* The last answer tells what the helper's core does: although requests that
   timed out are still executed later, none is executed after one that was
   answered, so an owner told that the core started or stopped is right for
   as long as the helper serves it.  The core is the one the helper can
   reach: beside it, only a core whose stop failed (lost) can run on.       *)
AnswerIsCurrent ==
    dhOwner.pc = "ready" /\ ~Waiting /\ dhOwner.last.ok /\ Listening =>
        /\ dhOwner.last.action = "start" => dhCore
        /\ dhOwner.last.action = "stop" => ~dhCore

(* Where the child is the helper, a shutdown that returned leaves no elevated
   process and no core behind.  (Behind a shell, only HelperFollowsLease.)  *)
ShutdownMeansGone == dhDirect /\ dhOwner.pc = "done" => HelperGone /\ ~dhCore

(* The lease: when the application is gone, however it ended, the elevated
   helper and its core follow (desktop_helper.rs:405).                      *)
HelperFollowsLease == dhLease = "closed" ~> HelperGone /\ ~dhCore

(* A shutdown returns, even of a helper that does not answer: the closed
   lease ends the helper, and a shell around it can be killed.  Not so a
   direct child whose lease launch never accepted: it waits in the listener
   that launch still holds (desktop_helper.rs:45), and the wait for the root
   process does not end (:276).                                             *)
ShutdownReturns ==
    dhOwner.pc = "closing" /\ (dhLease \in {"held", "closed"} \/ ~dhDirect)
        ~> dhOwner.pc \in {"done", "dead"}
=============================================================================
