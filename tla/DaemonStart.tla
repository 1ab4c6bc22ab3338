---------------------------- MODULE DaemonStart -----------------------------
(* The background start of the web server (cli.rs of web): the parent tests
   the port, spawns its detached child with a token of its own and waits until
   whoever listens there answers with that token.  Several starts may meet on
   one address, with a server that listens there already.                   *)
EXTENDS Integers, FiniteSets

CONSTANTS
    Starters,          \* daemon starts on one address
    MaxProbes,         \* bound: probes within STARTUP_TIMEOUT
    MaxDaemonMishaps   \* bound: starts that break, servers that end, parents that are killed

ASSUME DaemonAssumption == {MaxProbes, MaxDaemonMishaps} \subseteq Nat

VARIABLES
    dsParent,   \* the step of each parent
    dsChild,    \* "none", "starting", "serving", "dead", or "ended" after its parent was told
    dsPort,     \* who listens: <<"child", s>>, <<"test", s>>, Older or NoListener
    dsProbes,   \* probes each parent has made
    dsMishaps

dsVars == <<dsParent, dsChild, dsPort, dsProbes, dsMishaps>>

NoListener == <<"nobody">>
Older == <<"older">>
ChildOf(s) == <<"child", s>>
TestOf(s) == <<"test", s>>
Starting == {"waiting", "probing", "confirming"}

DaemonInit ==
    /\ dsParent = [s \in Starters |-> "start"] /\ dsChild = [s \in Starters |-> "none"]
    /\ dsPort \in {NoListener, Older}
    /\ dsProbes = [s \in Starters |-> 0] /\ dsMishaps = 0

Moves(s, from, to) == dsParent[s] = from /\ dsParent' = [dsParent EXCEPT ![s] = to]
DaemonMishap == dsMishaps < MaxDaemonMishaps /\ dsMishaps' = dsMishaps + 1
Alive(s) == dsChild[s] \in {"starting", "serving"}

\* kill and wait: the child of a start that failed does not outlive it.
KillChild(s) ==
    /\ dsChild' = [dsChild EXCEPT ![s] = "dead"]
    /\ dsPort' = IF dsPort = ChildOf(s) THEN NoListener ELSE dsPort
LeaveChild(s) == UNCHANGED <<dsChild, dsPort>>
-----------------------------------------------------------------------------
(* spawn_daemon: the port is bound and let go before the child is there.    *)
TestPort(s) ==
    /\ IF dsPort = NoListener
       THEN Moves(s, "start", "testing") /\ dsPort' = TestOf(s)
       ELSE Moves(s, "start", "refused") /\ UNCHANGED dsPort
    /\ UNCHANGED <<dsChild, dsProbes, dsMishaps>>

DropTest(s) ==
    /\ Moves(s, "testing", "spawning") /\ dsPort' = NoListener
    /\ UNCHANGED <<dsChild, dsProbes, dsMishaps>>

SpawnChild(s) ==
    /\ Moves(s, "spawning", "waiting") /\ dsChild' = [dsChild EXCEPT ![s] = "starting"]
    /\ UNCHANGED <<dsPort, dsProbes, dsMishaps>>

\* No log file, no random token or no process.
SpawnFails(s) ==
    /\ Moves(s, "spawning", "refused") /\ DaemonMishap
    /\ UNCHANGED <<dsChild, dsPort, dsProbes>>

(* wait_ready: the child first, then the deadline, then whoever listens.    *)
ChildSeenDead(s) ==
    /\ Moves(s, "waiting", "failed") /\ ~Alive(s)
    /\ KillChild(s) /\ UNCHANGED <<dsProbes, dsMishaps>>

DeadlinePasses(s) ==
    /\ Moves(s, "waiting", "failed") /\ Alive(s)
    /\ KillChild(s) /\ UNCHANGED <<dsProbes, dsMishaps>>

ConnectProbe(s) ==
    /\ Moves(s, "waiting", "probing") /\ Alive(s) /\ dsProbes[s] < MaxProbes
    /\ dsProbes' = [dsProbes EXCEPT ![s] = @ + 1]
    /\ UNCHANGED <<dsChild, dsPort, dsMishaps>>

\* Only the child of this start answers with its token.
AnyoneAnswers(s) == dsPort # NoListener
TokenAnswers(s) == dsPort = ChildOf(s)

ProbeAnswered(s) ==
    /\ Moves(s, "probing", "confirming") /\ TokenAnswers(s)
    /\ UNCHANGED <<dsChild, dsPort, dsProbes, dsMishaps>>

\* No answer in time, another server's answer, or its child's that is late.
ProbeMissed(s) ==
    /\ Moves(s, "probing", "waiting")
    /\ UNCHANGED <<dsChild, dsPort, dsProbes, dsMishaps>>

ConfirmAlive(s) ==
    /\ Moves(s, "confirming", "ready") /\ Alive(s)
    /\ UNCHANGED <<dsChild, dsPort, dsProbes, dsMishaps>>
ConfirmDead(s) ==
    /\ Moves(s, "confirming", "failed") /\ ~Alive(s)
    /\ KillChild(s) /\ UNCHANGED <<dsProbes, dsMishaps>>

\* The child has a session of its own: it goes on without its parent.
ParentKilled(s) ==
    /\ dsParent[s] \in Starting /\ DaemonMishap
    /\ dsParent' = [dsParent EXCEPT ![s] = "gone"]
    /\ LeaveChild(s) /\ UNCHANGED dsProbes

ParentStep(s) ==
    \/ TestPort(s) \/ DropTest(s) \/ SpawnChild(s) \/ ChildSeenDead(s) \/ DeadlinePasses(s)
    \/ ConnectProbe(s) \/ ProbeAnswered(s) \/ ProbeMissed(s) \/ ConfirmAlive(s) \/ ConfirmDead(s)
-----------------------------------------------------------------------------
(* The child, and a server that was there before.                           *)
ChildBinds(s) ==
    /\ dsChild[s] = "starting"
    /\ IF dsPort = NoListener
       THEN dsChild' = [dsChild EXCEPT ![s] = "serving"] /\ dsPort' = ChildOf(s)
       ELSE dsChild' = [dsChild EXCEPT ![s] = "dead"] /\ UNCHANGED dsPort
    /\ UNCHANGED <<dsParent, dsProbes, dsMishaps>>

ChildEnds(s) ==
    /\ Alive(s) /\ DaemonMishap
    /\ dsChild' = [dsChild EXCEPT ![s] = IF dsParent[s] = "ready" THEN "ended" ELSE "dead"]
    /\ dsPort' = IF dsPort = ChildOf(s) THEN NoListener ELSE dsPort
    /\ UNCHANGED <<dsParent, dsProbes>>

OlderEnds ==
    /\ dsPort = Older /\ dsPort' = NoListener
    /\ UNCHANGED <<dsParent, dsChild, dsProbes, dsMishaps>>

DaemonNext ==
    \/ \E s \in Starters :
          ParentStep(s) \/ SpawnFails(s) \/ ParentKilled(s) \/ ChildBinds(s) \/ ChildEnds(s)
    \/ OlderEnds

DaemonSpec == DaemonInit /\ [][DaemonNext]_dsVars

\* A parent is scheduled, and its clock runs.
DaemonFairness == \A s \in Starters : WF_dsVars(ParentStep(s))
-----------------------------------------------------------------------------
DaemonTypeOK ==
    /\ dsParent \in [Starters -> {"start", "testing", "spawning", "refused", "failed", "ready", "gone"}
                                    \cup Starting]
    /\ dsChild \in [Starters -> {"none", "starting", "serving", "dead", "ended"}]
    /\ dsPort \in {NoListener, Older} \cup {ChildOf(s) : s \in Starters} \cup {TestOf(s) : s \in Starters}
    /\ dsProbes \in [Starters -> 0 .. MaxProbes] /\ dsMishaps \in 0 .. MaxDaemonMishaps

(* What a start tells its user is so (cli.rs:213, README.md:109): one that says
   the server is ready has a server of its own that listened when it said so,
   and one that reports a failure leaves no process behind.                 *)
DaemonStartIsTruthful ==
    \A s \in Starters :
        /\ dsParent[s] = "ready" => dsChild[s] \in {"serving", "ended"}
        /\ dsParent[s] \in {"refused", "failed"} => ~Alive(s)

\* No two starts have one address, and a server that answers has it.
PortHasOneOwner == \A s \in Starters : dsChild[s] = "serving" <=> dsPort = ChildOf(s)

(* The parent of a start returns (cli.rs:279).                              *)
DaemonStartsReturn == \A s \in Starters : dsParent[s] \in Starting ~> dsParent[s] \notin Starting
=============================================================================
