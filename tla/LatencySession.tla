--------------------------- MODULE LatencySession ---------------------------
(* The latency probe of the nodes page: a window starts a session, a worker
   pushes one result per node, and the window polls the session until it is
   done, cancelled, too old or gone (api/src/latency.rs, ui nodes.rs).  A
   session is shared by its worker and by the polls: every lock, load and
   store of one of them is a step of its own.                               *)
EXTENDS Integers, FiniteSets

CONSTANTS
    Windows,        \* clients that show the nodes page
    ProbeTags,      \* tags of the probed nodes
    MaxLatencySessions,   \* registered sessions (4 in the code)
    LatencySessionTtl,    \* age at which a session may be reaped, in ticks
    MaxLatencyPolls,      \* polls of one session (600 in the code)
    MaxSessionsStarted    \* bound: sessions started in a behaviour

ASSUME LatencyAssumption ==
    /\ ProbeTags # {}
    /\ {MaxLatencySessions, LatencySessionTtl, MaxLatencyPolls} \subseteq Nat \ {0}
    /\ MaxSessionsStarted \in Nat

VARIABLES
    latSession,   \* session -> its shared state and, for the properties, what was pushed
    latWorker,    \* session -> the step of its worker and the probes still running
    latStarted,   \* sessions started so far: ids are never reused
    latRegistry,  \* ids under the sessions lock
    latWindow     \* window -> its poll loop and the request of it the server works on,
                  \* latency_busy, and for the properties: its page was left under the
                  \* loop, an answer with results was lost

latVars == <<latSession, latWorker, latStarted, latRegistry, latWindow>>

SessionIds == 1 .. MaxSessionsStarted
NoSession == [results |-> {}, completed |-> 0, done |-> FALSE, age |-> 0, pushed |-> {}]
NoLoop == [pc |-> "idle", id |-> 0, polls |-> 0, snapshot |-> {}, done |-> FALSE,
           got |-> {}, completed |-> 0, busy |-> FALSE, left |-> FALSE, lost |-> FALSE]
LoopSteps == {"idle", "start", "check", "load", "answer"}

LatencyInit ==
    /\ latSession = [s \in SessionIds |-> NoSession]
    /\ latWorker = [s \in SessionIds |-> [pc |-> "none", todo |-> {}]]
    /\ latStarted = 0
    /\ latRegistry = {}
    /\ latWindow = [w \in Windows |-> NoLoop]
-----------------------------------------------------------------------------
(* The worker.  The next probe to end is joined and pushed: the result under
   the results lock, then the counter.  A probe whose task died pushes
   nothing.  The guard marks the session done however the worker ends.      *)
WorkerPush(s) ==
    /\ latWorker[s].pc = "join"
    /\ \E t \in latWorker[s].todo :
         /\ latSession' = [latSession EXCEPT ![s].results = @ \cup {t},
                                             ![s].pushed = @ \cup {t}]
         /\ latWorker' = [latWorker EXCEPT ![s] = [pc |-> "count", todo |-> @.todo \ {t}]]
    /\ UNCHANGED <<latStarted, latRegistry, latWindow>>

WorkerCount(s) ==
    /\ latWorker[s].pc = "count"
    /\ latSession' = [latSession EXCEPT ![s].completed = @ + 1]
    /\ latWorker' = [latWorker EXCEPT ![s].pc = "join"]
    /\ UNCHANGED <<latStarted, latRegistry, latWindow>>

WorkerSkips(s) ==
    /\ latWorker[s].pc = "join"
    /\ \E t \in latWorker[s].todo : latWorker' = [latWorker EXCEPT ![s].todo = @ \ {t}]
    /\ UNCHANGED <<latSession, latStarted, latRegistry, latWindow>>

FinishOnDrop(s) ==
    /\ latWorker[s].pc = "join" /\ latWorker[s].todo = {}
    /\ latSession' = [latSession EXCEPT ![s].done = TRUE]
    /\ latWorker' = [latWorker EXCEPT ![s].pc = "gone"]
    /\ UNCHANGED <<latStarted, latRegistry, latWindow>>
-----------------------------------------------------------------------------
(* The button claims latency_busy in its handler.  The task it starts belongs
   to the page, the flag to the window: a page that is left takes the task
   along wherever it waits, and nothing clears the flag any more.  What the
   server already works on goes on without a reader.                        *)
PressRefresh(w) ==
    /\ ~latWindow[w].busy /\ latStarted < MaxSessionsStarted
    /\ latWindow' = [latWindow EXCEPT ![w] = [NoLoop EXCEPT !.pc = "start", !.busy = TRUE]]
    /\ UNCHANGED <<latSession, latWorker, latStarted, latRegistry>>

Abandoned == [NoLoop EXCEPT !.busy = TRUE, !.left = TRUE]

LeaveNodes(w) ==
    /\ latWindow[w].pc # "idle" /\ ~latWindow[w].left
    /\ latWindow' = [latWindow EXCEPT ![w] =
          IF latWindow[w].pc = "check" THEN Abandoned
          ELSE [latWindow[w] EXCEPT !.left = TRUE, !.polls = 0]]
    /\ UNCHANGED <<latSession, latWorker, latStarted, latRegistry>>

\* The task ends and clears the flag, or the server ends what was left to it.
\* The count of its polls dies with it, where it does not end by that count.
Ended(loop) ==
    IF loop.left THEN Abandoned ELSE [loop EXCEPT !.pc = "idle", !.busy = FALSE]

(* Registration, under the sessions lock: the expired sessions are dropped
   before the cap is enforced.  Before it the request validates the nodes and
   starts a probing core, which may fail.                                   *)
\* Regression: a session is dropped as soon as its worker is done.
FreshRunning(registry) == {s \in registry : ~latSession[s].done}
Fresh(registry) == {s \in registry : latSession[s].age < LatencySessionTtl}

StartFails(w) ==
    /\ latWindow[w].pc = "start"
    /\ latWindow' = [latWindow EXCEPT ![w] = Ended(@)]
    /\ UNCHANGED <<latSession, latWorker, latStarted, latRegistry>>

StartRefused(w) ==
    /\ latWindow[w].pc = "start"
    /\ Cardinality(Fresh(latRegistry)) >= MaxLatencySessions
    /\ latRegistry' = Fresh(latRegistry)
    /\ latWindow' = [latWindow EXCEPT ![w] = Ended(@)]
    /\ UNCHANGED <<latSession, latWorker, latStarted>>

\* Without its page, or when the answer is lost, the session has no reader.
Register(w) ==
    LET s == latStarted + 1 IN
    /\ latWindow[w].pc = "start" /\ latStarted < MaxSessionsStarted
    /\ Cardinality(Fresh(latRegistry)) < MaxLatencySessions
    /\ latRegistry' = Fresh(latRegistry) \cup {s}
    /\ latStarted' = s
    /\ latWorker' = [latWorker EXCEPT ![s] = [pc |-> "join", todo |-> ProbeTags]]
    /\ \/ /\ ~latWindow[w].left
          /\ latWindow' = [latWindow EXCEPT ![w].pc = "check", ![w].id = s]
       \/ latWindow' = [latWindow EXCEPT ![w] = Ended(@)]
    /\ UNCHANGED latSession
-----------------------------------------------------------------------------
(* The head of the loop: the stop button was pressed, or the poll does not get
   through or finds no session, or it finds the session and takes its results.
   The cache is saved before the flag is cleared, which nothing else sees.  *)
EndLoop(w) ==
    /\ latWindow[w].pc = "check"
    /\ latWindow' = [latWindow EXCEPT ![w] = [Ended(@) EXCEPT !.polls = 0]]
    /\ UNCHANGED <<latSession, latWorker, latStarted, latRegistry>>

Cancelled(w) == EndLoop(w)
PollRefused(w) == EndLoop(w)

PollTake(w) ==
    LET s == latWindow[w].id IN
    /\ latWindow[w].pc = "check" /\ s \in latRegistry
    /\ latWindow' = [latWindow EXCEPT ![w].pc = "load", ![w].snapshot = latSession[s].results]
    /\ latSession' = [latSession EXCEPT ![s].results = {}]
    /\ UNCHANGED <<latWorker, latStarted, latRegistry>>

\* Regression: the snapshot is cleared once it is copied.
PollLoadClears(w) ==
    /\ latWindow[w].pc = "load"
    /\ latWindow' = [latWindow EXCEPT ![w].pc = "answer",
                                      ![w].done = latSession[latWindow[w].id].done]
    /\ latSession' = [latSession EXCEPT ![latWindow[w].id].results = {}]
    /\ UNCHANGED <<latWorker, latStarted, latRegistry>>

PollLoad(w) ==
    /\ latWindow[w].pc = "load"
    /\ latWindow' = [latWindow EXCEPT ![w].pc = "answer",
                                      ![w].done = latSession[latWindow[w].id].done]
    /\ UNCHANGED <<latSession, latWorker, latStarted, latRegistry>>

(* The counter is read, and a session that was seen done leaves the registry. *)
PollEnds(w) ==
    /\ latWindow[w].pc = "answer"
    /\ latRegistry' = IF latWindow[w].done THEN latRegistry \ {latWindow[w].id} ELSE latRegistry
    /\ UNCHANGED <<latSession, latWorker, latStarted>>

\* The window adds the results, and keeps the count of the answer that says done.
Received(loop) ==
    [loop EXCEPT !.snapshot = {}, !.got = loop.got \cup loop.snapshot, !.polls = loop.polls + 1,
                 !.completed = IF loop.done THEN latSession[loop.id].completed ELSE 0]

\* Regression: one poll too many.
PollAnswerOnceMore(w) ==
    LET loop == latWindow[w] IN
    /\ PollEnds(w) /\ ~loop.left
    /\ latWindow' = [latWindow EXCEPT ![w] =
          IF loop.done \/ loop.polls >= MaxLatencyPolls THEN Ended(Received(loop))
          ELSE [Received(loop) EXCEPT !.pc = "check"]]

(* The window adds the results: it stops when done or after its last poll.  *)
PollAnswer(w) ==
    LET loop == latWindow[w] IN
    /\ PollEnds(w) /\ ~loop.left
    /\ latWindow' = [latWindow EXCEPT ![w] =
          IF loop.done \/ loop.polls + 1 >= MaxLatencyPolls THEN Ended(Received(loop))
          ELSE [Received(loop) EXCEPT !.pc = "check"]]

(* The answer does not arrive, or its reader is gone: the results it took are
   lost, with the session when that was done, and the loop ends.            *)
PollLost(w) ==
    /\ PollEnds(w)
    /\ latWindow' = [latWindow EXCEPT ![w] =
          [Ended(@) EXCEPT !.polls = 0, !.snapshot = {}, !.done = FALSE, !.lost = TRUE]]
-----------------------------------------------------------------------------
(* Time passes for every registered session.                                *)
LatencyTick ==
    /\ \E s \in latRegistry : latSession[s].age < LatencySessionTtl
    /\ latSession' = [s \in SessionIds |->
          IF s \in latRegistry /\ latSession[s].age < LatencySessionTtl
          THEN [latSession[s] EXCEPT !.age = @ + 1] ELSE latSession[s]]
    /\ UNCHANGED <<latWorker, latStarted, latRegistry, latWindow>>

WorkerStep(s) == WorkerPush(s) \/ WorkerCount(s) \/ WorkerSkips(s) \/ FinishOnDrop(s)
LoopStep(w) ==
    \/ StartFails(w) \/ StartRefused(w) \/ Register(w)
    \/ PollRefused(w) \/ PollTake(w) \/ PollLoad(w) \/ PollAnswer(w) \/ PollLost(w)

LatencyNext ==
    \/ \E s \in SessionIds : WorkerStep(s)
    \/ \E w \in Windows : PressRefresh(w) \/ LoopStep(w) \/ Cancelled(w) \/ LeaveNodes(w)
    \/ LatencyTick

(* A loop goes on by itself: every await in it ends, and the server ends what
   it works on.  Nothing makes the user stay, leave or press again.         *)
LatencyFairness == \A w \in Windows : WF_latVars(LoopStep(w))
-----------------------------------------------------------------------------
LatencyTypeOK ==
    /\ latSession \in [SessionIds -> [results : SUBSET ProbeTags, completed : Nat,
          done : BOOLEAN, age : 0 .. LatencySessionTtl, pushed : SUBSET ProbeTags]]
    /\ latWorker \in [SessionIds -> [pc : {"none", "join", "count", "gone"},
                                     todo : SUBSET ProbeTags]]
    /\ latStarted \in 0 .. MaxSessionsStarted
    /\ latRegistry \subseteq 1 .. latStarted
    /\ latWindow \in [Windows -> [pc : LoopSteps, id : 0 .. MaxSessionsStarted,
          polls : 0 .. MaxLatencyPolls, snapshot : SUBSET ProbeTags, done : BOOLEAN,
          got : SUBSET ProbeTags, completed : Nat, busy : BOOLEAN, left : BOOLEAN,
          lost : BOOLEAN]]
-----------------------------------------------------------------------------
(* While a session is registered no result of it is lost, unless the answer of
   a poll was: each one pushed is still in the session, in the snapshot of a
   poll, or with the window (latency.rs:336, :409).                         *)
NothingLostWhileRegistered ==
    \A w \in Windows : latWindow[w].id \in latRegistry /\ ~latWindow[w].lost =>
        latSession[latWindow[w].id].pushed =
            latSession[latWindow[w].id].results \cup latWindow[w].snapshot \cup latWindow[w].got

(* The count in the closing message is final: a loop that saw done reports
   exactly the results the worker pushed (done is stored after the last
   count, and the count is read after done).                                *)
CountIsFinal ==
    \A w \in Windows : latWindow[w].pc = "idle" /\ latWindow[w].done =>
        latWindow[w].completed = Cardinality(latSession[latWindow[w].id].pushed)

(* The closing count owns up to what did not arrive: a loop that saw its
   session done misses only results pushed after its last poll had taken
   the others, and they are in the count (latency.rs:415, nodes.rs:257).    *)
MissedIsCounted ==
    \A w \in Windows : latWindow[w].pc = "idle" /\ latWindow[w].done =>
        latWindow[w].completed =
            Cardinality(latWindow[w].got) + Cardinality(latSession[latWindow[w].id].results)

(* A session leaves the registry because it is too old or because a poll of
   its own loop has seen it done, never under a poll that may still come.   *)
OnlyOldOrDoneLeave ==
    [][\A s \in latRegistry \ latRegistry' :
          \/ latSession[s].age >= LatencySessionTtl
          \/ \E w \in Windows : latWindow[w].id = s /\ latWindow[w].done]_latVars

(* The busy flag is cleared whatever the worker and the server do, because the
   polls are counted; only a page that is left under its loop keeps it.     *)
LoopsEnd == \A w \in Windows : latWindow[w].busy ~> ~latWindow[w].busy \/ latWindow[w].left
=============================================================================
