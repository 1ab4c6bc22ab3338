----------------------------- MODULE AppProofs -----------------------------
(* The windows of the application, for any number of them: the latency probe,
   the update card and the sync card; then all of them side by side, each of
   which keeps what is proved of it alone.                                   *)
EXTENDS MCApp, SyncBundle, UiRuntimeProofs, ProfileProofs, FiniteSetTheorems, SequenceTheorems,
        WellFoundedInduction, TLAPS

(* The latency probe.                                                        *)
LatencySpec == LatencyInit /\ [][LatencyNext]_latVars

SessionType == [results : SUBSET ProbeTags, completed : Nat, done : BOOLEAN,
                age : 0 .. LatencySessionTtl, pushed : SUBSET ProbeTags]
WorkerType == [pc : {"none", "join", "count", "gone"}, todo : SUBSET ProbeTags]
LoopType == [pc : LoopSteps, id : 0 .. MaxSessionsStarted, polls : 0 .. MaxLatencyPolls,
             snapshot : SUBSET ProbeTags, done : BOOLEAN, got : SUBSET ProbeTags, completed : Nat,
             busy : BOOLEAN, left : BOOLEAN, lost : BOOLEAN]

\* A session counts what was pushed, one behind between the two writes of its
\* worker, and is done after the last of them.
SessionInv(s) ==
    /\ s > latStarted => latSession[s] = NoSession /\ latWorker[s].pc = "none"
    /\ latWorker[s].todo \cap latSession[s].pushed = {}
    /\ IsFiniteSet(latSession[s].pushed)
    /\ latWorker[s].pc = "count" => Cardinality(latSession[s].pushed) = latSession[s].completed + 1
    /\ latWorker[s].pc # "count" => Cardinality(latSession[s].pushed) = latSession[s].completed
    /\ latSession[s].done => latWorker[s].pc = "gone"

\* A loop has a session from its start on, a snapshot only between its take and
\* its answer, and has seen done only when nothing more is pushed.
LoopInv(loop) ==
    /\ loop.id <= latStarted
    /\ loop.pc \in {"check", "load", "answer"} => loop.id # 0 /\ loop.polls < MaxLatencyPolls
    /\ loop.pc = "start" => loop.id = 0 /\ loop.polls = 0 /\ loop.got = {} /\ ~loop.done
    /\ loop.pc # "idle" => ~loop.lost
    /\ loop.pc \in {"idle", "start", "check"} => loop.snapshot = {}
    /\ loop.done => /\ loop.id # 0 /\ loop.pc \in {"answer", "idle"} /\ ~loop.lost
                    /\ latSession[loop.id].done
    /\ loop.done /\ loop.pc = "idle" => loop.completed = latSession[loop.id].completed

\* What was pushed is in one place: the session, the snapshot or the window.
InOnePlace(session, loop) ==
    /\ session.pushed = session.results \cup loop.snapshot \cup loop.got
    /\ session.results \cap loop.snapshot = {} /\ session.results \cap loop.got = {}
    /\ loop.snapshot \cap loop.got = {}
KeptInv(loop) == loop.id # 0 /\ ~loop.lost => InOnePlace(latSession[loop.id], loop)

OneReader ==
    \A v, w \in Windows : latWindow[v].id = latWindow[w].id /\ latWindow[w].id # 0 => v = w

LatencyInv ==
    /\ LatencyTypeOK /\ OneReader
    /\ \A s \in SessionIds : SessionInv(s)
    /\ \A w \in Windows : LoopInv(latWindow[w]) /\ KeptInv(latWindow[w])

LEMMA LatencyBounds ==
    /\ MaxLatencySessions \in Nat \ {0} /\ LatencySessionTtl \in Nat \ {0}
    /\ MaxLatencyPolls \in Nat \ {0} /\ MaxSessionsStarted \in Nat
BY LatencyAssumption DEF LatencyAssumption

\* The records by name, and that a registered session has one.
LEMMA LatencyTypes ==
    LatencyTypeOK <=>
        /\ latSession \in [SessionIds -> SessionType] /\ latWorker \in [SessionIds -> WorkerType]
        /\ latStarted \in 0 .. MaxSessionsStarted /\ latRegistry \subseteq 1 .. latStarted
        /\ latWindow \in [Windows -> LoopType]
BY DEF LatencyTypeOK, SessionType, WorkerType, LoopType

LEMMA Registered ==
    ASSUME LatencyTypeOK PROVE latRegistry \subseteq SessionIds
BY LatencyBounds DEF LatencyTypeOK, SessionIds

\* A loop with a session names one that has a record.
LEMMA LoopSession ==
    ASSUME LatencyInv, NEW w \in Windows
    PROVE  /\ latWindow[w] \in LoopType
           /\ latWindow[w].id # 0 => latWindow[w].id \in SessionIds
           /\ latWindow[w].done => latWindow[w].id \in SessionIds
<1>1. latWindow[w] \in LoopType /\ latStarted \in 0 .. MaxSessionsStarted
  BY LatencyTypes DEF LatencyInv
<1>2. LoopInv(latWindow[w])
  BY DEF LatencyInv
<1> QED BY <1>1, <1>2, LatencyBounds DEF LoopInv, LoopType, SessionIds

LEMMA LatencyInitSafe == LatencyInit => LatencyInv
<1> SUFFICES ASSUME LatencyInit PROVE LatencyInv
  OBVIOUS
<1> USE LatencyBounds DEF LatencyInit
<1>1. NoSession \in SessionType /\ NoLoop \in LoopType
  BY DEF NoSession, SessionType, NoLoop, LoopType, LoopSteps
<1>2. LatencyTypeOK
  BY <1>1 DEF LatencyTypeOK, SessionType, LoopType, SessionIds
<1>3. ASSUME NEW s \in SessionIds PROVE SessionInv(s)
  BY FS_EmptySet DEF SessionInv, NoSession
<1>4. ASSUME NEW w \in Windows PROVE LoopInv(latWindow[w]) /\ KeptInv(latWindow[w])
  BY DEF LoopInv, NoLoop, KeptInv
<1>5. OneReader
  BY DEF OneReader, NoLoop
<1> QED BY <1>2, <1>3, <1>4, <1>5 DEF LatencyInv

\* The loops do not see a session they do not read, nor what they do not read.
LEMMA LoopStays ==
    ASSUME LatencyInv, NEW w \in Windows, latWindow'[w] = latWindow[w], latStarted' >= latStarted,
           latStarted' \in Nat,
           latWindow[w].id # 0 =>
               /\ latSession[latWindow[w].id].done => latSession'[latWindow[w].id].done
               /\ latSession[latWindow[w].id].done =>
                     latSession'[latWindow[w].id].completed = latSession[latWindow[w].id].completed
               /\ ~latWindow[w].lost => InOnePlace(latSession'[latWindow[w].id], latWindow[w])
    PROVE  LoopInv(latWindow[w])' /\ KeptInv(latWindow[w])'
<1>1. LoopInv(latWindow[w]) /\ latWindow[w] \in LoopType /\ latStarted \in Nat
  BY LoopSession, LatencyBounds DEF LatencyInv, LatencyTypeOK
<1>2. LoopInv(latWindow[w])'
  BY <1>1 DEF LoopInv, LoopType
<1>3. KeptInv(latWindow[w])'
  BY <1>1 DEF KeptInv
<1> QED BY <1>2, <1>3

\* A step of one loop, that leaves the sessions and their workers alone.
LEMMA LoopMoves ==
    ASSUME LatencyInv, NEW w \in Windows, NEW loop \in LoopType,
           latWindow' = [latWindow EXCEPT ![w] = loop], loop.id \in {0, latWindow[w].id},
           UNCHANGED <<latSession, latWorker, latStarted>>, latRegistry' \subseteq latRegistry,
           LoopInv(loop), KeptInv(loop)
    PROVE  LatencyInv'
<1>1. LatencyTypeOK'
  BY LatencyTypes DEF LatencyInv, LatencyTypeOK, SessionType, WorkerType, LoopType
<1>2. OneReader'
  <2>1. latWindow'[w] = loop /\ \A v \in Windows : v # w => latWindow'[v] = latWindow[v]
    BY LatencyTypes DEF LatencyInv
  <2> QED BY <2>1 DEF LatencyInv, OneReader
<1>3. ASSUME NEW s \in SessionIds PROVE SessionInv(s)'
  BY DEF LatencyInv, SessionInv
<1>4. ASSUME NEW v \in Windows PROVE LoopInv(latWindow[v])' /\ KeptInv(latWindow[v])'
  <2>1. latWindow'[v] = IF v = w THEN loop ELSE latWindow[v]
    BY LatencyTypes DEF LatencyInv
  <2>2. LoopInv(latWindow[v]) /\ KeptInv(latWindow[v])
    BY DEF LatencyInv
  <2> QED BY <2>1, <2>2 DEF LoopInv, KeptInv
<1> QED BY <1>1, <1>2, <1>3, <1>4 DEF LatencyInv

LEMMA PushSafe == ASSUME LatencyInv, NEW s \in SessionIds, WorkerPush(s) PROVE LatencyInv'
<1> USE DEF LatencyInv, LatencyTypeOK
<1> PICK t \in latWorker[s].todo :
      /\ latSession' = [latSession EXCEPT ![s].results = @ \cup {t}, ![s].pushed = @ \cup {t}]
      /\ latWorker' = [latWorker EXCEPT ![s] = [pc |-> "count", todo |-> @.todo \ {t}]]
  BY DEF WorkerPush
<1>1. latWorker[s].pc = "join" /\ UNCHANGED <<latStarted, latRegistry, latWindow>>
  BY DEF WorkerPush
<1>2. LatencyTypeOK'
  <2>0. latSession[s] \in SessionType /\ latWorker[s] \in WorkerType /\ t \in ProbeTags
    BY DEF SessionType, WorkerType
  <2>1. latSession' \in [SessionIds -> SessionType]
    <3>1. [latSession[s] EXCEPT !.results = @ \cup {t}, !.pushed = @ \cup {t}] \in SessionType
      BY <2>0 DEF SessionType
    <3> QED BY <3>1, LatencyTypes
  <2>2. latWorker' \in [SessionIds -> WorkerType]
    <3>1. [pc |-> "count", todo |-> latWorker[s].todo \ {t}] \in WorkerType
      BY <2>0 DEF WorkerType
    <3> QED BY <3>1, LatencyTypes
  <2> QED BY <1>1, <2>1, <2>2 DEF SessionType, WorkerType
<1>3. SessionInv(s)'
  <2>1. IsFiniteSet(latSession[s].pushed) /\ t \notin latSession[s].pushed
    BY DEF SessionInv
  <2>2. /\ IsFiniteSet(latSession[s].pushed \cup {t})
        /\ Cardinality(latSession[s].pushed \cup {t}) = Cardinality(latSession[s].pushed) + 1
    BY <2>1, FS_AddElement
  <2>3. /\ latSession'[s].pushed = latSession[s].pushed \cup {t}
        /\ latSession'[s].completed = latSession[s].completed
        /\ latSession'[s].done = latSession[s].done
        /\ latWorker'[s].pc = "count" /\ latWorker'[s].todo = latWorker[s].todo \ {t}
    BY <1>1
  <2>4. s <= latStarted /\ ~latSession[s].done
    BY <1>1 DEF SessionInv, SessionIds
  <2>5. Cardinality(latSession[s].pushed) = latSession[s].completed
    BY <1>1 DEF SessionInv
  <2> QED BY <1>1, <2>2, <2>3, <2>4, <2>5 DEF SessionInv, SessionIds
<1>4. ASSUME NEW r \in SessionIds, r # s PROVE SessionInv(r)'
  BY <1>1, <1>4 DEF SessionInv
<1>5. ASSUME NEW w \in Windows PROVE LoopInv(latWindow[w])' /\ KeptInv(latWindow[w])'
  <2>1. t \notin latSession[s].pushed /\ ~latSession[s].done
    BY <1>1 DEF SessionInv
  <2>2. ASSUME latWindow[w].id # 0, ~latWindow[w].lost
        PROVE  InOnePlace(latSession'[latWindow[w].id], latWindow[w])
    <3>1. latWindow[w].id \in SessionIds /\ InOnePlace(latSession[latWindow[w].id], latWindow[w])
      BY <2>2, LoopSession DEF KeptInv
    <3>2. CASE latWindow[w].id = s
      <4>1. /\ latSession'[s].pushed = latSession[s].pushed \cup {t}
            /\ latSession'[s].results = latSession[s].results \cup {t}
        OBVIOUS
      <4> HIDE DEF LatencyInv, LatencyTypeOK
      <4>2. InOnePlace(latSession[s], latWindow[w])
        BY <3>1, <3>2
      <4>3. InOnePlace(latSession'[s], latWindow[w])
        BY <2>1, <4>1, <4>2 DEF InOnePlace
      <4> QED BY <3>2, <4>3
    <3>3. CASE latWindow[w].id # s
      BY <3>1, <3>3
    <3> QED BY <3>2, <3>3
  <2>3. latWindow[w].id # 0 => latWindow[w].id \in SessionIds
    BY LoopSession
  <2>4. /\ latSession[latWindow[w].id].done /\ latWindow[w].id # 0
              => latSession'[latWindow[w].id] = latSession[latWindow[w].id]
        /\ latWindow'[w] = latWindow[w] /\ latStarted' >= latStarted /\ latStarted' \in Nat
    BY <1>1, <2>1, <2>3, LatencyBounds
  <2> HIDE DEF LatencyInv, LatencyTypeOK
  <2> QED BY <2>2, <2>4, LoopStays
<1>6. OneReader'
  BY <1>1 DEF OneReader
<1> QED BY <1>2, <1>3, <1>4, <1>5, <1>6

\* A step of a worker that leaves the results of its session alone.
LEMMA ResultsStay ==
    ASSUME LatencyInv, NEW w \in Windows, UNCHANGED <<latWindow, latStarted>>,
           \A r \in SessionIds :
               /\ latSession'[r].pushed = latSession[r].pushed
               /\ latSession'[r].results = latSession[r].results
               /\ latSession[r].done => /\ latSession'[r].done
                                        /\ latSession'[r].completed = latSession[r].completed
    PROVE  LoopInv(latWindow[w])' /\ KeptInv(latWindow[w])'
<1>1. latWindow[w].id # 0 => latWindow[w].id \in SessionIds
  BY LoopSession
<1>2. latWindow'[w] = latWindow[w] /\ latStarted' >= latStarted /\ latStarted' \in Nat
  BY LatencyBounds DEF LatencyInv, LatencyTypeOK
<1>3. ASSUME latWindow[w].id # 0, ~latWindow[w].lost
      PROVE  InOnePlace(latSession'[latWindow[w].id], latWindow[w])
  BY <1>1, <1>3 DEF LatencyInv, KeptInv, InOnePlace
<1> QED BY <1>1, <1>2, <1>3, LoopStays

LEMMA CountSafe == ASSUME LatencyInv, NEW s \in SessionIds, WorkerCount(s) PROVE LatencyInv'
<1> USE DEF LatencyInv, LatencyTypeOK, WorkerCount
<1>2. LatencyTypeOK'
  <2>1. latSession' \in [SessionIds -> SessionType]
    <3>1. latSession \in [SessionIds -> SessionType] /\ latSession[s] \in SessionType
      BY LatencyTypes
    <3>2. latSession' = [latSession EXCEPT
                            ![s] = [latSession[s] EXCEPT !.completed = latSession[s].completed + 1]]
      OBVIOUS
    <3> HIDE DEF LatencyInv, LatencyTypeOK, WorkerCount
    <3>3. [latSession[s] EXCEPT !.completed = latSession[s].completed + 1] \in SessionType
      BY <3>1 DEF SessionType
    <3> QED BY <3>1, <3>2, <3>3
  <2>2. latWorker' \in [SessionIds -> WorkerType]
    BY DEF WorkerType
  <2> QED BY <2>1, <2>2 DEF SessionType, WorkerType, LoopType
<1>3. SessionInv(s)'
  BY DEF SessionInv, SessionIds
<1>4. ASSUME NEW r \in SessionIds, r # s PROVE SessionInv(r)'
  BY <1>4 DEF SessionInv
<1>5. ASSUME NEW w \in Windows PROVE LoopInv(latWindow[w])' /\ KeptInv(latWindow[w])'
  <2>1. ~latSession[s].done
    BY DEF SessionInv
  <2>2. ASSUME NEW r \in SessionIds
        PROVE  /\ latSession'[r].pushed = latSession[r].pushed
               /\ latSession'[r].results = latSession[r].results
               /\ latSession[r].done => /\ latSession'[r].done
                                        /\ latSession'[r].completed = latSession[r].completed
    BY <2>1
  <2>3. UNCHANGED <<latWindow, latStarted>>
    OBVIOUS
  <2> HIDE DEF LatencyInv, LatencyTypeOK, WorkerCount
  <2> QED BY <2>2, <2>3, ResultsStay
<1>6. OneReader'
  BY DEF OneReader
<1> QED BY <1>2, <1>3, <1>4, <1>5, <1>6

LEMMA SkipSafe == ASSUME LatencyInv, NEW s \in SessionIds, WorkerSkips(s) PROVE LatencyInv'
<1> USE DEF LatencyInv, LatencyTypeOK
<1> PICK t \in latWorker[s].todo : latWorker' = [latWorker EXCEPT ![s].todo = @ \ {t}]
  BY DEF WorkerSkips
<1>1. UNCHANGED <<latSession, latStarted, latRegistry, latWindow>>
  BY DEF WorkerSkips
<1>2. LatencyTypeOK'
  BY <1>1
<1>3. ASSUME NEW r \in SessionIds PROVE SessionInv(r)'
  BY <1>1 DEF SessionInv
<1>4. ASSUME NEW w \in Windows PROVE LoopInv(latWindow[w])' /\ KeptInv(latWindow[w])'
  BY <1>1 DEF LoopInv, KeptInv
<1>5. OneReader'
  BY <1>1 DEF OneReader
<1> QED BY <1>2, <1>3, <1>4, <1>5

LEMMA FinishSafe == ASSUME LatencyInv, NEW s \in SessionIds, FinishOnDrop(s) PROVE LatencyInv'
<1> USE DEF LatencyInv, LatencyTypeOK, FinishOnDrop
<1>2. LatencyTypeOK'
  <2>1. latSession' \in [SessionIds -> SessionType]
    <3>1. latSession \in [SessionIds -> SessionType] /\ latSession[s] \in SessionType
      BY LatencyTypes
    <3>2. latSession' = [latSession EXCEPT ![s] = [@ EXCEPT !.done = TRUE]]
      OBVIOUS
    <3> HIDE DEF LatencyInv, LatencyTypeOK, FinishOnDrop
    <3>3. [latSession[s] EXCEPT !.done = TRUE] \in SessionType
      BY <3>1 DEF SessionType
    <3> QED BY <3>1, <3>2, <3>3
  <2>2. latWorker' \in [SessionIds -> WorkerType]
    <3>1. [latWorker[s] EXCEPT !.pc = "gone"] \in WorkerType
      BY DEF WorkerType
    <3> QED BY <3>1 DEF WorkerType
  <2>3. UNCHANGED <<latStarted, latRegistry, latWindow>>
    OBVIOUS
  <2> QED BY ONLY LatencyTypeOK, <2>1, <2>2, <2>3 DEF SessionType, WorkerType, LatencyTypeOK
<1>3. ASSUME NEW r \in SessionIds PROVE SessionInv(r)'
  BY DEF SessionInv, SessionIds
<1>4. ASSUME NEW w \in Windows PROVE LoopInv(latWindow[w])' /\ KeptInv(latWindow[w])'
  <2>2. ASSUME NEW r \in SessionIds
        PROVE  /\ latSession'[r].pushed = latSession[r].pushed
               /\ latSession'[r].results = latSession[r].results
               /\ latSession[r].done => /\ latSession'[r].done
                                        /\ latSession'[r].completed = latSession[r].completed
    OBVIOUS
  <2>3. UNCHANGED <<latWindow, latStarted>>
    OBVIOUS
  <2> HIDE DEF LatencyInv, LatencyTypeOK, FinishOnDrop
  <2> QED BY <2>2, <2>3, ResultsStay
<1>5. OneReader'
  BY DEF OneReader
<1> QED BY <1>2, <1>3, <1>4, <1>5

LEMMA NoLoopType == NoLoop \in LoopType
BY LatencyBounds DEF NoLoop, LoopType, LoopSteps

\* A loop whose page is gone has forgotten its session.
LEMMA Forgotten ==
    ASSUME LatencyInv
    PROVE  Abandoned \in LoopType /\ Abandoned.id = 0 /\ LoopInv(Abandoned) /\ KeptInv(Abandoned)
<1>1. Abandoned \in LoopType /\ Abandoned.id = 0
  <2>1. Abandoned \in LoopType
    BY NoLoopType DEF Abandoned, LoopType
  <2> QED BY <2>1 DEF Abandoned, NoLoop
<1>2. latStarted >= 0
  BY LatencyBounds DEF LatencyInv, LatencyTypeOK
<1>3. /\ Abandoned.pc = "idle" /\ Abandoned.snapshot = {} /\ Abandoned.done = FALSE
  BY DEF Abandoned, NoLoop
<1> QED BY <1>1, <1>2, <1>3 DEF LoopInv, KeptInv

\* The loop that ends without an answer keeps what it has.
LEMMA EndedLoop ==
    ASSUME LatencyInv, NEW w \in Windows, latWindow[w].pc \in {"start", "check"}
    PROVE  LET loop == Ended(latWindow[w]) IN
           loop \in LoopType /\ loop.id \in {0, latWindow[w].id} /\ LoopInv(loop) /\ KeptInv(loop)
<1>1. CASE latWindow[w].left
  BY <1>1, Forgotten DEF Ended
<1>2. CASE ~latWindow[w].left
  <2> DEFINE loop == [latWindow[w] EXCEPT !.pc = "idle", !.busy = FALSE]
  <2>1. Ended(latWindow[w]) = loop
    BY <1>2 DEF Ended
  <2>2. latWindow[w] \in LoopType /\ LoopInv(latWindow[w]) /\ KeptInv(latWindow[w])
    BY LoopSession DEF LatencyInv
  <2>3. loop \in LoopType
    BY <2>2 DEF LoopType, LoopSteps
  <2>4. /\ loop.id = latWindow[w].id /\ loop.snapshot = latWindow[w].snapshot /\ loop.pc = "idle"
        /\ loop.got = latWindow[w].got /\ loop.done = latWindow[w].done
        /\ loop.lost = latWindow[w].lost
    BY <2>2 DEF LoopType
  <2> HIDE DEF loop
  <2>5. LoopInv(loop)
    BY <2>2, <2>4 DEF LoopInv
  <2>6. KeptInv(loop)
    BY <2>2, <2>4 DEF KeptInv, InOnePlace
  <2> QED BY <2>1, <2>3, <2>4, <2>5, <2>6
<1> QED BY <1>1, <1>2

LEMMA PressSafe == ASSUME LatencyInv, NEW w \in Windows, PressRefresh(w) PROVE LatencyInv'
<1> DEFINE loop == [NoLoop EXCEPT !.pc = "start", !.busy = TRUE]
<1>1. loop \in LoopType /\ loop.id = 0
  <2>1. loop \in LoopType
    BY NoLoopType DEF LoopType, LoopSteps
  <2> QED BY <2>1 DEF NoLoop
<1>2. /\ loop.pc = "start" /\ loop.snapshot = {} /\ loop.polls = 0 /\ loop.got = {}
      /\ loop.done = FALSE /\ loop.lost = FALSE /\ latStarted >= 0
  BY LatencyBounds DEF NoLoop, LatencyInv, LatencyTypeOK
<1>3. /\ latWindow' = [latWindow EXCEPT ![w] = loop] /\ latRegistry' = latRegistry
      /\ UNCHANGED <<latSession, latWorker, latStarted>>
  BY DEF PressRefresh
<1> HIDE DEF loop
<1>4. LoopInv(loop) /\ KeptInv(loop)
  BY <1>1, <1>2 DEF LoopInv, KeptInv
<1> QED BY <1>1, <1>3, <1>4, LoopMoves

LEMMA LeaveSafe == ASSUME LatencyInv, NEW w \in Windows, LeaveNodes(w) PROVE LatencyInv'
<1>1. /\ UNCHANGED <<latSession, latWorker, latStarted>> /\ latRegistry' = latRegistry
  BY DEF LeaveNodes
<1>2. CASE latWindow[w].pc = "check"
  <2>1. latWindow' = [latWindow EXCEPT ![w] = Abandoned]
    BY <1>2 DEF LeaveNodes
  <2> QED BY <1>1, <2>1, Forgotten, LoopMoves
<1>3. CASE latWindow[w].pc # "check"
  <2> DEFINE loop == [latWindow[w] EXCEPT !.left = TRUE, !.polls = 0]
  <2>1. latWindow' = [latWindow EXCEPT ![w] = loop]
    BY <1>3 DEF LeaveNodes
  <2>2. latWindow[w] \in LoopType /\ LoopInv(latWindow[w]) /\ KeptInv(latWindow[w])
    BY LoopSession DEF LatencyInv
  <2>3. loop \in LoopType
    <3>1. 0 \in 0 .. MaxLatencyPolls
      BY LatencyBounds
    <3> QED BY <2>2, <3>1 DEF LoopType
  <2>4. /\ loop.id = latWindow[w].id /\ loop.snapshot = latWindow[w].snapshot
        /\ loop.pc = latWindow[w].pc /\ loop.polls = 0
        /\ loop.got = latWindow[w].got /\ loop.done = latWindow[w].done
        /\ loop.lost = latWindow[w].lost /\ loop.completed = latWindow[w].completed
    BY <2>2 DEF LoopType
  <2> HIDE DEF loop
  <2>5. LoopInv(loop)
    BY <2>2, <2>4, LatencyBounds DEF LoopInv
  <2>6. KeptInv(loop)
    BY <2>2, <2>4 DEF KeptInv, InOnePlace
  <2> QED BY <1>1, <2>1, <2>3, <2>4, <2>5, <2>6, LoopMoves
<1> QED BY <1>2, <1>3

\* The start fails or is refused, the loop is cancelled or finds no session.
LEMMA EndSafe ==
    ASSUME LatencyInv, NEW w \in Windows, StartFails(w) \/ StartRefused(w) \/ EndLoop(w)
    PROVE  LatencyInv'
<1>1. latWindow[w].pc \in {"start", "check"} /\ latRegistry' \subseteq latRegistry
  BY DEF StartFails, StartRefused, EndLoop, Fresh
<1>2. UNCHANGED <<latSession, latWorker, latStarted>>
  BY DEF StartFails, StartRefused, EndLoop
<1> DEFINE ended == Ended(latWindow[w])
<1>3. ended \in LoopType /\ ended.id \in {0, latWindow[w].id} /\ LoopInv(ended) /\ KeptInv(ended)
  BY <1>1, EndedLoop
<1>4. CASE latWindow' = [latWindow EXCEPT ![w] = ended]
  BY <1>1, <1>2, <1>3, <1>4, LoopMoves
<1>5. CASE EndLoop(w)
  <2> DEFINE loop == [ended EXCEPT !.polls = 0]
  <2>1. latWindow' = [latWindow EXCEPT ![w] = loop]
    BY <1>5 DEF EndLoop
  <2> HIDE DEF ended
  <2>2. /\ loop \in LoopType /\ loop.id = ended.id /\ loop.snapshot = ended.snapshot
        /\ loop.pc = ended.pc /\ loop.polls = 0 /\ loop.got = ended.got /\ loop.done = ended.done
        /\ loop.lost = ended.lost /\ loop.completed = ended.completed
    BY <1>3, LatencyBounds DEF LoopType
  <2> HIDE DEF loop
  <2>3. LoopInv(loop) /\ KeptInv(loop)
    BY <1>3, <2>2, LatencyBounds DEF LoopInv, KeptInv, InOnePlace
  <2> QED BY <1>1, <1>2, <1>3, <2>1, <2>2, <2>3, LoopMoves
<1> QED BY <1>4, <1>5 DEF StartFails, StartRefused

LEMMA RegisterSafe == ASSUME LatencyInv, NEW w \in Windows, Register(w) PROVE LatencyInv'
<1> DEFINE s == latStarted + 1
<1>1. /\ latWindow[w].pc = "start" /\ latStarted < MaxSessionsStarted
      /\ latRegistry' = Fresh(latRegistry) \cup {s} /\ latStarted' = s /\ latSession' = latSession
      /\ latWorker' = [latWorker EXCEPT ![s] = [pc |-> "join", todo |-> ProbeTags]]
  BY DEF Register
<1>2. s \in SessionIds /\ latStarted \in Nat /\ latSession[s] = NoSession
  <2>1. s \in SessionIds /\ latStarted \in Nat
    BY <1>1, LatencyBounds DEF SessionIds, LatencyInv, LatencyTypeOK
  <2> QED BY <2>1 DEF LatencyInv, SessionInv
<1>3. PICK loop \in LoopType :
         /\ latWindow' = [latWindow EXCEPT ![w] = loop] /\ loop.id \in {0, s}
         /\ LoopInv(loop)' /\ KeptInv(loop)'
  <2>0. latWindow[w] \in LoopType /\ LoopInv(latWindow[w])
    BY LoopSession DEF LatencyInv
  <2>1. CASE latWindow' = [latWindow EXCEPT ![w].pc = "check", ![w].id = s]
    <3> DEFINE loop == [latWindow[w] EXCEPT !.pc = "check", !.id = s]
    <3>1. latWindow' = [latWindow EXCEPT ![w] = loop]
      BY <2>1
    <3>2. loop \in LoopType
      <4>1. s \in 0 .. MaxSessionsStarted /\ "check" \in LoopSteps
        BY <1>1, <1>2, LatencyBounds DEF LoopSteps
      <4> HIDE DEF s
      <4> QED BY <2>0, <4>1 DEF LoopType
    <3>3. /\ loop.id = s /\ loop.pc = "check" /\ loop.snapshot = {} /\ loop.polls = 0
          /\ loop.got = {} /\ loop.done = FALSE /\ loop.lost = FALSE
      BY <1>1, <2>0 DEF LoopType, LoopInv
    <3> HIDE DEF loop, s
    <3> PICK new \in LoopType :
          /\ latWindow' = [latWindow EXCEPT ![w] = new]
          /\ new.id = s /\ new.pc = "check" /\ new.snapshot = {} /\ new.polls = 0
          /\ new.got = {} /\ new.done = FALSE /\ new.lost = FALSE
      BY <3>1, <3>2, <3>3
    <3>4. s <= latStarted' /\ s # 0
      BY <1>1, <1>2 DEF s
    <3>5. LoopInv(new)'
      BY <3>4, LatencyBounds DEF LoopInv
    <3>6. latSession'[s].pushed = {} /\ latSession'[s].results = {}
      BY <1>1, <1>2 DEF NoSession
    <3>7. KeptInv(new)'
      BY <3>6 DEF KeptInv, InOnePlace
    <3> QED BY <3>5, <3>7
  <2>2. CASE latWindow' = [latWindow EXCEPT ![w] = Ended(@)]
    <3> DEFINE loop == Ended(latWindow[w])
    <3>1. loop \in LoopType /\ loop.id \in {0, latWindow[w].id} /\ LoopInv(loop) /\ KeptInv(loop)
      BY <1>1, EndedLoop
    <3>2. loop.done = FALSE /\ loop.id \in {0, s} /\ loop.pc = "idle"
      <4>1. latWindow[w].done = FALSE
        BY <1>1, <2>0 DEF LoopInv, LoopType
      <4>2. loop.pc = "idle" /\ loop.done = FALSE
        BY <2>0, <4>1 DEF Ended, Abandoned, NoLoop, LoopType
      <4> QED BY <1>1, <2>0, <3>1, <4>2 DEF LoopInv
    <3>3. latWindow' = [latWindow EXCEPT ![w] = loop] /\ loop.snapshot = {} /\ loop.id = 0
      BY <1>1, <2>0, <2>2, <3>1, <3>2 DEF LoopInv
    <3> HIDE DEF loop
    <3> PICK new \in LoopType :
          /\ latWindow' = [latWindow EXCEPT ![w] = new]
          /\ new.id = 0 /\ new.pc = "idle" /\ new.snapshot = {} /\ new.done = FALSE
      BY <3>1, <3>2, <3>3
    <3>4. latStarted' \in Nat
      BY <1>1, <1>2
    <3>5. LoopInv(new)' /\ KeptInv(new)'
      BY <3>4 DEF LoopInv, KeptInv
    <3> QED BY <3>5
  <2> QED BY <2>1, <2>2 DEF Register
<1>4. LatencyTypeOK'
  <2>1. latWindow' \in [Windows -> LoopType]
    BY <1>3, LatencyTypes DEF LatencyInv
  <2>2. latWorker' \in [SessionIds -> WorkerType]
    BY <1>1, <1>2, LatencyTypes DEF WorkerType, LatencyInv
  <2>3. latRegistry' \subseteq 1 .. latStarted' /\ latStarted' \in 0 .. MaxSessionsStarted
    <3>1. Fresh(latRegistry) \subseteq 1 .. latStarted /\ latStarted < MaxSessionsStarted
      BY <1>1 DEF Fresh, LatencyInv, LatencyTypeOK
    <3> QED BY <1>1, <1>2, <3>1, LatencyBounds
  <2>4. latSession' \in [SessionIds -> SessionType]
    BY <1>1, LatencyTypes DEF LatencyInv
  <2> QED BY <2>1, <2>2, <2>3, <2>4, LatencyTypes DEF LatencyTypeOK, SessionType, WorkerType, LoopType
<1>5. \A u \in Windows : latWindow[u].id # s
  <2>1. ASSUME NEW u \in Windows PROVE latWindow[u].id # s
    <3>1. latWindow[u].id <= latStarted /\ latWindow[u].id \in Nat
      BY LoopSession, LatencyBounds DEF LatencyInv, LoopInv, LoopType
    <3> QED BY <1>2, <3>1
  <2> QED BY <2>1
<1>6. /\ latWindow'[w] = loop
      /\ \A v \in Windows : v # w => latWindow'[v] = latWindow[v]
  BY <1>3, LatencyTypes DEF LatencyInv
<1>7. OneReader'
  BY <1>3, <1>5, <1>6 DEF OneReader, LatencyInv
<1>8. ASSUME NEW r \in SessionIds PROVE SessionInv(r)'
  <2>1. CASE r = s
    BY <1>1, <1>2, <2>1, LatencyTypes, FS_EmptySet DEF SessionInv, NoSession, LatencyInv
  <2>2. CASE r # s
    BY <1>1, <1>2, <2>2, LatencyTypes DEF SessionInv, SessionIds, LatencyInv
  <2> QED BY <2>1, <2>2
<1>9. ASSUME NEW v \in Windows PROVE LoopInv(latWindow[v])' /\ KeptInv(latWindow[v])'
  <2>1. CASE v = w
    BY <1>3, <1>6, <2>1 DEF LoopInv, KeptInv
  <2>2. CASE v # w
    <3>1. LoopInv(latWindow[v]) /\ KeptInv(latWindow[v]) /\ latWindow[v] \in LoopType
      BY LoopSession DEF LatencyInv
    <3>2. latWindow'[v] = latWindow[v] /\ latStarted' = latStarted + 1 /\ latSession' = latSession
      BY <1>1, <1>6, <2>2
    <3> QED BY <1>2, <3>1, <3>2 DEF LoopInv, KeptInv, LoopType
  <2> QED BY <2>1, <2>2
<1> QED BY <1>4, <1>7, <1>8, <1>9 DEF LatencyInv

LEMMA TakeSafe == ASSUME LatencyInv, NEW w \in Windows, PollTake(w) PROVE LatencyInv'
<1> DEFINE s == latWindow[w].id
           session == latSession[s]
<1>1. /\ latWindow[w].pc = "check" /\ s \in SessionIds /\ s # 0
      /\ UNCHANGED <<latWorker, latStarted, latRegistry>>
  BY Registered, LatencyBounds DEF PollTake, LatencyInv, SessionIds
<1>3. /\ latWindow[w] \in LoopType /\ LoopInv(latWindow[w]) /\ KeptInv(latWindow[w])
      /\ session \in SessionType
  BY <1>1, LoopSession, LatencyTypes DEF LatencyInv
<1>2. PICK loop \in LoopType :
        /\ latWindow' = [latWindow EXCEPT ![w] = loop]
        /\ loop.id = s /\ loop.snapshot = session.results /\ loop.pc = "load"
        /\ loop.polls = latWindow[w].polls /\ loop.got = latWindow[w].got
        /\ loop.done = latWindow[w].done /\ loop.lost = latWindow[w].lost
  <2> DEFINE new == [latWindow[w] EXCEPT !.pc = "load", !.snapshot = session.results]
  <2>1. latWindow' = [latWindow EXCEPT ![w] = new]
    BY DEF PollTake
  <2>2. session.results \in SUBSET ProbeTags /\ "load" \in LoopSteps
    BY <1>3 DEF SessionType, LoopSteps
  <2>3. new \in LoopType
    BY <1>3, <2>2 DEF LoopType
  <2> QED BY <1>3, <2>1, <2>3 DEF LoopType
<1>4. /\ latSession' = [latSession EXCEPT ![s] = [session EXCEPT !.results = {}]]
      /\ [session EXCEPT !.results = {}] \in SessionType
  BY <1>3 DEF PollTake, SessionType
<1>6. /\ latSession'[s].results = {} /\ latSession'[s].pushed = session.pushed
      /\ latSession'[s].done = session.done /\ latSession'[s].completed = session.completed
      /\ \A r \in SessionIds : r # s => latSession'[r] = latSession[r]
  BY <1>1, <1>3, <1>4, LatencyTypes DEF LatencyInv, SessionType
<1>7. latWindow'[w] = loop /\ \A v \in Windows : v # w => latWindow'[v] = latWindow[v]
  BY <1>2, <1>3, LatencyTypes DEF LatencyInv
<1>8. LatencyTypeOK'
  <2>1. latWindow' \in [Windows -> LoopType] /\ latSession' \in [SessionIds -> SessionType]
    BY <1>1, <1>2, <1>4, LatencyTypes DEF LatencyInv
  <2> QED BY <1>1, <2>1, LatencyTypes
        DEF LatencyInv, LatencyTypeOK, SessionType, WorkerType, LoopType
<1> HIDE DEF session, s
<1>9. OneReader'
  BY <1>2, <1>7 DEF OneReader, LatencyInv, s
<1>10. ASSUME NEW r \in SessionIds PROVE SessionInv(r)'
  <2>1. SessionInv(r)
    BY DEF LatencyInv
  <2>2. CASE r = s
    <3>1. s <= latStarted /\ latStarted \in Nat /\ s \in Nat
      BY <1>1, <1>3, LatencyBounds DEF LoopInv, s, SessionIds, LatencyInv, LatencyTypeOK
    <3> QED BY <1>1, <1>6, <2>1, <2>2, <3>1 DEF SessionInv, session
  <2>3. CASE r # s
    BY <1>1, <1>6, <2>1, <2>3 DEF SessionInv
  <2> QED BY <2>2, <2>3
<1>11. ASSUME NEW v \in Windows PROVE LoopInv(latWindow[v])' /\ KeptInv(latWindow[v])'
  <2>1. CASE v = w
    <3>1. LoopInv(loop)'
      BY <1>1, <1>2, <1>3, <1>6 DEF LoopInv, s, session
    <3>2. KeptInv(loop)'
      <4>1. loop.lost \/ InOnePlace(session, latWindow[w])
        BY <1>1, <1>2, <1>3 DEF KeptInv, s, session
      <4>2. latWindow[w].snapshot = {}
        BY <1>1, <1>3 DEF LoopInv
      <4> QED BY <1>1, <1>2, <1>6, <4>1, <4>2 DEF KeptInv, InOnePlace
    <3> QED BY <1>7, <2>1, <3>1, <3>2 DEF LoopInv, KeptInv
  <2>2. CASE v # w
    <3>1. latWindow[v].id # 0 => latWindow[v].id \in SessionIds /\ latWindow[v].id # s
      BY <2>2, LoopSession DEF LatencyInv, OneReader, s
    <3>2. LoopInv(latWindow[v]) /\ KeptInv(latWindow[v]) /\ latWindow'[v] = latWindow[v]
      BY <1>7, <2>2 DEF LatencyInv
    <3>3. latWindow[v].id # 0 => latSession'[latWindow[v].id] = latSession[latWindow[v].id]
      BY <1>6, <3>1
    <3> QED BY <1>1, <3>2, <3>3 DEF LoopInv, KeptInv
  <2> QED BY <2>1, <2>2
<1> QED BY <1>8, <1>9, <1>10, <1>11 DEF LatencyInv

LEMMA LoadSafe == ASSUME LatencyInv, NEW w \in Windows, PollLoad(w) PROVE LatencyInv'
<1> DEFINE session == latSession[latWindow[w].id]
           loop == [latWindow[w] EXCEPT !.pc = "answer", !.done = session.done]
<1>1. /\ latWindow[w].pc = "load" /\ latWindow' = [latWindow EXCEPT ![w] = loop]
      /\ UNCHANGED <<latSession, latWorker, latStarted>> /\ latRegistry' = latRegistry
  BY DEF PollLoad
<1>2. latWindow[w] \in LoopType /\ LoopInv(latWindow[w]) /\ KeptInv(latWindow[w])
  BY LoopSession DEF LatencyInv
<1>3. latWindow[w].id # 0 /\ session \in SessionType
  BY <1>1, <1>2, LoopSession, LatencyTypes DEF LoopInv, LatencyInv
<1>4. loop \in LoopType
  BY <1>2, <1>3 DEF LoopType, SessionType, LoopSteps
<1>5. /\ loop.id = latWindow[w].id /\ loop.snapshot = latWindow[w].snapshot /\ loop.pc = "answer"
      /\ loop.polls = latWindow[w].polls /\ loop.got = latWindow[w].got
      /\ loop.done = session.done /\ loop.lost = latWindow[w].lost
  BY <1>2 DEF LoopType
<1>6. ~latWindow[w].lost
  BY <1>1, <1>2 DEF LoopInv
<1> HIDE DEF loop
<1>7. LoopInv(loop)
  BY <1>1, <1>2, <1>3, <1>5, <1>6 DEF LoopInv
<1>8. KeptInv(loop)
  BY <1>2, <1>5 DEF KeptInv, InOnePlace
<1> QED BY <1>1, <1>4, <1>5, <1>7, <1>8, LoopMoves

\* What the answer of a poll adds.
LEMMA ReceivedLoop ==
    ASSUME LatencyInv, NEW w \in Windows, latWindow[w].pc = "answer"
    PROVE  LET loop == Received(latWindow[w]) IN
           /\ loop \in LoopType /\ loop.id = latWindow[w].id /\ loop.snapshot = {}
           /\ loop.got = latWindow[w].got \cup latWindow[w].snapshot
           /\ loop.polls = latWindow[w].polls + 1 /\ loop.done = latWindow[w].done
           /\ loop.lost = latWindow[w].lost /\ loop.left = latWindow[w].left
           /\ loop.done => loop.completed = latSession[latWindow[w].id].completed
           /\ KeptInv(loop)
<1> DEFINE session == latSession[latWindow[w].id]
           loop == Received(latWindow[w])
<1>1. /\ latWindow[w] \in LoopType /\ LoopInv(latWindow[w]) /\ KeptInv(latWindow[w])
      /\ session \in SessionType
  BY LoopSession, LatencyTypes DEF LatencyInv, LoopInv
<1>2. /\ loop.id = latWindow[w].id /\ loop.snapshot = {} /\ loop.pc = latWindow[w].pc
      /\ loop.got = latWindow[w].got \cup latWindow[w].snapshot
      /\ loop.polls = latWindow[w].polls + 1 /\ loop.done = latWindow[w].done
      /\ loop.lost = latWindow[w].lost /\ loop.left = latWindow[w].left
      /\ loop.completed = IF latWindow[w].done THEN session.completed ELSE 0
  BY <1>1 DEF Received, LoopType
<1>3. loop \in LoopType
  <2>1. latWindow[w].polls + 1 \in 0 .. MaxLatencyPolls
    BY <1>1, LatencyBounds DEF LoopInv, LoopType
  <2> QED BY <1>1, <2>1 DEF Received, LoopType, SessionType
<1> HIDE DEF loop
<1>4. KeptInv(loop)
  BY <1>1, <1>2 DEF KeptInv, InOnePlace
<1> QED BY <1>2, <1>3, <1>4 DEF loop

LEMMA AnswerSafe == ASSUME LatencyInv, NEW w \in Windows, PollAnswer(w) PROVE LatencyInv'
<1> DEFINE got == Received(latWindow[w])
           last == latWindow[w].done \/ latWindow[w].polls + 1 >= MaxLatencyPolls
           loop == IF last THEN Ended(got) ELSE [got EXCEPT !.pc = "check"]
<1>1. /\ latWindow[w].pc = "answer" /\ ~latWindow[w].left
      /\ latWindow' = [latWindow EXCEPT ![w] = loop]
      /\ UNCHANGED <<latSession, latWorker, latStarted>> /\ latRegistry' \subseteq latRegistry
  BY DEF PollAnswer, PollEnds
<1>2. /\ got \in LoopType /\ got.id = latWindow[w].id /\ got.snapshot = {} /\ ~got.left
      /\ got.polls = latWindow[w].polls + 1 /\ got.done = latWindow[w].done
      /\ got.lost = latWindow[w].lost
      /\ got.done => got.completed = latSession[latWindow[w].id].completed
      /\ KeptInv(got)
  BY <1>1, ReceivedLoop
<1>3. LoopInv(latWindow[w]) /\ latWindow[w] \in LoopType
  BY LoopSession DEF LatencyInv
<1> HIDE DEF got
<1>4. /\ loop \in LoopType /\ loop.id = got.id /\ loop.snapshot = {} /\ loop.got = got.got
      /\ loop.polls = got.polls /\ loop.done = got.done /\ loop.lost = got.lost
      /\ loop.completed = got.completed /\ loop.pc = IF last THEN "idle" ELSE "check"
  BY <1>2 DEF Ended, LoopType, LoopSteps
<1> HIDE DEF loop
<1>5. LoopInv(loop)
  BY <1>1, <1>2, <1>3, <1>4, LatencyBounds DEF LoopInv, LoopType
<1>6. KeptInv(loop)
  BY <1>2, <1>4 DEF KeptInv, InOnePlace
<1> QED BY <1>1, <1>2, <1>4, <1>5, <1>6, LoopMoves

LEMMA LostSafe == ASSUME LatencyInv, NEW w \in Windows, PollLost(w) PROVE LatencyInv'
<1> DEFINE ended == Ended(latWindow[w])
           loop == [ended EXCEPT !.polls = 0, !.snapshot = {}, !.done = FALSE, !.lost = TRUE]
<1>1. /\ latWindow' = [latWindow EXCEPT ![w] = loop]
      /\ UNCHANGED <<latSession, latWorker, latStarted>> /\ latRegistry' \subseteq latRegistry
  BY DEF PollLost, PollEnds
<1>2. LoopInv(latWindow[w]) /\ latWindow[w] \in LoopType
  BY LoopSession DEF LatencyInv
<1>3. /\ Ended(latWindow[w]) \in LoopType /\ Ended(latWindow[w]).id \in {0, latWindow[w].id}
      /\ Ended(latWindow[w]).pc = "idle"
  <2>1. CASE latWindow[w].left
    BY <2>1, Forgotten DEF Ended, Abandoned, NoLoop
  <2>2. CASE ~latWindow[w].left
    BY <1>2, <2>2 DEF Ended, LoopType, LoopSteps
  <2> QED BY <2>1, <2>2
<1>4. /\ loop \in LoopType /\ loop.id \in {0, latWindow[w].id} /\ loop.snapshot = {}
      /\ loop.done = FALSE /\ loop.lost = TRUE /\ loop.pc = "idle"
  <2> HIDE DEF ended
  <2>1. ended \in LoopType /\ ended.id \in {0, latWindow[w].id} /\ ended.pc = "idle"
    BY <1>3 DEF ended
  <2>2. loop \in LoopType
    <3>1. 0 \in 0 .. MaxLatencyPolls
      BY LatencyBounds
    <3> QED BY <2>1, <3>1 DEF LoopType
  <2>3. /\ loop.id = ended.id /\ loop.snapshot = {} /\ loop.done = FALSE /\ loop.lost = TRUE
        /\ loop.pc = ended.pc
    BY <2>1 DEF LoopType
  <2> QED BY <2>1, <2>2, <2>3
<1> HIDE DEF loop
<1>5. LoopInv(loop)
  BY <1>2, <1>4, LatencyBounds DEF LoopInv, LoopType, LatencyInv, LatencyTypeOK
<1>6. KeptInv(loop)
  BY <1>4 DEF KeptInv
<1> QED BY <1>1, <1>4, <1>5, <1>6, LoopMoves

LEMMA TickSafe == ASSUME LatencyInv, LatencyTick PROVE LatencyInv'
<1> USE LatencyBounds DEF LatencyInv, LatencyTypeOK
<1>0. UNCHANGED <<latWorker, latStarted, latRegistry, latWindow>>
  BY DEF LatencyTick
<1>1. ASSUME NEW s \in SessionIds
      PROVE  /\ latSession'[s] = latSession[s] \/ latSession'[s] = [latSession[s] EXCEPT !.age = @ + 1]
             /\ latSession'[s] \in SessionType
             /\ s \notin latRegistry => latSession'[s] = latSession[s]
  <2>1. latSession'[s] = IF s \in latRegistry /\ latSession[s].age < LatencySessionTtl
                         THEN [latSession[s] EXCEPT !.age = @ + 1] ELSE latSession[s]
    BY DEF LatencyTick
  <2>2. latSession[s] \in SessionType
    BY LatencyTypes
  <2>3. latSession[s].age < LatencySessionTtl
          => [latSession[s] EXCEPT !.age = @ + 1] \in SessionType
    <3> HIDE DEF LatencyInv, LatencyTypeOK
    <3> QED BY <2>2 DEF SessionType
  <2> QED BY <2>1, <2>2, <2>3
<1>2. latSession' \in [SessionIds -> SessionType]
  BY <1>1 DEF LatencyTick
<1>3. LatencyTypeOK'
  BY <1>0, <1>2 DEF SessionType
<1>4. ASSUME NEW s \in SessionIds
      PROVE  /\ latSession'[s].pushed = latSession[s].pushed
             /\ latSession'[s].results = latSession[s].results
             /\ latSession'[s].completed = latSession[s].completed
             /\ latSession'[s].done = latSession[s].done
  <2>1. latSession[s] \in SessionType
    BY LatencyTypes
  <2> HIDE DEF LatencyInv, LatencyTypeOK
  <2> QED BY <1>1, <2>1 DEF SessionType
<1>5. ASSUME NEW s \in SessionIds PROVE SessionInv(s)'
  <2>1. s > latStarted => s \notin latRegistry
    BY DEF SessionIds
  <2> QED BY <1>0, <1>1, <1>4, <2>1 DEF SessionInv
<1>6. ASSUME NEW w \in Windows PROVE LoopInv(latWindow[w])' /\ KeptInv(latWindow[w])'
  <2> HIDE DEF LatencyInv, LatencyTypeOK
  <2> QED BY <1>0, <1>4, ResultsStay
<1>7. OneReader'
  BY <1>0 DEF OneReader
<1> QED BY <1>3, <1>5, <1>6, <1>7

(* The invariant that carries the rest, for any number of windows, sessions
   and tags, through lost answers and pages that are left.                   *)
THEOREM LatencySafe == LatencySpec => []LatencyInv
<1>1. LatencyInv /\ [LatencyNext]_latVars => LatencyInv'
  <2> SUFFICES ASSUME LatencyInv, [LatencyNext]_latVars PROVE LatencyInv'
    OBVIOUS
  <2>1. CASE UNCHANGED latVars
    BY <2>1 DEF latVars, LatencyInv, LatencyTypeOK, OneReader, SessionInv, LoopInv, KeptInv
  <2>2. ASSUME NEW s \in SessionIds, WorkerStep(s) PROVE LatencyInv'
    BY <2>2, PushSafe, CountSafe, SkipSafe, FinishSafe DEF WorkerStep
  <2>3. ASSUME NEW w \in Windows, PressRefresh(w) \/ LoopStep(w) \/ Cancelled(w) \/ LeaveNodes(w)
        PROVE  LatencyInv'
    BY <2>3, PressSafe, LeaveSafe, EndSafe, RegisterSafe, TakeSafe, LoadSafe, AnswerSafe, LostSafe
       DEF LoopStep, PollRefused, Cancelled
  <2> QED BY <2>1, <2>2, <2>3, TickSafe DEF LatencyNext
<1> QED BY LatencyInitSafe, <1>1, PTL DEF LatencySpec

(* The sessions, their workers and the polling loops keep their types.       *)
THEOREM LatencyTyped == LatencySpec => []LatencyTypeOK
<1>1. LatencyInv => LatencyTypeOK
  BY DEF LatencyInv
<1> QED BY <1>1, LatencySafe, PTL

(* While a session is registered and no answer of its polls was lost, each
   result its worker pushed waits in it, is on its way in an answer, or was
   shown: a poll takes the results and the counters in two steps and loses
   none between them (latency.rs:336).                                       *)
THEOREM LatencyNothingLost == LatencySpec => []NothingLostWhileRegistered
<1>1. LatencyInv => NothingLostWhileRegistered
  BY Registered, LatencyBounds DEF LatencyInv, NothingLostWhileRegistered, KeptInv, InOnePlace, SessionIds
<1> QED BY <1>1, LatencySafe, PTL

\* What is known of a loop that saw its session done.
LEMMA SeenDone ==
    ASSUME LatencyInv, NEW w \in Windows, latWindow[w].pc = "idle", latWindow[w].done
    PROVE  LET session == latSession[latWindow[w].id] IN
           /\ latWindow[w].completed = Cardinality(session.pushed) /\ IsFiniteSet(session.pushed)
           /\ latWindow[w].snapshot = {} /\ InOnePlace(session, latWindow[w])
<1>1. latWindow[w].id \in SessionIds /\ latWindow[w].id # 0
  BY LoopSession DEF LatencyInv, LoopInv
<1>2. LoopInv(latWindow[w]) /\ KeptInv(latWindow[w]) /\ SessionInv(latWindow[w].id)
  BY <1>1 DEF LatencyInv
<1> QED BY <1>1, <1>2 DEF LoopInv, KeptInv, SessionInv

(* The count a loop closes with is that of all results the worker pushed,
   although it reads it beside the worker (latency.rs:409).                  *)
THEOREM LatencyCountIsFinal == LatencySpec => []CountIsFinal
<1>1. LatencyInv => CountIsFinal
  BY SeenDone DEF CountIsFinal
<1> QED BY <1>1, LatencySafe, PTL

(* A loop that closes with its session done has shown or counted every result:
   those it misses were pushed behind its last take (latency.rs:415).        *)
THEOREM LatencyMissedIsCounted == LatencySpec => []MissedIsCounted
<1>1. LatencyInv => MissedIsCounted
  <2> SUFFICES ASSUME LatencyInv, NEW w \in Windows, latWindow[w].pc = "idle", latWindow[w].done
               PROVE  latWindow[w].completed =
                         Cardinality(latWindow[w].got)
                            + Cardinality(latSession[latWindow[w].id].results)
    BY DEF MissedIsCounted
  <2> DEFINE session == latSession[latWindow[w].id]
             got == latWindow[w].got
  <2>1. /\ latWindow[w].completed = Cardinality(session.pushed) /\ IsFiniteSet(session.pushed)
        /\ session.pushed = got \cup session.results /\ got \cap session.results = {}
    BY SeenDone DEF InOnePlace
  <2> HIDE DEF session, got
  <2>2. IsFiniteSet(got) /\ IsFiniteSet(session.results)
    BY <2>1, FS_Subset
  <2>3. Cardinality(got \cup session.results)
           = Cardinality(got) + Cardinality(session.results) - Cardinality(got \cap session.results)
    BY <2>2, FS_Union
  <2>4. Cardinality(got) \in Nat /\ Cardinality(session.results) \in Nat
        /\ Cardinality(got \cap session.results) = 0
    BY <2>1, <2>2, FS_EmptySet, FS_CardinalityType
  <2>5. latWindow[w].completed = Cardinality(got) + Cardinality(session.results)
    BY <2>1, <2>3, <2>4
  <2> QED BY <2>5 DEF session, got
<1> QED BY <1>1, LatencySafe, PTL

(* A session leaves the registry only when it is past its time, or a poll of
   its own loop has seen it done (latency.rs: expire, remove).               *)
THEOREM LatencyOldOrDoneLeave == LatencySpec => OnlyOldOrDoneLeave
<1> DEFINE Leaves == \A s \in latRegistry \ latRegistry' :
                        \/ latSession[s].age >= LatencySessionTtl
                        \/ \E w \in Windows : latWindow[w].id = s /\ latWindow[w].done
<1>1. LatencyInv /\ [LatencyNext]_latVars => [Leaves]_latVars
  <2> SUFFICES ASSUME LatencyInv, LatencyNext, NEW s \in latRegistry, s \notin latRegistry'
               PROVE  \/ latSession[s].age >= LatencySessionTtl
                      \/ \E w \in Windows : latWindow[w].id = s /\ latWindow[w].done
    OBVIOUS
  <2>1. ASSUME NEW w \in Windows, StartRefused(w) \/ Register(w)
        PROVE  latSession[s].age >= LatencySessionTtl
    <3>1. s \notin Fresh(latRegistry)
      BY <2>1 DEF StartRefused, Register
    <3>2. latSession[s].age \in Nat
      BY Registered, LatencyBounds DEF LatencyInv, LatencyTypeOK
    <3> QED BY <3>1, <3>2, LatencyBounds DEF Fresh
  <2>2. ASSUME NEW w \in Windows, PollEnds(w) PROVE latWindow[w].id = s /\ latWindow[w].done
    BY <2>2 DEF PollEnds
  <2>3. \E w \in Windows : StartRefused(w) \/ Register(w) \/ PollEnds(w)
    BY DEF LatencyNext, WorkerStep, LoopStep, WorkerPush, WorkerCount, WorkerSkips, FinishOnDrop,
           PollRefused, EndLoop, PollTake, PollLoad, Cancelled, LatencyTick, PressRefresh, LeaveNodes,
           StartFails, PollAnswer, PollLost
  <2> QED BY <2>1, <2>2, <2>3
<1> QED BY <1>1, LatencySafe, PTL DEF LatencySpec, OnlyOldOrDoneLeave

-----------------------------------------------------------------------------
(* The update card.                                                          *)
UpdateSpec == UpdateInit /\ [][UpdateNext]_updVars

StateType == [auto : BOOLEAN, last : -1 .. MaxClock, latest : 0 .. MaxRelease,
              snoozed : 0 .. MaxRelease]
TaskType == [pc : {"none", "queued", "waiting", "fetch", "write", "place", "answered"},
             kind : {"load", "check", "save", "dismiss"}, force : BOOLEAN, gen : Nat,
             auto : BOOLEAN, version : 0 .. MaxRelease, now : 0 .. MaxClock, state : StateType,
             error : BOOLEAN, failed : BOOLEAN]
AnswerType == [gen : Nat, state : {"idle", "available", "failed", "up_to_date"},
               latest : 0 .. MaxRelease, snoozed : BOOLEAN]
MonitorType == [busy : {"none", "check", "toggle", "dismiss"}, saved : BOOLEAN, ready : BOOLEAN,
                gen : Nat, status : AnswerType, error : BOOLEAN, announced : 0 .. MaxRelease]

UpdateTyped ==
    /\ updOverwrites \in BOOLEAN /\ updFile \in StateType
    /\ updLock = Free \/ updLock \in CardWindows \X Tasks
    /\ updTask \in [CardWindows -> [Tasks -> TaskType]]
    /\ updWindow \in [CardWindows -> MonitorType]
    /\ updClock \in 1 .. MaxClock /\ updPublished \in 0 .. MaxRelease
    /\ updAcked \in [auto : BOOLEAN, snoozed : 0 .. MaxRelease]
    /\ updFaults \in 0 .. MaxUpdateFaults /\ updActions \in 0 .. MaxCardActions

\* A request that may change the file has the lock and knows what is stored,
\* and a check that asks GitHub is due by it.
Working(w, t) == updTask[w][t].pc \in {"fetch", "write", "place"}
RequestInv(w, t) ==
    LET task == updTask[w][t] IN
    /\ Working(w, t) => updLock = <<w, t>>
    /\ task.pc = "fetch" => task.kind = "check" /\ task.state = ReadState /\ Due(task, task.state)
    /\ updOverwrites /\ task.pc \in {"write", "place"} =>
          /\ task.state.auto = IF task.kind = "save" THEN task.auto ELSE updAcked.auto
          /\ task.state.snoozed = IF task.kind = "dismiss" THEN task.version ELSE updAcked.snoozed

\* No request and no answer is of a later generation than its window's.
MonitorInv(w) ==
    /\ updWindow[w].status.gen <= updWindow[w].gen
    /\ \A t \in Tasks : updTask[w][t].gen <= updWindow[w].gen

UpdateInv ==
    /\ UpdateTyped /\ AckedSettingsKept
    /\ \A w \in CardWindows, t \in Tasks : RequestInv(w, t)
    /\ \A w \in CardWindows : MonitorInv(w)

LEMMA UpdateBounds ==
    /\ MaxClock \in Nat \ {0} /\ MaxRelease \in Nat \ {0}
    /\ MaxCardActions \in Nat /\ MaxUpdateFaults \in Nat
BY UpdateAssumption DEF UpdateAssumption

LEMMA UpdateStates ==
    /\ DefaultState \in StateType /\ NoFile \in StateType
    /\ NoFile.auto = DefaultState.auto /\ NoFile.snoozed = DefaultState.snoozed
    /\ updFile \in StateType => ReadState \in StateType
<1>1. DefaultState \in StateType
  BY UpdateBounds DEF DefaultState, StateType
<1>2. NoFile \in StateType
  BY <1>1, UpdateBounds DEF NoFile, StateType
<1>3. NoFile.auto = DefaultState.auto /\ NoFile.snoozed = DefaultState.snoozed
  BY DEF NoFile, DefaultState
<1> QED BY <1>1, <1>2, <1>3 DEF ReadState

LEMMA QueuedTask ==
    /\ NoTask \in TaskType /\ NoTask.pc = "none" /\ NoTask.gen = 0
    /\ [NoTask EXCEPT !.pc = "queued"] \in TaskType
    /\ [NoTask EXCEPT !.pc = "queued"].pc = "queued" /\ [NoTask EXCEPT !.pc = "queued"].gen = 0
<1>1. NoTask \in TaskType
  BY UpdateStates, UpdateBounds DEF NoTask, TaskType
<1>2. NoTask.pc = "none" /\ NoTask.gen = 0
  BY DEF NoTask
<1> QED BY <1>1, <1>2 DEF TaskType

LEMMA NewTask ==
    /\ \A f \in BOOLEAN, g \in Nat :
          [NoTask EXCEPT !.pc = "queued", !.kind = "check", !.force = f, !.gen = g] \in TaskType
    /\ \A a \in BOOLEAN, g \in Nat :
          [NoTask EXCEPT !.pc = "queued", !.kind = "check", !.auto = a, !.gen = g] \in TaskType
    /\ \A a \in BOOLEAN :
          [NoTask EXCEPT !.pc = "queued", !.kind = "save", !.auto = a] \in TaskType
    /\ \A v \in 0 .. MaxRelease :
          [NoTask EXCEPT !.pc = "queued", !.kind = "dismiss", !.version = v] \in TaskType
<1>1. NoTask \in TaskType
  BY QueuedTask
<1>2. ASSUME NEW f \in BOOLEAN, NEW g \in Nat
      PROVE  [NoTask EXCEPT !.pc = "queued", !.kind = "check", !.force = f, !.gen = g] \in TaskType
  BY <1>1 DEF TaskType
<1>3. ASSUME NEW a \in BOOLEAN, NEW g \in Nat
      PROVE  [NoTask EXCEPT !.pc = "queued", !.kind = "check", !.auto = a, !.gen = g] \in TaskType
  BY <1>1 DEF TaskType
<1>4. ASSUME NEW a \in BOOLEAN
      PROVE  [NoTask EXCEPT !.pc = "queued", !.kind = "save", !.auto = a] \in TaskType
  BY <1>1 DEF TaskType
<1>5. ASSUME NEW v \in 0 .. MaxRelease
      PROVE  [NoTask EXCEPT !.pc = "queued", !.kind = "dismiss", !.version = v] \in TaskType
  BY <1>1 DEF TaskType
<1> QED BY <1>2, <1>3, <1>4, <1>5

LEMMA SetDoes ==
    ASSUME UpdateTyped, NEW w \in CardWindows, NEW t \in Tasks, NEW task \in TaskType,
           Set(w, t, task)
    PROVE  /\ updTask' \in [CardWindows -> [Tasks -> TaskType]]
           /\ updTask'[w][t] = task
           /\ \A v \in CardWindows, u \in Tasks :
                 v # w \/ u # t => updTask'[v][u] = updTask[v][u]
BY DEF UpdateTyped, Set

(* A request that ends or begins away from the file leaves the rest alone.  *)
LEMMA RequestsKept ==
    ASSUME UpdateInv, NEW w \in CardWindows, NEW t \in Tasks, NEW task \in TaskType,
           Set(w, t, task), task.pc \notin {"fetch", "write", "place"},
           UNCHANGED <<updOverwrites, updFile, updLock, updAcked>>
    PROVE  /\ AckedSettingsKept'
           /\ \A v \in CardWindows, u \in Tasks : RequestInv(v, u)'
<1>1. AckedSettingsKept'
  BY DEF UpdateInv, AckedSettingsKept, ReadState
<1>2. ASSUME NEW v \in CardWindows, NEW u \in Tasks PROVE RequestInv(v, u)'
  <2>1. ReadState' = ReadState
    BY DEF ReadState
  <2>2. CASE v = w /\ u = t
    BY <2>1, <2>2, SetDoes DEF UpdateInv, RequestInv, Working
  <2>3. CASE v # w \/ u # t
    <3>1. updTask'[v][u] = updTask[v][u]
      BY <2>3, SetDoes DEF UpdateInv
    <3> QED BY <2>1, <3>1 DEF UpdateInv, RequestInv, Working
  <2> QED BY <2>2, <2>3
<1> QED BY <1>1, <1>2

(* A window that keeps its generation, or takes the next, and asks with it.  *)
LEMMA MonitorsKept ==
    ASSUME UpdateInv, NEW w \in CardWindows, NEW t \in Tasks, NEW task \in TaskType,
           Set(w, t, task), updWindow' \in [CardWindows -> MonitorType],
           \A v \in CardWindows : v # w => updWindow'[v] = updWindow[v],
           updWindow[w].gen <= updWindow'[w].gen, task.gen <= updWindow'[w].gen,
           updWindow'[w].status.gen <= updWindow'[w].gen
    PROVE  \A v \in CardWindows : MonitorInv(v)'
<1> SUFFICES ASSUME NEW v \in CardWindows PROVE MonitorInv(v)'
  OBVIOUS
<1>0. UpdateTyped /\ MonitorInv(v)
  BY DEF UpdateInv
<1>1. ASSUME NEW u \in Tasks PROVE updTask'[v][u].gen <= updWindow'[v].gen
  <2>1. CASE v = w /\ u = t
    BY <1>0, <2>1, SetDoes
  <2>2. CASE v # w
    BY <1>0, <2>2, SetDoes DEF MonitorInv
  <2>3. CASE v = w /\ u # t
    <3>1. updTask'[w][u] = updTask[w][u] /\ updTask[w][u].gen <= updWindow[w].gen
      BY <1>0, <2>3, SetDoes DEF MonitorInv
    <3>2. updTask[w][u].gen \in Nat /\ updWindow[w].gen \in Nat /\ updWindow'[w].gen \in Nat
      BY <1>0 DEF UpdateTyped, TaskType, MonitorType
    <3> QED BY <2>3, <3>1, <3>2
  <2> QED BY <2>1, <2>2, <2>3
<1>2. updWindow'[v].status.gen <= updWindow'[v].gen
  BY <1>0 DEF MonitorInv
<1> QED BY <1>1, <1>2 DEF MonitorInv

LEMMA UpdateInitSafe == UpdateInit => UpdateInv
<1> SUFFICES ASSUME UpdateInit PROVE UpdateInv
  OBVIOUS
<1>2. updTask \in [CardWindows -> [Tasks -> TaskType]]
  BY QueuedTask DEF UpdateInit
<1>3. NoAnswer \in AnswerType /\ NoAnswer.gen = 0
  BY UpdateBounds DEF NoAnswer, AnswerType
<1>4. updWindow \in [CardWindows -> MonitorType]
  BY <1>3, UpdateBounds DEF UpdateInit, MonitorType
<1>5. UpdateTyped
  <2>1. updAcked \in [auto : BOOLEAN, snoozed : 0 .. MaxRelease]
    BY UpdateBounds DEF UpdateInit
  <2>2. updClock \in 1 .. MaxClock /\ updFaults \in 0 .. MaxUpdateFaults
        /\ updActions \in 0 .. MaxCardActions
    BY UpdateBounds DEF UpdateInit
  <2>3. updFile \in StateType
    BY UpdateStates DEF UpdateInit
  <2> QED BY <1>2, <1>4, <2>1, <2>2, <2>3 DEF UpdateInit, UpdateTyped
<1>6. AckedSettingsKept
  BY DEF UpdateInit, AckedSettingsKept, ReadState, DefaultState
<1>7. ASSUME NEW w \in CardWindows, NEW t \in Tasks PROVE RequestInv(w, t) /\ updTask[w][t].gen = 0
  <2>1. updTask[w][t].pc \in {"none", "queued"} /\ updTask[w][t].gen = 0
    BY QueuedTask DEF UpdateInit
  <2> QED BY <2>1 DEF RequestInv, Working
<1>8. ASSUME NEW w \in CardWindows PROVE MonitorInv(w)
  BY <1>3, <1>7 DEF UpdateInit, MonitorInv
<1> QED BY <1>5, <1>6, <1>7, <1>8 DEF UpdateInv

LEMMA LoadSettingsSafe ==
    ASSUME UpdateInv, NEW w \in CardWindows, NEW t \in Tasks, LoadSettings(w, t)
    PROVE  UpdateInv'
<1> DEFINE task == [updTask[w][t] EXCEPT !.pc = "answered", !.state = ReadState]
<1>1. UpdateTyped
  BY DEF UpdateInv
<1>2. Set(w, t, task) /\ UNCHANGED <<updServer, updWindow, updActions>>
  BY DEF LoadSettings
<1>3. updTask[w][t] \in TaskType /\ ReadState \in StateType
  BY <1>1, UpdateStates DEF UpdateTyped
<1>4. task \in TaskType /\ task.pc = "answered" /\ task.gen = updTask[w][t].gen
  BY <1>3 DEF TaskType
<1> HIDE DEF task
<1>5. UpdateTyped'
  BY <1>1, <1>2, <1>4, SetDoes DEF UpdateTyped, updServer
<1>6. AckedSettingsKept' /\ \A v \in CardWindows, u \in Tasks : RequestInv(v, u)'
  BY <1>2, <1>4, RequestsKept DEF updServer
<1>7. MonitorInv(w) /\ updWindow[w].gen \in Nat
  BY <1>1 DEF UpdateInv, UpdateTyped, MonitorType
<1>8. \A v \in CardWindows : MonitorInv(v)'
  BY <1>1, <1>2, <1>4, <1>7, MonitorsKept DEF UpdateTyped, MonitorInv
<1> QED BY <1>5, <1>6, <1>8 DEF UpdateInv

(* The clock is read before the lock is asked for.                          *)
LEMMA ReadClockSafe ==
    ASSUME UpdateInv, NEW w \in CardWindows, NEW t \in Tasks, ReadClock(w, t)
    PROVE  UpdateInv'
<1> DEFINE task == [updTask[w][t] EXCEPT !.pc = "waiting", !.now = updClock]
<1>1. UpdateTyped
  BY DEF UpdateInv
<1>2. Set(w, t, task) /\ UNCHANGED <<updServer, updWindow, updActions>>
  BY DEF ReadClock
<1>3. updTask[w][t] \in TaskType /\ updClock \in 0 .. MaxClock
  BY <1>1, UpdateBounds DEF UpdateTyped
<1>4. task \in TaskType /\ task.pc = "waiting" /\ task.gen = updTask[w][t].gen
  BY <1>3 DEF TaskType
<1> HIDE DEF task
<1>5. UpdateTyped'
  BY <1>1, <1>2, <1>4, SetDoes DEF UpdateTyped, updServer
<1>6. AckedSettingsKept' /\ \A v \in CardWindows, u \in Tasks : RequestInv(v, u)'
  BY <1>2, <1>4, RequestsKept DEF updServer
<1>7. MonitorInv(w) /\ updWindow[w].gen \in Nat
  BY <1>1 DEF UpdateInv, UpdateTyped, MonitorType
<1>8. \A v \in CardWindows : MonitorInv(v)'
  BY <1>1, <1>2, <1>4, <1>7, MonitorsKept DEF UpdateTyped, MonitorInv
<1> QED BY <1>5, <1>6, <1>8 DEF UpdateInv

LEMMA LockedSafe ==
    ASSUME UpdateInv, NEW w \in CardWindows, NEW t \in Tasks, Locked(w, t)
    PROVE  UpdateInv'
<1> DEFINE old == updTask[w][t]
           idle == [old EXCEPT !.pc = "answered", !.state = ReadState]
           state == CASE old.kind = "save" -> [ReadState EXCEPT !.auto = old.auto]
                      [] old.kind = "dismiss" -> [ReadState EXCEPT !.snoozed = old.version]
                      [] OTHER -> ReadState
           pc == IF old.kind = "check" THEN "fetch" ELSE "write"
           begun == [old EXCEPT !.pc = pc, !.state = state]
<1>1. UpdateTyped
  BY DEF UpdateInv
<1>2. /\ UNCHANGED <<updOverwrites, updFile, updClock, updPublished, updAcked, updFaults,
                    updWindow, updActions>>
      /\ updLock = Free
  BY DEF Locked, LockFree
<1>3. old \in TaskType /\ ReadState \in StateType
  BY <1>1, UpdateStates DEF UpdateTyped
<1>4. MonitorInv(w) /\ updWindow[w].gen \in Nat
  BY <1>1 DEF UpdateInv, UpdateTyped, MonitorType
<1>5. CASE old.kind = "check" /\ ~Due(old, ReadState)
  <2>1. Set(w, t, idle) /\ UNCHANGED updLock
    BY <1>5 DEF Locked
  <2>2. idle \in TaskType /\ idle.pc = "answered" /\ idle.gen = old.gen
    BY <1>3 DEF TaskType
  <2> HIDE DEF idle
  <2>3. UpdateTyped'
    BY <1>1, <1>2, <2>1, <2>2, SetDoes DEF UpdateTyped
  <2>4. AckedSettingsKept' /\ \A v \in CardWindows, u \in Tasks : RequestInv(v, u)'
    BY <1>2, <2>1, <2>2, RequestsKept
  <2>5. \A v \in CardWindows : MonitorInv(v)'
    BY <1>1, <1>2, <2>1, <2>2, <1>4, MonitorsKept DEF UpdateTyped, MonitorInv
  <2> QED BY <2>3, <2>4, <2>5 DEF UpdateInv
<1>6. CASE ~(old.kind = "check" /\ ~Due(old, ReadState))
  <2>1. Set(w, t, begun) /\ updLock' = <<w, t>>
    BY <1>6 DEF Locked
  <2>2. /\ state \in StateType
        /\ state.auto = IF old.kind = "save" THEN old.auto ELSE ReadState.auto
        /\ state.snoozed = IF old.kind = "dismiss" THEN old.version ELSE ReadState.snoozed
        /\ old.kind = "check" => state = ReadState
    <3>1. old.auto \in BOOLEAN /\ old.version \in 0 .. MaxRelease
      BY <1>3 DEF TaskType
    <3>2. CASE old.kind = "save"
      BY <1>3, <3>1, <3>2 DEF StateType
    <3>3. CASE old.kind = "dismiss"
      BY <1>3, <3>1, <3>3 DEF StateType
    <3>4. CASE old.kind \notin {"save", "dismiss"}
      BY <1>3, <3>4
    <3> QED BY <3>2, <3>3, <3>4
  <2> HIDE DEF state
  <2>3. pc \in {"fetch", "write"}
    OBVIOUS
  <2>4. /\ begun \in TaskType /\ begun.pc = pc /\ begun.state = state /\ begun.kind = old.kind
        /\ begun.auto = old.auto /\ begun.version = old.version /\ begun.gen = old.gen
        /\ begun.force = old.force /\ begun.now = old.now
    BY <1>3, <2>2, <2>3 DEF TaskType
  <2> HIDE DEF begun
  <2>5. UpdateTyped'
    BY <1>1, <1>2, <2>1, <2>4, SetDoes DEF UpdateTyped
  <2>6. AckedSettingsKept' /\ ReadState' = ReadState
    BY <1>2 DEF UpdateInv, AckedSettingsKept, ReadState
  <2>7. ASSUME NEW v \in CardWindows, NEW u \in Tasks PROVE RequestInv(v, u)'
    <3>1. CASE v = w /\ u = t
      <4>1. updTask'[v][u] = begun
        BY <1>1, <2>1, <2>4, <3>1, SetDoes
      <4>2. updOverwrites => ReadState.auto = updAcked.auto /\ ReadState.snoozed = updAcked.snoozed
        BY DEF UpdateInv, AckedSettingsKept
      <4>3. begun.pc = "fetch" => old.kind = "check" /\ Due(old, ReadState)
        BY <1>6, <2>4
      <4>4. begun.pc = "fetch" => Due(begun, begun.state)
        BY <2>2, <2>4, <4>3 DEF Due
      <4>5. updTask'[v][u].pc = "fetch" => Due(updTask'[v][u], updTask'[v][u].state)
        BY <4>1, <4>4
      <4>6. Due(updTask[v][u], updTask[v][u].state)' <=> Due(updTask'[v][u], updTask'[v][u].state)
        BY DEF Due
      <4> QED BY <1>2, <2>1, <2>2, <2>4, <2>6, <3>1, <4>1, <4>2, <4>5, <4>6 DEF RequestInv, Working
    <3>2. CASE v # w \/ u # t
      <4>1. updTask'[v][u] = updTask[v][u]
        BY <1>1, <2>1, <2>4, <3>2, SetDoes
      <4>2. RequestInv(v, u) /\ ~Working(v, u)
        BY <1>2 DEF UpdateInv, RequestInv, Free
      <4> QED BY <4>1, <4>2 DEF RequestInv, Working
    <3> QED BY <3>1, <3>2
  <2>8. \A v \in CardWindows : MonitorInv(v)'
    BY <1>1, <1>2, <2>1, <2>4, <1>4, MonitorsKept DEF UpdateTyped, MonitorInv
  <2> QED BY <2>5, <2>6, <2>7, <2>8 DEF UpdateInv
<1> QED BY <1>5, <1>6

(* A step of the request that has the lock: no other request is at work.    *)
LEMMA OthersWait ==
    ASSUME UpdateInv, NEW w \in CardWindows, NEW t \in Tasks, Working(w, t),
           NEW v \in CardWindows, NEW u \in Tasks, v # w \/ u # t
    PROVE  ~Working(v, u)
<1>1. RequestInv(w, t) /\ RequestInv(v, u)
  BY DEF UpdateInv
<1> QED BY <1>1 DEF RequestInv

LEMMA WorkDone ==
    ASSUME UpdateInv, NEW w \in CardWindows, NEW t \in Tasks, Working(w, t),
           NEW task \in TaskType, Set(w, t, task), task.gen = updTask[w][t].gen,
           UNCHANGED <<updOverwrites, updClock, updPublished, updWindow, updActions>>,
           updFile' \in StateType, updLock' = Free \/ updLock' \in CardWindows \X Tasks,
           updAcked' \in [auto : BOOLEAN, snoozed : 0 .. MaxRelease],
           updFaults' \in 0 .. MaxUpdateFaults,
           AckedSettingsKept', RequestInv(w, t)'
    PROVE  UpdateInv'
<1>1. UpdateTyped
  BY DEF UpdateInv
<1>2. UpdateTyped'
  BY <1>1, SetDoes DEF UpdateTyped
<1>3. ASSUME NEW v \in CardWindows, NEW u \in Tasks, v # w \/ u # t PROVE RequestInv(v, u)'
  BY <1>1, <1>3, OthersWait, SetDoes DEF RequestInv, Working
<1>4. MonitorInv(w) /\ updWindow[w].gen \in Nat
  BY <1>1 DEF UpdateInv, UpdateTyped, MonitorType
<1>5. \A v \in CardWindows : MonitorInv(v)'
  BY <1>1, <1>4, MonitorsKept DEF UpdateTyped, MonitorInv
<1> QED BY <1>2, <1>3, <1>5 DEF UpdateInv

LEMMA FetchSafe ==
    ASSUME UpdateInv, NEW w \in CardWindows, NEW t \in Tasks, FetchRelease(w, t)
    PROVE  UpdateInv'
<1> DEFINE old == updTask[w][t]
           got == [old EXCEPT !.pc = "write", !.state.latest = updPublished,
                              !.state.last = old.now]
           none == [old EXCEPT !.pc = "answered", !.error = TRUE]
<1>1. UpdateTyped /\ RequestInv(w, t)
  BY DEF UpdateInv
<1>2. /\ UNCHANGED <<updOverwrites, updFile, updClock, updPublished, updAcked, updFaults,
                    updWindow, updActions>>
      /\ old.pc = "fetch" /\ Working(w, t)
  BY DEF FetchRelease, At, Working
<1>3. old \in TaskType /\ old.state \in StateType /\ old.kind = "check" /\ old.state = ReadState
  BY <1>1, <1>2 DEF UpdateTyped, TaskType, RequestInv
<1>4. AckedSettingsKept' /\ AckedSettingsKept
  BY <1>2 DEF UpdateInv, AckedSettingsKept, ReadState
<1>5. CASE Set(w, t, got) /\ UNCHANGED updLock
  <2>1. /\ got \in TaskType /\ got.gen = old.gen /\ got.pc = "write" /\ got.kind = "check"
        /\ got.state.auto = ReadState.auto /\ got.state.snoozed = ReadState.snoozed
    <3>1. updPublished \in 0 .. MaxRelease /\ old.now \in -1 .. MaxClock
      BY <1>1, <1>3, UpdateBounds DEF UpdateTyped, TaskType
    <3> DEFINE state == [old.state EXCEPT !.latest = updPublished, !.last = old.now]
    <3>2. /\ state \in StateType /\ state.auto = ReadState.auto
          /\ state.snoozed = ReadState.snoozed
      BY <1>3, <3>1 DEF StateType
    <3>3. got = [old EXCEPT !.pc = "write", !.state = state]
      BY <1>3 DEF TaskType, StateType
    <3> HIDE DEF state
    <3> QED BY <1>3, <3>2, <3>3 DEF TaskType
  <2> HIDE DEF got
  <2>2. updTask'[w][t] = got
    BY <1>1, <1>5, <2>1, SetDoes
  <2>3. RequestInv(w, t)'
    BY <1>1, <1>2, <1>4, <1>5, <2>1, <2>2 DEF RequestInv, Working, AckedSettingsKept
  <2> QED BY <1>1, <1>2, <1>4, <1>5, <2>1, <2>3, WorkDone DEF UpdateTyped
<1>6. CASE Set(w, t, none) /\ updLock' = Free
  <2>1. none \in TaskType /\ none.gen = old.gen /\ none.pc = "answered"
    BY <1>3 DEF TaskType
  <2> HIDE DEF none
  <2>2. updTask'[w][t] = none
    BY <1>1, <1>6, <2>1, SetDoes
  <2>3. RequestInv(w, t)'
    BY <2>1, <2>2 DEF RequestInv, Working
  <2> QED BY <1>1, <1>2, <1>4, <1>6, <2>1, <2>3, WorkDone DEF UpdateTyped
<1> QED BY <1>5, <1>6 DEF FetchRelease

LEMMA WriteFailsSafe ==
    ASSUME UpdateInv, NEW w \in CardWindows, NEW t \in Tasks, Working(w, t), WriteFails(w, t),
           UNCHANGED <<updOverwrites, updFile, updClock, updPublished, updAcked, updWindow,
                       updActions>>
    PROVE  UpdateInv'
<1> DEFINE old == updTask[w][t]
           failed == [old EXCEPT !.pc = "answered", !.error = TRUE, !.failed = old.kind # "check"]
<1>1. UpdateTyped /\ AckedSettingsKept
  BY DEF UpdateInv
<1>2. Set(w, t, failed) /\ updLock' = Free /\ updFaults' \in 0 .. MaxUpdateFaults
  BY <1>1, UpdateBounds DEF WriteFails, UpdateFault, UpdateTyped
<1>3. old \in TaskType
  BY <1>1 DEF UpdateTyped
<1>4. failed \in TaskType /\ failed.gen = old.gen /\ failed.pc = "answered"
  BY <1>3 DEF TaskType
<1> HIDE DEF failed
<1>5. updTask'[w][t] = failed
  BY <1>1, <1>2, <1>4, SetDoes
<1>6. RequestInv(w, t)' /\ AckedSettingsKept'
  BY <1>1, <1>4, <1>5 DEF RequestInv, Working, AckedSettingsKept, ReadState
<1> QED BY <1>1, <1>2, <1>4, <1>6, WorkDone DEF UpdateTyped

LEMMA WriteSafe ==
    ASSUME UpdateInv, NEW w \in CardWindows, NEW t \in Tasks, WriteState(w, t)
    PROVE  UpdateInv'
<1> DEFINE old == updTask[w][t]
           new == [old EXCEPT !.pc = "place"]
<1>1. UpdateTyped /\ AckedSettingsKept /\ RequestInv(w, t)
  BY DEF UpdateInv
<1>2. /\ UNCHANGED <<updOverwrites, updClock, updPublished, updAcked, updWindow, updActions>>
      /\ old.pc = "write" /\ Working(w, t)
  BY DEF WriteState, At, Working
<1>3. CASE /\ Set(w, t, new) /\ updFile' = IF updOverwrites THEN updFile ELSE NoFile
           /\ UNCHANGED <<updLock, updFaults>>
  <2>1. old \in TaskType
    BY <1>1 DEF UpdateTyped
  <2>2. /\ new \in TaskType /\ new.gen = old.gen /\ new.pc = "place" /\ new.kind = old.kind
        /\ new.state = old.state /\ new.auto = old.auto /\ new.version = old.version
    BY <2>1 DEF TaskType
  <2> HIDE DEF new
  <2>3. updTask'[w][t] = new
    BY <1>1, <1>3, <2>2, SetDoes
  <2>4. RequestInv(w, t)' /\ AckedSettingsKept'
    BY <1>1, <1>2, <1>3, <2>2, <2>3 DEF RequestInv, Working, AckedSettingsKept, ReadState
  <2>5. updFile' \in StateType
    BY <1>1, <1>3, UpdateStates DEF UpdateTyped
  <2> QED BY <1>1, <1>2, <1>3, <2>2, <2>4, <2>5, WorkDone DEF UpdateTyped
<1>4. CASE WriteFails(w, t) /\ UNCHANGED updFile
  BY <1>2, <1>4, WriteFailsSafe
<1> QED BY <1>3, <1>4 DEF WriteState

LEMMA PlaceSafe ==
    ASSUME UpdateInv, NEW w \in CardWindows, NEW t \in Tasks, PlaceState(w, t)
    PROVE  UpdateInv'
<1> DEFINE old == updTask[w][t]
           new == [old EXCEPT !.pc = "answered"]
           acked == CASE old.kind = "save" -> [updAcked EXCEPT !.auto = old.auto]
                      [] old.kind = "dismiss" -> [updAcked EXCEPT !.snoozed = old.version]
                      [] OTHER -> updAcked
<1>1. UpdateTyped /\ AckedSettingsKept /\ RequestInv(w, t)
  BY DEF UpdateInv
<1>2. /\ UNCHANGED <<updOverwrites, updClock, updPublished, updWindow, updActions>>
      /\ old.pc = "place" /\ Working(w, t)
  BY DEF PlaceState, At, Working
<1>3. CASE /\ updFile' = old.state /\ updLock' = Free /\ updAcked' = acked
           /\ Set(w, t, new) /\ UNCHANGED updFaults
  <2>1. old \in TaskType /\ old.state \in StateType /\ old.auto \in BOOLEAN
        /\ old.version \in 0 .. MaxRelease
    BY <1>1 DEF UpdateTyped, TaskType
  <2>2. new \in TaskType /\ new.gen = old.gen /\ new.pc = "answered"
    BY <2>1 DEF TaskType
  <2>3. /\ acked \in [auto : BOOLEAN, snoozed : 0 .. MaxRelease]
        /\ acked.auto = IF old.kind = "save" THEN old.auto ELSE updAcked.auto
        /\ acked.snoozed = IF old.kind = "dismiss" THEN old.version ELSE updAcked.snoozed
    <3>0. updAcked \in [auto : BOOLEAN, snoozed : 0 .. MaxRelease]
      BY <1>1 DEF UpdateTyped
    <3>1. CASE old.kind = "save"
      BY <2>1, <3>0, <3>1
    <3>2. CASE old.kind = "dismiss"
      BY <2>1, <3>0, <3>2
    <3>3. CASE old.kind \notin {"save", "dismiss"}
      BY <3>0, <3>3
    <3> QED BY <3>1, <3>2, <3>3
  <2> HIDE DEF new, acked
  <2>4. updTask'[w][t] = new
    BY <1>1, <1>3, <2>2, SetDoes
  <2>5. RequestInv(w, t)'
    BY <2>2, <2>4 DEF RequestInv, Working
  <2>6. AckedSettingsKept'
    <3>1. ReadState'.auto = old.state.auto /\ ReadState'.snoozed = old.state.snoozed
      BY <1>3, UpdateStates DEF ReadState
    <3> QED BY <1>1, <1>2, <1>3, <2>3, <3>1 DEF AckedSettingsKept, RequestInv
  <2> QED BY <1>1, <1>2, <1>3, <2>1, <2>2, <2>3, <2>5, <2>6, WorkDone DEF UpdateTyped
<1>4. CASE WriteFails(w, t) /\ UNCHANGED <<updFile, updAcked>>
  BY <1>2, <1>4, WriteFailsSafe
<1> QED BY <1>3, <1>4 DEF PlaceState

LEMMA DiesSafe == ASSUME UpdateInv, ServerDies PROVE UpdateInv'
<1>1. UpdateTyped /\ AckedSettingsKept
  BY DEF UpdateInv
<1>2. /\ UNCHANGED <<updOverwrites, updFile, updClock, updPublished, updAcked, updWindow,
                    updActions>>
      /\ updLock' = Free /\ updFaults' \in 0 .. MaxUpdateFaults
  <2>1. updFaults < MaxUpdateFaults /\ updFaults' = updFaults + 1
    BY DEF ServerDies, UpdateFault
  <2>2. updFaults' \in 0 .. MaxUpdateFaults
    BY <1>1, <2>1, UpdateBounds DEF UpdateTyped
  <2> QED BY <2>2 DEF ServerDies
<1>3. ASSUME NEW w \in CardWindows, NEW t \in Tasks
      PROVE  /\ updTask'[w][t] \in TaskType /\ updTask'[w][t].gen = updTask[w][t].gen
             /\ updTask'[w][t].pc \in {"none", "answered"}
  <2>1. updTask[w][t] \in TaskType
    BY <1>1 DEF UpdateTyped
  <2>2. CASE updTask[w][t].pc \in {"queued", "waiting", "fetch", "write", "place"}
    <3>1. updTask'[w][t] = [updTask[w][t] EXCEPT !.pc = "answered", !.failed = TRUE]
      BY <2>2 DEF ServerDies
    <3> QED BY <2>1, <3>1 DEF TaskType
  <2>3. CASE updTask[w][t].pc \notin {"queued", "waiting", "fetch", "write", "place"}
    <3>1. updTask'[w][t] = updTask[w][t]
      BY <2>3 DEF ServerDies
    <3> QED BY <2>1, <2>3, <3>1 DEF TaskType
  <2> QED BY <2>2, <2>3
<1>4. updTask' \in [CardWindows -> [Tasks -> TaskType]]
  <2>1. ASSUME NEW w \in CardWindows
        PROVE  updTask'[w] = [t \in Tasks |-> updTask'[w][t]]
    BY DEF ServerDies
  <2> QED BY <1>3, <2>1 DEF ServerDies
<1>5. UpdateTyped'
  BY <1>1, <1>2, <1>4 DEF UpdateTyped
<1>6. AckedSettingsKept'
  BY <1>1, <1>2 DEF AckedSettingsKept, ReadState
<1>7. ASSUME NEW w \in CardWindows, NEW t \in Tasks PROVE RequestInv(w, t)'
  BY <1>3 DEF RequestInv, Working
<1>8. ASSUME NEW w \in CardWindows PROVE MonitorInv(w)'
  BY <1>2, <1>3 DEF UpdateInv, MonitorInv
<1> QED BY <1>5, <1>6, <1>7, <1>8 DEF UpdateInv

(* The windows.  A step of one that starts or ends a request keeps the rest.  *)
LEMMA MonitorMoves ==
    ASSUME UpdateInv, NEW w \in CardWindows, NEW t \in Tasks, NEW task \in TaskType,
           Set(w, t, task), task.pc \notin {"fetch", "write", "place"}, UNCHANGED updServer,
           NEW monitor \in MonitorType, updWindow' = [updWindow EXCEPT ![w] = monitor],
           updWindow[w].gen <= monitor.gen, task.gen <= monitor.gen,
           monitor.status.gen <= monitor.gen, updActions' \in 0 .. MaxCardActions
    PROVE  UpdateInv'
<1>1. UpdateTyped
  BY DEF UpdateInv
<1>2. updWindow' \in [CardWindows -> MonitorType] /\ updWindow'[w] = monitor
      /\ \A v \in CardWindows : v # w => updWindow'[v] = updWindow[v]
  BY <1>1 DEF UpdateTyped
<1>3. UpdateTyped'
  BY <1>1, <1>2, SetDoes DEF UpdateTyped, updServer
<1>4. \A v \in CardWindows : MonitorInv(v)'
  BY <1>2, MonitorsKept
<1> QED BY <1>3, <1>4, RequestsKept DEF UpdateInv, updServer

LEMMA MonitorIs ==
    ASSUME UpdateInv, NEW w \in CardWindows
    PROVE  /\ updWindow[w] \in MonitorType /\ updWindow[w].gen \in Nat
           /\ updWindow[w].status.gen <= updWindow[w].gen /\ updWindow[w].status.gen \in Nat
           /\ updActions \in 0 .. MaxCardActions
           /\ \A t \in Tasks : updTask[w][t] \in TaskType /\ updTask[w][t].gen \in Nat
                               /\ updTask[w][t].gen <= updWindow[w].gen
BY DEF UpdateInv, UpdateTyped, MonitorInv, MonitorType, AnswerType, TaskType

LEMMA AskSafe ==
    ASSUME UpdateInv, NEW w \in CardWindows, NEW t \in Tasks, NEW force \in BOOLEAN,
           NEW monitor \in MonitorType, Ask(w, t, force, monitor), UNCHANGED updServer,
           monitor.gen = updWindow[w].gen, monitor.status = updWindow[w].status,
           updActions' \in 0 .. MaxCardActions
    PROVE  UpdateInv'
<1> DEFINE task == [NoTask EXCEPT !.pc = "queued", !.kind = "check", !.force = force,
                                  !.gen = monitor.gen + 1]
           asking == [monitor EXCEPT !.busy = "check", !.gen = @ + 1]
<1>1. monitor.gen \in Nat /\ monitor.gen + 1 \in Nat
  BY DEF MonitorType
<1>2. task \in TaskType
  BY <1>1, NewTask
<1>3. task.pc = "queued" /\ task.gen = monitor.gen + 1
  BY DEF NoTask
<1>4. /\ asking \in MonitorType /\ asking.gen = monitor.gen + 1
      /\ asking.status = monitor.status
  BY <1>1 DEF MonitorType
<1>5. Set(w, t, task) /\ updWindow' = [updWindow EXCEPT ![w] = asking]
  BY DEF Ask
<1>6. updWindow[w].status.gen <= updWindow[w].gen /\ updWindow[w].status.gen \in Nat
  BY MonitorIs
<1> HIDE DEF task, asking
<1>7. asking.status.gen <= asking.gen /\ updWindow[w].gen <= asking.gen /\ task.gen <= asking.gen
  BY <1>1, <1>3, <1>4, <1>6
<1> QED BY <1>2, <1>3, <1>4, <1>5, <1>7, MonitorMoves

LEMMA LaunchSafe ==
    ASSUME UpdateInv, NEW w \in CardWindows, LaunchLoaded(w)
    PROVE  UpdateInv'
<1> DEFINE task == updTask[w]["launch"]
           monitor == [updWindow[w] EXCEPT !.ready = TRUE,
                          !.saved = IF task.failed THEN @ ELSE task.state.auto]
<1>1. "launch" \in Tasks
  BY DEF Tasks
<1>2. task.failed \in BOOLEAN /\ task.state.auto \in BOOLEAN
  <2>1. task \in TaskType
    BY <1>1, MonitorIs
  <2> QED BY <2>1 DEF TaskType, StateType
<1>3. /\ monitor \in MonitorType /\ monitor.gen = updWindow[w].gen
      /\ monitor.status = updWindow[w].status
  BY <1>2, MonitorIs DEF MonitorType
<1>4. Ask(w, "launch", FALSE, monitor) /\ UNCHANGED <<updServer, updActions>>
  BY DEF LaunchLoaded
<1> HIDE DEF monitor
<1> QED BY <1>1, <1>3, <1>4, MonitorIs, AskSafe

LEMMA CheckNowSafe ==
    ASSUME UpdateInv, NEW w \in CardWindows, NEW t \in Tasks, CheckNow(w, t)
    PROVE  UpdateInv'
<1>1. Ask(w, t, TRUE, updWindow[w]) /\ UNCHANGED updServer /\ updActions' \in 0 .. MaxCardActions
  <2>1. updActions < MaxCardActions /\ updActions' = updActions + 1
    BY DEF CheckNow
  <2>2. updActions' \in 0 .. MaxCardActions
    BY <2>1, MonitorIs, UpdateBounds
  <2> QED BY <2>2 DEF CheckNow
<1> QED BY <1>1, MonitorIs, AskSafe

LEMMA ActSafe ==
    ASSUME UpdateInv, NEW w \in CardWindows, NEW t \in Tasks, NEW task \in TaskType,
           NEW action \in {"toggle", "dismiss"}, Act(w, t, action, task), task.pc = "queued",
           task.gen = 0
    PROVE  UpdateInv'
<1> DEFINE monitor == [updWindow[w] EXCEPT !.busy = action]
<1>1. /\ updWindow' = [updWindow EXCEPT ![w] = monitor] /\ Set(w, t, task) /\ UNCHANGED updServer
      /\ updActions' \in 0 .. MaxCardActions
  BY MonitorIs, UpdateBounds DEF Act
<1>2. /\ monitor \in MonitorType /\ monitor.gen = updWindow[w].gen
      /\ monitor.status = updWindow[w].status
  BY MonitorIs DEF MonitorType
<1>3. updWindow[w].gen \in Nat /\ updWindow[w].status.gen <= updWindow[w].gen
  BY MonitorIs
<1> HIDE DEF monitor
<1>4. /\ monitor.status.gen <= monitor.gen /\ updWindow[w].gen <= monitor.gen
      /\ task.gen <= monitor.gen /\ task.pc \notin {"fetch", "write", "place"}
  BY <1>2, <1>3
<1> QED BY <1>1, <1>2, <1>4, MonitorMoves

LEMMA ToggleSafe ==
    ASSUME UpdateInv, NEW w \in CardWindows, NEW t \in Tasks, Toggle(w, t)
    PROVE  UpdateInv'
<1> DEFINE task == [NoTask EXCEPT !.pc = "queued", !.kind = "save", !.auto = ~updWindow[w].saved]
<1>1. task \in TaskType
  <2>1. (~updWindow[w].saved) \in BOOLEAN
    OBVIOUS
  <2> QED BY <2>1, NewTask
<1>2. task.pc = "queued" /\ task.gen = 0
  BY DEF NoTask
<1>3. Act(w, t, "toggle", task)
  BY DEF Toggle
<1> HIDE DEF task
<1> QED BY <1>1, <1>2, <1>3, ActSafe

LEMMA DismissSafe ==
    ASSUME UpdateInv, NEW w \in CardWindows, NEW t \in Tasks, Dismiss(w, t)
    PROVE  UpdateInv'
<1> DEFINE version == updWindow[w].status.latest
           task == [NoTask EXCEPT !.pc = "queued", !.kind = "dismiss", !.version = version]
<1>0. version \in 0 .. MaxRelease
  BY MonitorIs DEF MonitorType, AnswerType
<1> HIDE DEF version
<1>1. task \in TaskType
  BY <1>0, NewTask
<1>2. task.pc = "queued" /\ task.gen = 0
  BY DEF NoTask
<1>3. Act(w, t, "dismiss", task)
  BY DEF Dismiss, version
<1> HIDE DEF task
<1> QED BY <1>1, <1>2, <1>3, ActSafe

(* The answer of a check, of the generation that asked.                     *)
LEMMA AnswerIs ==
    ASSUME NEW gen \in Nat, NEW state \in StateType, NEW error \in BOOLEAN
    PROVE  [gen |-> gen, state |-> StatusFor(state, error).state,
            latest |-> StatusFor(state, error).latest,
            snoozed |-> StatusFor(state, error).snoozed] \in AnswerType
<1> DEFINE status == StatusFor(state, error)
<1>1. state.latest \in 0 .. MaxRelease
  BY DEF StateType
<1>2. /\ status.latest \in 0 .. MaxRelease
      /\ status.state \in {"idle", "available", "failed", "up_to_date"}
      /\ status.snoozed \in BOOLEAN
  BY <1>1 DEF StatusFor
<1> QED BY <1>2 DEF AnswerType

LEMMA CheckAnsweredSafe ==
    ASSUME UpdateInv, NEW w \in CardWindows, NEW t \in Tasks, CheckAnswered(w, t)
    PROVE  UpdateInv' /\ updWindow[w].status.gen <= updWindow'[w].status.gen
<1> DEFINE task == updTask[w][t]
           status == StatusFor(task.state, task.error)
           answer == [gen |-> task.gen, state |-> status.state, latest |-> status.latest,
                      snoozed |-> status.snoozed]
           news == answer.state = "available" /\ ~answer.snoozed
           late == [updWindow[w] EXCEPT !.busy = IF task.auto THEN "none" ELSE @]
           failed == [updWindow[w] EXCEPT !.error = TRUE, !.busy = "none"]
           fresh == [updWindow[w] EXCEPT !.error = FALSE, !.status = answer, !.busy = "none",
                        !.announced = IF news THEN answer.latest ELSE @]
           next == IF Superseded(w, task) THEN late ELSE IF task.failed THEN failed ELSE fresh
<1>1. Set(w, t, NoTask) /\ UNCHANGED <<updServer, updActions>>
      /\ updWindow' = [updWindow EXCEPT ![w] = next]
  <2>1. Set(w, t, NoTask) /\ UNCHANGED <<updServer, updActions>>
    BY DEF CheckAnswered
  <2>2. updWindow' = [updWindow EXCEPT ![w] = next]
    BY ZenonT(60) DEF CheckAnswered
  <2> QED BY <2>1, <2>2
<1>2. task.gen \in Nat /\ task.state \in StateType /\ task.error \in BOOLEAN
  <2>1. task \in TaskType
    BY MonitorIs
  <2> QED BY <2>1 DEF TaskType
<1>3. answer \in AnswerType /\ answer.gen = task.gen
  BY <1>2, AnswerIs
<1>4. /\ updWindow[w] \in MonitorType /\ updWindow[w].gen \in Nat
      /\ updWindow[w].status.gen <= updWindow[w].gen /\ updWindow[w].status.gen \in Nat
  BY MonitorIs
<1> HIDE DEF answer
<1>5. /\ late \in MonitorType /\ late.gen = updWindow[w].gen /\ late.status = updWindow[w].status
  BY <1>4 DEF MonitorType
<1>6. /\ failed \in MonitorType /\ failed.gen = updWindow[w].gen
      /\ failed.status = updWindow[w].status
  BY <1>4 DEF MonitorType
<1>7. fresh \in MonitorType /\ fresh.gen = updWindow[w].gen /\ fresh.status = answer
  <2>1. answer.latest \in 0 .. MaxRelease
    BY <1>3 DEF AnswerType
  <2> QED BY <1>3, <1>4, <2>1 DEF MonitorType
<1>8. ~Superseded(w, task) => task.gen = updWindow[w].gen
  BY DEF Superseded
<1> HIDE DEF late, failed, fresh
<1>9. /\ next \in MonitorType /\ next.gen = updWindow[w].gen
      /\ updWindow[w].status.gen <= next.status.gen /\ next.status.gen <= next.gen
  BY <1>3, <1>4, <1>5, <1>6, <1>7, <1>8
<1> HIDE DEF next
<1>10. updWindow'[w] = next
  BY <1>1 DEF UpdateInv, UpdateTyped
<1>11. NoTask \in TaskType /\ NoTask.pc = "none" /\ NoTask.gen = 0
  BY QueuedTask
<1>12. UpdateInv'
  <2>1. NoTask.pc \notin {"fetch", "write", "place"} /\ NoTask.gen <= next.gen
        /\ updWindow[w].gen <= next.gen /\ updActions' \in 0 .. MaxCardActions
    BY <1>1, <1>4, <1>9, <1>11, MonitorIs
  <2> QED BY <1>1, <1>9, <1>11, <2>1, MonitorMoves
<1> QED BY <1>9, <1>10, <1>12

LEMMA ToggleAnsweredSafe ==
    ASSUME UpdateInv, NEW w \in CardWindows, NEW t \in Tasks, ToggleAnswered(w, t)
    PROVE  UpdateInv' /\ updWindow'[w].status = updWindow[w].status
<1> DEFINE old == updTask[w][t]
           quiet == [updWindow[w] EXCEPT !.busy = "none",
                        !.saved = IF old.failed THEN @ ELSE FALSE]
           asking == [updWindow[w] EXCEPT !.saved = TRUE, !.busy = "check", !.gen = @ + 1]
           task == [NoTask EXCEPT !.pc = "queued", !.kind = "check", !.auto = TRUE,
                                  !.gen = updWindow[w].gen + 1]
<1>0. updWindow \in [CardWindows -> MonitorType]
  BY DEF UpdateInv, UpdateTyped
<1>1. UNCHANGED <<updServer, updActions>> /\ updActions' \in 0 .. MaxCardActions
  BY MonitorIs DEF ToggleAnswered
<1>2. /\ updWindow[w] \in MonitorType /\ updWindow[w].gen \in Nat
      /\ updWindow[w].status.gen <= updWindow[w].gen /\ updWindow[w].status.gen \in Nat
  BY MonitorIs
<1>3. CASE old.failed \/ ~old.auto
  <2>1. updWindow' = [updWindow EXCEPT ![w] = quiet] /\ Set(w, t, NoTask)
    BY <1>3 DEF ToggleAnswered
  <2>2. quiet \in MonitorType /\ quiet.gen = updWindow[w].gen /\ quiet.status = updWindow[w].status
    BY <1>2 DEF MonitorType
  <2> HIDE DEF quiet
  <2>3. NoTask \in TaskType /\ NoTask.pc \notin {"fetch", "write", "place"} /\ NoTask.gen = 0
    BY QueuedTask
  <2>4. quiet.status.gen <= quiet.gen /\ updWindow[w].gen <= quiet.gen /\ NoTask.gen <= quiet.gen
    BY <1>2, <2>2, <2>3
  <2>6. updWindow'[w].status = updWindow[w].status
    BY <1>0, <2>1, <2>2
  <2> QED BY <1>1, <2>1, <2>2, <2>3, <2>4, <2>6, MonitorMoves
<1>4. CASE ~(old.failed \/ ~old.auto)
  <2>1. updWindow' = [updWindow EXCEPT ![w] = asking] /\ Set(w, t, task)
    BY <1>4 DEF ToggleAnswered
  <2>0. updWindow[w].gen + 1 \in Nat
    BY <1>2
  <2>2. /\ asking \in MonitorType /\ asking.gen = updWindow[w].gen + 1
        /\ asking.status = updWindow[w].status
    BY <1>2, <2>0 DEF MonitorType
  <2>3. task \in TaskType
    BY <2>0, NewTask
  <2>4. task.pc = "queued" /\ task.gen = updWindow[w].gen + 1
    BY DEF NoTask
  <2> HIDE DEF asking, task
  <2>5. /\ asking.status.gen <= asking.gen /\ updWindow[w].gen <= asking.gen
        /\ task.gen <= asking.gen /\ task.pc \notin {"fetch", "write", "place"}
    BY <1>2, <2>2, <2>4
  <2>6. updWindow'[w].status = updWindow[w].status
    BY <1>0, <2>1, <2>2
  <2> QED BY <1>1, <2>1, <2>2, <2>3, <2>5, <2>6, MonitorMoves
<1> QED BY <1>3, <1>4

LEMMA DismissAnsweredSafe ==
    ASSUME UpdateInv, NEW w \in CardWindows, NEW t \in Tasks, DismissAnswered(w, t)
    PROVE  UpdateInv' /\ updWindow[w].status.gen <= updWindow'[w].status.gen
<1> DEFINE status == [updWindow[w].status EXCEPT !.snoozed = @ \/ ~updTask[w][t].failed]
           monitor == [updWindow[w] EXCEPT !.busy = "none", !.status = status]
<1>1. /\ UNCHANGED <<updServer, updActions>> /\ updActions' \in 0 .. MaxCardActions
      /\ Set(w, t, NoTask)
  BY MonitorIs DEF DismissAnswered
<1>2. /\ updWindow[w] \in MonitorType /\ updWindow[w].gen \in Nat
      /\ updWindow[w].status.gen <= updWindow[w].gen /\ updWindow[w].status.gen \in Nat
  BY MonitorIs
<1>3. updWindow[w].status \in AnswerType
  BY <1>2 DEF MonitorType
<1>4. status \in AnswerType /\ status.gen = updWindow[w].status.gen
  BY <1>3 DEF AnswerType
<1>5. updWindow' = [updWindow EXCEPT ![w] = monitor]
  BY <1>2, <1>3 DEF DismissAnswered, MonitorType, AnswerType
<1> HIDE DEF status
<1>6. monitor \in MonitorType /\ monitor.gen = updWindow[w].gen /\ monitor.status = status
  BY <1>2, <1>4 DEF MonitorType
<1> HIDE DEF monitor
<1>7. NoTask \in TaskType /\ NoTask.pc \notin {"fetch", "write", "place"} /\ NoTask.gen = 0
  BY QueuedTask
<1>8. monitor.status.gen <= monitor.gen /\ updWindow[w].gen <= monitor.gen
      /\ NoTask.gen <= monitor.gen
  BY <1>2, <1>4, <1>6, <1>7
<1>9. UpdateInv'
  BY <1>1, <1>5, <1>6, <1>7, <1>8, MonitorMoves
<1>10. updWindow'[w] = monitor
  BY <1>5 DEF UpdateInv, UpdateTyped
<1> QED BY <1>2, <1>4, <1>6, <1>9, <1>10

LEMMA WorldSafe ==
    ASSUME UpdateInv, UpdateTick \/ Publish \/ UNCHANGED updVars
    PROVE  UpdateInv'
<1>1. UNCHANGED <<updOverwrites, updFile, updLock, updTask, updWindow, updAcked, updActions>>
  BY DEF UpdateTick, Publish, updVars
<1>2. /\ updClock' \in 1 .. MaxClock /\ updPublished' \in 0 .. MaxRelease
      /\ updFaults' \in 0 .. MaxUpdateFaults
  BY UpdateBounds DEF UpdateInv, UpdateTyped, UpdateTick, Publish, updVars, UpdateFault
<1>3. UpdateTyped'
  BY <1>1, <1>2 DEF UpdateInv, UpdateTyped
<1>4. AckedSettingsKept' /\ \A w \in CardWindows : MonitorInv(w)'
  BY <1>1 DEF UpdateInv, AckedSettingsKept, ReadState, MonitorInv
<1>5. ASSUME NEW w \in CardWindows, NEW t \in Tasks PROVE RequestInv(w, t)'
  BY <1>1 DEF UpdateInv, RequestInv, Working, ReadState
<1> QED BY <1>3, <1>4, <1>5 DEF UpdateInv

LEMMA UpdateStep ==
    ASSUME UpdateInv, [UpdateNext]_updVars
    PROVE  UpdateInv'
<1>1. ASSUME NEW w \in CardWindows, LaunchLoaded(w) PROVE UpdateInv'
  BY <1>1, LaunchSafe
<1>2. ASSUME NEW w \in CardWindows, NEW t \in Tasks,
             \/ LoadSettings(w, t) \/ ReadClock(w, t) \/ Locked(w, t) \/ FetchRelease(w, t)
             \/ WriteState(w, t) \/ PlaceState(w, t) \/ CheckAnswered(w, t)
             \/ ToggleAnswered(w, t) \/ DismissAnswered(w, t)
      PROVE  UpdateInv'
  BY <1>2, LoadSettingsSafe, ReadClockSafe, LockedSafe, FetchSafe, WriteSafe, PlaceSafe, CheckAnsweredSafe,
     ToggleAnsweredSafe, DismissAnsweredSafe
<1>3. ASSUME NEW w \in CardWindows, NEW t \in CardActions,
             Toggle(w, t) \/ CheckNow(w, t) \/ Dismiss(w, t)
      PROVE  UpdateInv'
  BY <1>3, ToggleSafe, CheckNowSafe, DismissSafe DEF Tasks
<1> QED BY <1>1, <1>2, <1>3, DiesSafe, WorldSafe DEF UpdateNext

(* The invariant that carries the rest, for any number of windows, requests
   and deaths of the server.                                                 *)
THEOREM UpdateSafe == UpdateSpec => []UpdateInv
<1>1. UpdateInv /\ [UpdateNext]_updVars => UpdateInv'
  BY UpdateStep
<1> QED BY UpdateInitSafe, <1>1, PTL DEF UpdateSpec

(* The stored settings, the requests and the cards keep their types.         *)
THEOREM UpdateIsTyped == UpdateSpec => []UpdateTypeOK
<1>1. UpdateInv => UpdateTypeOK
  <2> SUFFICES ASSUME UpdateInv PROVE UpdateTypeOK
    OBVIOUS
  <2>1. ASSUME NEW w \in CardWindows, NEW t \in Tasks
        PROVE  /\ updTask[w][t].pc \in {"none", "queued", "waiting", "fetch", "write", "place",
                                         "answered"}
               /\ updTask[w][t].kind \in {"load", "check", "save", "dismiss"}
               /\ updTask[w][t].now \in 0 .. MaxClock
               /\ updTask[w][t].gen \in 0 .. updWindow[w].gen
    <3>1. updTask[w][t] \in TaskType /\ updTask[w][t].gen <= updWindow[w].gen
          /\ updWindow[w].gen \in Nat
      BY MonitorIs
    <3> QED BY <3>1 DEF TaskType
  <2>2. ASSUME NEW w \in CardWindows
        PROVE  updWindow[w].busy \in {"none", "check", "toggle", "dismiss"}
    BY MonitorIs DEF MonitorType
  <2> QED BY <2>1, <2>2 DEF UpdateInv, UpdateTyped, UpdateTypeOK, StateType
<1> QED BY <1>1, UpdateSafe, PTL

(* What a request was answered Ok for is in the file, where a rename replaces
   it: no request that read the file earlier writes over it (update.rs:223).  *)
THEOREM UpdateAckedKept == UpdateSpec => []AckedSettingsKept
<1>1. UpdateInv => AckedSettingsKept
  BY DEF UpdateInv
<1> QED BY <1>1, UpdateSafe, PTL

(* GitHub is asked without a click only while the stored switch is on and the
   last answered check is an interval older than the time this one began, or
   later than it, whatever other requests change (update.rs:223, :238).       *)
THEOREM UpdateFetchAllowed == UpdateSpec => []AutoFetchIsAllowed
<1>1. UpdateInv => AutoFetchIsAllowed
  <2> SUFFICES ASSUME UpdateInv, NEW w \in CardWindows, NEW t \in Tasks,
                      updTask[w][t].pc = "fetch", ~updTask[w][t].force
               PROVE  ReadState.auto /\ ShouldCheck(updTask[w][t].now, ReadState.last)
    BY DEF AutoFetchIsAllowed, At
  <2>1. Due(updTask[w][t], updTask[w][t].state) /\ updTask[w][t].state = ReadState
    BY DEF UpdateInv, RequestInv
  <2> QED BY <2>1 DEF Due
<1> QED BY <1>1, UpdateSafe, PTL

(* A card never replaces what it shows by the answer of an older request.    *)
THEOREM UpdateNeverRegresses == UpdateSpec => AnswersNeverRegress
<1>1. UpdateInv /\ [UpdateNext]_updVars
        => [\A w \in CardWindows : updWindow[w].status.gen <= updWindow'[w].status.gen]_updVars
  <2> SUFFICES ASSUME UpdateInv, UpdateNext, NEW v \in CardWindows
               PROVE  updWindow[v].status.gen <= updWindow'[v].status.gen
    OBVIOUS
  <2>0. updWindow[v] \in MonitorType /\ updWindow[v].status.gen \in Nat
        /\ updWindow \in [CardWindows -> MonitorType]
    BY MonitorIs DEF UpdateInv, UpdateTyped
  <2>1. ASSUME NEW w \in CardWindows, NEW t \in Tasks,
               CheckAnswered(w, t) \/ DismissAnswered(w, t)
        PROVE  updWindow[v].status.gen <= updWindow'[v].status.gen
    <3>1. CASE v = w
      BY <2>1, <3>1, CheckAnsweredSafe, DismissAnsweredSafe
    <3>2. CASE v # w
      <4>1. updWindow'[v] = updWindow[v]
        BY <2>0, <2>1, <3>2 DEF CheckAnswered, DismissAnswered
      <4> QED BY <2>0, <4>1
    <3> QED BY <3>1, <3>2
  <2>2. ASSUME NEW w \in CardWindows,
               \/ LaunchLoaded(w)
               \/ \E t \in Tasks : ToggleAnswered(w, t)
               \/ \E t \in CardActions : Toggle(w, t) \/ CheckNow(w, t) \/ Dismiss(w, t)
        PROVE  updWindow'[v].status = updWindow[v].status
    <3>1. CASE LaunchLoaded(w)
      BY <2>0, <3>1 DEF LaunchLoaded, Ask, MonitorType
    <3>2. ASSUME NEW t \in Tasks, ToggleAnswered(w, t)
          PROVE  updWindow'[v].status = updWindow[v].status
      <4>1. CASE v # w
        BY <2>0, <3>2, <4>1 DEF ToggleAnswered
      <4>2. CASE v = w
        BY <3>2, <4>2, ToggleAnsweredSafe
      <4> QED BY <4>1, <4>2
    <3>3. ASSUME NEW t \in CardActions, CheckNow(w, t)
          PROVE  updWindow'[v].status = updWindow[v].status
      BY <2>0, <3>3 DEF CheckNow, Ask, MonitorType
    <3>4. ASSUME NEW t \in CardActions, Toggle(w, t) \/ Dismiss(w, t)
          PROVE  updWindow'[v].status = updWindow[v].status
      BY <2>0, <3>4 DEF Toggle, Dismiss, Act, MonitorType
    <3> QED BY <2>2, <3>1, <3>2, <3>3, <3>4
  <2>3. ASSUME NEW w \in CardWindows, NEW t \in Tasks,
               \/ LoadSettings(w, t) \/ ReadClock(w, t) \/ Locked(w, t) \/ FetchRelease(w, t)
               \/ WriteState(w, t) \/ PlaceState(w, t)
        PROVE  updWindow' = updWindow
    BY <2>3 DEF LoadSettings, ReadClock, Locked, FetchRelease, WriteState, PlaceState
  <2>4. ServerDies \/ UpdateTick \/ Publish => updWindow' = updWindow
    BY DEF ServerDies, UpdateTick, Publish
  <2> QED BY <2>0, <2>1, <2>2, <2>3, <2>4 DEF UpdateNext
<1> QED BY <1>1, UpdateSafe, PTL DEF UpdateSpec, AnswersNeverRegress

-----------------------------------------------------------------------------
(* The sync card.                                                            *)
TargetType == [content : SUBSET Edits, rev : 0..MaxUploads,
               by : {"none", "other", "safe", "forced"}]
DeviceType == [file : SUBSET Edits, base : 0..MaxUploads]
SyncWinType == [content : SUBSET Edits, unsaved : BOOLEAN, page : BOOLEAN, conflict : BOOLEAN]
SyncTaskType == [stage : {"none", "fetched", "saved", "committed"},
                 content : SUBSET Edits, rev : 0..MaxUploads]

(* One window, whose tasks are not cut off: a baseline that names the target's
   revision stands for content the window has seen, or is about to be shown.  *)
SeenInv(w) ==
    LET task == syncTask[w] IN
    /\ target.rev = 0 => target.content = {}
    /\ device.base <= target.rev
    /\ task.stage # "none" => /\ device.base <= task.rev /\ task.rev <= target.rev
                              /\ task.rev = target.rev => task.content = target.content
    /\ device.base = target.rev =>
          target.content \cap OtherEdits \subseteq
             IF task.stage = "committed" THEN task.content ELSE syncWin[w].content
    /\ task.stage \in {"none", "fetched"} /\ ~syncWin[w].unsaved
          => device.file = syncWin[w].content

LEMMA SessionBounds == MaxReloads \in Nat /\ MaxUploads \in Nat
BY SessionAssumption DEF SessionAssumption

LEMMA SessionTypeIs ==
    /\ SessionTypeOK <=>
        /\ target \in TargetType /\ device \in DeviceType
        /\ syncWin \in [SyncWindows -> SyncWinType] /\ syncTask \in [SyncWindows -> SyncTaskType]
        /\ reloads \in 0..MaxReloads
    /\ NoSyncTask \in SyncTaskType /\ NoSyncTask.stage = "none"
BY SessionBounds
   DEF SessionTypeOK, TargetType, DeviceType, SyncWinType, SyncTaskType, NoSyncTask

(* What a step leaves of the window it is about, and of the others.         *)
LEMMA SessionMoves ==
    ASSUME SessionTypeOK, NEW w \in SyncWindows, NEW win \in SyncWinType,
           NEW task \in SyncTaskType,
           syncWin' = [syncWin EXCEPT ![w] = win], syncTask' = [syncTask EXCEPT ![w] = task],
           target' \in TargetType, device' \in DeviceType, reloads' \in 0..MaxReloads
    PROVE  SessionTypeOK' /\ syncWin'[w] = win /\ syncTask'[w] = task
<1>1. syncWin \in [SyncWindows -> SyncWinType] /\ syncTask \in [SyncWindows -> SyncTaskType]
  BY SessionTypeIs
<1> QED BY <1>1 DEF SessionTypeOK, TargetType, DeviceType, SyncWinType, SyncTaskType

Kept(w) == SyncWindows = {w} /\ ~Interrupts /\ SeenInv(w) => SeenInv(w)'

LEMMA WindowIs ==
    ASSUME SessionTypeOK, NEW w \in SyncWindows
    PROVE  /\ syncWin[w] \in SyncWinType /\ syncTask[w] \in SyncTaskType
           /\ syncWin = [syncWin EXCEPT ![w] = @] /\ syncTask = [syncTask EXCEPT ![w] = @]
           /\ target \in TargetType /\ device \in DeviceType /\ reloads \in 0..MaxReloads
<1>1. syncWin \in [SyncWindows -> SyncWinType] /\ syncTask \in [SyncWindows -> SyncTaskType]
  BY SessionTypeIs
<1> QED BY <1>1, SessionTypeIs

LEMMA OtherEditsKept ==
    ASSUME SessionTypeOK, NEW e \in OtherEdits, OtherDeviceEdits(e)
    PROVE  SessionTypeOK' /\ \A w \in SyncWindows : Kept(w)
<1>1. target' = [content |-> target.content \cup {e}, rev |-> target.rev + 1, by |-> "other"]
      /\ target.rev < MaxUploads /\ UNCHANGED <<device, syncWin, syncTask, reloads>>
  BY DEF OtherDeviceEdits, Write
<1>2. target \in TargetType /\ target.rev \in 0..MaxUploads /\ target.content \in SUBSET Edits
  BY SessionTypeIs DEF TargetType
<1>3. target' \in TargetType
  <2>1. target.content \cup {e} \in SUBSET Edits
    BY <1>2 DEF Edits
  <2>2. target.rev + 1 \in 0..MaxUploads
    BY <1>1, <1>2, SessionBounds
  <2> QED BY <1>1, <2>1, <2>2 DEF TargetType
<1>4. SessionTypeOK'
  BY <1>1, <1>3 DEF SessionTypeOK, TargetType
<1>5. ASSUME NEW w \in SyncWindows, SeenInv(w) PROVE SeenInv(w)'
  <2>1. target'.rev = target.rev + 1 /\ target'.rev > target.rev
    BY <1>1, <1>2
  <2>2. device.base \in Nat /\ syncTask[w].rev \in Nat
    BY WindowIs DEF DeviceType, SyncTaskType
  <2> QED BY <1>1, <1>2, <1>5, <2>1, <2>2 DEF SeenInv
<1> QED BY <1>4, <1>5 DEF Kept

(* Steps that leave the target, the baseline and the task alone.            *)
LEMMA ShowsKept ==
    ASSUME SessionTypeOK, NEW w \in SyncWindows,
           \/ \E e \in LocalEdits : Edit(w, e)
           \/ Autosave(w) \/ OpenPage(w) \/ SafePushRefused(w)
    PROVE  SessionTypeOK' /\ Kept(w)
<1> DEFINE win == syncWin[w]
<1>1. win \in SyncWinType /\ syncTask[w] \in SyncTaskType /\ device \in DeviceType
      /\ target \in TargetType /\ reloads \in 0..MaxReloads
  BY WindowIs
<1>2. syncTask' = [syncTask EXCEPT ![w] = syncTask[w]] /\ UNCHANGED <<target, syncTask, reloads>>
      /\ device'.base = device.base
  BY <1>1, WindowIs DEF Edit, Autosave, OpenPage, SafePushRefused, DeviceType
<1>3. ASSUME NEW e \in LocalEdits, Edit(w, e) PROVE SessionTypeOK' /\ Kept(w)
  <2> DEFINE next == [win EXCEPT !.content = @ \cup {e}, !.unsaved = TRUE]
  <2>1. syncWin' = [syncWin EXCEPT ![w] = next] /\ UNCHANGED device
    BY <1>3 DEF Edit
  <2>2. next \in SyncWinType /\ win.content \subseteq next.content /\ next.unsaved
    <3>1. win.content \cup {e} \in SUBSET Edits
      BY <1>1 DEF SyncWinType, Edits
    <3> QED BY <1>1, <3>1 DEF SyncWinType
  <2> HIDE DEF next
  <2>3. SessionTypeOK' /\ syncWin'[w] = next
    BY <1>1, <1>2, <2>1, <2>2, SessionMoves
  <2> QED BY <1>2, <2>1, <2>2, <2>3 DEF Kept, SeenInv
<1>4. ASSUME Autosave(w) PROVE SessionTypeOK' /\ Kept(w)
  <2> DEFINE next == [win EXCEPT !.unsaved = FALSE]
  <2>1. syncWin' = [syncWin EXCEPT ![w] = next] /\ device' = [device EXCEPT !.file = win.content]
    BY <1>4 DEF Autosave
  <2>2. next \in SyncWinType /\ win.content = next.content /\ win.content \in SUBSET Edits
    BY <1>1 DEF SyncWinType
  <2>3. device' \in DeviceType /\ device'.file = win.content
    BY <1>1, <2>1, <2>2 DEF DeviceType
  <2> HIDE DEF next
  <2>4. SessionTypeOK' /\ syncWin'[w] = next
    BY <1>1, <1>2, <2>1, <2>2, <2>3, SessionMoves
  <2> QED BY <1>2, <2>2, <2>3, <2>4 DEF Kept, SeenInv
<1>5. ASSUME OpenPage(w) \/ SafePushRefused(w) PROVE SessionTypeOK' /\ Kept(w)
  <2>1. PICK next \in SyncWinType : /\ syncWin' = [syncWin EXCEPT ![w] = next]
                                    /\ next.content = win.content /\ next.unsaved = win.unsaved
    <3>1. CASE OpenPage(w)
      <4> DEFINE next == [win EXCEPT !.page = TRUE, !.conflict = FALSE]
      <4>1. syncWin' = [syncWin EXCEPT ![w] = next]
        BY <3>1 DEF OpenPage
      <4>2. next \in SyncWinType /\ next.content = win.content /\ next.unsaved = win.unsaved
        BY <1>1 DEF SyncWinType
      <4> QED BY <4>1, <4>2
    <3>2. CASE SafePushRefused(w)
      <4> DEFINE next == [win EXCEPT !.conflict = TRUE]
      <4>1. syncWin' = [syncWin EXCEPT ![w] = next]
        BY <3>2 DEF SafePushRefused
      <4>2. next \in SyncWinType /\ next.content = win.content /\ next.unsaved = win.unsaved
        BY <1>1 DEF SyncWinType
      <4> QED BY <4>1, <4>2
    <3> QED BY <1>5, <3>1, <3>2
  <2>2. UNCHANGED device
    BY <1>5 DEF OpenPage, SafePushRefused
  <2>3. SessionTypeOK' /\ syncWin'[w] = next
    BY <1>1, <1>2, <2>1, <2>2, SessionMoves
  <2> QED BY <1>2, <2>1, <2>2, <2>3 DEF Kept, SeenInv
<1> QED BY <1>3, <1>4, <1>5

LEMMA LeaveKept ==
    ASSUME SessionTypeOK, NEW w \in SyncWindows, LeavePage(w)
    PROVE  SessionTypeOK' /\ Kept(w)
<1> DEFINE next == [syncWin[w] EXCEPT !.page = FALSE]
<1>1. syncWin[w] \in SyncWinType /\ syncTask[w] \in SyncTaskType /\ device \in DeviceType
      /\ target \in TargetType /\ reloads \in 0..MaxReloads
  BY WindowIs
<1>2. /\ syncWin' = [syncWin EXCEPT ![w] = next] /\ UNCHANGED <<target, device, reloads>>
      /\ syncTask' = [syncTask EXCEPT ![w] = NoSyncTask]
      /\ Interrupts \/ syncTask[w] = NoSyncTask
  BY DEF LeavePage
<1>3. next \in SyncWinType /\ next.content = syncWin[w].content
      /\ next.unsaved = syncWin[w].unsaved
  BY <1>1 DEF SyncWinType
<1> HIDE DEF next
<1>4. SessionTypeOK' /\ syncWin'[w] = next /\ syncTask'[w] = NoSyncTask
  BY <1>1, <1>2, <1>3, SessionTypeIs, SessionMoves
<1> QED BY <1>2, <1>3, <1>4 DEF Kept, SeenInv

LEMMA ReloadKept ==
    ASSUME SessionTypeOK, NEW w \in SyncWindows, Reload(w)
    PROVE  SessionTypeOK' /\ Kept(w)
<1> DEFINE next == [content |-> device.file, unsaved |-> FALSE, page |-> FALSE,
                    conflict |-> FALSE]
<1>1. syncWin[w] \in SyncWinType /\ syncTask[w] \in SyncTaskType /\ device \in DeviceType
      /\ target \in TargetType /\ reloads \in 0..MaxReloads
  BY WindowIs
<1>2. /\ syncWin' = [syncWin EXCEPT ![w] = next] /\ UNCHANGED <<target, device>>
      /\ syncTask' = [syncTask EXCEPT ![w] = NoSyncTask] /\ reloads' \in 0..MaxReloads
      /\ Interrupts \/ (syncTask[w] = NoSyncTask /\ ~syncWin[w].unsaved)
  BY <1>1, SessionBounds DEF Reload
<1>3. next \in SyncWinType /\ next.content = device.file
  BY <1>1 DEF SyncWinType, DeviceType
<1> HIDE DEF next
<1>4. SessionTypeOK' /\ syncWin'[w] = next /\ syncTask'[w] = NoSyncTask
  BY <1>1, <1>2, <1>3, SessionTypeIs, SessionMoves
<1> QED BY <1>2, <1>3, <1>4, SessionTypeIs DEF Kept, SeenInv

LEMMA PullKept ==
    ASSUME SessionTypeOK, NEW w \in SyncWindows,
           PullFetch(w) \/ CommitProfile(w) \/ CommitBaseline(w) \/ PullFails(w)
    PROVE  SessionTypeOK' /\ Kept(w)
<1> DEFINE task == syncTask[w]
<1>1. syncWin[w] \in SyncWinType /\ task \in SyncTaskType /\ device \in DeviceType
      /\ target \in TargetType /\ reloads \in 0..MaxReloads
  BY WindowIs
<1>2. UNCHANGED <<target, syncWin, reloads>>
  BY DEF PullFetch, CommitProfile, CommitBaseline, PullFails
<1>8. /\ syncWin' = [syncWin EXCEPT ![w] = syncWin[w]]
      /\ target' \in TargetType /\ reloads' \in 0..MaxReloads
  BY <1>1, <1>2, WindowIs
<1>3. task.rev \in Nat /\ target.rev \in Nat /\ device.base \in Nat /\ device'.base \in Nat
      /\ task.rev \in 0..MaxUploads /\ task.content \in SUBSET Edits
  BY <1>1 DEF SyncTaskType, TargetType, DeviceType,
              PullFetch, CommitProfile, CommitBaseline, PullFails
<1>4. ASSUME PullFetch(w) PROVE SessionTypeOK' /\ Kept(w)
  <2> DEFINE next == [stage |-> "fetched", content |-> target.content, rev |-> target.rev]
  <2>1. syncTask' = [syncTask EXCEPT ![w] = next] /\ UNCHANGED device /\ task = NoSyncTask
    BY <1>4 DEF PullFetch, SyncIdle
  <2>2. next \in SyncTaskType /\ next.stage = "fetched" /\ next.rev = target.rev
        /\ next.content = target.content
    BY <1>1 DEF SyncTaskType, TargetType
  <2> HIDE DEF next
  <2>3. SessionTypeOK' /\ syncTask'[w] = next
    BY <1>1, <1>8, <2>1, <2>2, SessionMoves
  <2> QED BY <1>2, <1>3, <2>1, <2>2, <2>3, SessionTypeIs DEF Kept, SeenInv
<1>5. ASSUME CommitProfile(w) PROVE SessionTypeOK' /\ Kept(w)
  <2> DEFINE next == [task EXCEPT !.stage = "saved"]
  <2>1. /\ syncTask' = [syncTask EXCEPT ![w] = next] /\ task.stage = "fetched"
        /\ device' = [device EXCEPT !.file = task.content]
    BY <1>5 DEF CommitProfile
  <2>2. next \in SyncTaskType /\ next.stage = "saved" /\ next.rev = task.rev
        /\ next.content = task.content
    BY <1>1 DEF SyncTaskType
  <2>3. device' \in DeviceType /\ device'.base = device.base
    BY <1>1, <1>3, <2>1 DEF DeviceType
  <2> HIDE DEF next
  <2>4. SessionTypeOK' /\ syncTask'[w] = next
    BY <1>1, <1>8, <2>1, <2>2, <2>3, SessionMoves
  <2> QED BY <1>2, <1>3, <2>1, <2>2, <2>3, <2>4 DEF Kept, SeenInv
<1>6. ASSUME CommitBaseline(w) PROVE SessionTypeOK' /\ Kept(w)
  <2> DEFINE next == [task EXCEPT !.stage = "committed"]
  <2>1. /\ syncTask' = [syncTask EXCEPT ![w] = next] /\ task.stage = "saved"
        /\ device' \in {device, [device EXCEPT !.base = task.rev]}
    BY <1>6 DEF CommitBaseline
  <2>2. next \in SyncTaskType /\ next.stage = "committed" /\ next.rev = task.rev
        /\ next.content = task.content
    BY <1>1 DEF SyncTaskType
  <2>3. device' \in DeviceType /\ device'.base \in {device.base, task.rev}
    BY <1>1, <1>3, <2>1 DEF DeviceType
  <2> HIDE DEF next
  <2>4. SessionTypeOK' /\ syncTask'[w] = next
    BY <1>1, <1>8, <2>1, <2>2, <2>3, SessionMoves
  <2> QED BY <1>2, <1>3, <2>1, <2>2, <2>3, <2>4 DEF Kept, SeenInv
<1>7. ASSUME PullFails(w) PROVE SessionTypeOK' /\ Kept(w)
  <2>1. /\ syncTask' = [syncTask EXCEPT ![w] = NoSyncTask] /\ UNCHANGED device
        /\ ~Interrupts => task.stage = "fetched"
    BY <1>7 DEF PullFails
  <2>2. SessionTypeOK' /\ syncTask'[w] = NoSyncTask
    BY <1>1, <1>8, <2>1, SessionTypeIs, SessionMoves
  <2> QED BY <1>2, <1>3, <2>1, <2>2, SessionTypeIs DEF Kept, SeenInv
<1> QED BY <1>4, <1>5, <1>6, <1>7

LEMMA ApplyKept ==
    ASSUME SessionTypeOK, NEW w \in SyncWindows, Apply(w)
    PROVE  SessionTypeOK' /\ Kept(w)
<1> DEFINE task == syncTask[w]
           next == [syncWin[w] EXCEPT !.content = task.content, !.unsaved = TRUE,
                                      !.conflict = FALSE]
<1>1. syncWin[w] \in SyncWinType /\ task \in SyncTaskType /\ device \in DeviceType
      /\ target \in TargetType /\ reloads \in 0..MaxReloads
  BY WindowIs
<1>2. /\ syncWin' = [syncWin EXCEPT ![w] = next] /\ UNCHANGED <<target, device, reloads>>
      /\ syncTask' = [syncTask EXCEPT ![w] = NoSyncTask] /\ task.stage = "committed"
  BY DEF Apply
<1>3. next \in SyncWinType /\ next.content = task.content /\ next.unsaved
  <2>1. task.content \in SUBSET Edits
    BY <1>1 DEF SyncTaskType
  <2> QED BY <1>1, <2>1 DEF SyncWinType
<1> HIDE DEF next
<1>4. SessionTypeOK' /\ syncWin'[w] = next /\ syncTask'[w] = NoSyncTask
  BY <1>1, <1>2, <1>3, SessionTypeIs, SessionMoves
<1> QED BY <1>2, <1>3, <1>4, SessionTypeIs DEF Kept, SeenInv

LEMMA PushKept ==
    ASSUME SessionTypeOK, NEW w \in SyncWindows, SafePush(w) \/ ForcePush(w)
    PROVE  SessionTypeOK' /\ Kept(w)
<1> DEFINE next == [syncWin[w] EXCEPT !.conflict = FALSE]
           rev == target.rev + 1
<1>1. syncWin[w] \in SyncWinType /\ syncTask[w] \in SyncTaskType /\ device \in DeviceType
      /\ target \in TargetType /\ reloads \in 0..MaxReloads
  BY WindowIs
<1>2. PICK by \in {"safe", "forced"} : Upload(w, by)
  BY DEF SafePush, ForcePush
<1>3. /\ target' = [content |-> syncWin[w].content, rev |-> rev, by |-> by]
      /\ target.rev < MaxUploads /\ device' = [device EXCEPT !.base = target'.rev]
      /\ syncWin' = [syncWin EXCEPT ![w] = next]
      /\ syncTask' = [syncTask EXCEPT ![w] = syncTask[w]] /\ UNCHANGED <<syncTask, reloads>>
  BY <1>2, WindowIs DEF Upload, Write
<1>4. syncTask[w] = NoSyncTask
  BY DEF SafePush, ForcePush, SyncIdle
<1>5. rev \in 0..MaxUploads /\ rev > 0 /\ syncWin[w].content \in SUBSET Edits
  BY <1>1, <1>3, SessionBounds DEF TargetType, SyncWinType
<1>6. next \in SyncWinType /\ next.content = syncWin[w].content
      /\ next.unsaved = syncWin[w].unsaved
  BY <1>1 DEF SyncWinType
<1> HIDE DEF next, rev
<1>7. target' \in TargetType /\ target'.rev = rev /\ target'.content = syncWin[w].content
  BY <1>3, <1>5 DEF TargetType
<1>8. device' \in DeviceType /\ device'.base = rev /\ device'.file = device.file
  BY <1>1, <1>3, <1>5, <1>7 DEF DeviceType
<1>9. SessionTypeOK' /\ syncWin'[w] = next
  BY <1>1, <1>3, <1>6, <1>7, <1>8, SessionMoves
<1> QED BY <1>3, <1>4, <1>5, <1>6, <1>7, <1>8, <1>9, SessionTypeIs DEF Kept, SeenInv

LEMMA SessionStepKept ==
    ASSUME SessionTypeOK, [SessionNext]_ssVars
    PROVE  /\ SessionTypeOK'
           /\ \A w \in SyncWindows : Kept(w)
<1>1. CASE UNCHANGED ssVars
  BY <1>1 DEF ssVars, SessionTypeOK, Kept, SeenInv
<1>2. CASE \E e \in OtherEdits : OtherDeviceEdits(e)
  BY <1>2, OtherEditsKept
<1>3. ASSUME NEW w \in SyncWindows,
             \/ \E e \in LocalEdits : Edit(w, e)
             \/ Autosave(w) \/ OpenPage(w) \/ LeavePage(w) \/ Reload(w)
             \/ PullFetch(w) \/ CommitProfile(w) \/ CommitBaseline(w) \/ Apply(w)
             \/ PullFails(w) \/ SafePush(w) \/ SafePushRefused(w) \/ ForcePush(w)
      PROVE  SessionTypeOK' /\ \A v \in SyncWindows : Kept(v)
  <2>1. SessionTypeOK' /\ Kept(w)
    BY <1>3, ShowsKept, LeaveKept, ReloadKept, PullKept, ApplyKept, PushKept
  <2>2. ASSUME NEW v \in SyncWindows PROVE Kept(v)
    <3>1. CASE v = w
      BY <2>1, <3>1
    <3>2. CASE v # w
      BY <3>2 DEF Kept
    <3> QED BY <3>1, <3>2
  <2> QED BY <2>1, <2>2
<1> QED BY <1>1, <1>2, <1>3 DEF SessionNext

(* The target, the device and the windows of the sync card keep their types. *)
THEOREM SessionTyped == SessionSpec => []SessionTypeOK
<1>1. SessionInit => SessionTypeOK
  BY SessionBounds DEF SessionInit, SessionTypeOK, NoSyncTask
<1>2. SessionTypeOK /\ [SessionNext]_ssVars => SessionTypeOK'
  BY SessionStepKept
<1> QED BY <1>1, <1>2, PTL DEF SessionSpec

(* In one window whose tasks are not cut off and whose answers arrive, a push
   that was not forced keeps what others uploaded: the baseline it sends stands for content the window
   has taken in (sync.rs, the sync card of settings.rs).                     *)
THEOREM SessionKeepsOthers ==
    ASSUME NEW w0, SyncWindows = {w0}, ~Interrupts
    PROVE  SessionSpec => SafePushKeepsOthers
<1> DEFINE Inv == SessionTypeOK /\ SeenInv(w0)
<1>1. SessionInit => Inv
  <2> SUFFICES ASSUME SessionInit PROVE Inv
    OBVIOUS
  <2>1. SessionTypeOK
    BY SessionBounds DEF SessionInit, SessionTypeOK, NoSyncTask
  <2>2. SeenInv(w0)
    BY DEF SessionInit, SeenInv, NoSyncTask
  <2> QED BY <2>1, <2>2
<1>2. Inv /\ [SessionNext]_ssVars => Inv'
  BY SessionStepKept DEF Kept
<1>3. Inv /\ [SessionNext]_ssVars
        => [target' # target /\ target'.by = "safe" =>
               target.content \cap OtherEdits \subseteq target'.content]_ssVars
  <2> SUFFICES ASSUME Inv, SessionNext, target' # target, target'.by = "safe"
               PROVE  target.content \cap OtherEdits \subseteq target'.content
    OBVIOUS
  <2>1. SafePush(w0)
    <3>1. ASSUME NEW e \in OtherEdits, OtherDeviceEdits(e) PROVE FALSE
      <4>1. target'.by = "other"
        BY <3>1 DEF OtherDeviceEdits, Write
      <4> QED BY <4>1
    <3>2. ASSUME ForcePush(w0) PROVE FALSE
      <4>1. target'.by = "forced"
        BY <3>2 DEF ForcePush, Upload, Write
      <4> QED BY <4>1
    <3>3. ~(\E e \in LocalEdits : Edit(w0, e)) /\ ~Autosave(w0) /\ ~OpenPage(w0)
          /\ ~LeavePage(w0) /\ ~Reload(w0) /\ ~SafePushRefused(w0)
      BY DEF Edit, Autosave, OpenPage, LeavePage, Reload, SafePushRefused
    <3>4. ~PullFetch(w0) /\ ~CommitProfile(w0) /\ ~CommitBaseline(w0) /\ ~Apply(w0)
          /\ ~PullFails(w0)
      BY DEF PullFetch, CommitProfile, CommitBaseline, Apply, PullFails
    <3> QED BY <3>1, <3>2, <3>3, <3>4 DEF SessionNext
  <2>2. syncTask[w0].stage = "none" /\ target.rev \in {0, device.base}
        /\ target'.content = syncWin[w0].content
    BY <2>1, SessionTypeIs DEF SafePush, SyncIdle, Upload, Write
  <2> QED BY <2>2 DEF SeenInv
<1>4. SessionSpec => []Inv
  BY <1>1, <1>2, PTL DEF SessionSpec
<1> QED BY <1>3, <1>4, PTL DEF SessionSpec, SafePushKeepsOthers

-----------------------------------------------------------------------------
(* Each window runs by its own specification: a step of another one leaves it
   alone, so what is proved of the window holds of the application.          *)
LEMMA AppRunsLatency == AppSpec => LatencySpec
<1>1. AppInit => LatencyInit
  BY DEF AppInit
<1>2. [AppNext]_appVars => [LatencyNext]_latVars
  BY DEF AppNext, appVars
<1> QED BY <1>1, <1>2, PTL DEF AppSpec, LatencySpec

LEMMA AppRunsUpdate == AppSpec => UpdateSpec
<1>1. AppInit => UpdateInit
  BY DEF AppInit
<1>2. [AppNext]_appVars => [UpdateNext]_updVars
  BY DEF AppNext, appVars
<1> QED BY <1>1, <1>2, PTL DEF AppSpec, UpdateSpec

LEMMA AppRunsUi == AppSpec => UiInit /\ [][UiNext]_uiVars
<1>1. AppInit => UiInit
  BY DEF AppInit
<1>2. [AppNext]_appVars => [UiNext]_uiVars
  BY DEF AppNext, appVars
<1> QED BY <1>1, <1>2, PTL DEF AppSpec

LEMMA AppRunsBook == AppSpec => BookSpec
<1>1. AppInit => BookInit
  BY DEF AppInit
<1>2. [AppNext]_appVars => [BookNext]_bookVars
  BY DEF AppNext, appVars
<1> QED BY <1>1, <1>2, PTL DEF AppSpec, BookSpec

LEMMA AppRunsEditor == AppSpec => EditorSpec
<1>1. AppInit => EditorInit
  BY DEF AppInit
<1>2. [AppNext]_appVars => [EditorNext]_reVars
  BY DEF AppNext, appVars
<1> QED BY <1>1, <1>2, PTL DEF AppSpec, EditorSpec

LEMMA AppRunsSession == AppSpec => SessionSpec
<1>1. AppInit => SessionInit
  BY DEF AppInit
<1>2. [AppNext]_appVars => [SessionNext]_ssVars
  BY DEF AppNext, appVars
<1> QED BY <1>1, <1>2, PTL DEF AppSpec, SessionSpec

(* Every variable of the application keeps its type.                         *)
THEOREM AppTyped == AppSpec => []AppTypeOK
<1>1. UiInit /\ [][UiNext]_uiVars => []UiTypeOK
  BY UiKept, PTL
<1> QED BY <1>1, AppRunsLatency, AppRunsUpdate, AppRunsUi, AppRunsBook, AppRunsEditor, AppRunsSession,
           LatencyTyped, UpdateIsTyped, BookIsTyped, EditorIsTyped, SessionTyped, PTL DEF AppTypeOK

(* No result of a latency probe is lost while its session is registered, unless
   the answer of a poll was; the count a loop closes with is that of all
   results, those its last poll came too early for included (latency.rs:336,
   :409, :415).                                                              *)
THEOREM AppResultsAreAccounted == AppSpec => []ResultsAreAccounted
<1> QED BY AppRunsLatency, LatencyNothingLost, LatencyCountIsFinal, LatencyMissedIsCounted, PTL
       DEF ResultsAreAccounted

(* The update settings the server confirmed are kept, where a rename overwrites,
   and it asks GitHub by itself only while the stored switch is on and the
   interval is over by the time the check began (update.rs:223, :238, :307).  *)
THEOREM AppUpdateStateIsObeyed == AppSpec => []UpdateStateIsObeyed
<1> QED BY AppRunsUpdate, UpdateAckedKept, UpdateFetchAllowed, PTL DEF UpdateStateIsObeyed

(* What a window shows of its subscriptions hangs together, and a core that
   lags behind it is flagged, of histories without what `crossed' stands for: a
   change during a restart or a call, a switch during a refresh, a call whose
   answer was lost (subscriptions.rs:504, nodes.rs:622).                     *)
THEOREM AppShownIsCurrent == AppSpec => []ShownIsCurrent
<1> QED BY AppRunsBook, BookIsConsistent, BookDriftIsFlagged, PTL DEF ShownIsCurrent

(* Of the application: the rules stay usable and a delete takes two clicks on
   one rule (rules.rs).                                                      *)
THEOREM AppRulesStayUsable == AppSpec => []RulesStayUsable
<1> QED BY AppRunsEditor, EditorRulesStayUsable, PTL

(* Of the application: at rest the runtime switches show what the backend has
   (runtime.rs, toggles.rs).                                                 *)
THEOREM AppShownIsTrue == AppSpec => []ShownIsTrue
<1>1. UiInit /\ [][UiNext]_uiVars => []ShownIsTrue
  BY UiKept, TrueIsShown, PTL
<1> QED BY <1>1, AppRunsUi, PTL

(* The documents of the runs are requests of the kind the configuration is
   proved for, and a behaviour keeps its document.                           *)
LEMMA SampleLists ==
    ASSUME NEW S, NEW s \in UpTo(2, S)
    PROVE  IsList(s) /\ \A i \in DOMAIN s : s[i] \in S
<1>1. PICK k \in 0 .. 2 : s \in [1 .. k -> S]
  BY DEF UpTo
<1>2. k \in Nat /\ DOMAIN s = 1 .. k /\ s = [i \in DOMAIN s |-> s[i]]
  BY <1>1
<1>3. IsList(s)
  BY <1>2, ListIs
<1> QED BY <1>1, <1>3

LEMMA SampleIsRequests ==
    ASSUME NEW r \in RequestSample
    PROVE  ConnectionRequest(r) /\ PlainNames(r, NameFacts)
<1> DEFINE Nodes == {<<HostNode, LiteralNode>>, <<HostNode>>, <<LiteralNode, HostNode>>}
           Rules == UpTo(2, CustomRules)
           Servers == UpTo(2, [https : BOOLEAN, literal : BOOLEAN])
<1>1. /\ r.nodes \in Nodes /\ r.rules \in Rules \cup {<<>>}
      /\ r.overrides \in DnsOverrides \cup {<<>>} /\ r.nameservers \in Servers \cup {<<>>}
      /\ r.mode \in {"rule", "global", "direct"} /\ r.tun \in BOOLEAN
  <2>1. CASE r \in RoutedRequests
    BY <2>1 DEF RoutedRequests
  <2>2. CASE r \in LinkedRequests
    BY <2>2 DEF LinkedRequests
  <2> QED BY <2>1, <2>2 DEF RequestSample
<1>2. HostNode.tag = <<"n", 1>> /\ LiteralNode.tag = <<"n", 2>>
  BY DEF HostNode, LiteralNode
<1>3. IsList(r.nodes) /\ \A i \in DOMAIN r.nodes : r.nodes[i].tag \notin OwnTags
  <2>1. \A n \in Nodes : IsList(n) /\ \A i \in DOMAIN n : n[i] \in {HostNode, LiteralNode}
    BY OneIs, PairIs
  <2>2. HostNode.tag \notin OwnTags /\ LiteralNode.tag \notin OwnTags
    BY <1>2 DEF OwnTags, Tag
  <2> QED BY <1>1, <2>1, <2>2
<1>4. \A i, j \in DOMAIN r.nodes : r.nodes[i].tag = r.nodes[j].tag => i = j
  <2>1. \A n \in Nodes : \A i, j \in DOMAIN n : n[i].tag = n[j].tag => i = j
    BY <1>2
  <2> HIDE DEF Nodes
  <2> QED BY <1>1, <2>1
<1>5. /\ IsList(r.rules) /\ \A i \in DOMAIN r.rules : r.rules[i] \in CustomRules
  BY <1>1, SampleLists, NoneIs
<1>6. \A x \in CustomRules :
         /\ x.action \in {"proxy", "direct", "block"} /\ x.value # "address"
         /\ x.match = "cidr" => x.value = "net"
  BY DEF CustomRules
<1>7. IsList(r.nameservers)
  BY <1>1, SampleLists, NoneIs
<1>8. IsList(r.overrides) /\ \A i \in DOMAIN r.overrides : r.overrides[i].suffix # "address"
  <2>1. \A s \in DnsOverrides : IsList(s) /\ \A i \in DOMAIN s : s[i].suffix # "address"
    <3>1. DnsOverrides = {<<>>, <<Override(TRUE, "a", TRUE)>>,
                          <<Override(FALSE, "b", TRUE), Override(TRUE, "a", FALSE)>>}
      BY DEF DnsOverrides
    <3>2. /\ Override(TRUE, "a", TRUE).suffix # "address" /\ Override(FALSE, "b", TRUE).suffix # "address"
          /\ Override(TRUE, "a", FALSE).suffix # "address"
      BY DEF Override
    <3> DEFINE o == Override(TRUE, "a", TRUE)
               p == Override(FALSE, "b", TRUE)
               q == Override(TRUE, "a", FALSE)
    <3> HIDE DEF o, p, q
    <3>3. /\ IsList(<<o>>) /\ \A i \in DOMAIN <<o>> : <<o>>[i] = o
          /\ IsList(<<p, q>>) /\ \A i \in DOMAIN <<p, q>> : <<p, q>>[i] \in {p, q}
      BY OneIs, PairIs
    <3>4. IsList(<<>>) /\ DOMAIN <<>> = {}
      BY NoneIs
    <3>5. ASSUME NEW s \in DnsOverrides PROVE IsList(s) /\ \A i \in DOMAIN s : s[i].suffix # "address"
      <4>1. s = <<>> \/ s = <<o>> \/ s = <<p, q>>
        BY <3>1 DEF o, p, q
      <4>2. o.suffix # "address" /\ p.suffix # "address" /\ q.suffix # "address"
        BY <3>2 DEF o, p, q
      <4> QED BY <3>3, <3>4, <4>1, <4>2
    <3> QED BY <3>5
  <2> QED BY <1>1, <2>1, NoneIs
<1>9. ConnectionRequest(r)
  BY <1>1, <1>3, <1>4, <1>5, <1>6, <1>7, <1>8 DEF ConnectionRequest
<1>10. NameFacts \cap {"ptr", "lan", "private", "geoip-cn"} = {} /\ "net" \notin NameFacts
  BY DEF NameFacts
<1>11. PlainNames(r, NameFacts)
  BY <1>5, <1>6, <1>8, <1>10 DEF PlainNames
<1> QED BY <1>9, <1>11

LEMMA DocumentStays == AppSpec => [](focus = "document" => document \in RequestSample)
<1>1. AppInit => (focus = "document" => document \in RequestSample)
  BY DEF AppInit
<1>2. (focus = "document" => document \in RequestSample) /\ [AppNext]_appVars
        => (focus = "document" => document \in RequestSample)'
  BY DEF AppNext, appVars
<1> QED BY <1>1, <1>2, PTL DEF AppSpec

(* Of the application: the configuration of a request is closed
   (singbox_config.rs:187).                                                  *)
THEOREM AppConfigsAreClosed == AppSpec => []ConfigsAreClosed
<1>1. (focus = "document" => document \in RequestSample) => ConfigsAreClosed
  BY SampleIsRequests, ConfigCloses DEF ConfigsAreClosed
<1> QED BY <1>1, DocumentStays, PTL

(* Of the application: routes follow the policy, and the name server the route
   (singbox_config.rs:311, :429).                                            *)
THEOREM AppRoutesFollowPolicy == AppSpec => []RoutesFollowPolicy
<1>1. "port 53" \notin RoutedFacts
  BY DEF RoutedFacts
<1>2. (focus = "document" => document \in RequestSample) => RoutesFollowPolicy
  <2> SUFFICES ASSUME document \in RequestSample
               PROVE  RouteFollowsPolicy(document, RoutedFacts, NameFacts)
    BY DEF RoutesFollowPolicy
  <2>1. ConnectionRequest(document) /\ PlainNames(document, NameFacts)
    BY SampleIsRequests
  <2>2. \A r : ConnectionRequest(r) /\ PlainNames(r, NameFacts)
                => RouteFollowsPolicy(r, RoutedFacts, NameFacts)
    BY <1>1, RoutesFollow, Zenon
  <2> QED BY <2>1, <2>2
<1> QED BY <1>2, DocumentStays, PTL
-----------------------------------------------------------------------------
(* The order of releases.                                                    *)
Identifier == {0, 1} \X Nat
Version == [major : Nat, minor : Nat, patch : Nat, pre : Seq(Identifier)]

\* A set of numbers that is not empty has a least one.
LEMMA Least ==
    ASSUME NEW T \in SUBSET Nat, T # {}
    PROVE  \E x \in T : \A y \in T : x <= y
<1>1. PICK x \in T : \A y \in T : ~ (<<y, x>> \in OpToRel(<, Nat))
  BY WFMin, NatLessThanWellFounded
<1>2. \A y \in T : ~(y < x)
  BY <1>1 DEF OpToRel
<1> QED BY <1>2

\* Identifiers are compared as pairs.
LEMMA BeforeIs ==
    ASSUME NEW a \in Identifier, NEW b \in Identifier, NEW c \in Identifier
    PROVE  /\ ~Before(a, a)
           /\ a # b => Before(a, b) \/ Before(b, a)
           /\ Before(a, b) /\ Before(b, c) => Before(a, c)
<1>1. /\ a = <<a[1], a[2]>> /\ a[1] \in Nat /\ a[2] \in Nat
      /\ b = <<b[1], b[2]>> /\ b[1] \in Nat /\ b[2] \in Nat
      /\ c = <<c[1], c[2]>> /\ c[1] \in Nat /\ c[2] \in Nat
  BY DEF Identifier
<1>2. a # b => a[1] # b[1] \/ a[2] # b[2]
  BY <1>1
<1> QED BY <1>1, <1>2 DEF Before

\* Two lists that differ have a first place where they do.
LEMMA FirstDifference ==
    ASSUME NEW s \in Seq(Identifier), NEW t \in Seq(Identifier), s # t
    PROVE  \E i \in Nat \ {0} :
             /\ \A j \in 1 .. i - 1 : j <= Len(s) /\ j <= Len(t) /\ s[j] = t[j]
             /\ \/ i <= Len(s) /\ i <= Len(t) /\ s[i] # t[i]
                \/ i = Len(s) + 1 /\ i <= Len(t)
                \/ i = Len(t) + 1 /\ i <= Len(s)
<1> DEFINE T == {i \in Nat \ {0} : i > Len(s) \/ i > Len(t) \/ s[i] # t[i]}
<1>1. Len(s) \in Nat /\ Len(t) \in Nat
  OBVIOUS
<1>2. Len(s) + 1 \in T
  BY <1>1
<1>3. PICK i \in T : \A y \in T : i <= y
  <2>1. T \in SUBSET Nat /\ T # {}
    BY <1>2
  <2> HIDE DEF T
  <2> QED BY <2>1, Least
<1>4. i \in Nat \ {0} /\ (i > Len(s) \/ i > Len(t) \/ s[i] # t[i])
  OBVIOUS
<1>5. ASSUME NEW j \in 1 .. i - 1 PROVE j <= Len(s) /\ j <= Len(t) /\ s[j] = t[j]
  <2>1. j \in Nat \ {0} /\ j < i
    BY <1>4
  <2>2. j \notin T
    BY <1>3, <1>4, <2>1
  <2> QED BY <1>1, <2>1, <2>2
<1>6. i <= Len(s) + 1 /\ i <= Len(t) + 1
  <2>1. i = 1 \/ i - 1 \in 1 .. i - 1
    BY <1>4
  <2> QED BY <1>1, <1>4, <1>5, <2>1
<1>7. ~(i = Len(s) + 1 /\ i = Len(t) + 1)
  <2> SUFFICES ASSUME i = Len(s) + 1, i = Len(t) + 1 PROVE FALSE
    OBVIOUS
  <2>1. Len(s) = Len(t) /\ \A j \in 1 .. Len(s) : s[j] = t[j]
    BY <1>1, <1>5
  <2> QED BY <2>1, SeqEqual
<1> QED BY <1>1, <1>4, <1>5, <1>6, <1>7

\* The lists of identifiers are ordered by their first difference.
LEMMA SeqBeforeIs ==
    ASSUME NEW s \in Seq(Identifier), NEW t \in Seq(Identifier), NEW u \in Seq(Identifier)
    PROVE  /\ ~SeqBefore(s, s)
           /\ s # t => SeqBefore(s, t) \/ SeqBefore(t, s)
           /\ SeqBefore(s, t) /\ SeqBefore(t, u) => SeqBefore(s, u)
<1>0. /\ Len(s) \in Nat /\ Len(t) \in Nat /\ Len(u) \in Nat
      /\ \A i \in 1 .. Len(s) : s[i] \in Identifier
      /\ \A i \in 1 .. Len(t) : t[i] \in Identifier
      /\ \A i \in 1 .. Len(u) : u[i] \in Identifier
  OBVIOUS
<1>1. ~SeqBefore(s, s)
  BY <1>0, BeforeIs DEF SeqBefore
<1>2. ASSUME s # t PROVE SeqBefore(s, t) \/ SeqBefore(t, s)
  <2>1. PICK i \in Nat \ {0} :
             /\ \A j \in 1 .. i - 1 : j <= Len(s) /\ j <= Len(t) /\ s[j] = t[j]
             /\ \/ i <= Len(s) /\ i <= Len(t) /\ s[i] # t[i]
                \/ i = Len(s) + 1 /\ i <= Len(t)
                \/ i = Len(t) + 1 /\ i <= Len(s)
    BY <1>2, FirstDifference
  <2>2. CASE i <= Len(s) /\ i <= Len(t) /\ s[i] # t[i]
    <3>1. Before(s[i], t[i]) \/ Before(t[i], s[i])
      BY <1>0, <2>2, BeforeIs
    <3> QED BY <1>0, <2>1, <2>2, <3>1 DEF SeqBefore
  <2>3. CASE i = Len(s) + 1 /\ i <= Len(t)
    BY <1>0, <2>1, <2>3 DEF SeqBefore
  <2>4. CASE i = Len(t) + 1 /\ i <= Len(s)
    BY <1>0, <2>1, <2>4 DEF SeqBefore
  <2> QED BY <2>1, <2>2, <2>3, <2>4
<1>3. ASSUME SeqBefore(s, t), SeqBefore(t, u) PROVE SeqBefore(s, u)
  <2>1. PICK i \in 1 .. Len(t) : /\ i <= Len(s) + 1
                                 /\ \A j \in 1 .. i - 1 : s[j] = t[j]
                                 /\ i <= Len(s) => Before(s[i], t[i])
    BY <1>3 DEF SeqBefore
  <2>2. PICK k \in 1 .. Len(u) : /\ k <= Len(t) + 1
                                 /\ \A j \in 1 .. k - 1 : t[j] = u[j]
                                 /\ k <= Len(t) => Before(t[k], u[k])
    BY <1>3 DEF SeqBefore
  <2>3. CASE i < k
    <3>1. i \in 1 .. Len(u) /\ i \in 1 .. k - 1 /\ \A j \in 1 .. i - 1 : s[j] = u[j]
      BY <1>0, <2>1, <2>2, <2>3
    <3> QED BY <2>1, <2>2, <3>1 DEF SeqBefore
  <2>4. CASE i = k
    <3>1. \A j \in 1 .. i - 1 : s[j] = u[j]
      BY <2>1, <2>2, <2>4
    <3>2. i <= Len(s) => Before(s[i], u[i])
      BY <1>0, <2>1, <2>2, <2>4, BeforeIs
    <3> QED BY <2>1, <2>2, <2>4, <3>1, <3>2 DEF SeqBefore
  <2>5. CASE k < i
    <3>1. k \in 1 .. i - 1 /\ k <= Len(s) + 1 /\ k <= Len(t) /\ \A j \in 1 .. k - 1 : s[j] = u[j]
      BY <1>0, <2>1, <2>2, <2>5
    <3> QED BY <2>1, <2>2, <3>1 DEF SeqBefore
  <2> QED BY <1>0, <2>3, <2>4, <2>5
<1> QED BY <1>1, <1>2, <1>3

\* A version without identifiers comes after one that has some.
LEMMA PreBeforeIs ==
    ASSUME NEW s \in Seq(Identifier), NEW t \in Seq(Identifier), NEW u \in Seq(Identifier)
    PROVE  /\ ~PreBefore(s, s)
           /\ s # t => PreBefore(s, t) \/ PreBefore(t, s)
           /\ PreBefore(s, t) /\ PreBefore(t, u) => PreBefore(s, u)
BY SeqBeforeIs DEF PreBefore

\* Newer (is_newer of update.rs, the test in front of every offer) is a strict
\* order in which any two different versions compare: two installations that
\* see the same releases agree on the newest, and no sequence of updates
\* comes back to where it was, whatever the numbers and the identifiers are.
THEOREM NewerOrdersVersions ==
    ASSUME NEW u \in Version, NEW v \in Version, NEW w \in Version
    PROVE  /\ ~IsNewer(u, u)
           /\ u # v => IsNewer(u, v) \/ IsNewer(v, u)
           /\ IsNewer(u, v) /\ IsNewer(v, w) => IsNewer(u, w)
<1>1. /\ u.major \in Nat /\ u.minor \in Nat /\ u.patch \in Nat /\ u.pre \in Seq(Identifier)
      /\ v.major \in Nat /\ v.minor \in Nat /\ v.patch \in Nat /\ v.pre \in Seq(Identifier)
      /\ w.major \in Nat /\ w.minor \in Nat /\ w.patch \in Nat /\ w.pre \in Seq(Identifier)
  BY DEF Version
<1>2. ~IsNewer(u, u)
  BY <1>1, PreBeforeIs DEF IsNewer, NumbersBefore
<1>3. ASSUME u # v PROVE IsNewer(u, v) \/ IsNewer(v, u)
  <2>1. SameNumbers(u, v) => u.pre # v.pre
    BY <1>3 DEF SameNumbers, Version
  <2>2. SameNumbers(u, v) <=> SameNumbers(v, u)
    BY DEF SameNumbers
  <2>3. ~SameNumbers(u, v) => NumbersBefore(u, v) \/ NumbersBefore(v, u)
    BY <1>1 DEF SameNumbers, NumbersBefore
  <2>4. SameNumbers(u, v) => PreBefore(u.pre, v.pre) \/ PreBefore(v.pre, u.pre)
    BY <1>1, <2>1, PreBeforeIs
  <2> QED BY <2>2, <2>3, <2>4 DEF IsNewer
<1>4. ASSUME IsNewer(u, v), IsNewer(v, w) PROVE IsNewer(u, w)
  <2>1. PreBefore(u.pre, v.pre) /\ PreBefore(v.pre, w.pre) => PreBefore(u.pre, w.pre)
    BY <1>1, PreBeforeIs
  <2>2. CASE NumbersBefore(u, v) \/ NumbersBefore(v, w)
    <3>1. NumbersBefore(u, w)
      BY <1>1, <1>4, <2>2 DEF IsNewer, NumbersBefore, SameNumbers
    <3> QED BY <3>1 DEF IsNewer
  <2>3. CASE SameNumbers(u, v) /\ SameNumbers(v, w)
    <3>1. SameNumbers(u, w) /\ ~NumbersBefore(u, v) /\ ~NumbersBefore(v, w)
      BY <1>1, <2>3 DEF SameNumbers, NumbersBefore
    <3> QED BY <1>4, <2>1, <3>1 DEF IsNewer
  <2> QED BY <1>4, <2>2, <2>3 DEF IsNewer
<1> QED BY <1>2, <1>3, <1>4

-----------------------------------------------------------------------------
(* The pages the web server answers.                                         *)
HostType == [text : STRING, ip : BOOLEAN, local : BOOLEAN, dot : {FALSE}]
AuthorityType == [host : HostType, bracket : {FALSE}, user : {FALSE}, port : RealPorts]
SessionOf(token, lan, allowed) == [token |-> token, lan |-> lan, allowed |-> allowed, dev |-> NoServer]

\* What a browser sends for an API call of a page is answered exactly when the
\* page is the server's own, of this run, at an address the server accepts; and,
\* since a read of the page's own server comes without Origin, over plain HTTP
\* only from this machine (control_session_guard of main.rs), whatever the
\* addresses, the names that are allowed and the token are.
THEOREM OwnPagesAnswered ==
    ASSUME NEW origin \in AuthorityType, NEW server \in AuthorityType, NEW get \in BOOLEAN,
           NEW token, NEW current, NEW lan \in BOOLEAN, NEW allowed
    PROVE  LET session == SessionOf(current, lan, allowed)
           IN  ControlSessionGuard(session, Sent(origin, server, get, token)) = "served"
                 <=> /\ origin = server /\ token = current /\ HostAllowed(session, server)
                     /\ ~get \/ server.host.local
<1> DEFINE session == SessionOf(current, lan, allowed)
           request == Sent(origin, server, get, token)
<1>1. /\ server.host \in HostType /\ ~server.bracket /\ ~server.user /\ server.port \in RealPorts
      /\ ~server.host.dot
  BY DEF AuthorityType, HostType
<1>2. LoopbackAuthority(server) <=> server.host.local
  BY <1>1 DEF LoopbackAuthority, HostType
<1>3. /\ request.api /\ request.host = server /\ request.token = token
      /\ request.origin = IF get /\ origin = server THEN NoOrigin
                          ELSE [scheme |-> "http", authority |-> origin]
      /\ request.site = IF ~server.host.local THEN NoHeader
                        ELSE IF origin = server THEN "same-origin"
                        ELSE IF origin.host = server.host THEN "same-site" ELSE "cross-site"
  BY DEF Sent
<1>4. session.token = current /\ session.dev = NoServer
  BY DEF SessionOf
<1>5. server # NoHost
  <2>1. DOMAIN NoHost = {"error"} /\ "host" \in DOMAIN server
    BY DEF NoHost, AuthorityType
  <2> QED BY <2>1
<1>6. [scheme |-> "http", authority |-> origin] # NoOrigin
  <2>1. DOMAIN NoOrigin = {"error"}
        /\ DOMAIN [scheme |-> "http", authority |-> origin] = {"scheme", "authority"}
    BY DEF NoOrigin
  <2> QED BY <2>1
<1> HIDE DEF session, request
<1>7. ControlSessionGuard(session, request) = "served"
        <=> HostAllowed(session, server) /\ ValidControlRequest(session, request)
  BY <1>3, <1>5 DEF ControlSessionGuard
<1>8. ValidControlRequest(session, request)
        <=> /\ HostAllowed(session, server) /\ token = current
            /\ request.site \in {NoHeader, "same-origin", "none"}
            /\ IF request.origin # NoOrigin THEN SameOrigin(session, request)
               ELSE request.site # NoHeader \/ server.host.local
  BY <1>2, <1>3, <1>4 DEF ValidControlRequest
<1>9. request.origin # NoOrigin => (SameOrigin(session, request) <=> origin = server)
  BY <1>3, <1>4, <1>6 DEF SameOrigin
<1>10. CASE origin # server
  <2>1. request.origin # NoOrigin
    BY <1>3, <1>6, <1>10
  <2> QED BY <1>7, <1>8, <1>9, <1>10, <2>1 DEF session, request
<1>11. CASE origin = server
  <2>1. request.site \in {NoHeader, "same-origin", "none"}
        /\ (request.site # NoHeader <=> server.host.local)
    BY <1>3, <1>11 DEF NoHeader
  <2>2. request.origin # NoOrigin <=> ~get
    BY <1>3, <1>6, <1>11
  <2> QED BY <1>7, <1>8, <1>9, <1>11, <2>1, <2>2 DEF session, request
<1> QED BY <1>10, <1>11
-----------------------------------------------------------------------------
(* Bundles on a sync target.                                                 *)
Sections == Range(BundleSections)

\* A bundle has a content for every section, and only the two sections older
\* builds do not know may be missing from it (json_payload of sync.rs).
IsBundle(s) ==
    /\ s = [x \in Sections |-> s[x]]
    /\ \A x \in Sections \ Optional : s[x] # NoContent

LEMMA SectionsAre ==
    /\ BundleSections \in Seq(Sections) /\ Len(BundleSections) = 4
    /\ DOMAIN BundleSections = 1 .. 4
    /\ \A i, j \in 1 .. 4 : BundleSections[i] = BundleSections[j] => i = j
    /\ \A x \in Sections : \E i \in 1 .. 4 : BundleSections[i] = x
    /\ \A i \in 1 .. 4 : BundleSections[i] \in Sections
<1>1. /\ Len(BundleSections) = 4 /\ DOMAIN BundleSections = 1 .. 4
      /\ BundleSections[1] = "subscriptions" /\ BundleSections[2] = "custom-rules"
      /\ BundleSections[3] = "dns-overrides" /\ BundleSections[4] = "config-script"
  BY DEF BundleSections
<1>2. \A i, j \in 1 .. 4 : BundleSections[i] = BundleSections[j] => i = j
  BY <1>1
<1>3. Sections = {BundleSections[i] : i \in 1 .. 4}
  BY <1>1 DEF Sections, Range
<1>4. BundleSections \in Seq(Sections)
  BY <1>1, <1>3 DEF BundleSections
<1> QED BY <1>1, <1>2, <1>3, <1>4

\* The manifest lists every section the bundle has, once, under the name of
\* its content.
LEMMA ManifestLists ==
    ASSUME NEW s, IsBundle(s)
    PROVE  LET m == ManifestOf(s) IN
           /\ Len(m) \in 0 .. 4 /\ DOMAIN m = 1 .. Len(m)
           /\ \A i \in DOMAIN m :
                 /\ m[i].section \in Sections /\ s[m[i].section] # NoContent
                 /\ m[i] = Entry(m[i].section, s[m[i].section])
           /\ \A i, j \in DOMAIN m : m[i].section = m[j].section => i = j
           /\ \A x \in Sections : s[x] # NoContent => \E i \in DOMAIN m : m[i].section = x
<1> DEFINE P == {i \in DOMAIN BundleSections : s[BundleSections[i]] # NoContent}
           c == Carried(s)
           m == ManifestOf(s)
           n == Cardinality(P)
<1>1. P \in SUBSET DOMAIN BundleSections /\ P \in SUBSET (1 .. 4)
  BY SectionsAre
<1>2. c = Retain(BundleSections, P)
  BY DEF Carried
<1>3. /\ n \in Nat /\ DOMAIN c = 1 .. n /\ n <= 4
      /\ \A i \in 1 .. n : InOrder(P)[i] \in P /\ c[i] = BundleSections[InOrder(P)[i]]
      /\ \A i, j \in 1 .. n : InOrder(P)[i] = InOrder(P)[j] => i = j
      /\ \A k \in P : \E i \in 1 .. n : c[i] = BundleSections[k]
  <2> HIDE DEF P, c
  <2>1. /\ n \in Nat /\ DOMAIN Retain(BundleSections, P) = 1 .. n /\ n <= Len(BundleSections)
        /\ \A i \in 1 .. n :
              InOrder(P)[i] \in P /\ Retain(BundleSections, P)[i] = BundleSections[InOrder(P)[i]]
        /\ \A i, j \in 1 .. n : InOrder(P)[i] = InOrder(P)[j] => i = j
        /\ \A k \in P : \E i \in 1 .. n : Retain(BundleSections, P)[i] = BundleSections[k]
    <3>1. P \in SUBSET DOMAIN BundleSections /\ BundleSections \in Seq(Sections)
      BY <1>1, SectionsAre
    <3> HIDE DEF n
    <3>2. /\ n = Cardinality(P) /\ n \in Nat /\ n <= Len(BundleSections)
      BY <3>1, RetainKeeps DEF n
    <3>3. DOMAIN Retain(BundleSections, P) = 1 .. n
      BY <3>1, <3>2, RetainKeeps
    <3>4. \A i \in 1 .. n :
              InOrder(P)[i] \in P /\ Retain(BundleSections, P)[i] = BundleSections[InOrder(P)[i]]
      BY <3>1, <3>2, RetainKeeps
    <3>5. \A i, j \in 1 .. n : InOrder(P)[i] = InOrder(P)[j] => i = j
      BY <3>1, <3>2, RetainKeeps
    <3>6. \A k \in P : \E i \in 1 .. n : Retain(BundleSections, P)[i] = BundleSections[k]
      BY <3>1, <3>2, RetainKeeps
    <3> QED BY <3>2, <3>3, <3>4, <3>5, <3>6
  <2> QED BY <1>2, <2>1, SectionsAre
<1>4. m = [i \in 1 .. n |-> Entry(c[i], s[c[i]])]
  BY <1>3 DEF ManifestOf
<1>5. DOMAIN m = 1 .. n /\ Len(m) = n
  BY <1>3, <1>4
<1>6. \A x, y : Entry(x, y).section = x
  BY DEF Entry
<1>7. \A i \in 1 .. n : m[i].section = c[i] /\ m[i] = Entry(c[i], s[c[i]])
  BY <1>4, <1>6
<1>8. \A i \in 1 .. n : c[i] \in Sections /\ s[c[i]] # NoContent
  BY <1>1, <1>3, SectionsAre
<1>9. \A i, j \in 1 .. n : c[i] = c[j] => i = j
  BY <1>1, <1>3, SectionsAre
<1>10. \A x \in Sections : s[x] # NoContent => \E i \in 1 .. n : c[i] = x
  BY <1>3, SectionsAre
<1>11. Len(m) \in 0 .. 4 /\ DOMAIN m = 1 .. Len(m)
  <2> HIDE DEF P, c, m
  <2>1. n \in 0 .. 4
    BY <1>3
  <2> QED BY <1>5, <2>1
<1> HIDE DEF P, c, m, n
<1> QED BY <1>5, <1>7, <1>8, <1>9, <1>10, <1>11 DEF m

LEMMA ManifestFits ==
    ASSUME NEW s, IsBundle(s)
    PROVE  ManifestOk(ManifestOf(s))
<1> DEFINE m == ManifestOf(s)
<1>1. /\ Len(m) \in 0 .. 4 /\ DOMAIN m = 1 .. Len(m)
      /\ \A i \in DOMAIN m : m[i].section \in Sections /\ m[i] = Entry(m[i].section, s[m[i].section])
      /\ \A i, j \in DOMAIN m : m[i].section = m[j].section => i = j
  BY ManifestLists
<1> HIDE DEF m
<1>2. Len(m) <= MaxBundleFiles
  BY <1>1, SyncAssumption, SectionsAre DEF SyncAssumption
<1>3. \A x, y : Entry(x, y).name[1] = x
  BY DEF Entry, ObjectName
<1>4. \A i \in DOMAIN m : m[i].name[1] = m[i].section
  BY <1>1, <1>3
<1>5. ManifestOk(m)
  BY <1>1, <1>2, <1>4 DEF ManifestOk, Sections
<1> QED BY <1>5 DEF m

\* An object that arrives is the content the bundle had.
LEMMA ArrivalIsContent ==
    ASSUME NEW store, NEW x, NEW content
    PROVE  /\ Entry(x, content).name = ObjectName(x, content)
           /\ Arrives(store, Entry(x, content))
                 <=> /\ ObjectName(x, content) \in DOMAIN store
                     /\ store[ObjectName(x, content)] = content
<1>1. /\ Entry(x, content).name = ObjectName(x, content)
      /\ Entry(x, content).size = content.size /\ Entry(x, content).sha = content
  BY DEF Entry
<1> QED BY <1>1 DEF Arrives

\* A bundle that was uploaded within the limits is downloaded as it was,
\* whatever else the target holds; and a target that lost or changed one of
\* its objects gives no bundle at all, never a part of it or a mixture
\* (upload_bundle and download_bundle of sync.rs).
THEOREM BundleTravels ==
    ASSUME NEW s, NEW store, IsBundle(s), SnapshotOk(s), TotalSize(ManifestOf(s)) <= MaxSyncBytes
    PROVE  DownloadBundle(ManifestOf(s), store) =
              IF \A x \in Sections : s[x] # NoContent =>
                    ObjectName(x, s[x]) \in DOMAIN store /\ store[ObjectName(x, s[x])] = s[x]
              THEN s ELSE BundleFailure
<1> DEFINE m == ManifestOf(s)
           Held(x) == ObjectName(x, s[x]) \in DOMAIN store /\ store[ObjectName(x, s[x])] = s[x]
           taken == [x \in Sections |-> TakeSection(m, store, x)]
<1>1. /\ \A i \in DOMAIN m :
            /\ m[i].section \in Sections /\ s[m[i].section] # NoContent
            /\ m[i] = Entry(m[i].section, s[m[i].section])
      /\ \A i, j \in DOMAIN m : m[i].section = m[j].section => i = j
      /\ \A x \in Sections : s[x] # NoContent => \E i \in DOMAIN m : m[i].section = x
  BY ManifestLists
<1>2. ManifestOk(m)
  BY ManifestFits
<1>3. TotalSize(m) <= MaxSyncBytes
  OBVIOUS
<1> HIDE DEF m
<1>4. \A i \in DOMAIN m : Arrives(store, m[i]) <=> Held(m[i].section)
  BY <1>1, ArrivalIsContent
<1>5. (\A i \in DOMAIN m : Arrives(store, m[i])) <=> \A x \in Sections : s[x] # NoContent => Held(x)
  BY <1>1, <1>4
<1>6. ASSUME \A i \in DOMAIN m : Arrives(store, m[i]), NEW x \in Sections
      PROVE  TakeSection(m, store, x) = s[x]
  <2> DEFINE named == {i \in DOMAIN m : m[i].section = x}
  <2>1. CASE s[x] # NoContent
    <3>1. named # {} /\ \A i \in named : m[i].name = ObjectName(x, s[x])
      BY <1>1, <2>1, ArrivalIsContent
    <3>2. (CHOOSE i \in named : TRUE) \in named
      BY <3>1
    <3>3. store[ObjectName(x, s[x])] = s[x]
      BY <1>5, <1>6, <2>1
    <3> QED BY <3>1, <3>2, <3>3 DEF TakeSection
  <2>2. CASE s[x] = NoContent
    <3>1. named = {}
      BY <1>1, <2>2
    <3>2. x \in Optional
      BY <2>2 DEF IsBundle
    <3> QED BY <2>2, <3>1, <3>2 DEF TakeSection
  <2> QED BY <2>1, <2>2
<1>7. (\A i \in DOMAIN m : Arrives(store, m[i])) => taken = s
  <2>1. s = [x \in Sections |-> s[x]]
    BY DEF IsBundle
  <2> QED BY <1>6, <2>1
<1>8. DownloadBundle(m, store) =
        IF \A i \in DOMAIN m : Arrives(store, m[i])
        THEN IF SnapshotOk(taken) THEN taken ELSE BundleFailure
        ELSE BundleFailure
  BY <1>2, <1>3 DEF DownloadBundle, Sections
<1> HIDE DEF taken
<1> QED BY <1>5, <1>7, <1>8 DEF m

\* The device holds a bundle, and every object is under its content's name:
\* nothing of the pushes and pulls writes another, a loss only removes.
BundleInv ==
    /\ IsBundle(sbLocal)
    /\ \A name \in DOMAIN sbStore : sbStore[name] = name[2]

LEMMA ContentHasSize == ASSUME NEW text PROVE [text |-> text, size |-> 1, good |-> TRUE] # NoContent
BY DEF NoContent

LEMMA BundleStarts == BundleInit => BundleInv
<1> SUFFICES ASSUME BundleInit PROVE BundleInv
  OBVIOUS
<1>1. EmptyContent # NoContent
  BY DEF EmptyContent, NoContent
<1>2. sbLocal = [x \in Sections |-> EmptyContent]
  BY DEF BundleInit, EmptyBundle, Sections
<1>3. IsBundle(sbLocal)
  BY <1>1, <1>2 DEF IsBundle
<1>4. \A name \in DOMAIN sbStore : sbStore[name] = name[2]
  BY DEF BundleInit
<1> QED BY <1>3, <1>4 DEF BundleInv

LEMMA BundleSteps == BundleInv /\ [BundleNext]_sbVars => BundleInv'
<1> SUFFICES ASSUME BundleInv, [BundleNext]_sbVars PROVE BundleInv'
  OBVIOUS
<1>1. ASSUME NEW i \in DOMAIN BundleSections, NEW text, EditSection(BundleSections[i], text)
      PROVE  BundleInv'
  <2> DEFINE x == BundleSections[i]
             content == [text |-> text, size |-> 1, good |-> TRUE]
  <2>1. x \in Sections /\ content # NoContent
    BY SectionsAre, ContentHasSize
  <2> HIDE DEF x, content
  <2>2. sbLocal' = [sbLocal EXCEPT ![x] = content] /\ UNCHANGED sbStore
    BY <1>1 DEF EditSection, x, content
  <2>3. IsBundle(sbLocal')
    BY <2>1, <2>2 DEF BundleInv, IsBundle
  <2> QED BY <2>2, <2>3 DEF BundleInv
<1>2. ASSUME NEW force \in BOOLEAN, PushBundle(force)
      PROVE  BundleInv'
  <2>1. UNCHANGED sbLocal
    BY <1>2 DEF PushBundle
  <2>2. \A name \in DOMAIN sbStore' : sbStore'[name] = name[2]
    BY <1>2 DEF PushBundle, BundleInv
  <2> QED BY <2>1, <2>2 DEF BundleInv
<1>3. CASE PullBundle
  BY <1>3 DEF PullBundle, BundleInv
<1>4. ASSUME NEW name \in DOMAIN sbStore, LoseObject(name)
      PROVE  BundleInv'
  BY <1>4 DEF LoseObject, BundleInv
<1>5. CASE UNCHANGED sbVars
  BY <1>5 DEF sbVars, BundleInv
<1> QED BY <1>1, <1>2, <1>3, <1>4, <1>5 DEF BundleNext

(* What a push leaves on the target can be downloaded as the device has it,
   when the push is forced, or when the manifest it builds on names no object
   that is gone (upload_bundle, sync.rs:925): a forced push repairs a target
   that lost objects, and a push onto a complete one leaves a complete one.  *)
PushArrives ==
    [][\A force \in BOOLEAN :
          /\ PushBundle(force)
          /\ force \/ \A file \in Range(sbManifest) : file.name \in DOMAIN sbStore
          => DownloadBundle(sbManifest', sbStore') = sbLocal']_sbVars

LEMMA OnePushArrives ==
    ASSUME BundleInv, NEW force \in BOOLEAN, PushBundle(force),
           force \/ \A file \in Range(sbManifest) : file.name \in DOMAIN sbStore
    PROVE  DownloadBundle(sbManifest', sbStore') = sbLocal'
<1> DEFINE known == Known(force)
           new == Uploads(sbLocal, known)
           m == ManifestOf(sbLocal)
<1>1. /\ sbManifest' = m /\ sbLocal' = sbLocal /\ SnapshotOk(sbLocal) /\ TotalSize(m) <= MaxSyncBytes
      /\ sbStore' = [n \in DOMAIN sbStore \cup new |-> IF n \in new THEN n[2] ELSE sbStore[n]]
  BY DEF PushBundle
<1>2. known \subseteq DOMAIN sbStore
  <2>1. CASE force
    BY <2>1 DEF Known
  <2>2. CASE ~force
    BY <2>2 DEF Known
  <2> QED BY <2>1, <2>2
<1>3. IsBundle(sbLocal) /\ \A name \in DOMAIN sbStore : sbStore[name] = name[2]
  BY DEF BundleInv
<1>4. new = {file.name : file \in Range(m)} \ known
  BY DEF Uploads
<1> HIDE DEF known, new
<1>5. DOMAIN sbStore' = DOMAIN sbStore \cup new /\ \A n \in DOMAIN sbStore' : sbStore'[n] = n[2]
  BY <1>1, <1>3
<1>6. ASSUME NEW x \in Sections, sbLocal[x] # NoContent
      PROVE  /\ ObjectName(x, sbLocal[x]) \in DOMAIN sbStore'
             /\ sbStore'[ObjectName(x, sbLocal[x])] = sbLocal[x]
  <2>1. PICK i \in DOMAIN m : m[i].section = x
    BY <1>3, <1>6, ManifestLists
  <2>2. m[i] = Entry(x, sbLocal[x])
    BY <1>3, <2>1, ManifestLists
  <2>3. m[i].name = ObjectName(x, sbLocal[x]) /\ m[i] \in Range(m)
    BY <2>2, ArrivalIsContent DEF Range
  <2>4. ObjectName(x, sbLocal[x]) \in DOMAIN sbStore'
    BY <1>2, <1>4, <1>5, <2>3
  <2>5. ObjectName(x, sbLocal[x])[2] = sbLocal[x]
    BY DEF ObjectName
  <2> QED BY <1>5, <2>4, <2>5
<1>7. DownloadBundle(m, sbStore') = sbLocal
  BY <1>1, <1>3, <1>6, BundleTravels
<1> QED BY <1>1, <1>7

\* A forced push repairs a target that lost objects, and a push onto a
\* complete one leaves a complete one.
THEOREM PushedBundleArrives == BundleSpec => PushArrives
<1>1. BundleInit => BundleInv
  BY BundleStarts
<1>2. BundleInv /\ [BundleNext]_sbVars => BundleInv'
  BY BundleSteps
<1>3. BundleInv => \A force \in BOOLEAN :
          /\ PushBundle(force)
          /\ force \/ \A file \in Range(sbManifest) : file.name \in DOMAIN sbStore
          => DownloadBundle(sbManifest', sbStore') = sbLocal'
  BY OnePushArrives
<1> QED BY <1>1, <1>2, <1>3, PTL DEF BundleSpec, PushArrives
-----------------------------------------------------------------------------
(* The settings of the target, which the window is shown without secrets.    *)
Target(E, T) ==
    [provider : {"webdav", "s3"}, webdav : E, s3 : E, legacy : E,
     path : T, username : T, password : T, bucket : T, region : T, access : T,
     secret : T, enabled : BOOLEAN, at : Nat, revision : T]

LEMMA SameFields ==
    ASSUME NEW E, NEW T, NEW c \in Target(E, T), NEW d \in Target(E, T),
           c.provider = d.provider, c.webdav = d.webdav, c.s3 = d.s3, c.legacy = d.legacy,
           c.path = d.path, c.username = d.username, c.password = d.password, c.bucket = d.bucket,
           c.region = d.region, c.access = d.access, c.secret = d.secret, c.enabled = d.enabled,
           c.at = d.at, c.revision = d.revision
    PROVE  c = d
BY DEF Target

\* The target is told from everything but the secrets, the switch, the
\* baseline and the address of an older build.
LEMMA TargetIsPlace ==
    ASSUME NEW a, NEW c, NEW d, c.provider = d.provider, c.path = d.path, c.webdav = d.webdav,
           c.s3 = d.s3, c.username = d.username, c.bucket = d.bucket, c.region = d.region,
           c.access = d.access
    PROVE  /\ SameTarget(a, c) <=> SameTarget(a, d)
           /\ \A name : RemoteUrl(c, name) = RemoteUrl(d, name)
BY DEF SameTarget, RemoteUrl

LEMMA SameTargetSameUrl ==
    ASSUME NEW a, NEW c, SameTarget(a, c)
    PROVE  \A name : RemoteUrl(a, name) = RemoteUrl(c, name)
BY DEF SameTarget, RemoteUrl

\* An edit of the secrets and of the baseline leaves the rest alone.
With(c, p, s, a, r) == [c EXCEPT !.password = p, !.secret = s, !.at = a, !.revision = r]

\* What is saved is what was edited, with the stored secrets under the masks.
LEMMA SavedFields ==
    ASSUME NEW E, NEW T, NEW stored \in Target(E, T), NEW edited \in Target(E, T), NoText \in T
    PROVE  SaveConfig(stored, edited) =
             With(edited,
                  IF edited.password = Placeholder THEN stored.password ELSE edited.password,
                  IF edited.secret = Placeholder THEN stored.secret ELSE edited.secret,
                  IF SameTarget(stored, edited) THEN stored.at ELSE 0,
                  IF SameTarget(stored, edited) THEN stored.revision ELSE NoText)
<1> DEFINE same == SameTarget(stored, edited)
<1>1. CASE same
  BY <1>1 DEF SaveConfig, ResolveSecrets, Target, With
<1>2. CASE ~same
  BY <1>2 DEF SaveConfig, ResolveSecrets, Target, With
<1> QED BY <1>1, <1>2

\* Whatever the window sends, a stored secret is never the mask it was shown,
\* a masked field keeps the secret that was stored, and saving what was shown
\* changes nothing; a baseline stays only with the object it was taken from
\* (save_config, masked_for_client and resolve_secrets of sync.rs).
THEOREM SettingsKeepSecrets ==
    ASSUME NEW E, NEW T, NEW stored \in Target(E, T), NEW edited \in Target(E, T),
           NoText \in T, Placeholder \in T,
           stored.password # Placeholder, stored.secret # Placeholder
    PROVE  LET saved == SaveConfig(stored, edited)
               masked == MaskedForClient(stored)
           IN  /\ saved.password # Placeholder /\ saved.secret # Placeholder
               /\ edited.password = masked.password => saved.password = stored.password
               /\ edited.secret = masked.secret => saved.secret = stored.secret
               /\ SaveConfig(stored, masked) = stored
               /\ IF SameTarget(stored, edited)
                  THEN /\ saved.at = stored.at /\ saved.revision = stored.revision
                       /\ \A name : RemoteUrl(saved, name) = RemoteUrl(stored, name)
                  ELSE saved.at = 0 /\ saved.revision = NoText
<1> DEFINE saved == SaveConfig(stored, edited)
           masked == MaskedForClient(stored)
           same == SameTarget(stored, edited)
<1>1. /\ stored.password \in T /\ stored.secret \in T /\ stored.at \in Nat /\ stored.revision \in T
      /\ edited.password \in T /\ edited.secret \in T
  BY DEF Target
<1>2. /\ Mask(stored.password) \in T /\ Mask(stored.secret) \in T
      /\ \A text : Mask(text) = IF text = NoText THEN NoText ELSE Placeholder
  BY DEF Mask
<1>3. masked = With(stored, Mask(stored.password), Mask(stored.secret), stored.at, stored.revision)
  BY DEF MaskedForClient, Target, With
<1>4. /\ masked \in Target(E, T)
      /\ masked.password = Mask(stored.password) /\ masked.secret = Mask(stored.secret)
      /\ masked.at = stored.at /\ masked.revision = stored.revision
      /\ masked.provider = stored.provider /\ masked.webdav = stored.webdav /\ masked.s3 = stored.s3
      /\ masked.legacy = stored.legacy /\ masked.path = stored.path
      /\ masked.username = stored.username /\ masked.bucket = stored.bucket
      /\ masked.region = stored.region /\ masked.access = stored.access
      /\ masked.enabled = stored.enabled
  <2> HIDE DEF masked
  <2> QED BY <1>1, <1>2, <1>3 DEF Target, With
<1>5. ASSUME NEW d \in Target(E, T)
      PROVE  LET u == SaveConfig(stored, d) IN
             /\ u \in Target(E, T)
             /\ u.password = IF d.password = Placeholder THEN stored.password ELSE d.password
             /\ u.secret = IF d.secret = Placeholder THEN stored.secret ELSE d.secret
             /\ u.at = IF SameTarget(stored, d) THEN stored.at ELSE 0
             /\ u.revision = IF SameTarget(stored, d) THEN stored.revision ELSE NoText
             /\ u.provider = d.provider /\ u.webdav = d.webdav /\ u.s3 = d.s3 /\ u.legacy = d.legacy
             /\ u.path = d.path /\ u.username = d.username /\ u.bucket = d.bucket
             /\ u.region = d.region /\ u.access = d.access /\ u.enabled = d.enabled
  <2> DEFINE p == IF d.password = Placeholder THEN stored.password ELSE d.password
             s == IF d.secret = Placeholder THEN stored.secret ELSE d.secret
             a == IF SameTarget(stored, d) THEN stored.at ELSE 0
             r == IF SameTarget(stored, d) THEN stored.revision ELSE NoText
  <2>1. d.password \in T /\ d.secret \in T
    BY DEF Target
  <2>2. p \in T /\ s \in T /\ a \in Nat /\ r \in T
    BY <1>1, <2>1
  <2>3. SaveConfig(stored, d) = With(d, p, s, a, r)
    BY SavedFields
  <2> HIDE DEF p, s, a, r
  <2>4. LET u == SaveConfig(stored, d) IN
        /\ u \in Target(E, T)
        /\ u.password = p /\ u.secret = s /\ u.at = a /\ u.revision = r
        /\ u.provider = d.provider /\ u.webdav = d.webdav /\ u.s3 = d.s3 /\ u.legacy = d.legacy
        /\ u.path = d.path /\ u.username = d.username /\ u.bucket = d.bucket
        /\ u.region = d.region /\ u.access = d.access /\ u.enabled = d.enabled
    <3> DEFINE u == SaveConfig(stored, d)
    <3> HIDE DEF u
    <3>1. u = With(d, p, s, a, r)
      BY <2>3 DEF u
    <3>2. u \in Target(E, T)
      BY <2>2, <3>1 DEF Target, With
    <3>3. u.password = p /\ u.secret = s /\ u.at = a /\ u.revision = r
      BY <3>1 DEF Target, With
    <3>4. /\ u.provider = d.provider /\ u.webdav = d.webdav /\ u.s3 = d.s3 /\ u.legacy = d.legacy
          /\ u.path = d.path /\ u.username = d.username /\ u.bucket = d.bucket
          /\ u.region = d.region /\ u.access = d.access /\ u.enabled = d.enabled
      BY <3>1 DEF Target, With
    <3> QED BY <3>2, <3>3, <3>4 DEF u
  <2> QED BY <2>4 DEF p, s, a, r
<1> HIDE DEF masked
<1>6. SaveConfig(stored, masked) = stored
  <2> DEFINE u == SaveConfig(stored, masked)
  <2>1. SameTarget(stored, masked)
    BY <1>4 DEF SameTarget
  <2>2. /\ u \in Target(E, T)
        /\ u.password = IF masked.password = Placeholder THEN stored.password ELSE masked.password
        /\ u.secret = IF masked.secret = Placeholder THEN stored.secret ELSE masked.secret
        /\ u.at = stored.at /\ u.revision = stored.revision
        /\ u.provider = masked.provider /\ u.webdav = masked.webdav /\ u.s3 = masked.s3
        /\ u.legacy = masked.legacy /\ u.path = masked.path /\ u.username = masked.username
        /\ u.bucket = masked.bucket /\ u.region = masked.region /\ u.access = masked.access
        /\ u.enabled = masked.enabled
    BY <1>4, <1>5, <2>1
  <2> HIDE DEF u
  <2>3. u.password = stored.password /\ u.secret = stored.secret
    BY <1>2, <1>4, <2>2
  <2>4. u = stored
    BY <1>4, <2>2, <2>3, SameFields
  <2> QED BY <2>4 DEF u
<1>7. /\ saved.password = IF edited.password = Placeholder THEN stored.password ELSE edited.password
      /\ saved.secret = IF edited.secret = Placeholder THEN stored.secret ELSE edited.secret
      /\ saved.at = IF same THEN stored.at ELSE 0
      /\ saved.revision = IF same THEN stored.revision ELSE NoText
      /\ saved.provider = edited.provider /\ saved.path = edited.path
      /\ saved.webdav = edited.webdav /\ saved.s3 = edited.s3 /\ saved.username = edited.username
      /\ saved.bucket = edited.bucket /\ saved.region = edited.region /\ saved.access = edited.access
  BY <1>5
<1> HIDE DEF saved
<1>8. same => \A name : RemoteUrl(saved, name) = RemoteUrl(stored, name)
  <2>1. SameTarget(stored, saved) <=> same
    BY <1>7, TargetIsPlace
  <2> QED BY <2>1, SameTargetSameUrl
<1>9. /\ saved.password # Placeholder /\ saved.secret # Placeholder
      /\ edited.password = masked.password => saved.password = stored.password
      /\ edited.secret = masked.secret => saved.secret = stored.secret
  BY <1>2, <1>4, <1>7
<1> HIDE DEF same
<1>10. IF same THEN saved.at = stored.at /\ saved.revision = stored.revision
               ELSE saved.at = 0 /\ saved.revision = NoText
  BY <1>7
<1> QED BY <1>6, <1>8, <1>9, <1>10 DEF saved, masked, same

\* An address an older build stored moves once, and only to the provider it
\* was for (migrate_legacy_endpoint).
THEOREM EndpointMovesOnce ==
    ASSUME NEW E, NEW T, NEW c \in Target(E, T), Blank \in E
    PROVE  LET moved == MigrateEndpoint(c) IN
           /\ MigrateEndpoint(moved) = moved /\ moved.legacy = Blank
           /\ c.provider = "s3" => moved.webdav = c.webdav
           /\ c.provider = "webdav" => moved.s3 = c.s3
<1> DEFINE moved == MigrateEndpoint(c)
<1>1. CASE c.provider = "s3"
  <2>1. moved = [c EXCEPT !.legacy = Blank, !.s3 = IF c.s3 = Blank THEN c.legacy ELSE c.s3]
    BY <1>1 DEF MigrateEndpoint, Target
  <2>2. moved \in Target(E, T) /\ moved.provider = "s3" /\ moved.legacy = Blank
        /\ moved.webdav = c.webdav
    BY <1>1, <2>1 DEF Target
  <2> HIDE DEF moved
  <2>3. MigrateEndpoint(moved)
          = [moved EXCEPT !.legacy = Blank, !.s3 = IF moved.s3 = Blank THEN moved.legacy ELSE moved.s3]
    BY <2>2 DEF MigrateEndpoint, Target
  <2>4. MigrateEndpoint(moved) = [moved EXCEPT !.legacy = moved.legacy, !.s3 = moved.s3]
    BY <2>2, <2>3
  <2>5. MigrateEndpoint(moved) = moved
    BY <2>2, <2>4 DEF Target
  <2> QED BY <1>1, <2>2, <2>5 DEF moved
<1>2. CASE c.provider = "webdav"
  <2>1. moved = [c EXCEPT !.legacy = Blank, !.webdav = IF c.webdav = Blank THEN c.legacy ELSE c.webdav]
    BY <1>2 DEF MigrateEndpoint, Target
  <2>2. moved \in Target(E, T) /\ moved.provider = "webdav" /\ moved.legacy = Blank
        /\ moved.s3 = c.s3
    BY <1>2, <2>1 DEF Target
  <2> HIDE DEF moved
  <2>3. MigrateEndpoint(moved)
          = [moved EXCEPT !.legacy = Blank,
                          !.webdav = IF moved.webdav = Blank THEN moved.legacy ELSE moved.webdav]
    BY <2>2 DEF MigrateEndpoint, Target
  <2>4. MigrateEndpoint(moved) = [moved EXCEPT !.legacy = moved.legacy, !.webdav = moved.webdav]
    BY <2>2, <2>3
  <2>5. MigrateEndpoint(moved) = moved
    BY <2>2, <2>4 DEF Target
  <2> QED BY <1>2, <2>2, <2>5 DEF moved
<1> QED BY <1>1, <1>2 DEF Target
=============================================================================
