----------------------------- MODULE UpdateCheck -----------------------------
(* The release check: the remembered state behind one lock on the server side
   (api/src/update.rs) and the monitors of the windows that ask it
   (ui/src/app/updates.rs).  A state is what update.json holds; versions are
   numbers and this build is version 1.  Requests of one window may overlap:
   the launch check and the actions of the card, which claim the busy flag
   with their click (the first poll of the task it spawns).                 *)
EXTENDS Integers

CONSTANTS
    CardWindows,      \* windows (or browser tabs) that show the update card
    CardActions,      \* overlapping card actions of one window
    CheckInterval,    \* UPDATE_CHECK_INTERVAL_SECS, in ticks
    MaxClock,         \* bound: the clock runs over 1 .. MaxClock
    MaxRelease,       \* bound: newest version ever published
    MaxCardActions,   \* bound: card actions started
    MaxUpdateFaults   \* bound: failing writes, deaths of the server and clock corrections

ASSUME UpdateAssumption ==
    /\ "launch" \notin CardActions
    /\ CheckInterval \in Nat \ {0} /\ MaxClock \in Nat \ {0} /\ MaxRelease \in Nat \ {0}
    /\ MaxCardActions \in Nat /\ MaxUpdateFaults \in Nat

VARIABLES
    updOverwrites,  \* a rename replaces an existing file (not on Windows)
    updFile,        \* update.json or NoFile; a file that cannot be parsed reads the same
    updLock,        \* the request that holds state_lock
    updTask,        \* window -> task -> its request
    updWindow,      \* window -> its UpdateMonitor
    updClock,       \* unix_now, which corrections may move back
    updPublished,   \* the newest release on GitHub, 0 for none
    updAcked,       \* what the server last confirmed to have stored
    updFaults, updActions

updVars == <<updOverwrites, updFile, updLock, updTask, updWindow, updClock, updPublished,
             updAcked, updFaults, updActions>>
updServer == <<updOverwrites, updFile, updLock, updClock, updPublished, updAcked, updFaults>>

Tasks == CardActions \cup {"launch"}
Free == <<>>
DefaultState == [auto |-> TRUE, last |-> 0, latest |-> 0, snoozed |-> 0]
NoFile == [DefaultState EXCEPT !.last = -1]
NoTask == [pc |-> "none", kind |-> "load", force |-> FALSE, gen |-> 0, auto |-> FALSE,
           version |-> 0, now |-> 0, state |-> DefaultState, error |-> FALSE, failed |-> FALSE]
NoAnswer == [gen |-> 0, state |-> "idle", latest |-> 0, snoozed |-> FALSE]

UpdateInit ==
    /\ updOverwrites \in BOOLEAN
    /\ updFile = NoFile /\ updLock = Free
    /\ updTask = [w \in CardWindows |-> [t \in Tasks |->
          IF t = "launch" THEN [NoTask EXCEPT !.pc = "queued"] ELSE NoTask]]
    /\ updWindow = [w \in CardWindows |-> [busy |-> "none", saved |-> TRUE, ready |-> FALSE,
          gen |-> 0, status |-> NoAnswer, error |-> FALSE, announced |-> 0]]
    /\ updClock = 1 /\ updPublished \in 0 .. MaxRelease
    /\ updAcked = [auto |-> TRUE, snoozed |-> 0]
    /\ updFaults = 0 /\ updActions = 0

UpdateFault == updFaults < MaxUpdateFaults /\ updFaults' = updFaults + 1
At(w, t, pc) == updTask[w][t].pc = pc
Set(w, t, task) == updTask' = [updTask EXCEPT ![w][t] = task]
-----------------------------------------------------------------------------
ReadState == IF updFile = NoFile THEN DefaultState ELSE updFile

ShouldCheck(now, last) == last = 0 \/ now < last \/ now - last >= CheckInterval

Due(task, state) ==
    task.kind = "check" /\ (task.force \/ (state.auto /\ ShouldCheck(task.now, state.last)))

StatusFor(state, error) ==
    LET newer == state.latest > 1 IN
    [state |-> IF newer THEN "available" ELSE IF error THEN "failed"
               ELSE IF state.latest # 0 \/ state.last > 0 THEN "up_to_date" ELSE "idle",
     latest |-> state.latest, snoozed |-> newer /\ state.latest = state.snoozed]

\* Regression: every request reads and writes the state file at once.
NoStateLock == TRUE
LockFree == updLock = Free

(* The settings are read without the lock.                                  *)
LoadSettings(w, t) ==
    /\ At(w, t, "queued") /\ updTask[w][t].kind = "load"
    /\ Set(w, t, [updTask[w][t] EXCEPT !.pc = "answered", !.state = ReadState])
    /\ UNCHANGED <<updServer, updWindow, updActions>>

(* A check reads the clock before it waits for the lock.                    *)
ReadClock(w, t) ==
    /\ At(w, t, "queued") /\ updTask[w][t].kind = "check"
    /\ Set(w, t, [updTask[w][t] EXCEPT !.pc = "waiting", !.now = updClock])
    /\ UNCHANGED <<updServer, updWindow, updActions>>

(* Under the lock the state is read again, and a check that is due goes to
   GitHub; the other two change their one field.                            *)
Locked(w, t) ==
    LET task == updTask[w][t]
        state == ReadState
    IN
    /\ At(w, t, IF task.kind = "check" THEN "waiting" ELSE "queued")
    /\ task.kind # "load" /\ LockFree
    /\ IF task.kind = "check" /\ ~Due(task, state)
       THEN Set(w, t, [task EXCEPT !.pc = "answered", !.state = state]) /\ UNCHANGED updLock
       ELSE /\ updLock' = <<w, t>>
            /\ Set(w, t, [task EXCEPT
                  !.pc = IF task.kind = "check" THEN "fetch" ELSE "write",
                  !.state = CASE task.kind = "save" -> [state EXCEPT !.auto = task.auto]
                              [] task.kind = "dismiss" -> [state EXCEPT !.snoozed = task.version]
                              [] OTHER -> state])
    /\ UNCHANGED <<updOverwrites, updFile, updClock, updPublished, updAcked, updFaults,
                   updWindow, updActions>>

(* GitHub answers with its newest release, with none, or not at all; only an
   answer moves the throttle, to the time the check began.                  *)
FetchRelease(w, t) ==
    /\ At(w, t, "fetch")
    /\ \/ /\ Set(w, t, [updTask[w][t] EXCEPT !.pc = "write", !.state.latest = updPublished,
                                             !.state.last = updTask[w][t].now])
          /\ UNCHANGED updLock
       \/ /\ Set(w, t, [updTask[w][t] EXCEPT !.pc = "answered", !.error = TRUE])
          /\ updLock' = Free
    /\ UNCHANGED <<updOverwrites, updFile, updClock, updPublished, updAcked, updFaults,
                   updWindow, updActions>>

(* A check reports a state it could not store; the other two fail with it.  *)
WriteFails(w, t) ==
    /\ UpdateFault
    /\ updLock' = Free
    /\ Set(w, t, [updTask[w][t] EXCEPT !.pc = "answered", !.error = TRUE,
                                       !.failed = updTask[w][t].kind # "check"])

(* The temporary file is complete; where a rename does not overwrite, the
   state file is removed first.                                             *)
WriteState(w, t) ==
    /\ At(w, t, "write")
    /\ \/ /\ Set(w, t, [updTask[w][t] EXCEPT !.pc = "place"])
          /\ updFile' = IF updOverwrites THEN updFile ELSE NoFile
          /\ UNCHANGED <<updLock, updFaults>>
       \/ WriteFails(w, t) /\ UNCHANGED updFile
    /\ UNCHANGED <<updOverwrites, updClock, updPublished, updAcked, updWindow, updActions>>

PlaceState(w, t) ==
    LET task == updTask[w][t] IN
    /\ At(w, t, "place")
    /\ \/ /\ updFile' = task.state /\ updLock' = Free
          /\ updAcked' = CASE task.kind = "save" -> [updAcked EXCEPT !.auto = task.auto]
                           [] task.kind = "dismiss" -> [updAcked EXCEPT !.snoozed = task.version]
                           [] OTHER -> updAcked
          /\ Set(w, t, [task EXCEPT !.pc = "answered"])
          /\ UNCHANGED updFaults
       \/ WriteFails(w, t) /\ UNCHANGED <<updFile, updAcked>>
    /\ UNCHANGED <<updOverwrites, updClock, updPublished, updWindow, updActions>>

(* The server dies and is started again: its requests fail.                 *)
ServerDies ==
    /\ UpdateFault /\ updLock' = Free
    /\ updTask' = [w \in CardWindows |-> [t \in Tasks |->
          IF updTask[w][t].pc \in {"queued", "waiting", "fetch", "write", "place"}
          THEN [updTask[w][t] EXCEPT !.pc = "answered", !.failed = TRUE] ELSE updTask[w][t]]]
    /\ UNCHANGED <<updOverwrites, updFile, updClock, updPublished, updAcked, updWindow, updActions>>
-----------------------------------------------------------------------------
(* refresh: the next generation asks, and its window is busy with it.       *)
Ask(w, t, force, monitor) ==
    /\ updWindow' = [updWindow EXCEPT ![w] = [monitor EXCEPT !.busy = "check", !.gen = @ + 1]]
    /\ Set(w, t, [NoTask EXCEPT !.pc = "queued", !.kind = "check", !.force = force,
                                !.gen = monitor.gen + 1])

(* The launch goes on to its check whether or not the settings came.        *)
LaunchLoaded(w) ==
    LET task == updTask[w]["launch"] IN
    /\ At(w, "launch", "answered") /\ task.kind = "load"
    /\ Ask(w, "launch", FALSE, [updWindow[w] EXCEPT !.ready = TRUE,
            !.saved = IF task.failed THEN @ ELSE task.state.auto])
    /\ UNCHANGED <<updServer, updActions>>

\* Regression: an answer is shown whenever it comes.
SupersededNever(w, task) == FALSE
Superseded(w, task) == task.gen # updWindow[w].gen

(* The answer of a check is dropped when a newer one was asked; a release to
   act on is announced once.  The switch clears the flag after its check.   *)
CheckAnswered(w, t) ==
    LET task == updTask[w][t]
        status == StatusFor(task.state, task.error)
        answer == [gen |-> task.gen, state |-> status.state, latest |-> status.latest,
                   snoozed |-> status.snoozed]
        news == answer.state = "available" /\ ~answer.snoozed
        monitor == updWindow[w]
    IN
    /\ At(w, t, "answered") /\ task.kind = "check"
    /\ updWindow' = [updWindow EXCEPT ![w] =
          IF Superseded(w, task) THEN [monitor EXCEPT !.busy = IF task.auto THEN "none" ELSE @]
          ELSE IF task.failed THEN [monitor EXCEPT !.error = TRUE, !.busy = "none"]
          ELSE [monitor EXCEPT !.error = FALSE, !.status = answer, !.busy = "none",
                         !.announced = IF news THEN answer.latest ELSE @]]
    /\ Set(w, t, NoTask)
    /\ UNCHANGED <<updServer, updActions>>

Idle(w) == updWindow[w].busy = "none"

Act(w, t, busy, task) ==
    /\ Idle(w) /\ At(w, t, "none") /\ updActions < MaxCardActions
    /\ updActions' = updActions + 1
    /\ updWindow' = [updWindow EXCEPT ![w].busy = busy]
    /\ Set(w, t, task)
    /\ UNCHANGED updServer

Toggle(w, t) ==
    Act(w, t, "toggle", [NoTask EXCEPT !.pc = "queued", !.kind = "save",
                                       !.auto = ~updWindow[w].saved])

ToggleAnswered(w, t) ==
    LET task == updTask[w][t] IN
    /\ At(w, t, "answered") /\ task.kind = "save"
    /\ IF task.failed \/ ~task.auto
       THEN /\ updWindow' = [updWindow EXCEPT ![w].busy = "none",
                               ![w].saved = IF task.failed THEN @ ELSE FALSE]
            /\ Set(w, t, NoTask)
       ELSE /\ updWindow' = [updWindow EXCEPT ![w].saved = TRUE, ![w].busy = "check", ![w].gen = @ + 1]
            /\ Set(w, t, [NoTask EXCEPT !.pc = "queued", !.kind = "check", !.auto = TRUE,
                                        !.gen = updWindow[w].gen + 1])
    /\ UNCHANGED <<updServer, updActions>>

CheckNow(w, t) ==
    /\ Idle(w) /\ updWindow[w].ready /\ At(w, t, "none") /\ updActions < MaxCardActions
    /\ updActions' = updActions + 1
    /\ Ask(w, t, TRUE, updWindow[w])
    /\ UNCHANGED updServer

Actionable(w) == updWindow[w].status.state = "available" /\ ~updWindow[w].status.snoozed

Dismiss(w, t) ==
    /\ Actionable(w)
    /\ Act(w, t, "dismiss", [NoTask EXCEPT !.pc = "queued", !.kind = "dismiss",
                                           !.version = updWindow[w].status.latest])

DismissAnswered(w, t) ==
    /\ At(w, t, "answered") /\ updTask[w][t].kind = "dismiss"
    /\ updWindow' = [updWindow EXCEPT ![w].busy = "none",
                        ![w].status.snoozed = @ \/ ~updTask[w][t].failed]
    /\ Set(w, t, NoTask)
    /\ UNCHANGED <<updServer, updActions>>
-----------------------------------------------------------------------------
(* Time passes, the clock is corrected, a release is published.             *)
UpdateTick ==
    /\ \/ updClock < MaxClock /\ updClock' = updClock + 1 /\ UNCHANGED updFaults
       \/ UpdateFault /\ updClock' \in 1 .. updClock - 1
    /\ UNCHANGED <<updOverwrites, updFile, updLock, updTask, updWindow, updPublished, updAcked,
                   updActions>>

Publish ==
    /\ updPublished < MaxRelease /\ updPublished' = updPublished + 1
    /\ UNCHANGED <<updOverwrites, updFile, updLock, updTask, updWindow, updClock, updAcked,
                   updFaults, updActions>>

UpdateNext ==
    \/ \E w \in CardWindows :
         \/ LaunchLoaded(w)
         \/ \E t \in Tasks :
              \/ LoadSettings(w, t) \/ ReadClock(w, t) \/ Locked(w, t) \/ FetchRelease(w, t)
              \/ WriteState(w, t) \/ PlaceState(w, t) \/ CheckAnswered(w, t)
              \/ ToggleAnswered(w, t) \/ DismissAnswered(w, t)
         \/ \E t \in CardActions : Toggle(w, t) \/ CheckNow(w, t) \/ Dismiss(w, t)
    \/ ServerDies \/ UpdateTick \/ Publish
-----------------------------------------------------------------------------
UpdateTypeOK ==
    /\ updOverwrites \in BOOLEAN
    /\ updFile \in [auto : BOOLEAN, last : -1 .. MaxClock, latest : 0 .. MaxRelease,
                    snoozed : 0 .. MaxRelease]
    /\ updLock = Free \/ updLock \in CardWindows \X Tasks
    /\ \A w \in CardWindows : \A t \in Tasks :
          /\ updTask[w][t].pc \in {"none", "queued", "waiting", "fetch", "write", "place",
                                  "answered"}
          /\ updTask[w][t].kind \in {"load", "check", "save", "dismiss"}
          /\ updTask[w][t].now \in 0 .. MaxClock
          /\ updTask[w][t].gen \in 0 .. updWindow[w].gen
    /\ \A w \in CardWindows :
          updWindow[w].busy \in {"none", "check", "toggle", "dismiss"}
    /\ updClock \in 1 .. MaxClock /\ updPublished \in 0 .. MaxRelease
    /\ updAcked \in [auto : BOOLEAN, snoozed : 0 .. MaxRelease]
    /\ updFaults \in 0 .. MaxUpdateFaults /\ updActions \in 0 .. MaxCardActions

(* GitHub is contacted on the application's own initiative only when what is
   stored at that moment allows it, whatever other requests do meanwhile: the
   switch is on, and the last answered check is an interval older than the
   time this one began, or later than it (update.rs:238, :307).  A check that
   waited for the lock behind the answer of one that began later is such a
   case: it asks again.                                                     *)
AutoFetchIsAllowed ==
    \A w \in CardWindows, t \in Tasks :
        At(w, t, "fetch") /\ ~updTask[w][t].force =>
            ReadState.auto /\ ShouldCheck(updTask[w][t].now, ReadState.last)

(* What the server confirmed stays stored: no request overwrites another's
   switch or ignored version with what it read earlier (update.rs:223), and
   no death in the middle of a write loses it where a rename overwrites.    *)
AckedSettingsKept ==
    updOverwrites => /\ ReadState.auto = updAcked.auto
                     /\ ReadState.snoozed = updAcked.snoozed

(* A slow check never replaces the answer of one asked after it
   (updates.rs:109).                                                        *)
AnswersNeverRegress ==
    [][\A w \in CardWindows : updWindow[w].status.gen <= updWindow'[w].status.gen]_updVars

(* What updates.rs:109 says of the busy flag: while the newest check of a
   window runs, nothing clears it.                                          *)
BusyWhileChecking ==
    \A w \in CardWindows : \A t \in Tasks :
        updTask[w][t].pc # "none" /\ updTask[w][t].kind = "check" /\ ~Superseded(w, updTask[w][t])
            => updWindow[w].busy # "none"
=============================================================================
