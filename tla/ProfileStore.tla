---------------------------- MODULE ProfileStore ----------------------------
(* One profile file that processes load and save: a save writes a temporary
   file and replaces the destination with it, by one rename where a rename
   overwrites and through a backup where it does not or fails; the first load
   of a process first sweeps what interrupted saves left behind
   (api/src/atomic_write.rs, core.rs load_native_profile and
   save_native_profile).  Every file operation is a step and may fail; a
   process may die between two of them.  Backups have unique names, so the
   set of the versions they hold stands for them: one version is in two
   backups only beside a sweep that a save crossed (psCrossed).             *)
EXTENDS Integers, FiniteSets

CONSTANTS
    Processes,        \* programs that use the same configuration directory
    Readers,          \* loads a process may have under way at once
    LoadFirst,        \* the client loads before it saves (proxy_app.rs:590)
    MaxVersions,      \* bound: saves begun
    MaxStoreMishaps   \* bound: failed file operations and deaths together

ASSUME StoreAssumption == LoadFirst \in BOOLEAN /\ {MaxVersions, MaxStoreMishaps} \subseteq Nat

VARIABLES
    psOverwrites,  \* whether the replacement starts with a plain rename (not on Windows)
    psFile,        \* the version at the destination, NoProfile or Torn
    psTemp,        \* process -> its temporary file
    psBackups,     \* versions in backup files
    psSave,        \* process -> the save that holds its profile_write_lock
    psLoad,        \* process and reader -> the load and what is left for it to sweep
    psRecovered,   \* processes whose RECOVERED is set
    psCrossed,     \* history: a save began while a first load of its process still swept
    psVersions,    \* saves begun
    psAcked,       \* the last version a save was told Ok for
    psMishaps

psVars == <<psOverwrites, psFile, psTemp, psBackups, psSave, psLoad, psRecovered,
            psCrossed, psVersions, psAcked, psMishaps>>

NoProfile == 0
Torn == -1
Saves == 1 .. MaxVersions
NoSave == [pc |-> "idle", new |-> 0, old |-> 0]
NoLoad == [pc |-> "idle", temps |-> {}, backups |-> {}, look |-> 0, exists |-> FALSE,
           answer |-> 0]

StoreInit ==
    /\ psOverwrites \in BOOLEAN
    /\ psFile = NoProfile /\ psBackups = {}
    /\ psTemp = [p \in Processes |-> "none"]
    /\ psSave = [p \in Processes |-> NoSave]
    /\ psLoad = [l \in Processes \X Readers |-> NoLoad]
    /\ psRecovered = {} /\ psCrossed = FALSE
    /\ psVersions = 0 /\ psAcked = 0 /\ psMishaps = 0

Fault == psMishaps < MaxStoreMishaps /\ psMishaps' = psMishaps + 1
NoFault == UNCHANGED psMishaps

\* A first load of p has not finished its sweep.
Sweeping(p) == \E r \in Readers : psLoad[<<p, r>>].pc \in {"list", "sweep", "move"}
-----------------------------------------------------------------------------
(* A save under the lock.  A page that outlives a restart of the web server
   saves before the new process has loaded anything.                        *)
SaveBegin(p) ==
    /\ psSave[p].pc = "idle" /\ psVersions < MaxVersions
    /\ LoadFirst => p \in psRecovered
    /\ psVersions' = psVersions + 1
    /\ psSave' = [psSave EXCEPT ![p] = [NoSave EXCEPT !.pc = "write", !.new = psVersions + 1]]
    /\ psTemp' = [psTemp EXCEPT ![p] = "partial"]
    /\ psCrossed' = (psCrossed \/ Sweeping(p))
    /\ UNCHANGED <<psOverwrites, psFile, psBackups, psLoad, psRecovered, psAcked, psMishaps>>

(* The save ends with an error: the temporary file is removed.              *)
SaveFails(p) ==
    /\ psSave' = [psSave EXCEPT ![p] = NoSave]
    /\ psTemp' = [psTemp EXCEPT ![p] = "none"]

SaveSucceeds(p) ==
    /\ psSave' = [psSave EXCEPT ![p] = NoSave]
    /\ psAcked' = psSave[p].new

\* Regression: the file itself is opened and written.
SaveWriteInPlace(p) ==
    /\ psSave[p].pc = "write"
    /\ \/ NoFault /\ psFile' = psSave[p].new /\ SaveSucceeds(p)
       \/ Fault /\ psFile' = Torn /\ psSave' = [psSave EXCEPT ![p] = NoSave] /\ UNCHANGED psAcked
    /\ psTemp' = [psTemp EXCEPT ![p] = "none"]
    /\ UNCHANGED <<psOverwrites, psBackups, psLoad, psRecovered, psCrossed, psVersions>>

SaveWrite(p) ==
    /\ psSave[p].pc = "write"
    /\ \/ /\ psTemp[p] # "none"
          /\ psTemp' = [psTemp EXCEPT ![p] = "full"]
          /\ psSave' = [psSave EXCEPT ![p].pc = IF psOverwrites THEN "rename" ELSE "aside"]
          /\ NoFault
       \/ /\ psTemp[p] = "none"    \* swept meanwhile: the open file is written
          /\ psSave' = [psSave EXCEPT ![p].pc = IF psOverwrites THEN "rename" ELSE "aside"]
          /\ NoFault /\ UNCHANGED psTemp
       \/ Fault /\ SaveFails(p)
    /\ UNCHANGED <<psOverwrites, psFile, psBackups, psLoad, psRecovered, psCrossed, psVersions, psAcked>>

(* What a rename of the temporary file leaves at the destination.           *)
Placed(p) == IF psTemp[p] = "full" THEN psSave[p].new ELSE Torn

SaveRename(p) ==
    /\ psSave[p].pc = "rename"
    /\ \/ /\ psTemp[p] # "none" /\ NoFault
          /\ psFile' = Placed(p)
          /\ psTemp' = [psTemp EXCEPT ![p] = "none"]
          /\ SaveSucceeds(p)
       \/ /\ (psTemp[p] = "none" /\ NoFault) \/ Fault
          /\ psSave' = [psSave EXCEPT ![p].pc = "aside"]
          /\ UNCHANGED <<psFile, psTemp, psAcked>>
    /\ UNCHANGED <<psOverwrites, psBackups, psLoad, psRecovered, psCrossed, psVersions>>

\* Regression: the old file is removed to make room.
SaveRemovesOld(p) ==
    /\ psSave[p].pc = "aside"
    /\ \/ /\ NoFault /\ psFile' = NoProfile
          /\ psSave' = [psSave EXCEPT ![p].pc = "install"]
          /\ UNCHANGED <<psBackups, psTemp>>
       \/ Fault /\ SaveFails(p) /\ UNCHANGED <<psFile, psBackups>>
    /\ UNCHANGED <<psOverwrites, psLoad, psRecovered, psCrossed, psVersions, psAcked>>

(* The old file is moved to a backup, never removed.                        *)
SaveAside(p) ==
    /\ psSave[p].pc = "aside"
    /\ \/ /\ psFile # NoProfile /\ NoFault
          /\ psBackups' = psBackups \cup {psFile} /\ psFile' = NoProfile
          /\ psSave' = [psSave EXCEPT ![p].pc = "install", ![p].old = psFile]
          /\ UNCHANGED psTemp
       \/ /\ psFile = NoProfile /\ NoFault
          /\ psSave' = [psSave EXCEPT ![p].pc = "install"]
          /\ UNCHANGED <<psFile, psBackups, psTemp>>
       \/ Fault /\ SaveFails(p) /\ UNCHANGED <<psFile, psBackups>>
    /\ UNCHANGED <<psOverwrites, psLoad, psRecovered, psCrossed, psVersions, psAcked>>

SaveInstall(p) ==
    /\ psSave[p].pc = "install"
    /\ \/ /\ psTemp[p] # "none" /\ NoFault
          /\ psFile' = Placed(p)
          /\ psTemp' = [psTemp EXCEPT ![p] = "none"]
          /\ IF psSave[p].old = 0 THEN SaveSucceeds(p)
             ELSE psSave' = [psSave EXCEPT ![p].pc = "drop"] /\ UNCHANGED psAcked
       \/ /\ (psTemp[p] = "none" /\ NoFault) \/ Fault
          /\ IF psSave[p].old = 0 THEN SaveFails(p)
             ELSE psSave' = [psSave EXCEPT ![p].pc = "restore"] /\ UNCHANGED psTemp
          /\ UNCHANGED <<psFile, psAcked>>
    /\ UNCHANGED <<psOverwrites, psBackups, psLoad, psRecovered, psCrossed, psVersions>>

SaveRestore(p) ==
    /\ psSave[p].pc = "restore" /\ SaveFails(p)
    /\ \/ /\ psSave[p].old \in psBackups /\ NoFault
          /\ psFile' = psSave[p].old /\ psBackups' = psBackups \ {psSave[p].old}
       \/ /\ (psSave[p].old \notin psBackups /\ NoFault) \/ Fault
          /\ UNCHANGED <<psFile, psBackups>>
    /\ UNCHANGED <<psOverwrites, psLoad, psRecovered, psCrossed, psVersions, psAcked>>

SaveDrop(p) ==
    /\ psSave[p].pc = "drop" /\ SaveSucceeds(p)
    /\ \/ NoFault /\ psBackups' = psBackups \ {psSave[p].old}
       \/ Fault /\ UNCHANGED psBackups
    /\ UNCHANGED <<psOverwrites, psFile, psTemp, psLoad, psRecovered, psCrossed, psVersions>>
-----------------------------------------------------------------------------
(* A load looks at RECOVERED; as long as it is not set the load lists the
   directory and sweeps what it listed, in no fixed order: temporaries are
   removed, a backup goes back in place when the destination is missing and
   is removed otherwise.  RECOVERED is set when the sweep is over, so several
   first loads may sweep.                                                   *)
LoadBegin(p, r) ==
    /\ psLoad[<<p, r>>].pc = "idle"
    /\ psLoad' = [psLoad EXCEPT ![<<p, r>>] =
          [NoLoad EXCEPT !.pc = IF p \in psRecovered THEN "read" ELSE "list"]]
    /\ UNCHANGED <<psOverwrites, psFile, psTemp, psBackups, psSave, psRecovered, psCrossed,
                   psVersions, psAcked, psMishaps>>

SweepList(p, r) ==
    /\ psLoad[<<p, r>>].pc = "list"
    /\ psLoad' = [psLoad EXCEPT ![<<p, r>>].pc = "sweep", ![<<p, r>>].backups = psBackups,
                                ![<<p, r>>].temps = {q \in Processes : psTemp[q] # "none"}]
    /\ UNCHANGED <<psOverwrites, psFile, psTemp, psBackups, psSave, psRecovered, psCrossed,
                   psVersions, psAcked, psMishaps>>

(* The rule set's recovery or the listing fails: RECOVERED is set as well.  *)
SweepFails(p, r) ==
    /\ psLoad[<<p, r>>].pc = "list" /\ Fault
    /\ psLoad' = [psLoad EXCEPT ![<<p, r>>].pc = "read"]
    /\ psRecovered' = psRecovered \cup {p}
    /\ UNCHANGED <<psOverwrites, psFile, psTemp, psBackups, psSave, psCrossed, psVersions, psAcked>>

SweepTemp(p, r) ==
    /\ psLoad[<<p, r>>].pc = "sweep"
    /\ \E q \in psLoad[<<p, r>>].temps :
         /\ psLoad' = [psLoad EXCEPT ![<<p, r>>].temps = @ \ {q}]
         /\ psTemp' = [psTemp EXCEPT ![q] = "none"]
    /\ UNCHANGED <<psOverwrites, psFile, psBackups, psSave, psRecovered, psCrossed, psVersions,
                   psAcked, psMishaps>>

SweepLook(p, r) ==
    /\ psLoad[<<p, r>>].pc = "sweep"
    /\ \E b \in psLoad[<<p, r>>].backups :
         psLoad' = [psLoad EXCEPT ![<<p, r>>].backups = @ \ {b}, ![<<p, r>>].look = b,
                         ![<<p, r>>].pc = "move", ![<<p, r>>].exists = psFile # NoProfile]
    /\ UNCHANGED <<psOverwrites, psFile, psTemp, psBackups, psSave, psRecovered, psCrossed,
                   psVersions, psAcked, psMishaps>>

SweepMove(p, r) ==
    LET b == psLoad[<<p, r>>].look IN
    /\ psLoad[<<p, r>>].pc = "move"
    /\ psLoad' = [psLoad EXCEPT ![<<p, r>>].pc = "sweep"]
    /\ \/ b \in psBackups /\ NoFault
          /\ psBackups' = psBackups \ {b}
          /\ psFile' = IF psLoad[<<p, r>>].exists THEN psFile ELSE b
       \/ ((b \notin psBackups /\ NoFault) \/ Fault) /\ UNCHANGED <<psBackups, psFile>>
    /\ UNCHANGED <<psOverwrites, psTemp, psSave, psRecovered, psCrossed, psVersions, psAcked>>

SweepDone(p, r) ==
    /\ psLoad[<<p, r>>].pc = "sweep"
    /\ psLoad[<<p, r>>].temps = {} /\ psLoad[<<p, r>>].backups = {}
    /\ psLoad' = [psLoad EXCEPT ![<<p, r>>].pc = "read"]
    /\ psRecovered' = psRecovered \cup {p}
    /\ UNCHANGED <<psOverwrites, psFile, psTemp, psBackups, psSave, psCrossed, psVersions,
                   psAcked, psMishaps>>

(* A missing file is answered with the default profile.                     *)
LoadRead(p, r) ==
    /\ psLoad[<<p, r>>].pc = "read"
    /\ psLoad' = [psLoad EXCEPT ![<<p, r>>] = [NoLoad EXCEPT !.answer = psFile]]
    /\ UNCHANGED <<psOverwrites, psFile, psTemp, psBackups, psSave, psRecovered, psCrossed,
                   psVersions, psAcked, psMishaps>>

(* A process dies: its temporary file and its backup stay.                  *)
ProcessKilled(p) ==
    /\ Fault
    /\ psSave' = [psSave EXCEPT ![p] = NoSave]
    /\ psLoad' = [l \in Processes \X Readers |-> IF l[1] = p THEN NoLoad ELSE psLoad[l]]
    /\ psRecovered' = psRecovered \ {p}
    /\ UNCHANGED <<psOverwrites, psFile, psTemp, psBackups, psCrossed, psVersions, psAcked>>

StoreNext ==
    \E p \in Processes :
        \/ SaveBegin(p) \/ SaveWrite(p) \/ SaveRename(p) \/ SaveAside(p)
        \/ SaveInstall(p) \/ SaveRestore(p) \/ SaveDrop(p)
        \/ ProcessKilled(p)
        \/ \E r \in Readers :
              \/ LoadBegin(p, r) \/ SweepList(p, r) \/ SweepFails(p, r) \/ SweepTemp(p, r)
              \/ SweepLook(p, r) \/ SweepMove(p, r) \/ SweepDone(p, r)
              \/ LoadRead(p, r)
-----------------------------------------------------------------------------
StoreTypeOK ==
    /\ psOverwrites \in BOOLEAN
    /\ psFile \in Saves \cup {NoProfile, Torn} /\ psBackups \subseteq Saves
    /\ psTemp \in [Processes -> {"none", "partial", "full"}]
    /\ psSave \in [Processes -> [pc : {"idle", "write", "rename", "aside", "install",
          "restore", "drop"}, new : 0 .. MaxVersions, old : 0 .. MaxVersions]]
    /\ psLoad \in [Processes \X Readers -> [pc : {"idle", "list", "sweep", "move", "read"},
          temps : SUBSET Processes, backups : SUBSET Saves, look : 0 .. MaxVersions,
          exists : BOOLEAN, answer : 0 .. MaxVersions]]
    /\ psRecovered \subseteq Processes /\ psCrossed \in BOOLEAN
    /\ psVersions \in 0 .. MaxVersions /\ psAcked \in 0 .. MaxVersions
    /\ psMishaps \in 0 .. MaxStoreMishaps

(* The profile a restart would find: the file, or else the newest backup.   *)
Newest(S) == IF S = {} THEN NoProfile ELSE CHOOSE v \in S : \A u \in S : u <= v
Kept == IF psFile # NoProfile THEN psFile ELSE Newest(psBackups)

(* What a save was told Ok for is never lost and never replaced by an older
   version, in spite of failing operations and deaths (atomic_write.rs:102,
   core.rs:185): it is at the destination or in the backup that the sweep
   would put back.  Several first loads may sweep, one after another has set
   RECOVERED (:276); a save that begins beside such a late sweep is excepted,
   for the sweep can put the backup it listed over the save's version.      *)
AckedIsKept == psCrossed \/ Kept >= psAcked

(* The abstract file: its content changes only to the version that a save in
   progress is writing, with the same exception.                            *)
FileIsAtomic ==
    [][psCrossed \/ \E p \in Processes : psSave[p].pc # "idle" /\ Kept' = psSave[p].new]_Kept
=============================================================================
