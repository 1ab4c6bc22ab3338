--------------------------- MODULE RuleSetInstall ---------------------------
(***************************************************************************)
(* packages/api/src/rule_set_cache.rs: installing a downloaded pair of     *)
(* rule files with a transaction file, backups and a commit marker, and    *)
(* recovering what an earlier run left behind.                             *)
(*                                                                         *)
(* One step is one change of the directory; tests with no change between   *)
(* them are one step with what follows, except where a test decides about  *)
(* a later deletion. The process may die between any two steps.            *)
(***************************************************************************)
EXTENDS Naturals, FiniteSets

CONSTANTS
    Clients,      \* requests in flight at the same time
    Absent,       \* no such file
    Bad,          \* a file the validator rejects
    MaxInstalls,  \* bound on the downloads of one behaviour
    MaxCrashes,   \* bound on its process deaths
    MaxFaults     \* bound on its failing file operations

ASSUME ValueAssumption == Absent # Bad /\ {Absent, Bad} \cap Nat = {}
ASSUME BoundAssumption == {MaxInstalls, MaxCrashes, MaxFaults} \subseteq Nat

Files == {"geosite", "geoip"}
Downloaded == 0..MaxInstalls  \* 0 is what an earlier version of the program cached
Contents == Downloaded \cup {Absent, Bad}
Nobody == "none"              \* no holder of the lock

VARIABLES
    file,       \* geosite-cn.srs and geoip-cn.srs
    backup,     \* their .srs.backup
    temp,       \* their .pending.tmp
    txn,        \* .rule-set-install.json: absent, half written, or what existed
    commit,     \* .rule-set-install.committed exists
    lock,       \* holder of rule_set_update_lock
    task,       \* per client: where its request stands
    downloads,  \* downloads so far (bound)
    crashes,    \* process deaths so far (bound)
    faults      \* failed file operations so far (bound)

disk == <<file, backup, temp, txn, commit>>
bounds == <<downloads, crashes>>
vars == <<disk, lock, task, bounds, faults>>

NoTxn == [state |-> "none", existed |-> {}]
Partial == [state |-> "partial", existed |-> {}]
Written(existed) == [state |-> "written", existed |-> existed]

Pcs == {"idle", "lock", "ready", "current", "answered", "download",
        "recover", "legacy", "legacy_clear", "legacy_move",
        "look", "clear", "move", "undone", "drop_txn", "drop_commit",
        "finish", "finish_txn", "finish_commit",
        "temp", "txn_open", "txn_write", "stage", "place", "commit"}

Idle == [pc |-> "idle", op |-> "none", f |-> "geosite", next |-> "idle",
         installing |-> FALSE, ok |-> TRUE, existed |-> {}]

RuleSetTypeOK ==
    /\ file \in [Files -> Contents]
    /\ backup \in [Files -> Contents]
    /\ temp \in [Files -> Downloaded \cup {Absent}]
    /\ txn \in {NoTxn, Partial} \cup {Written(e) : e \in SUBSET Files}
    /\ commit \in BOOLEAN
    /\ lock \in Clients \cup {Nobody}
    /\ task \in [Clients -> [pc : Pcs, op : {"none", "check", "update", "startup"},
                             f : Files, next : Pcs, installing : BOOLEAN,
                             ok : BOOLEAN, existed : SUBSET Files]]
    /\ downloads \in Downloaded
    /\ crashes \in 0..MaxCrashes
    /\ faults \in 0..MaxFaults

\* An empty directory, a complete cache, or what a version of the program
\* without pair transactions left after dying inside a replacement.
Init ==
    /\ \/ /\ \E v \in {Absent, 0} : file = [f \in Files |-> v]
          /\ backup = [f \in Files |-> Absent]
       \/ \E f \in Files, v \in {Absent, Bad, 0} :
             /\ file = [[g \in Files |-> 0] EXCEPT ![f] = v]
             /\ backup = [[g \in Files |-> Absent] EXCEPT ![f] = 0]
    /\ temp = [f \in Files |-> Absent]
    /\ txn = NoTxn
    /\ commit = FALSE
    /\ lock = Nobody
    /\ task = [k \in Clients |-> Idle]
    /\ downloads = 0
    /\ crashes = 0
    /\ faults = 0

-----------------------------------------------------------------------------
At(k, pc) == task[k].pc = pc
F(k) == task[k].f
Goto(k, pc) == task' = [task EXCEPT ![k].pc = pc, ![k].f = "geosite"]

\* The same step for the second file after the first, then on to pc.
EachFile(k, again, pc) ==
    task' = IF F(k) = "geosite"
            THEN [task EXCEPT ![k].pc = again, ![k].f = "geoip"]
            ELSE [task EXCEPT ![k].pc = pc, ![k].f = "geosite"]

\* The request is over, answered with an error or not; the guard is released.
Return(k) ==
    /\ task' = [task EXCEPT ![k] = Idle]
    /\ lock' = IF lock = k THEN Nobody ELSE lock

\* Regression: nothing is recovered first.
RecoverSkipped(k, next) == task' = [task EXCEPT ![k].pc = next, ![k].next = next]

\* recover_rule_set_transaction, to continue at next.
Recover(k, next) ==
    task' = [task EXCEPT ![k].pc = "recover", ![k].next = next, ![k].ok = TRUE,
                         ![k].installing = FALSE]

Works == UNCHANGED faults
Fails == faults < MaxFaults /\ faults' = faults + 1

Valid(f) == file[f] \notin {Absent, Bad}

-----------------------------------------------------------------------------
(***************************************************************************)
(* The requests: prepare_rule_set_cache_for_request, whose first check     *)
(* takes no lock, native_update_rule_sets, and recover_interrupted_writes  *)
(* at the first load of the profile, which takes none either.              *)
(***************************************************************************)
\* Regression: the first check looks at the files without recovering.
RequestUnrecovered(k) ==
    /\ At(k, "idle")
    /\ \/ task' = [task EXCEPT ![k].op = "check", ![k].pc = "ready"]
       \/ task' = [task EXCEPT ![k].op = "update", ![k].pc = "lock"]
    /\ UNCHANGED <<disk, lock, bounds, faults>>

Request(k) ==
    /\ At(k, "idle")
    /\ \/ task' = [task EXCEPT ![k].op = "check", ![k].pc = "recover", ![k].next = "ready"]
       \/ task' = [task EXCEPT ![k].op = "update", ![k].pc = "lock"]
       \/ task' = [task EXCEPT ![k].op = "startup", ![k].pc = "recover",
                               ![k].next = "answered"]
    /\ UNCHANGED <<disk, lock, bounds, faults>>

TakeLock(k) ==
    /\ At(k, "lock")
    /\ lock = Nobody
    /\ lock' = k
    /\ \/ Recover(k, IF task[k].op = "check" THEN "ready" ELSE "current")
       \/ task[k].op = "update" /\ Goto(k, "download") \* a forced update
    /\ UNCHANGED <<disk, bounds, faults>>

\* native_rule_set_cache_ready after its recovery, and what each caller does.
CheckReady(k) ==
    /\ At(k, "ready")
    /\ IF \A f \in Files : Valid(f) THEN Goto(k, "answered")
       ELSE IF lock = k THEN Goto(k, "download")
       ELSE Goto(k, "lock")
    /\ UNCHANGED <<disk, lock, bounds, faults>>

\* native_rule_set_cache_current: the files may be too old.
CheckCurrent(k) ==
    /\ At(k, "current")
    /\ \/ (\A f \in Files : Valid(f)) /\ Goto(k, "answered")
       \/ Goto(k, "download")
    /\ UNCHANGED <<disk, lock, bounds, faults>>

Answer(k) ==
    /\ At(k, "answered")
    /\ Return(k)
    /\ UNCHANGED <<disk, bounds, faults>>

-----------------------------------------------------------------------------
(***************************************************************************)
(* recover_rule_set_transaction.                                           *)
(***************************************************************************)
RecoverLook(k) ==
    /\ At(k, "recover")
    /\ \/ /\ txn # NoTxn /\ commit
          /\ Goto(k, "finish")
          /\ Works
          /\ UNCHANGED <<txn, lock>>
       \/ /\ txn = Partial /\ ~commit /\ (\A f \in Files : backup[f] = Absent)
          /\ \/ Works /\ txn' = NoTxn /\ Goto(k, task[k].next) /\ UNCHANGED lock
             \/ Fails /\ Return(k) /\ UNCHANGED txn
       \/ /\ txn = Partial /\ ~commit /\ (\E f \in Files : backup[f] # Absent)
          /\ Return(k)
          /\ Works
          /\ UNCHANGED txn
       \/ /\ txn.state = "written" /\ ~commit
          /\ task' = [task EXCEPT ![k].pc = "look", ![k].f = "geosite",
                                  ![k].existed = txn.existed]
          /\ Works
          /\ UNCHANGED <<txn, lock>>
       \/ /\ txn = NoTxn
          /\ Goto(k, "legacy")
          /\ Works
          /\ UNCHANGED <<txn, lock>>
    /\ UNCHANGED <<file, backup, temp, commit, bounds>>

\* recover_rule_set_backup, for a cache without transactions.
Legacy(k) ==
    /\ At(k, "legacy")
    /\ \/ /\ backup[F(k)] = Absent
          /\ EachFile(k, "legacy", "drop_commit")
          /\ Works
          /\ UNCHANGED <<backup, lock>>
       \/ /\ backup[F(k)] # Absent /\ Valid(F(k))
          /\ \/ /\ Works
                /\ backup' = [backup EXCEPT ![F(k)] = Absent]
                /\ EachFile(k, "legacy", "drop_commit")
                /\ UNCHANGED lock
             \/ Fails /\ Return(k) /\ UNCHANGED backup
       \/ /\ backup[F(k)] # Absent /\ ~Valid(F(k))
          /\ task' = [task EXCEPT ![k].pc = "legacy_clear"]
          /\ Works
          /\ UNCHANGED <<backup, lock>>
    /\ UNCHANGED <<file, temp, txn, commit, bounds>>

LegacyClear(k) ==
    /\ At(k, "legacy_clear")
    /\ \/ /\ Works
          /\ file' = [file EXCEPT ![F(k)] = Absent]
          /\ task' = [task EXCEPT ![k].pc = "legacy_move"]
          /\ UNCHANGED lock
       \/ Fails /\ file[F(k)] # Absent /\ Return(k) /\ UNCHANGED file
    /\ UNCHANGED <<backup, temp, txn, commit, bounds>>

LegacyMove(k) ==
    /\ At(k, "legacy_move")
    /\ \/ /\ Works /\ backup[F(k)] # Absent
          /\ file' = [file EXCEPT ![F(k)] = backup[F(k)]]
          /\ backup' = [backup EXCEPT ![F(k)] = Absent]
          /\ EachFile(k, "legacy", "drop_commit")
          /\ UNCHANGED lock
       \/ /\ Fails \/ (Works /\ backup[F(k)] = Absent)
          /\ Return(k)
          /\ UNCHANGED <<file, backup>>
    /\ UNCHANGED <<temp, txn, commit, bounds>>

-----------------------------------------------------------------------------
(***************************************************************************)
(* rollback_rule_set_pair, in a recovery or after a failed installation. A *)
(* failure on one file does not keep it from the other.                    *)
(***************************************************************************)
RollbackLook(k) ==
    /\ At(k, "look")
    /\ \/ /\ backup[F(k)] # Absent
          /\ task' = [task EXCEPT ![k].pc = "clear"]
          /\ Works
          /\ UNCHANGED file
       \/ /\ backup[F(k)] = Absent
          /\ F(k) \in task[k].existed \/ file[F(k)] = Absent
          /\ EachFile(k, "look", "undone")
          /\ Works
          /\ UNCHANGED file
       \/ /\ backup[F(k)] = Absent
          /\ F(k) \notin task[k].existed /\ file[F(k)] # Absent
          /\ \/ /\ Works
                /\ file' = [file EXCEPT ![F(k)] = Absent]
                /\ EachFile(k, "look", "undone")
             \/ /\ Fails
                /\ UNCHANGED file
                /\ task' = [task EXCEPT ![k].ok = FALSE,
                              ![k].pc = IF F(k) = "geosite" THEN "look" ELSE "undone",
                              ![k].f = "geoip"]
    /\ UNCHANGED <<backup, temp, txn, commit, lock, bounds>>

\* One of the two operations of restore_rule_set_backup failed.
RestoreFailed(k) ==
    task' = [task EXCEPT ![k].ok = FALSE,
               ![k].pc = IF F(k) = "geosite" THEN "look" ELSE "undone",
               ![k].f = "geoip"]

RestoreClear(k) ==
    /\ At(k, "clear")
    /\ \/ /\ Works
          /\ file' = [file EXCEPT ![F(k)] = Absent]
          /\ task' = [task EXCEPT ![k].pc = "move"]
       \/ Fails /\ file[F(k)] # Absent /\ RestoreFailed(k) /\ UNCHANGED file
    /\ UNCHANGED <<backup, temp, txn, commit, lock, bounds>>

RestoreMove(k) ==
    /\ At(k, "move")
    /\ \/ /\ Works /\ backup[F(k)] # Absent
          /\ file' = [file EXCEPT ![F(k)] = backup[F(k)]]
          /\ backup' = [backup EXCEPT ![F(k)] = Absent]
          /\ EachFile(k, "look", "undone")
       \/ /\ Fails \/ (Works /\ backup[F(k)] = Absent)
          /\ RestoreFailed(k)
          /\ UNCHANGED <<file, backup>>
    /\ UNCHANGED <<temp, txn, commit, lock, bounds>>

\* Regression: the transaction is dropped although a file was not restored.
RollbackDoneRegardless(k) ==
    /\ At(k, "undone")
    /\ temp' = [f \in Files |-> Absent]
    /\ Goto(k, "drop_txn")
    /\ UNCHANGED <<file, backup, txn, commit, lock, bounds, faults>>

\* Both files were handled. A recovery that failed stops here, with the
\* transaction in place for the next one; otherwise the temporaries go.
RollbackDone(k) ==
    /\ At(k, "undone")
    /\ IF task[k].ok \/ task[k].installing
       THEN temp' = [f \in Files |-> Absent]
       ELSE UNCHANGED temp
    /\ IF task[k].ok THEN Goto(k, "drop_txn") /\ UNCHANGED lock ELSE Return(k)
    /\ UNCHANGED <<file, backup, txn, commit, bounds, faults>>

\* A recovery needs the transaction file gone, a failed installation tries.
DropTxn(k) ==
    /\ At(k, "drop_txn")
    /\ \/ /\ Works /\ txn # NoTxn
          /\ txn' = NoTxn
          /\ Goto(k, "drop_commit")
          /\ UNCHANGED lock
       \/ /\ Fails \/ (Works /\ txn = NoTxn)
          /\ UNCHANGED txn
          /\ IF task[k].installing THEN Goto(k, "drop_commit") /\ UNCHANGED lock
             ELSE Return(k)
    /\ UNCHANGED <<file, backup, temp, commit, bounds>>

DropCommit(k) ==
    /\ At(k, "drop_commit")
    /\ \/ /\ Works
          /\ commit' = FALSE
          /\ IF task[k].installing THEN Return(k)
             ELSE Goto(k, task[k].next) /\ UNCHANGED lock
       \/ Fails /\ commit /\ Return(k) /\ UNCHANGED commit
    /\ UNCHANGED <<file, backup, temp, txn, bounds>>

-----------------------------------------------------------------------------
(***************************************************************************)
(* finish_rule_set_transaction: backups, then transaction, then marker.    *)
(***************************************************************************)
FinishBackup(k) ==
    /\ At(k, "finish")
    /\ \/ /\ Works
          /\ backup' = [backup EXCEPT ![F(k)] = Absent]
          /\ EachFile(k, "finish", "finish_txn")
          /\ UNCHANGED lock
       \/ Fails /\ backup[F(k)] # Absent /\ Return(k) /\ UNCHANGED backup
    /\ UNCHANGED <<file, temp, txn, commit, bounds>>

FinishTxn(k) ==
    /\ At(k, "finish_txn")
    /\ \/ Works /\ txn' = NoTxn /\ Goto(k, "finish_commit") /\ UNCHANGED lock
       \/ Fails /\ txn # NoTxn /\ Return(k) /\ UNCHANGED txn
    /\ UNCHANGED <<file, backup, temp, commit, bounds>>

FinishCommit(k) ==
    /\ At(k, "finish_commit")
    /\ \/ /\ Works
          /\ commit' = FALSE
          /\ Goto(k, IF task[k].installing THEN "answered" ELSE task[k].next)
          /\ UNCHANGED lock
       \/ Fails /\ commit /\ Return(k) /\ UNCHANGED commit
    /\ UNCHANGED <<file, backup, temp, txn, bounds>>

-----------------------------------------------------------------------------
(***************************************************************************)
(* download_and_install_rule_sets and install_rule_set_cache.              *)
(***************************************************************************)
Download(k) ==
    /\ At(k, "download")
    /\ \/ /\ downloads < MaxInstalls
          /\ downloads' = downloads + 1
          /\ Recover(k, "temp")
          /\ UNCHANGED lock
       \/ Return(k) /\ UNCHANGED downloads
    /\ UNCHANGED <<disk, crashes, faults>>

\* Regression: the downloaded files are not validated.
InstallTempUnchecked(k) ==
    /\ At(k, "temp")
    /\ \E v \in {downloads, Bad} : temp' = [f \in Files |-> v]
    /\ task' = [task EXCEPT ![k].pc = "txn_open", ![k].installing = TRUE,
                    ![k].existed = {f \in Files : file[f] # Absent}]
    /\ UNCHANGED <<file, backup, txn, commit, lock, bounds, faults>>

InstallTemp(k) == \* both files are written aside, then validated
    /\ At(k, "temp")
    /\ \/ /\ temp' = [f \in Files |-> downloads]
          /\ task' = [task EXCEPT ![k].pc = "txn_open", ![k].installing = TRUE,
                          ![k].existed = {f \in Files : file[f] # Absent}]
          /\ UNCHANGED lock
       \/ temp' = [f \in Files |-> Absent] /\ Return(k)
    /\ UNCHANGED <<file, backup, txn, commit, bounds, faults>>

InstallTxnOpen(k) == \* create_private_file
    /\ At(k, "txn_open")
    /\ Works
    /\ txn' = Partial
    /\ task' = [task EXCEPT ![k].pc = "txn_write"]
    /\ UNCHANGED <<file, backup, temp, commit, lock, bounds>>

InstallTxnWrite(k) ==
    /\ At(k, "txn_write")
    /\ \/ Works /\ txn' = Written(task[k].existed) /\ Goto(k, "stage") /\ UNCHANGED <<temp, lock>>
       \/ Fails /\ temp' = [f \in Files |-> Absent] /\ Return(k) /\ UNCHANGED txn
    /\ UNCHANGED <<file, backup, commit, bounds>>

\* An operation of the replacement failed: roll the pair back.
Undo(k) == task' = [task EXCEPT ![k].pc = "look", ![k].f = "geosite", ![k].ok = TRUE]

InstallStage(k) ==
    /\ At(k, "stage")
    /\ \/ /\ Works
          /\ IF file[F(k)] = Absent THEN UNCHANGED <<file, backup>>
             ELSE /\ backup' = [backup EXCEPT ![F(k)] = file[F(k)]]
                  /\ file' = [file EXCEPT ![F(k)] = Absent]
          /\ EachFile(k, "stage", "place")
       \/ Fails /\ file[F(k)] # Absent /\ Undo(k) /\ UNCHANGED <<file, backup>>
    /\ UNCHANGED <<temp, txn, commit, lock, bounds>>

\* Regression: a rename that fails is ignored.
InstallPlaceBestEffort(k) ==
    /\ At(k, "place")
    /\ \/ /\ Works
          /\ file' = [file EXCEPT ![F(k)] = temp[F(k)]]
          /\ temp' = [temp EXCEPT ![F(k)] = Absent]
       \/ Fails /\ UNCHANGED <<file, temp>>
    /\ EachFile(k, "place", "commit")
    /\ UNCHANGED <<backup, txn, commit, lock, bounds>>

InstallPlace(k) ==
    /\ At(k, "place")
    /\ \/ /\ Works /\ temp[F(k)] # Absent
          /\ file' = [file EXCEPT ![F(k)] = temp[F(k)]]
          /\ temp' = [temp EXCEPT ![F(k)] = Absent]
          /\ EachFile(k, "place", "commit")
       \/ (Fails \/ (Works /\ temp[F(k)] = Absent)) /\ Undo(k) /\ UNCHANGED <<file, temp>>
    /\ UNCHANGED <<backup, txn, commit, lock, bounds>>

InstallCommit(k) ==
    /\ At(k, "commit")
    /\ \/ Works /\ commit' = TRUE /\ Goto(k, "finish")
       \/ Fails /\ Undo(k) /\ UNCHANGED commit
    /\ UNCHANGED <<file, backup, temp, txn, lock, bounds>>

-----------------------------------------------------------------------------
Crash == \* the process dies; the directory stays as it is
    /\ crashes < MaxCrashes
    /\ crashes' = crashes + 1
    /\ task' = [k \in Clients |-> Idle]
    /\ lock' = Nobody
    /\ UNCHANGED <<disk, downloads, faults>>

Step(k) ==
    \/ TakeLock(k) \/ CheckReady(k) \/ CheckCurrent(k) \/ Answer(k)
    \/ RecoverLook(k) \/ Legacy(k) \/ LegacyClear(k) \/ LegacyMove(k)
    \/ RollbackLook(k) \/ RestoreClear(k) \/ RestoreMove(k) \/ RollbackDone(k)
    \/ DropTxn(k) \/ DropCommit(k)
    \/ FinishBackup(k) \/ FinishTxn(k) \/ FinishCommit(k)
    \/ Download(k) \/ InstallTemp(k) \/ InstallTxnOpen(k) \/ InstallTxnWrite(k)
    \/ InstallStage(k) \/ InstallPlace(k) \/ InstallCommit(k)

Next == (\E k \in Clients : Request(k) \/ Step(k)) \/ Crash

Spec == Init /\ [][Next]_vars

-----------------------------------------------------------------------------
\* What a recovery would make of the file f now.
Recovered(f) ==
    IF txn.state = "written" /\ ~commit
    THEN IF backup[f] # Absent THEN backup[f]
         ELSE IF f \in txn.existed THEN file[f] ELSE Absent
    ELSE IF txn = NoTxn /\ ~Valid(f) /\ backup[f] # Absent THEN backup[f]
    ELSE file[f]

\* The abstract pair: both files of one download, or nothing usable.
Pair == IF Recovered("geosite") = Recovered("geoip") THEN Recovered("geosite") ELSE Bad

\* With one request at a time the cache is a RuleSetPair: whatever step the
\* process dies at, and whichever file operation fails, what the next recovery
\* leaves is the old pair until the commit marker is written and the new pair
\* from then on, never one file of each (install_rule_set_cache).
Abstract == INSTANCE RuleSetPair WITH pair <- Pair, Downloads <- Downloaded
InstallsThePair == Abstract!Spec

\* A request that is told the cache is ready has both files of one download,
\* with nothing left for a later recovery to take away.
ReadyMeansPair ==
    \A k \in Clients : At(k, "answered") /\ task[k].op # "startup" =>
        /\ file["geosite"] = file["geoip"] /\ Valid("geosite")
        /\ txn = NoTxn

\* The commit marker beside a transaction file says the new pair is complete:
\* a marker left by an earlier run never makes finish_rule_set_transaction
\* throw the backups of an unfinished installation away.
CommitMeansComplete ==
    commit /\ txn # NoTxn => file["geosite"] = file["geoip"] /\ Valid("geosite")

\* A transaction file the process died on while writing it never blocks the
\* cache: there is no backup yet, so recovery removes it instead of refusing.
HalfWrittenIsHarmless == txn = Partial => \A f \in Files : backup[f] = Absent

-----------------------------------------------------------------------------
\* REVIEW.md says the rule files have a complete transaction with rollback and
\* recovery: with nothing in flight and no transaction left, the two files are
\* of one download. Refuted by a recovery that takes no lock.
PairNeverMixed ==
    (\A k \in Clients : At(k, "idle")) /\ txn = NoTxn =>
        ~(Valid("geosite") /\ Valid("geoip") /\ file["geosite"] # file["geoip"])
=============================================================================
