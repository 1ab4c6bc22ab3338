------------------------ MODULE RuleSetInstallProofs ------------------------
(***************************************************************************)
(* The installation of the rule files, proved for one request at a time,   *)
(* as rule_set_update_lock keeps them: at any number of downloads, deaths  *)
(* and failing operations, a request that is told the cache is ready has   *)
(* the pair of one download, and the cache implements RuleSetPair.         *)
(*                                                                         *)
(* DiskInv says what a death at any step leaves, PhaseInv what the running *)
(* request may count on where it stands; neither is inductive alone. There *)
(* is one lemma an action, and under it one step a part of the invariant.  *)
(***************************************************************************)
EXTENDS RuleSetInstall, TLAPS

\* The directory after any step, also one that the process dies at.
NoBackups == backup["geosite"] = Absent /\ backup["geoip"] = Absent
SameFiles == file["geosite"] = file["geoip"]
Clean == NoBackups /\ SameFiles /\ file["geosite"] # Bad

\* What an interrupted replacement by a version without transactions leaves.
HasLegacy(f, g) ==
    /\ backup[f] \in Downloaded /\ backup[g] = Absent /\ file[g] = backup[f]
    /\ file[f] \in {backup[f], Absent, Bad}
LegacyLeft == HasLegacy("geosite", "geoip") \/ HasLegacy("geoip", "geosite")

\* The content a file had before the transaction, while it can be undone.
Old(f) == IF backup[f] # Absent THEN backup[f] ELSE file[f]
Undoable(existed) ==
    \/ existed = Files /\ Old("geosite") = Old("geoip") /\ Old("geosite") \in Downloaded
    \/ existed = {} /\ NoBackups

DiskInv ==
    /\ txn = NoTxn => Clean \/ (LegacyLeft /\ ~commit)
    /\ txn = Partial => Clean /\ ~commit
    /\ txn.state = "written" /\ ~commit => Undoable(txn.existed)
    /\ txn.state = "written" /\ commit => SameFiles /\ file["geosite"] \in Downloaded

\* Where a request stands, and what it may count on there.
Second(k) == task[k].f = "geoip"
Restored(f, existed) == backup[f] = Absent /\ (f \notin existed => file[f] = Absent)
Undoing(k) == txn = Written(task[k].existed) /\ ~commit
Installing(k) == Undoing(k) /\ task[k].installing /\ downloads \in Downloaded \ {0}
Settled == txn = NoTxn /\ Clean

Recovering == {"recover", "legacy", "legacy_clear", "legacy_move"}
NextInv(k) ==
    \/ task[k].installing
    \/ task[k].next \in {"ready", "current"}
    \/ task[k].next = "temp" /\ downloads \in Downloaded \ {0}
    \/ task[k].next = "answered" /\ task[k].op = "startup"

RecoveryInv(k) ==
    /\ task[k].pc \in Recovering \cup {"idle"} => ~task[k].installing
    /\ task[k].pc \in Recovering \cup {"look", "clear", "move", "undone", "drop_txn", "drop_commit",
                                       "finish", "finish_txn", "finish_commit"} => NextInv(k)
    /\ task[k].pc \in {"legacy", "legacy_clear", "legacy_move"} =>
          txn = NoTxn /\ (Second(k) => backup["geosite"] = Absent)
    /\ task[k].pc = "legacy_clear" => backup[task[k].f] # Absent /\ ~Valid(task[k].f)
    /\ task[k].pc = "legacy_move" => backup[task[k].f] # Absent /\ file[task[k].f] = Absent
    /\ task[k].pc = "drop_commit" => IF task[k].installing THEN ~commit ELSE Settled

RollbackInv(k) ==
    /\ task[k].pc \in {"look", "clear", "move", "undone", "drop_txn"} => Undoing(k)
    /\ task[k].pc \in {"look", "clear", "move"} /\ Second(k) /\ task[k].ok =>
          Restored("geosite", task[k].existed)
    /\ task[k].pc \in {"clear", "move"} => backup[task[k].f] # Absent
    /\ task[k].pc = "move" => file[task[k].f] = Absent
    /\ task[k].pc = "undone" /\ task[k].ok =>
          Restored("geosite", task[k].existed) /\ Restored("geoip", task[k].existed)
    /\ task[k].pc = "drop_txn" =>
          Restored("geosite", task[k].existed) /\ Restored("geoip", task[k].existed)

FinishInv(k) ==
    /\ task[k].pc \in {"finish", "finish_txn"} => commit /\ txn.state = "written"
    /\ task[k].pc = "finish" /\ Second(k) => backup["geosite"] = Absent
    /\ task[k].pc = "finish_txn" => NoBackups
    /\ task[k].pc = "finish_commit" => Settled /\ file["geosite"] \in Downloaded

InstallInv(k) ==
    /\ task[k].pc \in {"ready", "current", "temp", "txn_open"} => Settled /\ ~commit
    /\ task[k].pc \in {"temp", "txn_open", "txn_write", "stage"} => downloads \in Downloaded \ {0}
    /\ task[k].pc = "txn_write" => txn = Partial
    /\ task[k].pc \in {"txn_open", "txn_write"} =>
          /\ task[k].installing /\ task[k].existed = {f \in Files : file[f] # Absent}
    /\ task[k].pc \in {"txn_open", "txn_write", "stage"} =>
          temp["geosite"] = downloads /\ temp["geoip"] = downloads
    /\ task[k].pc \in {"stage", "place", "commit"} => Installing(k)
    /\ task[k].pc = "stage" =>
          /\ backup["geoip"] = Absent
          /\ task[k].existed = {} => file["geosite"] = Absent /\ file["geoip"] = Absent
          /\ IF Second(k) THEN file["geosite"] = Absent ELSE backup["geosite"] = Absent
    /\ task[k].pc = "place" =>
          /\ temp["geoip"] = downloads
          /\ task[k].existed = Files => ~(Absent \in {backup["geosite"], backup["geoip"]})
          /\ IF Second(k) THEN file["geosite"] = downloads ELSE temp["geosite"] = downloads
    /\ task[k].pc = "commit" => SameFiles /\ file["geosite"] \in Downloaded
    /\ task[k].pc = "answered" /\ task[k].op # "startup" =>
          Settled /\ file["geosite"] \in Downloaded

PhaseInv(k) == RecoveryInv(k) /\ RollbackInv(k) /\ FinishInv(k) /\ InstallInv(k)

RuleSetInv(k) == RuleSetTypeOK /\ DiskInv /\ PhaseInv(k)

-----------------------------------------------------------------------------
TaskType == [pc : Pcs, op : {"none", "check", "update", "startup"}, f : Files,
             next : Pcs, installing : BOOLEAN, ok : BOOLEAN, existed : SUBSET Files]

\* The step's effect on the request, field by field.
Now(k, pc, f) == task'[k].pc = pc /\ task'[k].f = f
SameEnd(k) == task'[k].op = task[k].op /\ task'[k].next = task[k].next
SameJob(k) == /\ task'[k].ok = task[k].ok
              /\ task'[k].installing = task[k].installing
              /\ task'[k].existed = task[k].existed

LEMMA TaskTyped ==
    ASSUME RuleSetTypeOK, NEW k \in Clients
    PROVE  /\ task \in [Clients -> TaskType]
           /\ task[k].pc \in Pcs /\ task[k].f \in Files /\ task[k].next \in Pcs
           /\ task[k].op \in {"none", "check", "update", "startup"}
           /\ task[k].installing \in BOOLEAN /\ task[k].ok \in BOOLEAN
           /\ task[k].existed \in SUBSET Files
BY DEF RuleSetTypeOK, TaskType

LEMMA GotoEffect ==
    ASSUME RuleSetTypeOK, NEW k \in Clients, NEW pc \in Pcs, Goto(k, pc)
    PROVE  task' \in [Clients -> TaskType] /\ Now(k, pc, "geosite") /\ SameEnd(k) /\ SameJob(k)
BY TaskTyped DEF Goto, TaskType, Now, SameEnd, SameJob, Files

LEMMA EachFileEffect ==
    ASSUME RuleSetTypeOK, NEW k \in Clients, NEW again \in Pcs, NEW pc \in Pcs,
           EachFile(k, again, pc)
    PROVE  /\ task' \in [Clients -> TaskType]
           /\ SameEnd(k) /\ SameJob(k)
           /\ task[k].f = "geosite" => Now(k, again, "geoip")
           /\ task[k].f = "geoip" => Now(k, pc, "geosite")
<1>1. CASE task[k].f = "geosite"
  BY <1>1, TaskTyped DEF EachFile, F, TaskType, Now, SameEnd, SameJob, Files
<1>2. CASE task[k].f = "geoip"
  BY <1>2, TaskTyped DEF EachFile, F, TaskType, Now, SameEnd, SameJob, Files
<1> QED
  BY <1>1, <1>2, TaskTyped DEF Files

LEMMA ReturnEffect ==
    ASSUME RuleSetTypeOK, NEW k \in Clients, Return(k)
    PROVE  /\ task' \in [Clients -> TaskType]
           /\ lock' \in Clients \cup {Nobody}
           /\ Now(k, "idle", "geosite") /\ task'[k].op = "none" /\ task'[k].installing = FALSE
<1>1. Idle \in TaskType /\ Idle.pc = "idle" /\ Idle.f = "geosite" /\ Idle.op = "none"
      /\ Idle.installing = FALSE
  BY DEF Idle, TaskType, Files, Pcs
<1>2. task' = [task EXCEPT ![k] = Idle] /\ lock' \in Clients \cup {Nobody}
  BY DEF Return, RuleSetTypeOK
<1> QED
  BY <1>1, <1>2, TaskTyped DEF Now

LEMMA RecoverEffect ==
    ASSUME RuleSetTypeOK, NEW k \in Clients, NEW next \in Pcs, Recover(k, next)
    PROVE  /\ task' \in [Clients -> TaskType]
           /\ Now(k, "recover", task[k].f) /\ task'[k].next = next
           /\ task'[k].op = task[k].op /\ task'[k].installing = FALSE
<1> DEFINE new == [task[k] EXCEPT !.pc = "recover", !.next = next, !.ok = TRUE,
                                  !.installing = FALSE]
<1>0. task[k] \in TaskType
  BY TaskTyped DEF TaskType
<1>1. new \in TaskType
  BY <1>0 DEF TaskType, Pcs, Files
<1>3. new.pc = "recover"
  BY <1>0 DEF TaskType
<1>4. new.f = task[k].f
  BY <1>0 DEF TaskType
<1>5. new.next = next
  BY <1>0 DEF TaskType
<1>6. new.op = task[k].op
  BY <1>0 DEF TaskType
<1>7. new.installing = FALSE
  BY <1>0 DEF TaskType
<1>2. task' = [task EXCEPT ![k] = new]
  BY <1>0, TaskTyped DEF Recover, TaskType
<1> HIDE DEF new
<1> QED
  BY <1>1, <1>2, <1>3, <1>4, <1>5, <1>6, <1>7, TaskTyped DEF Now

LEMMA RestoreFailedEffect ==
    ASSUME RuleSetTypeOK, NEW k \in Clients, RestoreFailed(k)
    PROVE  /\ task' \in [Clients -> TaskType]
           /\ SameEnd(k) /\ task'[k].installing = task[k].installing
           /\ task'[k].existed = task[k].existed /\ task'[k].ok = FALSE
           /\ task[k].f = "geosite" => Now(k, "look", "geoip")
           /\ task[k].f = "geoip" => Now(k, "undone", "geoip")
<1> DEFINE pc == IF task[k].f = "geosite" THEN "look" ELSE "undone"
           new == [task[k] EXCEPT !.ok = FALSE, !.pc = pc, !.f = "geoip"]
<1>0. task[k] \in TaskType
  BY TaskTyped DEF TaskType
<1>1. new \in TaskType
  BY <1>0 DEF TaskType, Pcs, Files
<1>3. new.pc = pc
  BY <1>0 DEF TaskType
<1>4. new.f = "geoip"
  BY <1>0 DEF TaskType
<1>5. new.next = task[k].next
  BY <1>0 DEF TaskType
<1>6. new.op = task[k].op
  BY <1>0 DEF TaskType
<1>7. new.installing = task[k].installing
  BY <1>0 DEF TaskType
<1>8. new.existed = task[k].existed
  BY <1>0 DEF TaskType
<1>9. new.ok = FALSE
  BY <1>0 DEF TaskType
<1>2. task' = [task EXCEPT ![k] = new]
  BY <1>0, TaskTyped DEF RestoreFailed, F, TaskType
<1> HIDE DEF new
<1> QED
  BY <1>1, <1>2, <1>3, <1>4, <1>5, <1>6, <1>7, <1>8, <1>9, TaskTyped DEF Now, SameEnd

LEMMA UndoEffect ==
    ASSUME RuleSetTypeOK, NEW k \in Clients, Undo(k)
    PROVE  /\ task' \in [Clients -> TaskType]
           /\ SameEnd(k) /\ task'[k].installing = task[k].installing
           /\ task'[k].existed = task[k].existed /\ task'[k].ok = TRUE
           /\ Now(k, "look", "geosite")
<1> DEFINE new == [task[k] EXCEPT !.pc = "look", !.f = "geosite", !.ok = TRUE]
<1>0. task[k] \in TaskType
  BY TaskTyped DEF TaskType
<1>1. new \in TaskType
  BY <1>0 DEF TaskType, Pcs, Files
<1>3. new.pc = "look"
  BY <1>0 DEF TaskType
<1>4. new.f = "geosite"
  BY <1>0 DEF TaskType
<1>5. new.next = task[k].next
  BY <1>0 DEF TaskType
<1>6. new.op = task[k].op
  BY <1>0 DEF TaskType
<1>7. new.installing = task[k].installing
  BY <1>0 DEF TaskType
<1>8. new.existed = task[k].existed
  BY <1>0 DEF TaskType
<1>9. new.ok = TRUE
  BY <1>0 DEF TaskType
<1>2. task' = [task EXCEPT ![k] = new]
  BY <1>0, TaskTyped DEF Undo, TaskType
<1> HIDE DEF new
<1> QED
  BY <1>1, <1>2, <1>3, <1>4, <1>5, <1>6, <1>7, <1>8, <1>9, TaskTyped DEF Now, SameEnd

LEMMA PcEffect ==
    ASSUME RuleSetTypeOK, NEW k \in Clients, NEW pc \in Pcs, task' = [task EXCEPT ![k].pc = pc]
    PROVE  task' \in [Clients -> TaskType] /\ Now(k, pc, task[k].f) /\ SameEnd(k) /\ SameJob(k)
BY TaskTyped DEF TaskType, Now, SameEnd, SameJob

LEMMA BoundEffect ==
    ASSUME RuleSetTypeOK, Works \/ Fails
    PROVE  faults' \in 0..MaxFaults
BY BoundAssumption DEF RuleSetTypeOK, Works, Fails

\* A request that ends, with whatever the action did to the directory.
LEMMA ReturnKeeps ==
    ASSUME NEW k, Clients = {k}, RuleSetInv(k), Return(k), DiskInv',
           file' \in [Files -> Contents], backup' \in [Files -> Contents],
           temp' \in [Files -> Downloaded \cup {Absent}],
           txn' \in {NoTxn, Partial} \cup {Written(e) : e \in SUBSET Files},
           commit' \in BOOLEAN, faults' \in 0..MaxFaults, UNCHANGED bounds
    PROVE  RuleSetInv(k)'
<1>1. /\ task' \in [Clients -> TaskType] /\ lock' \in Clients \cup {Nobody}
      /\ Now(k, "idle", "geosite") /\ task'[k].installing = FALSE
  BY ReturnEffect DEF RuleSetInv
<1>2. RuleSetTypeOK'
  BY <1>1 DEF RuleSetInv, RuleSetTypeOK, TaskType, bounds
<1>3. PhaseInv(k)'
  BY <1>1 DEF PhaseInv, RecoveryInv, RollbackInv, FinishInv, InstallInv, Recovering, Now
<1> QED
  BY <1>2, <1>3 DEF RuleSetInv

LEMMA LookEffect ==
    ASSUME RuleSetTypeOK, NEW k \in Clients, txn.state = "written",
           task' = [task EXCEPT ![k].pc = "look", ![k].f = "geosite", ![k].existed = txn.existed]
    PROVE  /\ task' \in [Clients -> TaskType] /\ SameEnd(k)
           /\ task'[k].installing = task[k].installing
           /\ task'[k].existed = txn.existed /\ Now(k, "look", "geosite")
<1>1. txn.existed \in SUBSET Files /\ "look" \in Pcs /\ "geosite" \in Files
  BY DEF RuleSetTypeOK, Written, NoTxn, Partial, Pcs, Files
<1> QED
  BY <1>1, TaskTyped DEF TaskType, Now, SameEnd

LEMMA OpenEffect ==
    ASSUME RuleSetTypeOK, NEW k \in Clients, NEW existed \in SUBSET Files,
           task' = [task EXCEPT ![k].pc = "txn_open", ![k].installing = TRUE, ![k].existed = existed]
    PROVE  /\ task' \in [Clients -> TaskType] /\ Now(k, "txn_open", task[k].f)
           /\ task'[k].installing = TRUE /\ task'[k].existed = existed
<1>1. "txn_open" \in Pcs
  BY DEF Pcs
<1> DEFINE new == [task[k] EXCEPT !.pc = "txn_open", !.installing = TRUE, !.existed = existed]
<1>2. task[k] \in TaskType
  BY TaskTyped DEF TaskType
<1>3. new \in TaskType
  BY <1>1, <1>2 DEF TaskType
<1>4. new.pc = "txn_open"
  BY <1>2 DEF TaskType
<1>5. new.f = task[k].f
  BY <1>2 DEF TaskType
<1>6. new.installing = TRUE
  BY <1>2 DEF TaskType
<1>7. new.existed = existed
  BY <1>2 DEF TaskType
<1>8. task' = [task EXCEPT ![k] = new]
  BY <1>2, TaskTyped DEF TaskType
<1> HIDE DEF new
<1> QED
  BY <1>3, <1>4, <1>5, <1>6, <1>7, <1>8, TaskTyped DEF Now

LEMMA UpdateEffect ==
    ASSUME RuleSetTypeOK, NEW k \in Clients,
           task' = [task EXCEPT ![k].op = "update", ![k].pc = "lock"]
    PROVE  /\ task' \in [Clients -> TaskType]
           /\ Now(k, "lock", task[k].f) /\ SameJob(k)
           /\ task'[k].op = "update" /\ task'[k].next = task[k].next
BY TaskTyped DEF TaskType, Now, SameJob, Pcs

LEMMA CheckEffect ==
    ASSUME RuleSetTypeOK, NEW k \in Clients,
           task' = [task EXCEPT ![k].op = "check", ![k].pc = "recover", ![k].next = "ready"]
    PROVE  /\ task' \in [Clients -> TaskType]
           /\ Now(k, "recover", task[k].f) /\ SameJob(k)
           /\ task'[k].op = "check" /\ task'[k].next = "ready"
BY TaskTyped DEF TaskType, Now, SameJob, Pcs

LEMMA StartupEffect ==
    ASSUME RuleSetTypeOK, NEW k \in Clients,
           task' = [task EXCEPT ![k].op = "startup", ![k].pc = "recover", ![k].next = "answered"]
    PROVE  /\ task' \in [Clients -> TaskType]
           /\ Now(k, "recover", task[k].f) /\ SameJob(k)
           /\ task'[k].op = "startup" /\ task'[k].next = "answered"
BY TaskTyped DEF TaskType, Now, SameJob, Pcs

-----------------------------------------------------------------------------
\* recover_rule_set_transaction: what it finds, and a cache without transactions.
LEMMA RecoverLookStep ==
    ASSUME NEW k, Clients = {k}, RuleSetInv(k), RecoverLook(k)
    PROVE  RuleSetInv(k)'
<1>0. k \in Clients /\ RuleSetTypeOK /\ task[k].f \in Files
  BY TaskTyped DEF RuleSetInv
<1>1. CASE txn # NoTxn /\ commit /\ Goto(k, "finish") /\ Works /\ UNCHANGED <<txn, lock>>
  <2>1. /\ task' \in [Clients -> TaskType] /\ faults' \in 0..MaxFaults
        /\ Now(k, "finish", "geosite") /\ SameEnd(k) /\ SameJob(k)
    BY <1>0, <1>1, GotoEffect DEF Pcs, Works, RuleSetTypeOK
  <2>2. RuleSetTypeOK'
    BY <1>0, <1>1, <2>1 DEF RecoverLook, RuleSetTypeOK, TaskType, disk, bounds
  <2>3. DiskInv'
    BY <1>1 DEF RecoverLook, RuleSetInv, DiskInv, Clean, LegacyLeft, HasLegacy, NoBackups,
       SameFiles, Undoable, Old, disk
  <2>4. RecoveryInv(k)'
    BY <1>1, <2>1 DEF RecoverLook, RuleSetInv, PhaseInv, RecoveryInv, NextInv, Recovering, At,
       Now, SameEnd, SameJob, bounds
  <2>5. FinishInv(k)'
    BY <1>0, <1>1, <2>1, ValueAssumption, BoundAssumption DEF RecoverLook, RuleSetInv, DiskInv,
       PhaseInv, FinishInv, InstallInv, At, F, Now, SameEnd, SameJob, Files, Settled, Clean,
       NoBackups, SameFiles, Second, NoTxn, Partial, Written, Undoing, Installing,
       RuleSetTypeOK, disk
  <2>6. RollbackInv(k)' /\ InstallInv(k)'
    BY <2>1 DEF RollbackInv, InstallInv, Now
  <2> QED
    BY <2>2, <2>3, <2>4, <2>5, <2>6 DEF RuleSetInv, PhaseInv
<1>2. CASE txn = Partial /\ ~commit /\ Works /\ txn' = NoTxn /\ Goto(k, task[k].next) /\ UNCHANGED lock
  <2>1. /\ task' \in [Clients -> TaskType] /\ faults' \in 0..MaxFaults
        /\ Now(k, task[k].next, "geosite") /\ SameEnd(k) /\ SameJob(k)
    BY <1>0, <1>2, GotoEffect DEF Pcs, Works, RuleSetTypeOK
  <2>2. RuleSetTypeOK'
    BY <1>0, <1>2, <2>1 DEF RecoverLook, RuleSetTypeOK, TaskType, disk, bounds
  <2>3. DiskInv'
    BY <1>0, <1>2, ValueAssumption DEF RecoverLook, RuleSetInv, DiskInv, PhaseInv, RecoveryInv,
       At, F, Second, Clean, LegacyLeft, HasLegacy, NoBackups, SameFiles, Undoable, Old,
       Undoing, Installing, Settled, Restored, Valid, NoTxn, Partial, Written, Files,
       RuleSetTypeOK, disk
  <2>4. RecoveryInv(k)'
    BY <1>2, <2>1 DEF RecoverLook, RuleSetInv, PhaseInv, RecoveryInv, NextInv, Recovering, At,
       Now, SameEnd, SameJob, bounds
  <2>5. RollbackInv(k)'
    <3>1. task'[k].pc \in {"ready", "current", "temp", "answered"}
      BY <1>0, <1>2, <2>1 DEF RecoverLook, RuleSetInv, PhaseInv, RecoveryInv, NextInv, At,
         Recovering, Now
    <3> QED
      BY <3>1 DEF RollbackInv
  <2>6. FinishInv(k)'
    <3>1. task'[k].pc \in {"ready", "current", "temp", "answered"}
      BY <1>0, <1>2, <2>1 DEF RecoverLook, RuleSetInv, PhaseInv, RecoveryInv, NextInv, At,
         Recovering, Now
    <3> QED
      BY <3>1 DEF FinishInv
  <2>7. InstallInv(k)'
    <3>1. \/ task[k].next = "answered" /\ task[k].op = "startup"
          \/ task[k].next = "temp" /\ downloads \in Downloaded \ {0}
          \/ task[k].next \in {"ready", "current"}
      BY <1>0, <1>2 DEF RecoverLook, RuleSetInv, PhaseInv, RecoveryInv, NextInv, At, Recovering
    <3>2. Settled' /\ ~commit' /\ UNCHANGED downloads
      BY <1>2 DEF RecoverLook, RuleSetInv, DiskInv, Settled, Clean, NoBackups, SameFiles, NoTxn,
         Partial, bounds
    <3> QED
      BY <2>1, <3>1, <3>2 DEF InstallInv, Now, SameEnd, Downloaded
  <2> QED
    BY <2>2, <2>3, <2>4, <2>5, <2>6, <2>7 DEF RuleSetInv, PhaseInv
<1>3. CASE (Works \/ Fails) /\ Return(k) /\ UNCHANGED txn
  <2>1. DiskInv'
    BY <1>3 DEF RecoverLook, RuleSetInv, DiskInv, Clean, LegacyLeft, HasLegacy, NoBackups,
       SameFiles, Undoable, Old, disk
  <2>2. /\ file' \in [Files -> Contents] /\ backup' \in [Files -> Contents]
        /\ temp' \in [Files -> Downloaded \cup {Absent}]
        /\ txn' \in {NoTxn, Partial} \cup {Written(e) : e \in SUBSET Files}
        /\ commit' \in BOOLEAN /\ faults' \in 0..MaxFaults
    BY <1>0, <1>3, BoundEffect DEF RecoverLook, RuleSetTypeOK, Works, disk
  <2> QED
    BY <1>3, <2>1, <2>2, ReturnKeeps DEF RecoverLook, disk, bounds
<1>4. CASE txn.state = "written" /\ ~commit /\ Works /\ UNCHANGED <<txn, lock>>
           /\ task' = [task EXCEPT ![k].pc = "look", ![k].f = "geosite", ![k].existed = txn.existed]
  <2>1. /\ task' \in [Clients -> TaskType] /\ faults' \in 0..MaxFaults
        /\ Now(k, "look", "geosite") /\ SameEnd(k) /\ task'[k].installing = task[k].installing
        /\ task'[k].existed = txn.existed
    BY <1>0, <1>4, LookEffect DEF Pcs, Works, RuleSetTypeOK
  <2>2. RuleSetTypeOK'
    BY <1>0, <1>4, <2>1 DEF RecoverLook, RuleSetTypeOK, TaskType, disk, bounds
  <2>3. DiskInv'
    BY <1>4 DEF RecoverLook, RuleSetInv, DiskInv, Clean, LegacyLeft, HasLegacy, NoBackups,
       SameFiles, Undoable, Old, disk
  <2>4. RecoveryInv(k)'
    BY <1>4, <2>1 DEF RecoverLook, RuleSetInv, PhaseInv, RecoveryInv, NextInv, Recovering, At,
       Now, SameEnd, SameJob, bounds
  <2>5. RollbackInv(k)'
    BY <1>0, <1>4, <2>1, ValueAssumption, BoundAssumption DEF RecoverLook, RuleSetInv, DiskInv,
       PhaseInv, RollbackInv, InstallInv, At, F, Now, SameEnd, SameJob, Files, Undoing,
       Installing, Written, NoTxn, Partial, Second, Restored, RuleSetTypeOK, disk
  <2>6. FinishInv(k)' /\ InstallInv(k)'
    BY <2>1 DEF FinishInv, InstallInv, Now
  <2> QED
    BY <2>2, <2>3, <2>4, <2>5, <2>6 DEF RuleSetInv, PhaseInv
<1>5. CASE txn = NoTxn /\ Goto(k, "legacy") /\ Works /\ UNCHANGED <<txn, lock>>
  <2>1. /\ task' \in [Clients -> TaskType] /\ faults' \in 0..MaxFaults
        /\ Now(k, "legacy", "geosite") /\ SameEnd(k) /\ SameJob(k)
    BY <1>0, <1>5, GotoEffect DEF Pcs, Works, RuleSetTypeOK
  <2>2. RuleSetTypeOK'
    BY <1>0, <1>5, <2>1 DEF RecoverLook, RuleSetTypeOK, TaskType, disk, bounds
  <2>3. DiskInv'
    BY <1>5 DEF RecoverLook, RuleSetInv, DiskInv, Clean, LegacyLeft, HasLegacy, NoBackups,
       SameFiles, Undoable, Old, disk
  <2>4. RecoveryInv(k)'
    BY <1>0, <1>5, <2>1 DEF RecoverLook, RuleSetInv, PhaseInv, RecoveryInv, NextInv, Recovering,
       At, F, Now, SameEnd, SameJob, Files, Second, Settled, Clean, NoBackups, SameFiles, Valid,
       RuleSetTypeOK, bounds
  <2>5. RollbackInv(k)' /\ FinishInv(k)' /\ InstallInv(k)'
    BY <2>1 DEF RollbackInv, FinishInv, InstallInv, Now
  <2> QED
    BY <2>2, <2>3, <2>4, <2>5 DEF RuleSetInv, PhaseInv
<1> QED
  BY <1>0, <1>1, <1>2, <1>3, <1>4, <1>5 DEF RecoverLook, Works, Fails, RestoreFailed

LEMMA LegacyStep ==
    ASSUME NEW k, Clients = {k}, RuleSetInv(k), Legacy(k)
    PROVE  RuleSetInv(k)'
<1>0. k \in Clients /\ RuleSetTypeOK /\ task[k].f \in Files
  BY TaskTyped DEF RuleSetInv
<1>1. CASE backup[F(k)] = Absent /\ EachFile(k, "legacy", "drop_commit") /\ Works /\ UNCHANGED <<backup, lock>>
  <2>1. /\ task' \in [Clients -> TaskType] /\ faults' \in 0..MaxFaults
        /\ SameEnd(k) /\ SameJob(k)
        /\ task[k].f = "geosite" => Now(k, "legacy", "geoip")
        /\ task[k].f = "geoip" => Now(k, "drop_commit", "geosite")
    BY <1>0, <1>1, EachFileEffect DEF Pcs, Works, RuleSetTypeOK
  <2>2. RuleSetTypeOK'
    BY <1>0, <1>1, <2>1 DEF Legacy, RuleSetTypeOK, TaskType, disk, bounds
  <2>3. DiskInv'
    BY <1>1 DEF Legacy, RuleSetInv, DiskInv, Clean, LegacyLeft, HasLegacy, NoBackups, SameFiles,
       Undoable, Old, disk
  <2>4. RecoveryInv(k)'
    <3>1. NextInv(k)' /\ UNCHANGED <<file, backup, txn, commit>> /\ ~task'[k].installing /\ txn = NoTxn
      BY <1>0, <1>1, <2>1 DEF Legacy, RuleSetInv, PhaseInv, RecoveryInv, NextInv, At,
         Recovering, SameEnd, SameJob, bounds
    <3>2. CASE task[k].f = "geosite"
      BY <1>1, <2>1, <3>1, <3>2 DEF RecoveryInv, Now, Second, F, Recovering
    <3>3. CASE task[k].f = "geoip"
      <4>1. NoBackups
        BY <1>1, <3>3 DEF Legacy, RuleSetInv, PhaseInv, RecoveryInv, At, F, Second, NoBackups
      <4>2. Settled'
        BY <3>1, <4>1, ValueAssumption DEF RuleSetInv, DiskInv, LegacyLeft, HasLegacy, Settled,
           Clean, NoBackups, SameFiles, Downloaded
      <4> QED
        BY <2>1, <3>1, <3>3, <4>2 DEF RecoveryInv, Now, Recovering
    <3> QED
      BY <1>0, <3>2, <3>3 DEF Files
  <2>5. RollbackInv(k)'
    BY <1>0, <1>1, <2>1 DEF Legacy, RuleSetInv, PhaseInv, RecoveryInv, RollbackInv, At, F, Now,
       SameEnd, SameJob, Files, Second, Undoing, Installing, Restored, RuleSetTypeOK, disk,
       bounds
  <2>6. FinishInv(k)'
    BY <1>0, <1>1, <2>1 DEF Legacy, RuleSetInv, PhaseInv, RecoveryInv, FinishInv, At, F, Now,
       SameEnd, SameJob, Files, Second, Undoing, Installing, Restored, RuleSetTypeOK, disk,
       bounds
  <2>7. InstallInv(k)'
    BY <1>0, <1>1, <2>1 DEF Legacy, RuleSetInv, PhaseInv, RecoveryInv, InstallInv, At, F, Now,
       SameEnd, SameJob, Files, Second, Undoing, Installing, Restored, RuleSetTypeOK, disk,
       bounds
  <2> QED
    BY <2>2, <2>3, <2>4, <2>5, <2>6, <2>7 DEF RuleSetInv, PhaseInv
<1>2. CASE backup[F(k)] # Absent /\ Valid(F(k)) /\ Works
           /\ backup' = [backup EXCEPT ![F(k)] = Absent]
           /\ EachFile(k, "legacy", "drop_commit") /\ UNCHANGED lock
  <2>1. /\ task' \in [Clients -> TaskType] /\ faults' \in 0..MaxFaults
        /\ SameEnd(k) /\ SameJob(k)
        /\ task[k].f = "geosite" => Now(k, "legacy", "geoip")
        /\ task[k].f = "geoip" => Now(k, "drop_commit", "geosite")
    BY <1>0, <1>2, EachFileEffect DEF Pcs, Works, RuleSetTypeOK
  <2>2. RuleSetTypeOK'
    BY <1>0, <1>2, <2>1 DEF Legacy, RuleSetTypeOK, TaskType, F, Contents, disk, bounds
  <2>3. DiskInv'
    BY <1>0, <1>2 DEF Legacy, RuleSetInv, DiskInv, PhaseInv, RecoveryInv, At, F, Clean,
       LegacyLeft, HasLegacy, NoBackups, SameFiles, Undoable, Old, Undoing, Installing, Settled,
       Valid, Files, disk
  <2>4. RecoveryInv(k)'
    BY <1>0, <1>2, <2>1, ValueAssumption, BoundAssumption DEF Legacy, RuleSetInv, DiskInv,
       PhaseInv, RecoveryInv, RollbackInv, FinishInv, InstallInv, NextInv, At, F, Recovering,
       Now, SameEnd, SameJob, Files, Settled, Clean, NoBackups, SameFiles, LegacyLeft,
       HasLegacy, Second, Valid, Undoing, Restored, Undoable, Old, NoTxn, Partial, Written,
       RuleSetTypeOK, Contents, disk, bounds
  <2>5. RollbackInv(k)'
    BY <1>0, <1>2, <2>1 DEF Legacy, RuleSetInv, PhaseInv, RecoveryInv, RollbackInv, At, F, Now,
       SameEnd, SameJob, Files, Second, Undoing, Installing, Restored, RuleSetTypeOK, disk,
       bounds
  <2>6. FinishInv(k)'
    BY <1>0, <1>2, <2>1 DEF Legacy, RuleSetInv, PhaseInv, RecoveryInv, FinishInv, At, F, Now,
       SameEnd, SameJob, Files, Second, Undoing, Installing, Restored, RuleSetTypeOK, disk,
       bounds
  <2>7. InstallInv(k)'
    BY <1>0, <1>2, <2>1 DEF Legacy, RuleSetInv, PhaseInv, RecoveryInv, InstallInv, At, F, Now,
       SameEnd, SameJob, Files, Second, Undoing, Installing, Restored, RuleSetTypeOK, disk,
       bounds
  <2> QED
    BY <2>2, <2>3, <2>4, <2>5, <2>6, <2>7 DEF RuleSetInv, PhaseInv
<1>3. CASE Fails /\ Return(k) /\ UNCHANGED backup
  <2>1. DiskInv'
    BY <1>3 DEF Legacy, RuleSetInv, DiskInv, Clean, LegacyLeft, HasLegacy, NoBackups, SameFiles,
       Undoable, Old, disk
  <2>2. /\ file' \in [Files -> Contents] /\ backup' \in [Files -> Contents]
        /\ temp' \in [Files -> Downloaded \cup {Absent}]
        /\ txn' \in {NoTxn, Partial} \cup {Written(e) : e \in SUBSET Files}
        /\ commit' \in BOOLEAN /\ faults' \in 0..MaxFaults
    BY <1>0, <1>3, BoundEffect DEF Legacy, RuleSetTypeOK, Works, disk
  <2> QED
    BY <1>3, <2>1, <2>2, ReturnKeeps DEF Legacy, disk, bounds
<1>4. CASE backup[F(k)] # Absent /\ ~Valid(F(k)) /\ Works /\ UNCHANGED <<backup, lock>>
           /\ task' = [task EXCEPT ![k].pc = "legacy_clear"]
  <2>1. /\ task' \in [Clients -> TaskType] /\ faults' \in 0..MaxFaults
        /\ Now(k, "legacy_clear", task[k].f) /\ SameEnd(k) /\ SameJob(k)
    BY <1>0, <1>4, PcEffect DEF Pcs, Works, RuleSetTypeOK
  <2>2. RuleSetTypeOK'
    BY <1>0, <1>4, <2>1 DEF Legacy, RuleSetTypeOK, TaskType, disk, bounds
  <2>3. DiskInv'
    BY <1>4 DEF Legacy, RuleSetInv, DiskInv, Clean, LegacyLeft, HasLegacy, NoBackups, SameFiles,
       Undoable, Old, disk
  <2>4. RecoveryInv(k)'
    BY <1>0, <1>4, <2>1 DEF Legacy, RuleSetInv, PhaseInv, RecoveryInv, NextInv, Recovering, At,
       F, Now, SameEnd, SameJob, Files, Second, Settled, Clean, NoBackups, SameFiles, Valid,
       RuleSetTypeOK, bounds
  <2>5. RollbackInv(k)' /\ FinishInv(k)' /\ InstallInv(k)'
    BY <2>1 DEF RollbackInv, FinishInv, InstallInv, Now
  <2> QED
    BY <2>2, <2>3, <2>4, <2>5 DEF RuleSetInv, PhaseInv
<1> QED
  BY <1>0, <1>1, <1>2, <1>3, <1>4 DEF Legacy, Works, Fails, RestoreFailed

LEMMA LegacyClearStep ==
    ASSUME NEW k, Clients = {k}, RuleSetInv(k), LegacyClear(k)
    PROVE  RuleSetInv(k)'
<1>0. k \in Clients /\ RuleSetTypeOK /\ task[k].f \in Files
  BY TaskTyped DEF RuleSetInv
<1>1. CASE Works /\ file' = [file EXCEPT ![F(k)] = Absent] /\ UNCHANGED lock
           /\ task' = [task EXCEPT ![k].pc = "legacy_move"]
  <2>1. /\ task' \in [Clients -> TaskType] /\ faults' \in 0..MaxFaults
        /\ Now(k, "legacy_move", task[k].f) /\ SameEnd(k) /\ SameJob(k)
    BY <1>0, <1>1, PcEffect DEF Pcs, Works, RuleSetTypeOK
  <2>2. RuleSetTypeOK'
    BY <1>0, <1>1, <2>1 DEF LegacyClear, RuleSetTypeOK, TaskType, F, Contents, disk, bounds
  <2>3. DiskInv'
    BY <1>0, <1>1 DEF LegacyClear, RuleSetInv, DiskInv, PhaseInv, RecoveryInv, At, F, Clean,
       LegacyLeft, HasLegacy, NoBackups, SameFiles, Undoable, Old, Undoing, Installing, Settled,
       Valid, Files, disk
  <2>4. RecoveryInv(k)'
    BY <1>0, <1>1, <2>1 DEF LegacyClear, RuleSetInv, PhaseInv, RecoveryInv, NextInv, Recovering,
       At, F, Now, SameEnd, SameJob, Files, Second, Settled, Clean, NoBackups, SameFiles, Valid,
       RuleSetTypeOK, bounds
  <2>5. RollbackInv(k)' /\ FinishInv(k)' /\ InstallInv(k)'
    BY <2>1 DEF RollbackInv, FinishInv, InstallInv, Now
  <2> QED
    BY <2>2, <2>3, <2>4, <2>5 DEF RuleSetInv, PhaseInv
<1>2. CASE Fails /\ Return(k) /\ UNCHANGED file
  <2>1. DiskInv'
    BY <1>2 DEF LegacyClear, RuleSetInv, DiskInv, Clean, LegacyLeft, HasLegacy, NoBackups,
       SameFiles, Undoable, Old, disk
  <2>2. /\ file' \in [Files -> Contents] /\ backup' \in [Files -> Contents]
        /\ temp' \in [Files -> Downloaded \cup {Absent}]
        /\ txn' \in {NoTxn, Partial} \cup {Written(e) : e \in SUBSET Files}
        /\ commit' \in BOOLEAN /\ faults' \in 0..MaxFaults
    BY <1>0, <1>2, BoundEffect DEF LegacyClear, RuleSetTypeOK, Works, disk
  <2> QED
    BY <1>2, <2>1, <2>2, ReturnKeeps DEF LegacyClear, disk, bounds
<1> QED
  BY <1>0, <1>1, <1>2 DEF LegacyClear, Works, Fails, RestoreFailed

LEMMA LegacyMoveStep ==
    ASSUME NEW k, Clients = {k}, RuleSetInv(k), LegacyMove(k)
    PROVE  RuleSetInv(k)'
<1>0. k \in Clients /\ RuleSetTypeOK /\ task[k].f \in Files
  BY TaskTyped DEF RuleSetInv
<1>1. CASE Works /\ file' = [file EXCEPT ![F(k)] = backup[F(k)]]
           /\ backup' = [backup EXCEPT ![F(k)] = Absent]
           /\ EachFile(k, "legacy", "drop_commit") /\ UNCHANGED lock
  <2>1. /\ task' \in [Clients -> TaskType] /\ faults' \in 0..MaxFaults
        /\ SameEnd(k) /\ SameJob(k)
        /\ task[k].f = "geosite" => Now(k, "legacy", "geoip")
        /\ task[k].f = "geoip" => Now(k, "drop_commit", "geosite")
    BY <1>0, <1>1, EachFileEffect DEF Pcs, Works, RuleSetTypeOK
  <2>2. RuleSetTypeOK'
    BY <1>0, <1>1, <2>1 DEF LegacyMove, RuleSetTypeOK, TaskType, F, Contents, disk, bounds
  <2>3. DiskInv'
    <3>1. /\ backup[task[k].f] # Absent /\ file[task[k].f] = Absent /\ UNCHANGED <<txn, commit>>
          /\ txn = NoTxn
      BY <1>0 DEF LegacyMove, RuleSetInv, PhaseInv, RecoveryInv, At
    <3>2. ~commit /\ LegacyLeft
      BY <1>0, <3>1 DEF RuleSetInv, DiskInv, Clean, NoBackups, Files
    <3>3. Clean'
      BY <1>0, <1>1, <3>1, <3>2, ValueAssumption DEF LegacyLeft, HasLegacy, F, Files, Clean,
         NoBackups, SameFiles, RuleSetTypeOK, Downloaded
    <3> QED
      BY <3>1, <3>3 DEF DiskInv, NoTxn, Partial
  <2>4. RecoveryInv(k)'
    <3>1. NextInv(k)' /\ UNCHANGED <<txn, commit>> /\ ~task'[k].installing /\ txn = NoTxn
      BY <1>0, <1>1, <2>1 DEF LegacyMove, RuleSetInv, PhaseInv, RecoveryInv, NextInv, At,
         Recovering, SameEnd, SameJob, bounds
    <3>2. ~commit /\ LegacyLeft
      BY <1>0, <3>1 DEF LegacyMove, RuleSetInv, DiskInv, PhaseInv, RecoveryInv, At, Clean,
         NoBackups, Files
    <3>3. Clean'
      BY <1>0, <1>1, <3>2, ValueAssumption DEF LegacyMove, RuleSetInv, PhaseInv, RecoveryInv,
         At, LegacyLeft, HasLegacy, F, Files, Clean, NoBackups, SameFiles, RuleSetTypeOK,
         Downloaded
    <3> QED
      BY <1>0, <2>1, <3>1, <3>3 DEF RecoveryInv, Now, Recovering, Second, Settled, Clean,
         NoBackups, Files
  <2>5. RollbackInv(k)'
    BY <1>0, <1>1, <2>1 DEF LegacyMove, RuleSetInv, PhaseInv, RecoveryInv, RollbackInv, At, F,
       Now, SameEnd, SameJob, Files, Second, Undoing, Installing, Restored, RuleSetTypeOK, disk,
       bounds
  <2>6. FinishInv(k)'
    BY <1>0, <1>1, <2>1 DEF LegacyMove, RuleSetInv, PhaseInv, RecoveryInv, FinishInv, At, F,
       Now, SameEnd, SameJob, Files, Second, Undoing, Installing, Restored, RuleSetTypeOK, disk,
       bounds
  <2>7. InstallInv(k)'
    BY <1>0, <1>1, <2>1 DEF LegacyMove, RuleSetInv, PhaseInv, RecoveryInv, InstallInv, At, F,
       Now, SameEnd, SameJob, Files, Second, Undoing, Installing, Restored, RuleSetTypeOK, disk,
       bounds
  <2> QED
    BY <2>2, <2>3, <2>4, <2>5, <2>6, <2>7 DEF RuleSetInv, PhaseInv
<1>2. CASE (Works \/ Fails) /\ Return(k) /\ UNCHANGED <<file, backup>>
  <2>1. DiskInv'
    BY <1>2 DEF LegacyMove, RuleSetInv, DiskInv, Clean, LegacyLeft, HasLegacy, NoBackups,
       SameFiles, Undoable, Old, disk
  <2>2. /\ file' \in [Files -> Contents] /\ backup' \in [Files -> Contents]
        /\ temp' \in [Files -> Downloaded \cup {Absent}]
        /\ txn' \in {NoTxn, Partial} \cup {Written(e) : e \in SUBSET Files}
        /\ commit' \in BOOLEAN /\ faults' \in 0..MaxFaults
    BY <1>0, <1>2, BoundEffect DEF LegacyMove, RuleSetTypeOK, Works, disk
  <2> QED
    BY <1>2, <2>1, <2>2, ReturnKeeps DEF LegacyMove, disk, bounds
<1> QED
  BY <1>0, <1>1, <1>2 DEF LegacyMove, Works, Fails, RestoreFailed

-----------------------------------------------------------------------------
\* rollback_rule_set_pair.
LEMMA RollbackLookStep ==
    ASSUME NEW k, Clients = {k}, RuleSetInv(k), RollbackLook(k)
    PROVE  RuleSetInv(k)'
<1>0. k \in Clients /\ RuleSetTypeOK /\ task[k].f \in Files
  BY TaskTyped DEF RuleSetInv
<1>1. CASE backup[F(k)] # Absent /\ task' = [task EXCEPT ![k].pc = "clear"] /\ Works
           /\ UNCHANGED file
  <2>1. /\ task' \in [Clients -> TaskType] /\ faults' \in 0..MaxFaults
        /\ Now(k, "clear", task[k].f) /\ SameEnd(k) /\ SameJob(k)
    BY <1>0, <1>1, PcEffect DEF Pcs, Works, RuleSetTypeOK
  <2>2. RuleSetTypeOK'
    BY <1>0, <1>1, <2>1 DEF RollbackLook, RuleSetTypeOK, TaskType, disk, bounds
  <2>3. DiskInv'
    BY <1>1 DEF RollbackLook, RuleSetInv, DiskInv, Clean, LegacyLeft, HasLegacy, NoBackups,
       SameFiles, Undoable, Old, disk
  <2>4. RecoveryInv(k)'
    BY <1>1, <2>1 DEF RollbackLook, RuleSetInv, PhaseInv, RecoveryInv, NextInv, Recovering, At,
       Now, SameEnd, SameJob, bounds
  <2>5. RollbackInv(k)'
    BY <1>0, <1>1, <2>1 DEF RollbackLook, RuleSetInv, PhaseInv, RollbackInv, At, F, Now,
       SameEnd, SameJob, Files, Second, Undoing, Installing, Restored, RuleSetTypeOK, disk,
       bounds
  <2>6. FinishInv(k)' /\ InstallInv(k)'
    BY <2>1 DEF FinishInv, InstallInv, Now
  <2> QED
    BY <2>2, <2>3, <2>4, <2>5, <2>6 DEF RuleSetInv, PhaseInv
<1>2. CASE backup[F(k)] = Absent /\ (F(k) \in task[k].existed \/ file[F(k)] = Absent)
           /\ EachFile(k, "look", "undone") /\ Works /\ UNCHANGED file
  <2>1. /\ task' \in [Clients -> TaskType] /\ faults' \in 0..MaxFaults
        /\ SameEnd(k) /\ SameJob(k)
        /\ task[k].f = "geosite" => Now(k, "look", "geoip")
        /\ task[k].f = "geoip" => Now(k, "undone", "geosite")
    BY <1>0, <1>2, EachFileEffect DEF Pcs, Works, RuleSetTypeOK
  <2>2. RuleSetTypeOK'
    BY <1>0, <1>2, <2>1 DEF RollbackLook, RuleSetTypeOK, TaskType, disk, bounds
  <2>3. DiskInv'
    BY <1>2 DEF RollbackLook, RuleSetInv, DiskInv, Clean, LegacyLeft, HasLegacy, NoBackups,
       SameFiles, Undoable, Old, disk
  <2>4. RecoveryInv(k)'
    BY <1>0, <1>2, <2>1 DEF RollbackLook, RuleSetInv, PhaseInv, RollbackInv, RecoveryInv,
       NextInv, Recovering, At, F, Now, SameEnd, SameJob, Files, Second, Settled, Clean,
       NoBackups, SameFiles, Valid, RuleSetTypeOK, bounds
  <2>5. RollbackInv(k)'
    BY <1>0, <1>2, <2>1 DEF RollbackLook, RuleSetInv, PhaseInv, RollbackInv, At, F, Now,
       SameEnd, SameJob, Files, Second, Undoing, Installing, Restored, RuleSetTypeOK, disk,
       bounds
  <2>6. FinishInv(k)'
    BY <1>0, <1>2, <2>1 DEF RollbackLook, RuleSetInv, PhaseInv, RollbackInv, FinishInv, At, F,
       Now, SameEnd, SameJob, Files, Second, Undoing, Installing, Restored, RuleSetTypeOK, disk,
       bounds
  <2>7. InstallInv(k)'
    BY <1>0, <1>2, <2>1 DEF RollbackLook, RuleSetInv, PhaseInv, RollbackInv, InstallInv, At, F,
       Now, SameEnd, SameJob, Files, Second, Undoing, Installing, Restored, RuleSetTypeOK, disk,
       bounds
  <2> QED
    BY <2>2, <2>3, <2>4, <2>5, <2>6, <2>7 DEF RuleSetInv, PhaseInv
<1>3. CASE backup[F(k)] = Absent /\ Works /\ file' = [file EXCEPT ![F(k)] = Absent]
           /\ F(k) \notin task[k].existed /\ EachFile(k, "look", "undone")
  <2>1. /\ task' \in [Clients -> TaskType] /\ faults' \in 0..MaxFaults
        /\ SameEnd(k) /\ SameJob(k)
        /\ task[k].f = "geosite" => Now(k, "look", "geoip")
        /\ task[k].f = "geoip" => Now(k, "undone", "geosite")
    BY <1>0, <1>3, EachFileEffect DEF Pcs, Works, RuleSetTypeOK
  <2>2. RuleSetTypeOK'
    BY <1>0, <1>3, <2>1 DEF RollbackLook, RuleSetTypeOK, TaskType, disk, bounds
  <2>3. DiskInv'
    BY <1>0, <1>3, ValueAssumption DEF RollbackLook, RuleSetInv, DiskInv, PhaseInv, RollbackInv,
       At, F, Second, Clean, LegacyLeft, HasLegacy, NoBackups, SameFiles, Undoable, Old,
       Undoing, Installing, Settled, Restored, Valid, NoTxn, Partial, Written, Files,
       RuleSetTypeOK, disk
  <2>4. RecoveryInv(k)'
    BY <1>0, <1>3, <2>1 DEF RollbackLook, RuleSetInv, PhaseInv, RollbackInv, RecoveryInv,
       NextInv, Recovering, At, F, Now, SameEnd, SameJob, Files, Second, Settled, Clean,
       NoBackups, SameFiles, Valid, RuleSetTypeOK, bounds
  <2>5. RollbackInv(k)'
    BY <1>0, <1>3, <2>1 DEF RollbackLook, RuleSetInv, PhaseInv, RollbackInv, At, F, Now,
       SameEnd, SameJob, Files, Second, Undoing, Installing, Restored, RuleSetTypeOK, disk,
       bounds
  <2>6. FinishInv(k)'
    BY <1>0, <1>3, <2>1 DEF RollbackLook, RuleSetInv, PhaseInv, RollbackInv, FinishInv, At, F,
       Now, SameEnd, SameJob, Files, Second, Undoing, Installing, Restored, RuleSetTypeOK, disk,
       bounds
  <2>7. InstallInv(k)'
    BY <1>0, <1>3, <2>1 DEF RollbackLook, RuleSetInv, PhaseInv, RollbackInv, InstallInv, At, F,
       Now, SameEnd, SameJob, Files, Second, Undoing, Installing, Restored, RuleSetTypeOK, disk,
       bounds
  <2> QED
    BY <2>2, <2>3, <2>4, <2>5, <2>6, <2>7 DEF RuleSetInv, PhaseInv
<1>4. CASE Fails /\ UNCHANGED file /\ RestoreFailed(k)
  <2>1. /\ task' \in [Clients -> TaskType] /\ faults' \in 0..MaxFaults
        /\ SameEnd(k) /\ task'[k].installing = task[k].installing
        /\ task'[k].existed = task[k].existed /\ task'[k].ok = FALSE
        /\ task[k].f = "geosite" => Now(k, "look", "geoip")
        /\ task[k].f = "geoip" => Now(k, "undone", "geoip")
    BY <1>0, <1>4, RestoreFailedEffect, BoundEffect DEF Pcs
  <2>2. RuleSetTypeOK'
    BY <1>0, <1>4, <2>1 DEF RollbackLook, RuleSetTypeOK, TaskType, disk, bounds
  <2>3. DiskInv'
    BY <1>4 DEF RollbackLook, RuleSetInv, DiskInv, Clean, LegacyLeft, HasLegacy, NoBackups,
       SameFiles, Undoable, Old, disk
  <2>4. RecoveryInv(k)'
    BY <1>0, <1>4, <2>1 DEF RollbackLook, RuleSetInv, PhaseInv, RollbackInv, RecoveryInv,
       NextInv, Recovering, At, F, Now, SameEnd, SameJob, Files, Second, Settled, Clean,
       NoBackups, SameFiles, Valid, RuleSetTypeOK, bounds
  <2>5. RollbackInv(k)'
    BY <1>0, <1>4, <2>1 DEF RollbackLook, RuleSetInv, PhaseInv, RollbackInv, At, F, Now,
       SameEnd, SameJob, Files, Second, Undoing, Installing, Restored, RuleSetTypeOK, disk,
       bounds
  <2>6. FinishInv(k)'
    BY <1>0, <1>4, <2>1 DEF RollbackLook, RuleSetInv, PhaseInv, RollbackInv, FinishInv, At, F,
       Now, SameEnd, SameJob, Files, Second, Undoing, Installing, Restored, RuleSetTypeOK, disk,
       bounds
  <2>7. InstallInv(k)'
    BY <1>0, <1>4, <2>1 DEF RollbackLook, RuleSetInv, PhaseInv, RollbackInv, InstallInv, At, F,
       Now, SameEnd, SameJob, Files, Second, Undoing, Installing, Restored, RuleSetTypeOK, disk,
       bounds
  <2> QED
    BY <2>2, <2>3, <2>4, <2>5, <2>6, <2>7 DEF RuleSetInv, PhaseInv
<1> QED
  BY <1>0, <1>1, <1>2, <1>3, <1>4 DEF RollbackLook, Works, Fails, RestoreFailed

LEMMA RestoreClearStep ==
    ASSUME NEW k, Clients = {k}, RuleSetInv(k), RestoreClear(k)
    PROVE  RuleSetInv(k)'
<1>0. k \in Clients /\ RuleSetTypeOK /\ task[k].f \in Files
  BY TaskTyped DEF RuleSetInv
<1>1. CASE Works /\ file' = [file EXCEPT ![F(k)] = Absent] /\ task' = [task EXCEPT ![k].pc = "move"]
  <2>1. /\ task' \in [Clients -> TaskType] /\ faults' \in 0..MaxFaults
        /\ Now(k, "move", task[k].f) /\ SameEnd(k) /\ SameJob(k)
    BY <1>0, <1>1, PcEffect DEF Pcs, Works, RuleSetTypeOK
  <2>2. RuleSetTypeOK'
    BY <1>0, <1>1, <2>1 DEF RestoreClear, RuleSetTypeOK, TaskType, F, Contents, disk, bounds
  <2>3. DiskInv'
    BY <1>0, <1>1 DEF RestoreClear, RuleSetInv, DiskInv, PhaseInv, RollbackInv, At, F, Clean,
       LegacyLeft, HasLegacy, NoBackups, SameFiles, Undoable, Old, Undoing, Installing, Settled,
       Valid, Files, disk
  <2>4. RecoveryInv(k)'
    BY <1>1, <2>1 DEF RestoreClear, RuleSetInv, PhaseInv, RecoveryInv, NextInv, Recovering, At,
       Now, SameEnd, SameJob, bounds
  <2>5. RollbackInv(k)'
    BY <1>0, <1>1, <2>1 DEF RestoreClear, RuleSetInv, PhaseInv, RollbackInv, At, F, Now,
       SameEnd, SameJob, Files, Second, Undoing, Installing, Restored, RuleSetTypeOK, disk,
       bounds
  <2>6. FinishInv(k)' /\ InstallInv(k)'
    BY <2>1 DEF FinishInv, InstallInv, Now
  <2> QED
    BY <2>2, <2>3, <2>4, <2>5, <2>6 DEF RuleSetInv, PhaseInv
<1>2. CASE Fails /\ RestoreFailed(k) /\ UNCHANGED file
  <2>1. /\ task' \in [Clients -> TaskType] /\ faults' \in 0..MaxFaults
        /\ SameEnd(k) /\ task'[k].installing = task[k].installing
        /\ task'[k].existed = task[k].existed /\ task'[k].ok = FALSE
        /\ task[k].f = "geosite" => Now(k, "look", "geoip")
        /\ task[k].f = "geoip" => Now(k, "undone", "geoip")
    BY <1>0, <1>2, RestoreFailedEffect, BoundEffect DEF Pcs
  <2>2. RuleSetTypeOK'
    BY <1>0, <1>2, <2>1 DEF RestoreClear, RuleSetTypeOK, TaskType, disk, bounds
  <2>3. DiskInv'
    BY <1>2 DEF RestoreClear, RuleSetInv, DiskInv, Clean, LegacyLeft, HasLegacy, NoBackups,
       SameFiles, Undoable, Old, disk
  <2>4. RecoveryInv(k)'
    BY <1>0, <1>2, <2>1 DEF RestoreClear, RuleSetInv, PhaseInv, RollbackInv, RecoveryInv,
       NextInv, Recovering, At, F, Now, SameEnd, SameJob, Files, Second, Settled, Clean,
       NoBackups, SameFiles, Valid, RuleSetTypeOK, bounds
  <2>5. RollbackInv(k)'
    BY <1>0, <1>2, <2>1 DEF RestoreClear, RuleSetInv, PhaseInv, RollbackInv, At, F, Now,
       SameEnd, SameJob, Files, Second, Undoing, Installing, Restored, RuleSetTypeOK, disk,
       bounds
  <2>6. FinishInv(k)'
    BY <1>0, <1>2, <2>1 DEF RestoreClear, RuleSetInv, PhaseInv, RollbackInv, FinishInv, At, F,
       Now, SameEnd, SameJob, Files, Second, Undoing, Installing, Restored, RuleSetTypeOK, disk,
       bounds
  <2>7. InstallInv(k)'
    BY <1>0, <1>2, <2>1 DEF RestoreClear, RuleSetInv, PhaseInv, RollbackInv, InstallInv, At, F,
       Now, SameEnd, SameJob, Files, Second, Undoing, Installing, Restored, RuleSetTypeOK, disk,
       bounds
  <2> QED
    BY <2>2, <2>3, <2>4, <2>5, <2>6, <2>7 DEF RuleSetInv, PhaseInv
<1> QED
  BY <1>0, <1>1, <1>2 DEF RestoreClear, Works, Fails, RestoreFailed

LEMMA RestoreMoveStep ==
    ASSUME NEW k, Clients = {k}, RuleSetInv(k), RestoreMove(k)
    PROVE  RuleSetInv(k)'
<1>0. k \in Clients /\ RuleSetTypeOK /\ task[k].f \in Files
  BY TaskTyped DEF RuleSetInv
<1>1. CASE EachFile(k, "look", "undone") /\ Works /\ backup[F(k)] # Absent
           /\ file' = [file EXCEPT ![F(k)] = backup[F(k)]]
           /\ backup' = [backup EXCEPT ![F(k)] = Absent]
  <2>1. /\ task' \in [Clients -> TaskType] /\ faults' \in 0..MaxFaults
        /\ SameEnd(k) /\ SameJob(k)
        /\ task[k].f = "geosite" => Now(k, "look", "geoip")
        /\ task[k].f = "geoip" => Now(k, "undone", "geosite")
    BY <1>0, <1>1, EachFileEffect, BoundEffect DEF Pcs
  <2>2. RuleSetTypeOK'
    BY <1>0, <1>1, <2>1 DEF RuleSetTypeOK, RestoreMove, TaskType, F, Contents, Files, bounds
  <2>3. DiskInv'
    <3>1. /\ Undoing(k) /\ file[task[k].f] = Absent /\ task[k].f \in Files
          /\ UNCHANGED <<txn, commit>>
      BY <1>0 DEF RuleSetInv, PhaseInv, RollbackInv, RestoreMove, At
    <3>2. Undoable(txn.existed)
      BY <3>1 DEF RuleSetInv, DiskInv, Undoing, Written
    <3>3. Undoable(txn.existed)'
      BY <1>0, <1>1, <3>1, <3>2 DEF Undoable, Old, Files, F, RuleSetTypeOK, NoBackups
    <3> QED
      BY <3>1, <3>3 DEF DiskInv, Undoing, Written, NoTxn, Partial
  <2>4. RecoveryInv(k)'
    BY <1>0, <1>1, <2>1 DEF RuleSetInv, PhaseInv, RecoveryInv, NextInv, RestoreMove, At, F,
       Recovering, Now, SameEnd, SameJob, Files, bounds
  <2>5. RollbackInv(k)'
    <3>1. Undoing(k)' /\ task[k].existed = Files
      BY <1>0, <1>1, <2>1 DEF RuleSetInv, DiskInv, PhaseInv, RollbackInv, RestoreMove, At,
         Undoing, SameJob, Undoable, NoBackups, Written, Files, F
    <3>2. task[k].f = "geosite" => backup'["geosite"] = Absent
      BY <1>0, <1>1 DEF F, Files, RuleSetTypeOK
    <3>3. task[k].f = "geoip" => /\ backup'["geoip"] = Absent
                                 /\ task[k].ok => backup'["geosite"] = Absent
      BY <1>0, <1>1 DEF F, Files, RuleSetTypeOK, RuleSetInv, PhaseInv, RollbackInv, RestoreMove,
         At, Second, Restored
    <3> QED
      BY <1>0, <2>1, <3>1, <3>2, <3>3 DEF RollbackInv, Now, SameJob, Files, Second, Restored
  <2>6. FinishInv(k)'
    BY <1>0, <1>1, <2>1 DEF FinishInv, RestoreMove, At, F, Now, SameEnd, SameJob, Files
  <2>7. InstallInv(k)'
    BY <1>0, <1>1, <2>1 DEF InstallInv, RestoreMove, At, F, Now, SameEnd, SameJob, Files
  <2> QED
    BY <2>2, <2>3, <2>4, <2>5, <2>6, <2>7 DEF RuleSetInv, PhaseInv
<1>2. CASE (Works \/ Fails) /\ RestoreFailed(k) /\ UNCHANGED <<file, backup>>
  <2>1. /\ task' \in [Clients -> TaskType] /\ faults' \in 0..MaxFaults
        /\ SameEnd(k) /\ task'[k].installing = task[k].installing
        /\ task'[k].existed = task[k].existed /\ task'[k].ok = FALSE
        /\ task[k].f = "geosite" => Now(k, "look", "geoip")
        /\ task[k].f = "geoip" => Now(k, "undone", "geoip")
    BY <1>0, <1>2, RestoreFailedEffect, BoundEffect
  <2>2. RuleSetTypeOK'
    BY <1>0, <1>2, <2>1 DEF RuleSetTypeOK, RestoreMove, TaskType, bounds
  <2>3. DiskInv'
    BY <1>2 DEF RuleSetInv, DiskInv, RestoreMove, Clean, LegacyLeft, HasLegacy, NoBackups,
       SameFiles, Undoable, Old
  <2>4. RecoveryInv(k)'
    BY <1>0, <1>2, <2>1 DEF RuleSetInv, PhaseInv, RecoveryInv, NextInv, RestoreMove, At, F,
       Recovering, Now, SameEnd, Files, bounds
  <2>5. RollbackInv(k)'
    BY <1>0, <1>2, <2>1 DEF RuleSetInv, PhaseInv, RollbackInv, RestoreMove, At, F, Now, SameEnd,
       Files, Undoing, Second, Restored
  <2>6. FinishInv(k)'
    BY <1>0, <1>2, <2>1 DEF FinishInv, RestoreMove, At, F, Now, SameEnd, Files
  <2>7. InstallInv(k)'
    BY <1>0, <1>2, <2>1 DEF InstallInv, RestoreMove, At, F, Now, SameEnd, Files
  <2> QED
    BY <2>2, <2>3, <2>4, <2>5, <2>6, <2>7 DEF RuleSetInv, PhaseInv
<1> QED
  BY <1>1, <1>2 DEF RestoreMove

LEMMA RollbackDoneStep ==
    ASSUME NEW k, Clients = {k}, RuleSetInv(k), RollbackDone(k)
    PROVE  RuleSetInv(k)'
<1>0. k \in Clients /\ RuleSetTypeOK /\ task[k].f \in Files
  BY TaskTyped DEF RuleSetInv
<1>1. CASE task[k].ok /\ Goto(k, "drop_txn") /\ UNCHANGED lock
  <2>1. /\ task' \in [Clients -> TaskType] /\ faults' \in 0..MaxFaults
        /\ Now(k, "drop_txn", "geosite") /\ SameEnd(k) /\ SameJob(k)
    BY <1>0, <1>1, GotoEffect, BoundEffect, TaskTyped DEF Pcs, RollbackDone, disk, Works,
       RuleSetTypeOK
  <2>2. RuleSetTypeOK'
    BY <1>0, <1>1, <2>1 DEF RollbackDone, RuleSetTypeOK, TaskType, disk, bounds
  <2>3. DiskInv'
    BY <1>1 DEF RollbackDone, RuleSetInv, DiskInv, Clean, LegacyLeft, HasLegacy, NoBackups,
       SameFiles, Undoable, Old, disk
  <2>4. RecoveryInv(k)'
    BY <1>1, <2>1 DEF RollbackDone, RuleSetInv, PhaseInv, RecoveryInv, NextInv, Recovering, At,
       Now, SameEnd, SameJob, bounds
  <2>5. RollbackInv(k)'
    BY <1>0, <1>1, <2>1 DEF RollbackDone, RuleSetInv, PhaseInv, RollbackInv, At, F, Now,
       SameEnd, SameJob, Files, Second, Undoing, Installing, Restored, RuleSetTypeOK, disk,
       bounds
  <2>6. FinishInv(k)' /\ InstallInv(k)'
    BY <2>1 DEF FinishInv, InstallInv, Now
  <2> QED
    BY <2>2, <2>3, <2>4, <2>5, <2>6 DEF RuleSetInv, PhaseInv
<1>2. CASE Return(k)
  <2>1. DiskInv'
    BY <1>2 DEF RollbackDone, RuleSetInv, DiskInv, Clean, LegacyLeft, HasLegacy, NoBackups,
       SameFiles, Undoable, Old, disk
  <2>2. /\ file' \in [Files -> Contents] /\ backup' \in [Files -> Contents]
        /\ temp' \in [Files -> Downloaded \cup {Absent}]
        /\ txn' \in {NoTxn, Partial} \cup {Written(e) : e \in SUBSET Files}
        /\ commit' \in BOOLEAN /\ faults' \in 0..MaxFaults
    BY <1>0, <1>2, BoundEffect DEF RollbackDone, RuleSetTypeOK, Works, disk
  <2> QED
    BY <1>2, <2>1, <2>2, ReturnKeeps DEF RollbackDone, disk, bounds
<1> QED
  BY <1>0, <1>1, <1>2 DEF RollbackDone, Works, Fails, RestoreFailed

LEMMA DropTxnStep ==
    ASSUME NEW k, Clients = {k}, RuleSetInv(k), DropTxn(k)
    PROVE  RuleSetInv(k)'
<1>0. k \in Clients /\ RuleSetTypeOK /\ task[k].f \in Files
  BY TaskTyped DEF RuleSetInv
<1>1. CASE Works /\ txn' = NoTxn /\ Goto(k, "drop_commit") /\ UNCHANGED lock
  <2>1. /\ task' \in [Clients -> TaskType] /\ faults' \in 0..MaxFaults
        /\ Now(k, "drop_commit", "geosite") /\ SameEnd(k) /\ SameJob(k)
    BY <1>0, <1>1, GotoEffect DEF Pcs, Works, RuleSetTypeOK
  <2>2. RuleSetTypeOK'
    BY <1>0, <1>1, <2>1 DEF DropTxn, RuleSetTypeOK, TaskType, disk, bounds
  <2>3. DiskInv'
    <3>1. Undoing(k) /\ Undoable(task[k].existed) /\ UNCHANGED <<file, backup, commit>>
          /\ Restored("geosite", task[k].existed) /\ Restored("geoip", task[k].existed)
      BY DEF DropTxn, RuleSetInv, DiskInv, PhaseInv, RollbackInv, At, Undoing, Written
    <3>2. Clean'
      BY <3>1, ValueAssumption DEF Undoable, Old, Restored, Clean, NoBackups, SameFiles,
         Downloaded, Files
    <3> QED
      BY <1>1, <3>1, <3>2 DEF DiskInv, NoTxn, Partial
  <2>4. RecoveryInv(k)'
    <3>1. Undoing(k) /\ Undoable(task[k].existed) /\ UNCHANGED <<file, backup, commit>>
          /\ Restored("geosite", task[k].existed) /\ Restored("geoip", task[k].existed)
      BY DEF DropTxn, RuleSetInv, DiskInv, PhaseInv, RollbackInv, At, Undoing, Written
    <3>2. Clean'
      BY <3>1, ValueAssumption DEF Undoable, Old, Restored, Clean, NoBackups, SameFiles,
         Downloaded, Files
    <3>3. NextInv(k)'
      BY <1>0, <1>1, <2>1 DEF DropTxn, RuleSetInv, PhaseInv, RecoveryInv, NextInv, At, SameEnd,
         SameJob, bounds
    <3> QED
      BY <1>1, <2>1, <3>1, <3>2, <3>3 DEF RecoveryInv, Now, Recovering, Settled, Undoing
  <2>5. RollbackInv(k)' /\ FinishInv(k)' /\ InstallInv(k)'
    BY <2>1 DEF RollbackInv, FinishInv, InstallInv, Now
  <2> QED
    BY <2>2, <2>3, <2>4, <2>5 DEF RuleSetInv, PhaseInv
<1>2. CASE task[k].installing /\ (Works \/ Fails) /\ UNCHANGED <<txn, lock>> /\ Goto(k, "drop_commit")
  <2>1. /\ task' \in [Clients -> TaskType] /\ faults' \in 0..MaxFaults
        /\ Now(k, "drop_commit", "geosite") /\ SameEnd(k) /\ SameJob(k)
    BY <1>0, <1>2, GotoEffect, BoundEffect DEF Pcs
  <2>2. RuleSetTypeOK'
    BY <1>0, <1>2, <2>1 DEF DropTxn, RuleSetTypeOK, TaskType, disk, bounds
  <2>3. DiskInv'
    BY <1>2 DEF DropTxn, RuleSetInv, DiskInv, Clean, LegacyLeft, HasLegacy, NoBackups,
       SameFiles, Undoable, Old, disk
  <2>4. RecoveryInv(k)'
    BY <1>0, <1>2, <2>1, ValueAssumption, BoundAssumption DEF DropTxn, RuleSetInv, DiskInv,
       PhaseInv, RecoveryInv, RollbackInv, FinishInv, InstallInv, NextInv, At, F, Recovering,
       Now, SameEnd, SameJob, Files, Settled, Clean, NoBackups, SameFiles, LegacyLeft,
       HasLegacy, Second, Valid, Undoing, Restored, Undoable, Old, NoTxn, Partial, Written,
       RuleSetTypeOK, Contents, disk, bounds
  <2>5. RollbackInv(k)' /\ FinishInv(k)' /\ InstallInv(k)'
    BY <2>1 DEF RollbackInv, FinishInv, InstallInv, Now
  <2> QED
    BY <2>2, <2>3, <2>4, <2>5 DEF RuleSetInv, PhaseInv
<1>3. CASE (Works \/ Fails) /\ UNCHANGED txn /\ Return(k)
  <2>1. DiskInv'
    BY <1>3 DEF DropTxn, RuleSetInv, DiskInv, Clean, LegacyLeft, HasLegacy, NoBackups,
       SameFiles, Undoable, Old, disk
  <2>2. /\ file' \in [Files -> Contents] /\ backup' \in [Files -> Contents]
        /\ temp' \in [Files -> Downloaded \cup {Absent}]
        /\ txn' \in {NoTxn, Partial} \cup {Written(e) : e \in SUBSET Files}
        /\ commit' \in BOOLEAN /\ faults' \in 0..MaxFaults
    BY <1>0, <1>3, BoundEffect DEF DropTxn, RuleSetTypeOK, Works, disk
  <2> QED
    BY <1>3, <2>1, <2>2, ReturnKeeps DEF DropTxn, disk, bounds
<1> QED
  BY <1>0, <1>1, <1>2, <1>3 DEF DropTxn, Works, Fails, RestoreFailed

LEMMA DropCommitStep ==
    ASSUME NEW k, Clients = {k}, RuleSetInv(k), DropCommit(k)
    PROVE  RuleSetInv(k)'
<1>0. k \in Clients /\ RuleSetTypeOK /\ task[k].f \in Files
  BY TaskTyped DEF RuleSetInv
<1>1. CASE Works /\ commit' = FALSE /\ ~task[k].installing /\ Goto(k, task[k].next) /\ UNCHANGED lock
  <2>1. /\ task' \in [Clients -> TaskType] /\ faults' \in 0..MaxFaults
        /\ Now(k, task[k].next, "geosite") /\ SameEnd(k) /\ SameJob(k)
    BY <1>0, <1>1, GotoEffect DEF Pcs, Works, RuleSetTypeOK
  <2>2. RuleSetTypeOK'
    BY <1>0, <1>1, <2>1 DEF DropCommit, RuleSetTypeOK, TaskType, disk, bounds
  <2>3. DiskInv'
    BY <1>0, <1>1, ValueAssumption DEF DropCommit, RuleSetInv, DiskInv, PhaseInv, RecoveryInv,
       At, F, Second, Clean, LegacyLeft, HasLegacy, NoBackups, SameFiles, Undoable, Old,
       Undoing, Installing, Settled, Restored, Valid, NoTxn, Partial, Written, Files,
       RuleSetTypeOK, disk
  <2>4. RecoveryInv(k)'
    BY <1>1, <2>1 DEF DropCommit, RuleSetInv, PhaseInv, RecoveryInv, NextInv, Recovering, At,
       Now, SameEnd, SameJob, bounds
  <2>5. RollbackInv(k)'
    <3>1. task'[k].pc \in {"ready", "current", "temp", "answered"}
      BY <1>0, <1>1, <2>1 DEF DropCommit, RuleSetInv, PhaseInv, RecoveryInv, NextInv, At,
         Recovering, Now
    <3> QED
      BY <3>1 DEF RollbackInv
  <2>6. FinishInv(k)'
    <3>1. task'[k].pc \in {"ready", "current", "temp", "answered"}
      BY <1>0, <1>1, <2>1 DEF DropCommit, RuleSetInv, PhaseInv, RecoveryInv, NextInv, At,
         Recovering, Now
    <3> QED
      BY <3>1 DEF FinishInv
  <2>7. InstallInv(k)'
    BY <1>0, <1>1, <2>1, ValueAssumption, BoundAssumption DEF DropCommit, RuleSetInv, DiskInv,
       PhaseInv, RecoveryInv, NextInv, FinishInv, InstallInv, At, F, Now, SameEnd, SameJob,
       Files, Settled, Clean, NoBackups, SameFiles, Undoing, Installing, Second, Valid,
       Contents, Downloaded, NoTxn, Partial, Written, RuleSetTypeOK, disk, bounds
  <2> QED
    BY <2>2, <2>3, <2>4, <2>5, <2>6, <2>7 DEF RuleSetInv, PhaseInv
<1>2. CASE Works /\ commit' = FALSE /\ task[k].installing /\ Return(k)
  <2>1. DiskInv'
    BY <1>0, <1>2 DEF DropCommit, RuleSetInv, DiskInv, PhaseInv, RecoveryInv, At, F, Clean,
       LegacyLeft, HasLegacy, NoBackups, SameFiles, Undoable, Old, Undoing, Installing, Settled,
       Valid, Files, disk
  <2>2. /\ file' \in [Files -> Contents] /\ backup' \in [Files -> Contents]
        /\ temp' \in [Files -> Downloaded \cup {Absent}]
        /\ txn' \in {NoTxn, Partial} \cup {Written(e) : e \in SUBSET Files}
        /\ commit' \in BOOLEAN /\ faults' \in 0..MaxFaults
    BY <1>0, <1>2, BoundEffect DEF DropCommit, RuleSetTypeOK, Works, disk
  <2> QED
    BY <1>2, <2>1, <2>2, ReturnKeeps DEF DropCommit, disk, bounds
<1>3. CASE Fails /\ Return(k) /\ UNCHANGED commit
  <2>1. DiskInv'
    BY <1>3 DEF DropCommit, RuleSetInv, DiskInv, Clean, LegacyLeft, HasLegacy, NoBackups,
       SameFiles, Undoable, Old, disk
  <2>2. /\ file' \in [Files -> Contents] /\ backup' \in [Files -> Contents]
        /\ temp' \in [Files -> Downloaded \cup {Absent}]
        /\ txn' \in {NoTxn, Partial} \cup {Written(e) : e \in SUBSET Files}
        /\ commit' \in BOOLEAN /\ faults' \in 0..MaxFaults
    BY <1>0, <1>3, BoundEffect DEF DropCommit, RuleSetTypeOK, Works, disk
  <2> QED
    BY <1>3, <2>1, <2>2, ReturnKeeps DEF DropCommit, disk, bounds
<1> QED
  BY <1>0, <1>1, <1>2, <1>3 DEF DropCommit, Works, Fails, RestoreFailed

-----------------------------------------------------------------------------
\* finish_rule_set_transaction.
LEMMA FinishBackupStep ==
    ASSUME NEW k, Clients = {k}, RuleSetInv(k), FinishBackup(k)
    PROVE  RuleSetInv(k)'
<1>0. k \in Clients /\ RuleSetTypeOK /\ task[k].f \in Files
  BY TaskTyped DEF RuleSetInv
<1>1. CASE Works /\ backup' = [backup EXCEPT ![F(k)] = Absent]
           /\ EachFile(k, "finish", "finish_txn") /\ UNCHANGED lock
  <2>1. /\ task' \in [Clients -> TaskType] /\ faults' \in 0..MaxFaults
        /\ SameEnd(k) /\ SameJob(k)
        /\ task[k].f = "geosite" => Now(k, "finish", "geoip")
        /\ task[k].f = "geoip" => Now(k, "finish_txn", "geosite")
    BY <1>0, <1>1, EachFileEffect DEF Pcs, Works, RuleSetTypeOK
  <2>2. RuleSetTypeOK'
    BY <1>0, <1>1, <2>1 DEF FinishBackup, RuleSetTypeOK, TaskType, F, Contents, disk, bounds
  <2>3. DiskInv'
    BY <1>0, <1>1 DEF FinishBackup, RuleSetInv, DiskInv, PhaseInv, FinishInv, At, F, Clean,
       LegacyLeft, HasLegacy, NoBackups, SameFiles, Undoable, Old, Undoing, Installing, Settled,
       Valid, Files, disk
  <2>4. RecoveryInv(k)'
    BY <1>0, <1>1, <2>1 DEF FinishBackup, RuleSetInv, PhaseInv, FinishInv, RecoveryInv, NextInv,
       Recovering, At, F, Now, SameEnd, SameJob, Files, Second, Settled, Clean, NoBackups,
       SameFiles, Valid, RuleSetTypeOK, bounds
  <2>5. RollbackInv(k)'
    BY <1>0, <1>1, <2>1 DEF FinishBackup, RuleSetInv, PhaseInv, FinishInv, RollbackInv, At, F,
       Now, SameEnd, SameJob, Files, Second, Undoing, Installing, Restored, RuleSetTypeOK, disk,
       bounds
  <2>6. FinishInv(k)'
    BY <1>0, <1>1, <2>1, ValueAssumption, BoundAssumption DEF FinishBackup, RuleSetInv, DiskInv,
       PhaseInv, FinishInv, InstallInv, At, F, Now, SameEnd, SameJob, Files, Settled, Clean,
       NoBackups, SameFiles, Second, NoTxn, Partial, Written, Undoing, Installing,
       RuleSetTypeOK, disk
  <2>7. InstallInv(k)'
    BY <1>0, <1>1, <2>1 DEF FinishBackup, RuleSetInv, PhaseInv, FinishInv, InstallInv, At, F,
       Now, SameEnd, SameJob, Files, Second, Undoing, Installing, Restored, RuleSetTypeOK, disk,
       bounds
  <2> QED
    BY <2>2, <2>3, <2>4, <2>5, <2>6, <2>7 DEF RuleSetInv, PhaseInv
<1>2. CASE Fails /\ Return(k) /\ UNCHANGED backup
  <2>1. DiskInv'
    BY <1>2 DEF FinishBackup, RuleSetInv, DiskInv, Clean, LegacyLeft, HasLegacy, NoBackups,
       SameFiles, Undoable, Old, disk
  <2>2. /\ file' \in [Files -> Contents] /\ backup' \in [Files -> Contents]
        /\ temp' \in [Files -> Downloaded \cup {Absent}]
        /\ txn' \in {NoTxn, Partial} \cup {Written(e) : e \in SUBSET Files}
        /\ commit' \in BOOLEAN /\ faults' \in 0..MaxFaults
    BY <1>0, <1>2, BoundEffect DEF FinishBackup, RuleSetTypeOK, Works, disk
  <2> QED
    BY <1>2, <2>1, <2>2, ReturnKeeps DEF FinishBackup, disk, bounds
<1> QED
  BY <1>0, <1>1, <1>2 DEF FinishBackup, Works, Fails, RestoreFailed

LEMMA FinishTxnStep ==
    ASSUME NEW k, Clients = {k}, RuleSetInv(k), FinishTxn(k)
    PROVE  RuleSetInv(k)'
<1>0. k \in Clients /\ RuleSetTypeOK /\ task[k].f \in Files
  BY TaskTyped DEF RuleSetInv
<1>1. CASE Works /\ txn' = NoTxn /\ Goto(k, "finish_commit") /\ UNCHANGED lock
  <2>1. /\ task' \in [Clients -> TaskType] /\ faults' \in 0..MaxFaults
        /\ Now(k, "finish_commit", "geosite") /\ SameEnd(k) /\ SameJob(k)
    BY <1>0, <1>1, GotoEffect DEF Pcs, Works, RuleSetTypeOK
  <2>2. RuleSetTypeOK'
    BY <1>0, <1>1, <2>1 DEF FinishTxn, RuleSetTypeOK, TaskType, disk, bounds
  <2>3. DiskInv'
    <3>1. commit /\ txn.state = "written" /\ NoBackups /\ UNCHANGED <<file, backup, commit>>
      BY DEF FinishTxn, RuleSetInv, PhaseInv, FinishInv, At
    <3>2. SameFiles /\ file["geosite"] \in Downloaded
      BY <3>1 DEF RuleSetInv, DiskInv
    <3>3. Clean'
      BY <3>1, <3>2, ValueAssumption DEF Clean, NoBackups, SameFiles, Downloaded
    <3> QED
      BY <1>1, <3>1, <3>3 DEF DiskInv, NoTxn, Partial
  <2>4. RecoveryInv(k)'
    BY <1>1, <2>1 DEF FinishTxn, RuleSetInv, PhaseInv, RecoveryInv, NextInv, Recovering, At,
       Now, SameEnd, SameJob, bounds
  <2>5. FinishInv(k)'
    <3>1. commit /\ txn.state = "written" /\ NoBackups /\ UNCHANGED <<file, backup, commit>>
      BY DEF FinishTxn, RuleSetInv, PhaseInv, FinishInv, At
    <3>2. SameFiles /\ file["geosite"] \in Downloaded
      BY <3>1 DEF RuleSetInv, DiskInv
    <3>3. Clean'
      BY <3>1, <3>2, ValueAssumption DEF Clean, NoBackups, SameFiles, Downloaded
    <3> QED
      BY <1>1, <2>1, <3>1, <3>2, <3>3 DEF FinishInv, Now, Settled, bounds, FinishTxn, Downloaded
  <2>6. RollbackInv(k)' /\ InstallInv(k)'
    BY <2>1 DEF RollbackInv, InstallInv, Now
  <2> QED
    BY <2>2, <2>3, <2>4, <2>5, <2>6 DEF RuleSetInv, PhaseInv
<1>2. CASE Fails /\ Return(k) /\ UNCHANGED txn
  <2>1. DiskInv'
    BY <1>2 DEF FinishTxn, RuleSetInv, DiskInv, Clean, LegacyLeft, HasLegacy, NoBackups,
       SameFiles, Undoable, Old, disk
  <2>2. /\ file' \in [Files -> Contents] /\ backup' \in [Files -> Contents]
        /\ temp' \in [Files -> Downloaded \cup {Absent}]
        /\ txn' \in {NoTxn, Partial} \cup {Written(e) : e \in SUBSET Files}
        /\ commit' \in BOOLEAN /\ faults' \in 0..MaxFaults
    BY <1>0, <1>2, BoundEffect DEF FinishTxn, RuleSetTypeOK, Works, disk
  <2> QED
    BY <1>2, <2>1, <2>2, ReturnKeeps DEF FinishTxn, disk, bounds
<1> QED
  BY <1>0, <1>1, <1>2 DEF FinishTxn, Works, Fails, RestoreFailed

LEMMA FinishCommitStep ==
    ASSUME NEW k, Clients = {k}, RuleSetInv(k), FinishCommit(k)
    PROVE  RuleSetInv(k)'
<1>0. k \in Clients /\ RuleSetTypeOK /\ task[k].f \in Files
  BY TaskTyped DEF RuleSetInv
<1>1. CASE Works /\ commit' = FALSE /\ UNCHANGED lock /\ task[k].installing /\ Goto(k, "answered")
  <2>1. /\ task' \in [Clients -> TaskType] /\ faults' \in 0..MaxFaults
        /\ Now(k, "answered", "geosite") /\ SameEnd(k) /\ SameJob(k)
    BY <1>0, <1>1, GotoEffect DEF Pcs, Works, RuleSetTypeOK
  <2>2. RuleSetTypeOK'
    BY <1>0, <1>1, <2>1 DEF FinishCommit, RuleSetTypeOK, TaskType, disk, bounds
  <2>3. DiskInv'
    BY <1>0, <1>1, ValueAssumption DEF FinishCommit, RuleSetInv, DiskInv, PhaseInv, FinishInv,
       At, F, Second, Clean, LegacyLeft, HasLegacy, NoBackups, SameFiles, Undoable, Old,
       Undoing, Installing, Settled, Restored, Valid, NoTxn, Partial, Written, Files,
       RuleSetTypeOK, disk
  <2>4. InstallInv(k)'
    BY <1>0, <1>1, <2>1, ValueAssumption, BoundAssumption DEF FinishCommit, RuleSetInv, DiskInv,
       PhaseInv, RecoveryInv, NextInv, FinishInv, InstallInv, At, F, Now, SameEnd, SameJob,
       Files, Settled, Clean, NoBackups, SameFiles, Undoing, Installing, Second, Valid,
       Contents, Downloaded, NoTxn, Partial, Written, RuleSetTypeOK, disk, bounds
  <2>5. RecoveryInv(k)' /\ RollbackInv(k)' /\ FinishInv(k)'
    BY <2>1 DEF RecoveryInv, RollbackInv, FinishInv, Recovering, Now
  <2> QED
    BY <2>2, <2>3, <2>4, <2>5 DEF RuleSetInv, PhaseInv
<1>2. CASE Works /\ commit' = FALSE /\ UNCHANGED lock /\ ~task[k].installing /\ Goto(k, task[k].next)
  <2>1. /\ task' \in [Clients -> TaskType] /\ faults' \in 0..MaxFaults
        /\ Now(k, task[k].next, "geosite") /\ SameEnd(k) /\ SameJob(k)
    BY <1>0, <1>2, GotoEffect DEF Pcs, Works, RuleSetTypeOK
  <2>2. RuleSetTypeOK'
    BY <1>0, <1>2, <2>1 DEF FinishCommit, RuleSetTypeOK, TaskType, disk, bounds
  <2>3. DiskInv'
    BY <1>0, <1>2, ValueAssumption DEF FinishCommit, RuleSetInv, DiskInv, PhaseInv, FinishInv,
       At, F, Second, Clean, LegacyLeft, HasLegacy, NoBackups, SameFiles, Undoable, Old,
       Undoing, Installing, Settled, Restored, Valid, NoTxn, Partial, Written, Files,
       RuleSetTypeOK, disk
  <2>4. RecoveryInv(k)'
    BY <1>2, <2>1 DEF FinishCommit, RuleSetInv, PhaseInv, RecoveryInv, NextInv, Recovering, At,
       Now, SameEnd, SameJob, bounds
  <2>5. RollbackInv(k)'
    <3>1. task'[k].pc \in {"ready", "current", "temp", "answered"}
      BY <1>0, <1>2, <2>1 DEF FinishCommit, RuleSetInv, PhaseInv, RecoveryInv, NextInv, At,
         Recovering, Now
    <3> QED
      BY <3>1 DEF RollbackInv
  <2>6. FinishInv(k)'
    <3>1. task'[k].pc \in {"ready", "current", "temp", "answered"}
      BY <1>0, <1>2, <2>1 DEF FinishCommit, RuleSetInv, PhaseInv, RecoveryInv, NextInv, At,
         Recovering, Now
    <3> QED
      BY <3>1 DEF FinishInv
  <2>7. InstallInv(k)'
    BY <1>0, <1>2, <2>1, ValueAssumption, BoundAssumption DEF FinishCommit, RuleSetInv, DiskInv,
       PhaseInv, RecoveryInv, NextInv, FinishInv, InstallInv, At, F, Now, SameEnd, SameJob,
       Files, Settled, Clean, NoBackups, SameFiles, Undoing, Installing, Second, Valid,
       Contents, Downloaded, NoTxn, Partial, Written, RuleSetTypeOK, disk, bounds
  <2> QED
    BY <2>2, <2>3, <2>4, <2>5, <2>6, <2>7 DEF RuleSetInv, PhaseInv
<1>3. CASE Fails /\ Return(k) /\ UNCHANGED commit
  <2>1. DiskInv'
    BY <1>3 DEF FinishCommit, RuleSetInv, DiskInv, Clean, LegacyLeft, HasLegacy, NoBackups,
       SameFiles, Undoable, Old, disk
  <2>2. /\ file' \in [Files -> Contents] /\ backup' \in [Files -> Contents]
        /\ temp' \in [Files -> Downloaded \cup {Absent}]
        /\ txn' \in {NoTxn, Partial} \cup {Written(e) : e \in SUBSET Files}
        /\ commit' \in BOOLEAN /\ faults' \in 0..MaxFaults
    BY <1>0, <1>3, BoundEffect DEF FinishCommit, RuleSetTypeOK, Works, disk
  <2> QED
    BY <1>3, <2>1, <2>2, ReturnKeeps DEF FinishCommit, disk, bounds
<1> QED
  BY <1>0, <1>1, <1>2, <1>3 DEF FinishCommit, Works, Fails, RestoreFailed

-----------------------------------------------------------------------------
\* The requests.
LEMMA TakeLockStep ==
    ASSUME NEW k, Clients = {k}, RuleSetInv(k), TakeLock(k)
    PROVE  RuleSetInv(k)'
<1>0. k \in Clients /\ RuleSetTypeOK /\ task[k].f \in Files
  BY TaskTyped DEF RuleSetInv
<1>1. CASE task[k].op = "check" /\ Recover(k, "ready")
  <2>1. /\ task' \in [Clients -> TaskType] /\ faults' \in 0..MaxFaults
        /\ Now(k, "recover", task[k].f) /\ task'[k].next = "ready"
        /\ task'[k].op = task[k].op /\ task'[k].installing = FALSE
    BY <1>0, <1>1, RecoverEffect, BoundEffect, TaskTyped DEF Pcs, TakeLock, disk, Works,
       RuleSetTypeOK
  <2>2. RuleSetTypeOK'
    BY <1>0, <1>1, <2>1 DEF TakeLock, RuleSetTypeOK, TaskType, disk, bounds
  <2>3. DiskInv'
    BY <1>1 DEF TakeLock, RuleSetInv, DiskInv, Clean, LegacyLeft, HasLegacy, NoBackups,
       SameFiles, Undoable, Old, disk
  <2>4. RecoveryInv(k)'
    BY <1>1, <2>1 DEF TakeLock, RuleSetInv, PhaseInv, RecoveryInv, NextInv, Recovering, At, Now,
       SameEnd, SameJob, bounds
  <2>5. RollbackInv(k)' /\ FinishInv(k)' /\ InstallInv(k)'
    BY <2>1 DEF RollbackInv, FinishInv, InstallInv, Now
  <2> QED
    BY <2>2, <2>3, <2>4, <2>5 DEF RuleSetInv, PhaseInv
<1>2. CASE Recover(k, "current")
  <2>1. /\ task' \in [Clients -> TaskType] /\ faults' \in 0..MaxFaults
        /\ Now(k, "recover", task[k].f) /\ task'[k].next = "current"
        /\ task'[k].op = task[k].op /\ task'[k].installing = FALSE
    BY <1>0, <1>2, RecoverEffect, BoundEffect, TaskTyped DEF Pcs, TakeLock, disk, Works,
       RuleSetTypeOK
  <2>2. RuleSetTypeOK'
    BY <1>0, <1>2, <2>1 DEF TakeLock, RuleSetTypeOK, TaskType, disk, bounds
  <2>3. DiskInv'
    BY <1>2 DEF TakeLock, RuleSetInv, DiskInv, Clean, LegacyLeft, HasLegacy, NoBackups,
       SameFiles, Undoable, Old, disk
  <2>4. RecoveryInv(k)'
    BY <1>2, <2>1 DEF TakeLock, RuleSetInv, PhaseInv, RecoveryInv, NextInv, Recovering, At, Now,
       SameEnd, SameJob, bounds
  <2>5. RollbackInv(k)' /\ FinishInv(k)' /\ InstallInv(k)'
    BY <2>1 DEF RollbackInv, FinishInv, InstallInv, Now
  <2> QED
    BY <2>2, <2>3, <2>4, <2>5 DEF RuleSetInv, PhaseInv
<1>3. CASE Goto(k, "download")
  <2>1. /\ task' \in [Clients -> TaskType] /\ faults' \in 0..MaxFaults
        /\ Now(k, "download", "geosite") /\ SameEnd(k) /\ SameJob(k)
    BY <1>0, <1>3, GotoEffect, BoundEffect, TaskTyped DEF Pcs, TakeLock, disk, Works,
       RuleSetTypeOK
  <2>2. RuleSetTypeOK'
    BY <1>0, <1>3, <2>1 DEF TakeLock, RuleSetTypeOK, TaskType, disk, bounds
  <2>3. DiskInv'
    BY <1>3 DEF TakeLock, RuleSetInv, DiskInv, Clean, LegacyLeft, HasLegacy, NoBackups,
       SameFiles, Undoable, Old, disk
  <2>4. RecoveryInv(k)' /\ RollbackInv(k)' /\ FinishInv(k)' /\ InstallInv(k)'
    BY <2>1 DEF RecoveryInv, RollbackInv, FinishInv, InstallInv, Recovering, Now
  <2> QED
    BY <2>2, <2>3, <2>4 DEF RuleSetInv, PhaseInv
<1> QED
  BY <1>0, <1>1, <1>2, <1>3 DEF TakeLock, Works, Fails, RestoreFailed

LEMMA CheckReadyStep ==
    ASSUME NEW k, Clients = {k}, RuleSetInv(k), CheckReady(k)
    PROVE  RuleSetInv(k)'
<1>0. k \in Clients /\ RuleSetTypeOK /\ task[k].f \in Files
  BY TaskTyped DEF RuleSetInv
<1>1. CASE (\A f \in Files : Valid(f)) /\ Goto(k, "answered")
  <2>1. /\ task' \in [Clients -> TaskType] /\ faults' \in 0..MaxFaults
        /\ Now(k, "answered", "geosite") /\ SameEnd(k) /\ SameJob(k)
    BY <1>0, <1>1, GotoEffect, BoundEffect, TaskTyped DEF Pcs, CheckReady, disk, Works,
       RuleSetTypeOK
  <2>2. RuleSetTypeOK'
    BY <1>0, <1>1, <2>1 DEF CheckReady, RuleSetTypeOK, TaskType, disk, bounds
  <2>3. DiskInv'
    BY <1>1 DEF CheckReady, RuleSetInv, DiskInv, Clean, LegacyLeft, HasLegacy, NoBackups,
       SameFiles, Undoable, Old, disk
  <2>4. InstallInv(k)'
    BY <1>0, <1>1, <2>1, ValueAssumption, BoundAssumption DEF CheckReady, RuleSetInv, DiskInv,
       PhaseInv, RecoveryInv, NextInv, FinishInv, InstallInv, At, F, Now, SameEnd, SameJob,
       Files, Settled, Clean, NoBackups, SameFiles, Undoing, Installing, Second, Valid,
       Contents, Downloaded, NoTxn, Partial, Written, RuleSetTypeOK, disk, bounds
  <2>5. RecoveryInv(k)' /\ RollbackInv(k)' /\ FinishInv(k)'
    BY <2>1 DEF RecoveryInv, RollbackInv, FinishInv, Recovering, Now
  <2> QED
    BY <2>2, <2>3, <2>4, <2>5 DEF RuleSetInv, PhaseInv
<1>2. CASE Goto(k, "download")
  <2>1. /\ task' \in [Clients -> TaskType] /\ faults' \in 0..MaxFaults
        /\ Now(k, "download", "geosite") /\ SameEnd(k) /\ SameJob(k)
    BY <1>0, <1>2, GotoEffect, BoundEffect, TaskTyped DEF Pcs, CheckReady, disk, Works,
       RuleSetTypeOK
  <2>2. RuleSetTypeOK'
    BY <1>0, <1>2, <2>1 DEF CheckReady, RuleSetTypeOK, TaskType, disk, bounds
  <2>3. DiskInv'
    BY <1>2 DEF CheckReady, RuleSetInv, DiskInv, Clean, LegacyLeft, HasLegacy, NoBackups,
       SameFiles, Undoable, Old, disk
  <2>4. RecoveryInv(k)' /\ RollbackInv(k)' /\ FinishInv(k)' /\ InstallInv(k)'
    BY <2>1 DEF RecoveryInv, RollbackInv, FinishInv, InstallInv, Recovering, Now
  <2> QED
    BY <2>2, <2>3, <2>4 DEF RuleSetInv, PhaseInv
<1>3. CASE Goto(k, "lock")
  <2>1. /\ task' \in [Clients -> TaskType] /\ faults' \in 0..MaxFaults
        /\ Now(k, "lock", "geosite") /\ SameEnd(k) /\ SameJob(k)
    BY <1>0, <1>3, GotoEffect, BoundEffect, TaskTyped DEF Pcs, CheckReady, disk, Works,
       RuleSetTypeOK
  <2>2. RuleSetTypeOK'
    BY <1>0, <1>3, <2>1 DEF CheckReady, RuleSetTypeOK, TaskType, disk, bounds
  <2>3. DiskInv'
    BY <1>3 DEF CheckReady, RuleSetInv, DiskInv, Clean, LegacyLeft, HasLegacy, NoBackups,
       SameFiles, Undoable, Old, disk
  <2>4. RecoveryInv(k)' /\ RollbackInv(k)' /\ FinishInv(k)' /\ InstallInv(k)'
    BY <2>1 DEF RecoveryInv, RollbackInv, FinishInv, InstallInv, Recovering, Now
  <2> QED
    BY <2>2, <2>3, <2>4 DEF RuleSetInv, PhaseInv
<1> QED
  BY <1>0, <1>1, <1>2, <1>3 DEF CheckReady, Works, Fails, RestoreFailed

LEMMA CheckCurrentStep ==
    ASSUME NEW k, Clients = {k}, RuleSetInv(k), CheckCurrent(k)
    PROVE  RuleSetInv(k)'
<1>0. k \in Clients /\ RuleSetTypeOK /\ task[k].f \in Files
  BY TaskTyped DEF RuleSetInv
<1>1. CASE (\A f \in Files : Valid(f)) /\ Goto(k, "answered")
  <2>1. /\ task' \in [Clients -> TaskType] /\ faults' \in 0..MaxFaults
        /\ Now(k, "answered", "geosite") /\ SameEnd(k) /\ SameJob(k)
    BY <1>0, <1>1, GotoEffect, BoundEffect, TaskTyped DEF Pcs, CheckCurrent, disk, Works,
       RuleSetTypeOK
  <2>2. RuleSetTypeOK'
    BY <1>0, <1>1, <2>1 DEF CheckCurrent, RuleSetTypeOK, TaskType, disk, bounds
  <2>3. DiskInv'
    BY <1>1 DEF CheckCurrent, RuleSetInv, DiskInv, Clean, LegacyLeft, HasLegacy, NoBackups,
       SameFiles, Undoable, Old, disk
  <2>4. InstallInv(k)'
    BY <1>0, <1>1, <2>1, ValueAssumption, BoundAssumption DEF CheckCurrent, RuleSetInv, DiskInv,
       PhaseInv, RecoveryInv, NextInv, FinishInv, InstallInv, At, F, Now, SameEnd, SameJob,
       Files, Settled, Clean, NoBackups, SameFiles, Undoing, Installing, Second, Valid,
       Contents, Downloaded, NoTxn, Partial, Written, RuleSetTypeOK, disk, bounds
  <2>5. RecoveryInv(k)' /\ RollbackInv(k)' /\ FinishInv(k)'
    BY <2>1 DEF RecoveryInv, RollbackInv, FinishInv, Recovering, Now
  <2> QED
    BY <2>2, <2>3, <2>4, <2>5 DEF RuleSetInv, PhaseInv
<1>2. CASE Goto(k, "download")
  <2>1. /\ task' \in [Clients -> TaskType] /\ faults' \in 0..MaxFaults
        /\ Now(k, "download", "geosite") /\ SameEnd(k) /\ SameJob(k)
    BY <1>0, <1>2, GotoEffect, BoundEffect, TaskTyped DEF Pcs, CheckCurrent, disk, Works,
       RuleSetTypeOK
  <2>2. RuleSetTypeOK'
    BY <1>0, <1>2, <2>1 DEF CheckCurrent, RuleSetTypeOK, TaskType, disk, bounds
  <2>3. DiskInv'
    BY <1>2 DEF CheckCurrent, RuleSetInv, DiskInv, Clean, LegacyLeft, HasLegacy, NoBackups,
       SameFiles, Undoable, Old, disk
  <2>4. RecoveryInv(k)' /\ RollbackInv(k)' /\ FinishInv(k)' /\ InstallInv(k)'
    BY <2>1 DEF RecoveryInv, RollbackInv, FinishInv, InstallInv, Recovering, Now
  <2> QED
    BY <2>2, <2>3, <2>4 DEF RuleSetInv, PhaseInv
<1> QED
  BY <1>0, <1>1, <1>2 DEF CheckCurrent, Works, Fails, RestoreFailed

LEMMA AnswerStep ==
    ASSUME NEW k, Clients = {k}, RuleSetInv(k), Answer(k)
    PROVE  RuleSetInv(k)'
<1>0. k \in Clients /\ RuleSetTypeOK /\ task[k].f \in Files
  BY TaskTyped DEF RuleSetInv
<1>1. CASE Return(k)
  <2>1. DiskInv'
    BY <1>1 DEF Answer, RuleSetInv, DiskInv, Clean, LegacyLeft, HasLegacy, NoBackups, SameFiles,
       Undoable, Old, disk
  <2>2. /\ file' \in [Files -> Contents] /\ backup' \in [Files -> Contents]
        /\ temp' \in [Files -> Downloaded \cup {Absent}]
        /\ txn' \in {NoTxn, Partial} \cup {Written(e) : e \in SUBSET Files}
        /\ commit' \in BOOLEAN /\ faults' \in 0..MaxFaults
    BY <1>0, <1>1, BoundEffect DEF Answer, RuleSetTypeOK, Works, disk
  <2> QED
    BY <1>1, <2>1, <2>2, ReturnKeeps DEF Answer, disk, bounds
<1> QED
  BY <1>0, <1>1 DEF Answer, Works, Fails, RestoreFailed

-----------------------------------------------------------------------------
\* download_and_install_rule_sets and install_rule_set_cache.
LEMMA DownloadStep ==
    ASSUME NEW k, Clients = {k}, RuleSetInv(k), Download(k)
    PROVE  RuleSetInv(k)'
<1>0. k \in Clients /\ RuleSetTypeOK /\ task[k].f \in Files
  BY TaskTyped DEF RuleSetInv
<1>1. CASE downloads < MaxInstalls /\ downloads' = downloads + 1 /\ Recover(k, "temp") /\ UNCHANGED lock
  <2>1. /\ task' \in [Clients -> TaskType] /\ faults' \in 0..MaxFaults
        /\ Now(k, "recover", task[k].f) /\ task'[k].next = "temp"
        /\ task'[k].op = task[k].op /\ task'[k].installing = FALSE
    BY <1>0, <1>1, RecoverEffect, BoundEffect, TaskTyped DEF Pcs, Download, disk, Works,
       RuleSetTypeOK
  <2>2. RuleSetTypeOK'
    BY <1>0, <1>1, <2>1, ValueAssumption, BoundAssumption DEF Download, RuleSetTypeOK, TaskType,
       F, Contents, Files, Downloaded, NoTxn, Partial, Written, Nobody, disk, bounds
  <2>3. DiskInv'
    BY <1>1 DEF Download, RuleSetInv, DiskInv, Clean, LegacyLeft, HasLegacy, NoBackups,
       SameFiles, Undoable, Old, disk
  <2>4. RecoveryInv(k)'
    <3>1. downloads' \in Downloaded \ {0}
      BY <1>0, <1>1, BoundAssumption DEF RuleSetTypeOK, Downloaded
    <3> QED
      BY <2>1, <3>1 DEF RecoveryInv, NextInv, Now, Recovering, Downloaded
  <2>5. RollbackInv(k)' /\ FinishInv(k)' /\ InstallInv(k)'
    BY <2>1 DEF RollbackInv, FinishInv, InstallInv, Now
  <2> QED
    BY <2>2, <2>3, <2>4, <2>5 DEF RuleSetInv, PhaseInv
<1>2. CASE Return(k) /\ UNCHANGED downloads
  <2>1. DiskInv'
    BY <1>2 DEF Download, RuleSetInv, DiskInv, Clean, LegacyLeft, HasLegacy, NoBackups,
       SameFiles, Undoable, Old, disk
  <2>2. /\ file' \in [Files -> Contents] /\ backup' \in [Files -> Contents]
        /\ temp' \in [Files -> Downloaded \cup {Absent}]
        /\ txn' \in {NoTxn, Partial} \cup {Written(e) : e \in SUBSET Files}
        /\ commit' \in BOOLEAN /\ faults' \in 0..MaxFaults
    BY <1>0, <1>2, BoundEffect DEF Download, RuleSetTypeOK, Works, disk
  <2> QED
    BY <1>2, <2>1, <2>2, ReturnKeeps DEF Download, disk, bounds
<1> QED
  BY <1>0, <1>1, <1>2 DEF Download, Works, Fails, RestoreFailed

LEMMA InstallTempStep ==
    ASSUME NEW k, Clients = {k}, RuleSetInv(k), InstallTemp(k)
    PROVE  RuleSetInv(k)'
<1>0. k \in Clients /\ RuleSetTypeOK /\ task[k].f \in Files
  BY TaskTyped DEF RuleSetInv
<1>1. CASE temp' = [f \in Files |-> downloads] /\ UNCHANGED lock
           /\ task' = [task EXCEPT ![k].pc = "txn_open", ![k].installing = TRUE,
                          ![k].existed = {f \in Files : file[f] # Absent}]
  <2>1. /\ task' \in [Clients -> TaskType] /\ faults' \in 0..MaxFaults
        /\ Now(k, "txn_open", task[k].f) /\ task'[k].installing = TRUE
        /\ task'[k].existed = {f \in Files : file[f] # Absent}
    BY <1>0, <1>1, {f \in Files : file[f] # Absent} \in SUBSET Files, OpenEffect, BoundEffect,
       TaskTyped DEF Pcs, InstallTemp, disk, Works, RuleSetTypeOK
  <2>2. RuleSetTypeOK'
    BY <1>0, <1>1, <2>1 DEF InstallTemp, RuleSetTypeOK, TaskType, disk, bounds
  <2>3. DiskInv'
    BY <1>1 DEF InstallTemp, RuleSetInv, DiskInv, Clean, LegacyLeft, HasLegacy, NoBackups,
       SameFiles, Undoable, Old, disk
  <2>4. InstallInv(k)'
    BY <1>0, <1>1, <2>1, ValueAssumption, BoundAssumption DEF InstallTemp, RuleSetInv, DiskInv,
       PhaseInv, RecoveryInv, NextInv, FinishInv, InstallInv, At, F, Now, SameEnd, SameJob,
       Files, Settled, Clean, NoBackups, SameFiles, Undoing, Installing, Second, Valid,
       Contents, Downloaded, NoTxn, Partial, Written, RuleSetTypeOK, disk, bounds
  <2>5. RecoveryInv(k)' /\ RollbackInv(k)' /\ FinishInv(k)'
    BY <2>1 DEF RecoveryInv, RollbackInv, FinishInv, Recovering, Now
  <2> QED
    BY <2>2, <2>3, <2>4, <2>5 DEF RuleSetInv, PhaseInv
<1>2. CASE temp' = [f \in Files |-> Absent] /\ Return(k)
  <2>1. DiskInv'
    BY <1>2 DEF InstallTemp, RuleSetInv, DiskInv, Clean, LegacyLeft, HasLegacy, NoBackups,
       SameFiles, Undoable, Old, disk
  <2>2. /\ file' \in [Files -> Contents] /\ backup' \in [Files -> Contents]
        /\ temp' \in [Files -> Downloaded \cup {Absent}]
        /\ txn' \in {NoTxn, Partial} \cup {Written(e) : e \in SUBSET Files}
        /\ commit' \in BOOLEAN /\ faults' \in 0..MaxFaults
    BY <1>0, <1>2, BoundEffect DEF InstallTemp, RuleSetTypeOK, Works, disk
  <2> QED
    BY <1>2, <2>1, <2>2, ReturnKeeps DEF InstallTemp, disk, bounds
<1> QED
  BY <1>0, <1>1, <1>2 DEF InstallTemp, Works, Fails, RestoreFailed

LEMMA InstallTxnOpenStep ==
    ASSUME NEW k, Clients = {k}, RuleSetInv(k), InstallTxnOpen(k)
    PROVE  RuleSetInv(k)'
<1>0. k \in Clients /\ RuleSetTypeOK /\ task[k].f \in Files
  BY TaskTyped DEF RuleSetInv
<1>1. CASE Works /\ txn' = Partial /\ task' = [task EXCEPT ![k].pc = "txn_write"]
  <2>1. /\ task' \in [Clients -> TaskType] /\ faults' \in 0..MaxFaults
        /\ Now(k, "txn_write", task[k].f) /\ SameEnd(k) /\ SameJob(k)
    BY <1>0, <1>1, PcEffect DEF Pcs, Works, RuleSetTypeOK
  <2>2. RuleSetTypeOK'
    BY <1>0, <1>1, <2>1 DEF InstallTxnOpen, RuleSetTypeOK, TaskType, disk, bounds
  <2>3. DiskInv'
    BY <1>0, <1>1, ValueAssumption DEF InstallTxnOpen, RuleSetInv, DiskInv, PhaseInv,
       InstallInv, At, F, Second, Clean, LegacyLeft, HasLegacy, NoBackups, SameFiles, Undoable,
       Old, Undoing, Installing, Settled, Restored, Valid, NoTxn, Partial, Written, Files,
       RuleSetTypeOK, disk
  <2>4. InstallInv(k)'
    BY <1>0, <1>1, <2>1 DEF InstallTxnOpen, RuleSetInv, PhaseInv, InstallInv, At, F, Now,
       SameEnd, SameJob, Files, Second, Undoing, Installing, Restored, RuleSetTypeOK, disk,
       bounds
  <2>5. RecoveryInv(k)' /\ RollbackInv(k)' /\ FinishInv(k)'
    BY <2>1 DEF RecoveryInv, RollbackInv, FinishInv, Recovering, Now
  <2> QED
    BY <2>2, <2>3, <2>4, <2>5 DEF RuleSetInv, PhaseInv
<1> QED
  BY <1>0, <1>1 DEF InstallTxnOpen, Works, Fails, RestoreFailed

LEMMA InstallTxnWriteStep ==
    ASSUME NEW k, Clients = {k}, RuleSetInv(k), InstallTxnWrite(k)
    PROVE  RuleSetInv(k)'
<1>0. k \in Clients /\ RuleSetTypeOK /\ task[k].f \in Files
  BY TaskTyped DEF RuleSetInv
<1>1. CASE Works /\ txn' = Written(task[k].existed) /\ Goto(k, "stage") /\ UNCHANGED <<temp, lock>>
  <2>1. /\ task' \in [Clients -> TaskType] /\ faults' \in 0..MaxFaults
        /\ Now(k, "stage", "geosite") /\ SameEnd(k) /\ SameJob(k)
    BY <1>0, <1>1, GotoEffect DEF Pcs, Works, RuleSetTypeOK
  <2>2. RuleSetTypeOK'
    BY <1>0, <1>1, <2>1 DEF InstallTxnWrite, RuleSetTypeOK, TaskType, disk, bounds
  <2>3. DiskInv'
    BY <1>0, <1>1, <2>1, ValueAssumption, BoundAssumption DEF InstallTxnWrite, RuleSetInv,
       DiskInv, PhaseInv, RecoveryInv, RollbackInv, FinishInv, InstallInv, At, F, Undoing,
       Installing, Written, Undoable, Old, NoBackups, SameFiles, Clean, Settled, LegacyLeft,
       HasLegacy, Valid, NoTxn, Partial, Files, Contents, Second, Restored, RuleSetTypeOK, disk
  <2>4. InstallInv(k)'
    BY <1>0, <1>1, <2>1, ValueAssumption, BoundAssumption DEF InstallTxnWrite, RuleSetInv,
       DiskInv, PhaseInv, RecoveryInv, NextInv, FinishInv, InstallInv, At, F, Now, SameEnd,
       SameJob, Files, Settled, Clean, NoBackups, SameFiles, Undoing, Installing, Second, Valid,
       Contents, Downloaded, NoTxn, Partial, Written, RuleSetTypeOK, disk, bounds
  <2>5. RecoveryInv(k)' /\ RollbackInv(k)' /\ FinishInv(k)'
    BY <2>1 DEF RecoveryInv, RollbackInv, FinishInv, Recovering, Now
  <2> QED
    BY <2>2, <2>3, <2>4, <2>5 DEF RuleSetInv, PhaseInv
<1>2. CASE Fails /\ temp' = [f \in Files |-> Absent] /\ Return(k) /\ UNCHANGED txn
  <2>1. DiskInv'
    BY <1>2 DEF InstallTxnWrite, RuleSetInv, DiskInv, Clean, LegacyLeft, HasLegacy, NoBackups,
       SameFiles, Undoable, Old, disk
  <2>2. /\ file' \in [Files -> Contents] /\ backup' \in [Files -> Contents]
        /\ temp' \in [Files -> Downloaded \cup {Absent}]
        /\ txn' \in {NoTxn, Partial} \cup {Written(e) : e \in SUBSET Files}
        /\ commit' \in BOOLEAN /\ faults' \in 0..MaxFaults
    BY <1>0, <1>2, BoundEffect DEF InstallTxnWrite, RuleSetTypeOK, Works, disk
  <2> QED
    BY <1>2, <2>1, <2>2, ReturnKeeps DEF InstallTxnWrite, disk, bounds
<1> QED
  BY <1>0, <1>1, <1>2 DEF InstallTxnWrite, Works, Fails, RestoreFailed

LEMMA InstallStageStep ==
    ASSUME NEW k, Clients = {k}, RuleSetInv(k), InstallStage(k)
    PROVE  RuleSetInv(k)'
<1>0. k \in Clients /\ RuleSetTypeOK /\ task[k].f \in Files
  BY TaskTyped DEF RuleSetInv
<1>1. CASE Works /\ file[F(k)] = Absent /\ UNCHANGED <<file, backup>> /\ EachFile(k, "stage", "place")
  <2>1. /\ task' \in [Clients -> TaskType] /\ faults' \in 0..MaxFaults
        /\ SameEnd(k) /\ SameJob(k)
        /\ task[k].f = "geosite" => Now(k, "stage", "geoip")
        /\ task[k].f = "geoip" => Now(k, "place", "geosite")
    BY <1>0, <1>1, EachFileEffect DEF Pcs, Works, RuleSetTypeOK
  <2>2. RuleSetTypeOK'
    BY <1>0, <1>1, <2>1 DEF InstallStage, RuleSetTypeOK, TaskType, disk, bounds
  <2>3. DiskInv'
    BY <1>1 DEF InstallStage, RuleSetInv, DiskInv, Clean, LegacyLeft, HasLegacy, NoBackups,
       SameFiles, Undoable, Old, disk
  <2>4. RecoveryInv(k)'
    BY <1>0, <1>1, <2>1 DEF InstallStage, RuleSetInv, PhaseInv, InstallInv, RecoveryInv,
       NextInv, Recovering, At, F, Now, SameEnd, SameJob, Files, Second, Settled, Clean,
       NoBackups, SameFiles, Valid, RuleSetTypeOK, bounds
  <2>5. RollbackInv(k)'
    BY <1>0, <1>1, <2>1 DEF InstallStage, RuleSetInv, PhaseInv, InstallInv, RollbackInv, At, F,
       Now, SameEnd, SameJob, Files, Second, Undoing, Installing, Restored, RuleSetTypeOK, disk,
       bounds
  <2>6. FinishInv(k)'
    BY <1>0, <1>1, <2>1 DEF InstallStage, RuleSetInv, PhaseInv, InstallInv, FinishInv, At, F,
       Now, SameEnd, SameJob, Files, Second, Undoing, Installing, Restored, RuleSetTypeOK, disk,
       bounds
  <2>7. InstallInv(k)'
    <3>1. /\ Installing(k) /\ Undoable(task[k].existed)
          /\ temp["geosite"] = downloads /\ temp["geoip"] = downloads
          /\ backup["geoip"] = Absent
          /\ task[k].existed = {} => file["geosite"] = Absent /\ file["geoip"] = Absent
          /\ IF Second(k) THEN file["geosite"] = Absent ELSE backup["geosite"] = Absent
          /\ UNCHANGED <<temp, txn, commit, downloads>>
      BY DEF InstallStage, RuleSetInv, DiskInv, PhaseInv, InstallInv, Installing, Undoing, At,
         Written, bounds
    <3>2. Installing(k)'
      BY <2>1, <3>1 DEF Installing, Undoing, SameJob
    <3>3. CASE task[k].f = "geosite"
      BY <1>1, <2>1, <3>1, <3>2, <3>3 DEF InstallInv, Installing, Downloaded, Now, Second,
         SameJob, F
    <3>4. CASE task[k].f = "geoip"
      <4>1. task[k].existed = Files => backup'["geosite"] # Absent /\ backup'["geoip"] # Absent
        BY <1>1, <3>1, <3>4, ValueAssumption DEF Undoable, Old, F, Second, Downloaded, Files
      <4> QED
        BY <2>1, <3>1, <3>2, <3>4, <4>1 DEF InstallInv, Now, Second, SameJob
    <3> QED
      BY <1>0, <3>3, <3>4 DEF Files
  <2> QED
    BY <2>2, <2>3, <2>4, <2>5, <2>6, <2>7 DEF RuleSetInv, PhaseInv
<1>2. CASE Works /\ file[F(k)] # Absent /\ backup' = [backup EXCEPT ![F(k)] = file[F(k)]]
           /\ file' = [file EXCEPT ![F(k)] = Absent] /\ EachFile(k, "stage", "place")
  <2>1. /\ task' \in [Clients -> TaskType] /\ faults' \in 0..MaxFaults
        /\ SameEnd(k) /\ SameJob(k)
        /\ task[k].f = "geosite" => Now(k, "stage", "geoip")
        /\ task[k].f = "geoip" => Now(k, "place", "geosite")
    BY <1>0, <1>2, EachFileEffect DEF Pcs, Works, RuleSetTypeOK
  <2>2. RuleSetTypeOK'
    BY <1>0, <1>2, <2>1 DEF InstallStage, RuleSetTypeOK, TaskType, F, Contents, disk, bounds
  <2>3. DiskInv'
    BY <1>0, <1>2, ValueAssumption DEF InstallStage, RuleSetInv, DiskInv, PhaseInv, InstallInv,
       At, F, Second, Clean, LegacyLeft, HasLegacy, NoBackups, SameFiles, Undoable, Old,
       Undoing, Installing, Settled, Restored, Valid, NoTxn, Partial, Written, Files,
       RuleSetTypeOK, disk
  <2>4. RecoveryInv(k)'
    BY <1>0, <1>2, <2>1 DEF InstallStage, RuleSetInv, PhaseInv, InstallInv, RecoveryInv,
       NextInv, Recovering, At, F, Now, SameEnd, SameJob, Files, Second, Settled, Clean,
       NoBackups, SameFiles, Valid, RuleSetTypeOK, bounds
  <2>5. RollbackInv(k)'
    BY <1>0, <1>2, <2>1 DEF InstallStage, RuleSetInv, PhaseInv, InstallInv, RollbackInv, At, F,
       Now, SameEnd, SameJob, Files, Second, Undoing, Installing, Restored, RuleSetTypeOK, disk,
       bounds
  <2>6. FinishInv(k)'
    BY <1>0, <1>2, <2>1 DEF InstallStage, RuleSetInv, PhaseInv, InstallInv, FinishInv, At, F,
       Now, SameEnd, SameJob, Files, Second, Undoing, Installing, Restored, RuleSetTypeOK, disk,
       bounds
  <2>7. InstallInv(k)'
    <3>1. /\ Installing(k) /\ Undoable(task[k].existed)
          /\ temp["geosite"] = downloads /\ temp["geoip"] = downloads
          /\ backup["geoip"] = Absent
          /\ task[k].existed = {} => file["geosite"] = Absent /\ file["geoip"] = Absent
          /\ IF Second(k) THEN file["geosite"] = Absent ELSE backup["geosite"] = Absent
          /\ UNCHANGED <<temp, txn, commit, downloads>>
      BY DEF InstallStage, RuleSetInv, DiskInv, PhaseInv, InstallInv, Installing, Undoing, At,
         Written, bounds
    <3>2. Installing(k)'
      BY <2>1, <3>1 DEF Installing, Undoing, SameJob
    <3>3. CASE task[k].f = "geosite"
      <4>1. file'["geosite"] = Absent /\ backup'["geoip"] = Absent /\ task[k].existed # {}
        BY <1>0, <1>2, <3>1, <3>3 DEF F, Files, RuleSetTypeOK
      <4> QED
        BY <2>1, <3>1, <3>2, <3>3, <4>1 DEF InstallInv, Installing, Downloaded, Now, Second,
           SameJob
    <3>4. CASE task[k].f = "geoip"
      <4>1. task[k].existed = Files => backup'["geosite"] # Absent /\ backup'["geoip"] # Absent
        BY <1>0, <1>2, <3>1, <3>4, ValueAssumption DEF Undoable, Old, F, Second, Downloaded,
           Files, RuleSetTypeOK
      <4> QED
        BY <2>1, <3>1, <3>2, <3>4, <4>1 DEF InstallInv, Now, Second, SameJob
    <3> QED
      BY <1>0, <3>3, <3>4 DEF Files
  <2> QED
    BY <2>2, <2>3, <2>4, <2>5, <2>6, <2>7 DEF RuleSetInv, PhaseInv
<1>3. CASE Fails /\ Undo(k) /\ UNCHANGED <<file, backup>>
  <2>1. /\ task' \in [Clients -> TaskType] /\ faults' \in 0..MaxFaults
        /\ SameEnd(k) /\ task'[k].installing = task[k].installing
        /\ task'[k].existed = task[k].existed /\ task'[k].ok = TRUE
        /\ Now(k, "look", "geosite")
    BY <1>0, <1>3, UndoEffect, BoundEffect DEF Pcs
  <2>2. RuleSetTypeOK'
    BY <1>0, <1>3, <2>1 DEF InstallStage, RuleSetTypeOK, TaskType, disk, bounds
  <2>3. DiskInv'
    BY <1>3 DEF InstallStage, RuleSetInv, DiskInv, Clean, LegacyLeft, HasLegacy, NoBackups,
       SameFiles, Undoable, Old, disk
  <2>4. RecoveryInv(k)'
    <3>1. task[k].installing
      BY DEF InstallStage, RuleSetInv, PhaseInv, InstallInv, Installing, At
    <3> QED
      BY <2>1, <3>1 DEF RecoveryInv, NextInv, Now, SameJob, Recovering
  <2>5. RollbackInv(k)'
    BY <1>0, <1>3, <2>1 DEF InstallStage, RuleSetInv, PhaseInv, InstallInv, RollbackInv, At, F,
       Now, SameEnd, SameJob, Files, Second, Undoing, Installing, Restored, RuleSetTypeOK, disk,
       bounds
  <2>6. FinishInv(k)' /\ InstallInv(k)'
    BY <2>1 DEF FinishInv, InstallInv, Now
  <2> QED
    BY <2>2, <2>3, <2>4, <2>5, <2>6 DEF RuleSetInv, PhaseInv
<1> QED
  BY <1>0, <1>1, <1>2, <1>3 DEF InstallStage, Works, Fails, RestoreFailed

LEMMA InstallPlaceStep ==
    ASSUME NEW k, Clients = {k}, RuleSetInv(k), InstallPlace(k)
    PROVE  RuleSetInv(k)'
<1>0. k \in Clients /\ RuleSetTypeOK /\ task[k].f \in Files
  BY TaskTyped DEF RuleSetInv
<1>1. CASE Works /\ file' = [file EXCEPT ![F(k)] = temp[F(k)]]
           /\ temp' = [temp EXCEPT ![F(k)] = Absent] /\ EachFile(k, "place", "commit")
  <2>1. /\ task' \in [Clients -> TaskType] /\ faults' \in 0..MaxFaults
        /\ SameEnd(k) /\ SameJob(k)
        /\ task[k].f = "geosite" => Now(k, "place", "geoip")
        /\ task[k].f = "geoip" => Now(k, "commit", "geosite")
    BY <1>0, <1>1, EachFileEffect DEF Pcs, Works, RuleSetTypeOK
  <2>2. RuleSetTypeOK'
    BY <1>0, <1>1, <2>1 DEF InstallPlace, RuleSetTypeOK, TaskType, F, Contents, disk, bounds
  <2>3. DiskInv'
    BY <1>0, <1>1, ValueAssumption DEF InstallPlace, RuleSetInv, DiskInv, PhaseInv, InstallInv,
       At, F, Second, Clean, LegacyLeft, HasLegacy, NoBackups, SameFiles, Undoable, Old,
       Undoing, Installing, Settled, Restored, Valid, NoTxn, Partial, Written, Files,
       RuleSetTypeOK, disk
  <2>4. RecoveryInv(k)'
    BY <1>0, <1>1, <2>1 DEF InstallPlace, RuleSetInv, PhaseInv, InstallInv, RecoveryInv,
       NextInv, Recovering, At, F, Now, SameEnd, SameJob, Files, Second, Settled, Clean,
       NoBackups, SameFiles, Valid, RuleSetTypeOK, bounds
  <2>5. RollbackInv(k)'
    BY <1>0, <1>1, <2>1 DEF InstallPlace, RuleSetInv, PhaseInv, InstallInv, RollbackInv, At, F,
       Now, SameEnd, SameJob, Files, Second, Undoing, Installing, Restored, RuleSetTypeOK, disk,
       bounds
  <2>6. FinishInv(k)'
    BY <1>0, <1>1, <2>1 DEF InstallPlace, RuleSetInv, PhaseInv, InstallInv, FinishInv, At, F,
       Now, SameEnd, SameJob, Files, Second, Undoing, Installing, Restored, RuleSetTypeOK, disk,
       bounds
  <2>7. InstallInv(k)'
    BY <1>0, <1>1, <2>1, ValueAssumption, BoundAssumption DEF InstallPlace, RuleSetInv, DiskInv,
       PhaseInv, RecoveryInv, NextInv, FinishInv, InstallInv, At, F, Now, SameEnd, SameJob,
       Files, Settled, Clean, NoBackups, SameFiles, Undoing, Installing, Second, Valid,
       Contents, Downloaded, NoTxn, Partial, Written, RuleSetTypeOK, disk, bounds
  <2> QED
    BY <2>2, <2>3, <2>4, <2>5, <2>6, <2>7 DEF RuleSetInv, PhaseInv
<1>2. CASE (Works \/ Fails) /\ Undo(k) /\ UNCHANGED <<file, temp>>
  <2>1. /\ task' \in [Clients -> TaskType] /\ faults' \in 0..MaxFaults
        /\ SameEnd(k) /\ task'[k].installing = task[k].installing
        /\ task'[k].existed = task[k].existed /\ task'[k].ok = TRUE
        /\ Now(k, "look", "geosite")
    BY <1>0, <1>2, UndoEffect, BoundEffect DEF Pcs
  <2>2. RuleSetTypeOK'
    BY <1>0, <1>2, <2>1 DEF InstallPlace, RuleSetTypeOK, TaskType, disk, bounds
  <2>3. DiskInv'
    BY <1>2 DEF InstallPlace, RuleSetInv, DiskInv, Clean, LegacyLeft, HasLegacy, NoBackups,
       SameFiles, Undoable, Old, disk
  <2>4. RecoveryInv(k)'
    <3>1. task[k].installing
      BY DEF InstallPlace, RuleSetInv, PhaseInv, InstallInv, Installing, At
    <3> QED
      BY <2>1, <3>1 DEF RecoveryInv, NextInv, Now, SameJob, Recovering
  <2>5. RollbackInv(k)'
    BY <1>0, <1>2, <2>1 DEF InstallPlace, RuleSetInv, PhaseInv, InstallInv, RollbackInv, At, F,
       Now, SameEnd, SameJob, Files, Second, Undoing, Installing, Restored, RuleSetTypeOK, disk,
       bounds
  <2>6. FinishInv(k)' /\ InstallInv(k)'
    BY <2>1 DEF FinishInv, InstallInv, Now
  <2> QED
    BY <2>2, <2>3, <2>4, <2>5, <2>6 DEF RuleSetInv, PhaseInv
<1> QED
  BY <1>0, <1>1, <1>2 DEF InstallPlace, Works, Fails, RestoreFailed

LEMMA InstallCommitStep ==
    ASSUME NEW k, Clients = {k}, RuleSetInv(k), InstallCommit(k)
    PROVE  RuleSetInv(k)'
<1>0. k \in Clients /\ RuleSetTypeOK /\ task[k].f \in Files
  BY TaskTyped DEF RuleSetInv
<1>1. CASE Works /\ commit' = TRUE /\ Goto(k, "finish")
  <2>1. /\ task' \in [Clients -> TaskType] /\ faults' \in 0..MaxFaults
        /\ Now(k, "finish", "geosite") /\ SameEnd(k) /\ SameJob(k)
    BY <1>0, <1>1, GotoEffect DEF Pcs, Works, RuleSetTypeOK
  <2>2. RuleSetTypeOK'
    BY <1>0, <1>1, <2>1 DEF InstallCommit, RuleSetTypeOK, TaskType, disk, bounds
  <2>3. DiskInv'
    BY <1>0, <1>1, ValueAssumption DEF InstallCommit, RuleSetInv, DiskInv, PhaseInv, InstallInv,
       At, F, Second, Clean, LegacyLeft, HasLegacy, NoBackups, SameFiles, Undoable, Old,
       Undoing, Installing, Settled, Restored, Valid, NoTxn, Partial, Written, Files,
       RuleSetTypeOK, disk
  <2>4. RecoveryInv(k)'
    <3>1. task[k].installing
      BY DEF InstallCommit, RuleSetInv, PhaseInv, InstallInv, Installing, At
    <3> QED
      BY <2>1, <3>1 DEF RecoveryInv, NextInv, Now, SameJob, Recovering
  <2>5. FinishInv(k)'
    BY <1>0, <1>1, <2>1, ValueAssumption, BoundAssumption DEF InstallCommit, RuleSetInv,
       DiskInv, PhaseInv, FinishInv, InstallInv, At, F, Now, SameEnd, SameJob, Files, Settled,
       Clean, NoBackups, SameFiles, Second, NoTxn, Partial, Written, Undoing, Installing,
       RuleSetTypeOK, disk
  <2>6. RollbackInv(k)' /\ InstallInv(k)'
    BY <2>1 DEF RollbackInv, InstallInv, Now
  <2> QED
    BY <2>2, <2>3, <2>4, <2>5, <2>6 DEF RuleSetInv, PhaseInv
<1>2. CASE Fails /\ Undo(k) /\ UNCHANGED commit
  <2>1. /\ task' \in [Clients -> TaskType] /\ faults' \in 0..MaxFaults
        /\ SameEnd(k) /\ task'[k].installing = task[k].installing
        /\ task'[k].existed = task[k].existed /\ task'[k].ok = TRUE
        /\ Now(k, "look", "geosite")
    BY <1>0, <1>2, UndoEffect, BoundEffect DEF Pcs
  <2>2. RuleSetTypeOK'
    BY <1>0, <1>2, <2>1 DEF InstallCommit, RuleSetTypeOK, TaskType, disk, bounds
  <2>3. DiskInv'
    BY <1>2 DEF InstallCommit, RuleSetInv, DiskInv, Clean, LegacyLeft, HasLegacy, NoBackups,
       SameFiles, Undoable, Old, disk
  <2>4. RecoveryInv(k)'
    <3>1. task[k].installing
      BY DEF InstallCommit, RuleSetInv, PhaseInv, InstallInv, Installing, At
    <3> QED
      BY <2>1, <3>1 DEF RecoveryInv, NextInv, Now, SameJob, Recovering
  <2>5. RollbackInv(k)'
    BY <1>0, <1>2, <2>1 DEF InstallCommit, RuleSetInv, PhaseInv, InstallInv, RollbackInv, At, F,
       Now, SameEnd, SameJob, Files, Second, Undoing, Installing, Restored, RuleSetTypeOK, disk,
       bounds
  <2>6. FinishInv(k)' /\ InstallInv(k)'
    BY <2>1 DEF FinishInv, InstallInv, Now
  <2> QED
    BY <2>2, <2>3, <2>4, <2>5, <2>6 DEF RuleSetInv, PhaseInv
<1> QED
  BY <1>0, <1>1, <1>2 DEF InstallCommit, Works, Fails, RestoreFailed

-----------------------------------------------------------------------------
\* A new request, and a death of the process.
LEMMA RequestStep ==
    ASSUME NEW k, Clients = {k}, RuleSetInv(k), Request(k)
    PROVE  RuleSetInv(k)'
<1>0. k \in Clients /\ RuleSetTypeOK /\ task[k].f \in Files
  BY TaskTyped DEF RuleSetInv
<1>1. CASE task' = [task EXCEPT ![k].op = "check", ![k].pc = "recover", ![k].next = "ready"]
  <2>1. /\ task' \in [Clients -> TaskType] /\ faults' \in 0..MaxFaults
        /\ Now(k, "recover", task[k].f) /\ SameJob(k)
        /\ task'[k].op = "check" /\ task'[k].next = "ready"
    BY <1>0, <1>1, CheckEffect, BoundEffect, TaskTyped DEF Pcs, Request, disk, Works,
       RuleSetTypeOK
  <2>2. RuleSetTypeOK'
    BY <1>0, <1>1, <2>1 DEF Request, RuleSetTypeOK, TaskType, disk, bounds
  <2>3. DiskInv'
    BY <1>1 DEF Request, RuleSetInv, DiskInv, Clean, LegacyLeft, HasLegacy, NoBackups,
       SameFiles, Undoable, Old, disk
  <2>4. RecoveryInv(k)'
    BY <1>1, <2>1 DEF Request, RuleSetInv, PhaseInv, RecoveryInv, NextInv, Recovering, At, Now,
       SameEnd, SameJob, bounds
  <2>5. RollbackInv(k)' /\ FinishInv(k)' /\ InstallInv(k)'
    BY <2>1 DEF RollbackInv, FinishInv, InstallInv, Now
  <2> QED
    BY <2>2, <2>3, <2>4, <2>5 DEF RuleSetInv, PhaseInv
<1>2. CASE task' = [task EXCEPT ![k].op = "update", ![k].pc = "lock"]
  <2>1. /\ task' \in [Clients -> TaskType] /\ faults' \in 0..MaxFaults
        /\ Now(k, "lock", task[k].f) /\ SameJob(k)
        /\ task'[k].op = "update" /\ task'[k].next = task[k].next
    BY <1>0, <1>2, UpdateEffect, BoundEffect, TaskTyped DEF Pcs, Request, disk, Works,
       RuleSetTypeOK
  <2>2. RuleSetTypeOK'
    BY <1>0, <1>2, <2>1 DEF Request, RuleSetTypeOK, TaskType, disk, bounds
  <2>3. DiskInv'
    BY <1>2 DEF Request, RuleSetInv, DiskInv, Clean, LegacyLeft, HasLegacy, NoBackups,
       SameFiles, Undoable, Old, disk
  <2>4. RecoveryInv(k)' /\ RollbackInv(k)' /\ FinishInv(k)' /\ InstallInv(k)'
    BY <2>1 DEF RecoveryInv, RollbackInv, FinishInv, InstallInv, Recovering, Now
  <2> QED
    BY <2>2, <2>3, <2>4 DEF RuleSetInv, PhaseInv
<1>3. CASE task' = [task EXCEPT ![k].op = "startup", ![k].pc = "recover", ![k].next = "answered"]
  <2>1. /\ task' \in [Clients -> TaskType] /\ faults' \in 0..MaxFaults
        /\ Now(k, "recover", task[k].f) /\ SameJob(k)
        /\ task'[k].op = "startup" /\ task'[k].next = "answered"
    BY <1>0, <1>3, StartupEffect, BoundEffect, TaskTyped DEF Pcs, Request, disk, Works,
       RuleSetTypeOK
  <2>2. RuleSetTypeOK'
    BY <1>0, <1>3, <2>1 DEF Request, RuleSetTypeOK, TaskType, disk, bounds
  <2>3. DiskInv'
    BY <1>3 DEF Request, RuleSetInv, DiskInv, Clean, LegacyLeft, HasLegacy, NoBackups,
       SameFiles, Undoable, Old, disk
  <2>4. RecoveryInv(k)'
    BY <1>3, <2>1 DEF Request, RuleSetInv, PhaseInv, RecoveryInv, NextInv, Recovering, At, Now,
       SameEnd, SameJob, bounds
  <2>5. RollbackInv(k)' /\ FinishInv(k)' /\ InstallInv(k)'
    BY <2>1 DEF RollbackInv, FinishInv, InstallInv, Now
  <2> QED
    BY <2>2, <2>3, <2>4, <2>5 DEF RuleSetInv, PhaseInv
<1> QED
  BY <1>0, <1>1, <1>2, <1>3 DEF Request, Works, Fails, RestoreFailed

LEMMA CrashStep ==
    ASSUME NEW k, Clients = {k}, RuleSetInv(k), Crash
    PROVE  RuleSetInv(k)'
<1>1. k \in Clients /\ Idle \in TaskType /\ Idle.pc = "idle" /\ Idle.installing = FALSE
  BY DEF Idle, TaskType, Files, Pcs
<1>2. task' \in [Clients -> TaskType] /\ task'[k].pc = "idle" /\ task'[k].installing = FALSE
  BY <1>1 DEF Crash
<1>3. crashes' \in 0..MaxCrashes
  BY BoundAssumption DEF Crash, RuleSetInv, RuleSetTypeOK
<1>4. RuleSetTypeOK'
  BY <1>2, <1>3 DEF Crash, RuleSetInv, RuleSetTypeOK, TaskType, disk
<1>5. DiskInv'
  BY DEF Crash, RuleSetInv, DiskInv, Clean, LegacyLeft, HasLegacy, NoBackups, SameFiles,
     Undoable, Old, disk
<1>6. PhaseInv(k)'
  BY <1>2 DEF PhaseInv, RecoveryInv, RollbackInv, FinishInv, InstallInv, Recovering
<1> QED
  BY <1>4, <1>5, <1>6 DEF RuleSetInv

LEMMA RuleSetStart ==
    ASSUME NEW k, Clients = {k}, Init
    PROVE  RuleSetInv(k)
<1>1. k \in Clients /\ Idle \in TaskType /\ Idle.pc = "idle" /\ Idle.installing = FALSE
  BY DEF Idle, TaskType, Files, Pcs
<1>2. task \in [Clients -> TaskType] /\ task[k].pc = "idle" /\ task[k].installing = FALSE
  BY <1>1 DEF Init
<1>3. 0 \in Downloaded /\ 0 \in 0..MaxCrashes /\ 0 \in 0..MaxFaults
  BY BoundAssumption DEF Downloaded
<1>4. RuleSetTypeOK
  <2>1. file \in [Files -> Contents] /\ backup \in [Files -> Contents]
    BY <1>3 DEF Init, Contents
  <2>2. temp \in [Files -> Downloaded \cup {Absent}]
    BY DEF Init
  <2> QED
    BY <1>2, <1>3, <2>1, <2>2 DEF Init, RuleSetTypeOK, TaskType
<1>5. Clean \/ LegacyLeft
  <2>1. CASE \E v \in {Absent, 0} : file = [f \in Files |-> v]
             /\ backup = [f \in Files |-> Absent]
    BY <2>1, ValueAssumption DEF Clean, NoBackups, SameFiles, Files
  <2>2. ASSUME NEW f \in Files, NEW v \in {Absent, Bad, 0},
               file = [[g \in Files |-> 0] EXCEPT ![f] = v],
               backup = [[g \in Files |-> Absent] EXCEPT ![f] = 0]
        PROVE  LegacyLeft
    <3>1. CASE f = "geosite"
      BY <1>3, <2>2, <3>1, ValueAssumption DEF LegacyLeft, HasLegacy, Files
    <3>2. CASE f = "geoip"
      BY <1>3, <2>2, <3>2, ValueAssumption DEF LegacyLeft, HasLegacy, Files
    <3> QED
      BY <3>1, <3>2 DEF Files
  <2> QED
    BY <2>1, <2>2 DEF Init
<1>6. DiskInv
  BY <1>5 DEF Init, DiskInv, NoTxn, Partial
<1>7. PhaseInv(k)
  BY <1>2 DEF PhaseInv, RecoveryInv, RollbackInv, FinishInv, InstallInv, Recovering
<1> QED
  BY <1>4, <1>6, <1>7 DEF RuleSetInv

LEMMA RuleSetIdles ==
    ASSUME NEW k, RuleSetInv(k), UNCHANGED vars
    PROVE  RuleSetInv(k)'
BY DEF RuleSetInv, RuleSetTypeOK, DiskInv, Clean, LegacyLeft, HasLegacy, NoBackups, SameFiles,
   Undoable, Old, PhaseInv, RecoveryInv, NextInv, RollbackInv, FinishInv, InstallInv, Undoing,
   Installing, Settled, Second, Restored, Valid, vars, disk, bounds

-----------------------------------------------------------------------------
\* RuleSetInv is an inductive invariant of one request at a time, whatever step
\* the process dies at and whichever file operations fail.
THEOREM RuleSetSafe ==
    ASSUME NEW k, Clients = {k}
    PROVE  Spec => []RuleSetInv(k)
<1>1. Init => RuleSetInv(k)
  BY RuleSetStart
<1>2. ASSUME RuleSetInv(k), [Next]_vars
      PROVE  RuleSetInv(k)'
  <2>1. CASE Crash
    BY <1>2, <2>1, CrashStep
  <2>2. CASE UNCHANGED vars
    BY <1>2, <2>2, RuleSetIdles
  <2>3. CASE Request(k)
    BY <1>2, <2>3, RequestStep
  <2>4. CASE Step(k)
    BY <1>2, <2>4, TakeLockStep, CheckReadyStep, CheckCurrentStep, AnswerStep, RecoverLookStep,
       LegacyStep, LegacyClearStep, LegacyMoveStep, RollbackLookStep, RestoreClearStep,
       RestoreMoveStep, RollbackDoneStep, DropTxnStep, DropCommitStep, FinishBackupStep,
       FinishTxnStep, FinishCommitStep, DownloadStep, InstallTempStep, InstallTxnOpenStep,
       InstallTxnWriteStep, InstallStageStep, InstallPlaceStep, InstallCommitStep DEF Step
  <2> QED
    BY <1>2, <2>1, <2>2, <2>3, <2>4 DEF Next
<1> QED
  BY <1>1, <1>2, PTL DEF Spec

\* The state of the directory and of the request stays well typed.
THEOREM RuleSetTyped ==
    ASSUME NEW k, Clients = {k}
    PROVE  Spec => []RuleSetTypeOK
<1>1. RuleSetInv(k) => RuleSetTypeOK
  BY DEF RuleSetInv
<1> QED
  BY <1>1, RuleSetSafe, PTL

\* A request that is told the cache is ready has both files of one download,
\* with no transaction left (prepare_rule_set_cache_for_request,
\* native_update_rule_sets).
THEOREM RuleSetReady ==
    ASSUME NEW k, Clients = {k}
    PROVE  Spec => []ReadyMeansPair
<1>1. RuleSetInv(k) => ReadyMeansPair
  BY ValueAssumption DEF RuleSetInv, PhaseInv, InstallInv, ReadyMeansPair, At, Settled, Clean,
     SameFiles, Valid, Downloaded
<1> QED
  BY <1>1, RuleSetSafe, PTL

\* A commit marker beside a transaction file says the new pair is complete, so
\* finish_rule_set_transaction never throws the backups of an unfinished
\* installation away.
THEOREM RuleSetCommitted ==
    ASSUME NEW k, Clients = {k}
    PROVE  Spec => []CommitMeansComplete
<1>1. RuleSetInv(k) => CommitMeansComplete
  BY ValueAssumption DEF RuleSetInv, RuleSetTypeOK, DiskInv, CommitMeansComplete, SameFiles,
     Valid, Downloaded, Written, NoTxn
<1> QED
  BY <1>1, RuleSetSafe, PTL

\* A transaction file that was cut off has no backup beside it, so recovery
\* removes it instead of refusing (recover_rule_set_transaction).
THEOREM RuleSetHalfWritten ==
    ASSUME NEW k, Clients = {k}
    PROVE  Spec => []HalfWrittenIsHarmless
<1>1. RuleSetInv(k) => HalfWrittenIsHarmless
  BY DEF RuleSetInv, DiskInv, HalfWrittenIsHarmless, Clean, NoBackups, Files
<1> QED
  BY <1>1, RuleSetSafe, PTL

-----------------------------------------------------------------------------
\* What the next recovery would make of the directory is a pair or nothing.
PairIsGone ==
    \/ txn.state # "written" /\ Clean /\ file["geosite"] = Absent
    \/ txn.state = "written" /\ ~commit /\ txn.existed = {}

PairFact ==
    RuleSetTypeOK /\ DiskInv =>
        Pair \in Downloaded \cup {Absent} /\ (Pair = Absent <=> PairIsGone)

LEMMA PairIsWhole == PairFact
<1> SUFFICES ASSUME RuleSetTypeOK, DiskInv
             PROVE  Pair \in Downloaded \cup {Absent} /\ (Pair = Absent <=> PairIsGone)
  BY DEF PairFact
<1>1. CASE txn = NoTxn
  <2>1. CASE Clean
    BY <1>1, <2>1, ValueAssumption DEF RuleSetTypeOK, Pair, Recovered, PairIsGone, Clean,
       NoBackups, SameFiles, NoTxn, Files, Contents
  <2>2. CASE LegacyLeft
    BY <1>1, <2>2, ValueAssumption DEF RuleSetTypeOK, Pair, Recovered, PairIsGone, Clean,
       NoBackups, LegacyLeft, HasLegacy, Valid, NoTxn, Files, Contents, Downloaded
  <2> QED
    BY <1>1, <2>1, <2>2 DEF DiskInv
<1>2. CASE txn = Partial
  BY <1>2, ValueAssumption DEF DiskInv, RuleSetTypeOK, Pair, Recovered, PairIsGone, Clean,
     NoBackups, SameFiles, NoTxn, Partial, Files, Contents
<1>3. CASE txn.state = "written" /\ ~commit
  BY <1>3, ValueAssumption DEF DiskInv, RuleSetTypeOK, Pair, Recovered, PairIsGone, Undoable,
     Old, NoBackups, Files, Contents, Downloaded
<1>4. CASE txn.state = "written" /\ commit
  BY <1>4, ValueAssumption DEF DiskInv, RuleSetTypeOK, Pair, Recovered, PairIsGone, SameFiles,
     Files, Contents, Downloaded, NoTxn
<1> QED
  BY <1>1, <1>2, <1>3, <1>4 DEF RuleSetTypeOK, Written

LEMMA PairStays ==
    ASSUME NEW k, Clients = {k}, RuleSetInv(k), Step(k), PairIsGone'
    PROVE  PairIsGone
<1>1. k \in Clients /\ task[k].f \in Files
  BY TaskTyped DEF RuleSetInv
<1>2. CASE TakeLock(k) \/ CheckReady(k) \/ CheckCurrent(k) \/ Answer(k) \/ Download(k)
  BY <1>2 DEF TakeLock, CheckReady, CheckCurrent, Answer, Download, PairIsGone, Clean,
     NoBackups, SameFiles, disk
<1>3. CASE RecoverLook(k)
  BY <1>1, <1>3, ValueAssumption DEF RecoverLook, PairIsGone, RuleSetInv, DiskInv, PhaseInv,
     RecoveryInv, RollbackInv, FinishInv, InstallInv, At, F, Undoing, Installing, Written,
     Undoable, Old, NoBackups, SameFiles, Clean, Settled, LegacyLeft, HasLegacy, Valid, NoTxn,
     Partial, Files, Second, Restored, RuleSetTypeOK, Downloaded, disk
<1>4. CASE Legacy(k)
  BY <1>1, <1>4, ValueAssumption DEF Legacy, PairIsGone, RuleSetInv, DiskInv, PhaseInv,
     RecoveryInv, RollbackInv, FinishInv, InstallInv, At, F, Undoing, Installing, Written,
     Undoable, Old, NoBackups, SameFiles, Clean, Settled, LegacyLeft, HasLegacy, Valid, NoTxn,
     Partial, Files, Second, Restored, RuleSetTypeOK, Downloaded, disk
<1>5. CASE LegacyClear(k)
  BY <1>1, <1>5, ValueAssumption DEF LegacyClear, PairIsGone, RuleSetInv, DiskInv, PhaseInv,
     RecoveryInv, RollbackInv, FinishInv, InstallInv, At, F, Undoing, Installing, Written,
     Undoable, Old, NoBackups, SameFiles, Clean, Settled, LegacyLeft, HasLegacy, Valid, NoTxn,
     Partial, Files, Second, Restored, RuleSetTypeOK, Downloaded, disk
<1>6. CASE LegacyMove(k)
  BY <1>1, <1>6, ValueAssumption DEF LegacyMove, PairIsGone, RuleSetInv, DiskInv, PhaseInv,
     RecoveryInv, RollbackInv, FinishInv, InstallInv, At, F, Undoing, Installing, Written,
     Undoable, Old, NoBackups, SameFiles, Clean, Settled, LegacyLeft, HasLegacy, Valid, NoTxn,
     Partial, Files, Second, Restored, RuleSetTypeOK, Downloaded, disk
<1>7. CASE RollbackLook(k)
  BY <1>1, <1>7, ValueAssumption DEF RollbackLook, PairIsGone, RuleSetInv, DiskInv, PhaseInv,
     RecoveryInv, RollbackInv, FinishInv, InstallInv, At, F, Undoing, Installing, Written,
     Undoable, Old, NoBackups, SameFiles, Clean, Settled, LegacyLeft, HasLegacy, Valid, NoTxn,
     Partial, Files, Second, Restored, RuleSetTypeOK, Downloaded, disk
<1>8. CASE RestoreClear(k)
  BY <1>1, <1>8, ValueAssumption DEF RestoreClear, PairIsGone, RuleSetInv, DiskInv, PhaseInv,
     RecoveryInv, RollbackInv, FinishInv, InstallInv, At, F, Undoing, Installing, Written,
     Undoable, Old, NoBackups, SameFiles, Clean, Settled, LegacyLeft, HasLegacy, Valid, NoTxn,
     Partial, Files, Second, Restored, RuleSetTypeOK, Downloaded, disk
<1>9. CASE RestoreMove(k)
  BY <1>1, <1>9, ValueAssumption DEF RestoreMove, PairIsGone, RuleSetInv, DiskInv, PhaseInv,
     RecoveryInv, RollbackInv, FinishInv, InstallInv, At, F, Undoing, Installing, Written,
     Undoable, Old, NoBackups, SameFiles, Clean, Settled, LegacyLeft, HasLegacy, Valid, NoTxn,
     Partial, Files, Second, Restored, RuleSetTypeOK, Downloaded, disk
<1>10. CASE RollbackDone(k)
  BY <1>10 DEF RollbackDone, PairIsGone, Clean, NoBackups, SameFiles, disk
<1>11. CASE DropTxn(k)
  BY <1>1, <1>11, ValueAssumption DEF DropTxn, PairIsGone, RuleSetInv, DiskInv, PhaseInv,
     RecoveryInv, RollbackInv, FinishInv, InstallInv, At, F, Undoing, Installing, Written,
     Undoable, Old, NoBackups, SameFiles, Clean, Settled, LegacyLeft, HasLegacy, Valid, NoTxn,
     Partial, Files, Second, Restored, RuleSetTypeOK, Downloaded, disk
<1>12. CASE DropCommit(k)
  BY <1>1, <1>12, ValueAssumption DEF DropCommit, PairIsGone, RuleSetInv, DiskInv, PhaseInv,
     RecoveryInv, RollbackInv, FinishInv, InstallInv, At, F, Undoing, Installing, Written,
     Undoable, Old, NoBackups, SameFiles, Clean, Settled, LegacyLeft, HasLegacy, Valid, NoTxn,
     Partial, Files, Second, Restored, RuleSetTypeOK, Downloaded, disk
<1>13. CASE FinishBackup(k)
  BY <1>1, <1>13, ValueAssumption DEF FinishBackup, PairIsGone, RuleSetInv, DiskInv, PhaseInv,
     RecoveryInv, RollbackInv, FinishInv, InstallInv, At, F, Undoing, Installing, Written,
     Undoable, Old, NoBackups, SameFiles, Clean, Settled, LegacyLeft, HasLegacy, Valid, NoTxn,
     Partial, Files, Second, Restored, RuleSetTypeOK, Downloaded, disk
<1>14. CASE FinishTxn(k)
  BY <1>1, <1>14, ValueAssumption DEF FinishTxn, PairIsGone, RuleSetInv, DiskInv, PhaseInv,
     RecoveryInv, RollbackInv, FinishInv, InstallInv, At, F, Undoing, Installing, Written,
     Undoable, Old, NoBackups, SameFiles, Clean, Settled, LegacyLeft, HasLegacy, Valid, NoTxn,
     Partial, Files, Second, Restored, RuleSetTypeOK, Downloaded, disk
<1>15. CASE FinishCommit(k)
  BY <1>1, <1>15, ValueAssumption DEF FinishCommit, PairIsGone, RuleSetInv, DiskInv, PhaseInv,
     RecoveryInv, RollbackInv, FinishInv, InstallInv, At, F, Undoing, Installing, Written,
     Undoable, Old, NoBackups, SameFiles, Clean, Settled, LegacyLeft, HasLegacy, Valid, NoTxn,
     Partial, Files, Second, Restored, RuleSetTypeOK, Downloaded, disk
<1>16. CASE InstallTemp(k)
  BY <1>16 DEF InstallTemp, PairIsGone, Clean, NoBackups, SameFiles, disk
<1>17. CASE InstallTxnOpen(k)
  BY <1>1, <1>17, ValueAssumption DEF InstallTxnOpen, PairIsGone, RuleSetInv, DiskInv, PhaseInv,
     RecoveryInv, RollbackInv, FinishInv, InstallInv, At, F, Undoing, Installing, Written,
     Undoable, Old, NoBackups, SameFiles, Clean, Settled, LegacyLeft, HasLegacy, Valid, NoTxn,
     Partial, Files, Second, Restored, RuleSetTypeOK, Downloaded, disk
<1>18. CASE InstallTxnWrite(k)
  BY <1>1, <1>18, ValueAssumption DEF InstallTxnWrite, PairIsGone, RuleSetInv, DiskInv,
     PhaseInv, RecoveryInv, RollbackInv, FinishInv, InstallInv, At, F, Undoing, Installing,
     Written, Undoable, Old, NoBackups, SameFiles, Clean, Settled, LegacyLeft, HasLegacy, Valid,
     NoTxn, Partial, Files, Second, Restored, RuleSetTypeOK, Downloaded, disk
<1>19. CASE InstallStage(k)
  BY <1>1, <1>19, ValueAssumption DEF InstallStage, PairIsGone, RuleSetInv, DiskInv, PhaseInv,
     RecoveryInv, RollbackInv, FinishInv, InstallInv, At, F, Undoing, Installing, Written,
     Undoable, Old, NoBackups, SameFiles, Clean, Settled, LegacyLeft, HasLegacy, Valid, NoTxn,
     Partial, Files, Second, Restored, RuleSetTypeOK, Downloaded, disk
<1>20. CASE InstallPlace(k)
  BY <1>1, <1>20, ValueAssumption DEF InstallPlace, PairIsGone, RuleSetInv, DiskInv, PhaseInv,
     RecoveryInv, RollbackInv, FinishInv, InstallInv, At, F, Undoing, Installing, Written,
     Undoable, Old, NoBackups, SameFiles, Clean, Settled, LegacyLeft, HasLegacy, Valid, NoTxn,
     Partial, Files, Second, Restored, RuleSetTypeOK, Downloaded, disk
<1>21. CASE InstallCommit(k)
  BY <1>21 DEF InstallCommit, PairIsGone, Clean, NoBackups, SameFiles, disk
<1> QED
  BY <1>2, <1>3, <1>4, <1>5, <1>6, <1>7, <1>8, <1>9, <1>10, <1>11, <1>12, <1>13, <1>14, <1>15,
     <1>16, <1>17, <1>18, <1>19, <1>20, <1>21 DEF Step

\* With one request at a time the cache implements RuleSetPair: it is the pair
\* of one download, and only ever replaced by the whole pair of another.
THEOREM RuleSetRefines ==
    ASSUME NEW k, Clients = {k}
    PROVE  Spec => InstallsThePair
<1>1. Init => Abstract!Init
  <2>1. ASSUME Init
        PROVE  Pair \in Downloaded \cup {Absent}
    BY <2>1, RuleSetStart, PairIsWhole DEF RuleSetInv, PairFact
  <2> QED
    BY <2>1 DEF Abstract!Init
<1>2. ASSUME RuleSetInv(k), RuleSetInv(k)', [Next]_vars
      PROVE  [Abstract!Update]_Pair
  <2>0. PairFact'
    BY PairIsWhole, PTL
  <2>1. Pair' \in Downloaded \cup {Absent} /\ (Pair' = Absent <=> PairIsGone')
        /\ (Pair = Absent <=> PairIsGone)
    BY <1>2, <2>0, PairIsWhole DEF RuleSetInv, PairFact
  <2>2. PairIsGone' => PairIsGone
    BY <1>2, PairStays DEF Next, Request, Crash, PairIsGone, Clean, NoBackups, SameFiles, vars,
       disk
  <2> QED
    BY <2>1, <2>2 DEF Abstract!Update
<1> QED
  BY <1>1, <1>2, RuleSetSafe, PTL DEF Spec, InstallsThePair, Abstract!Spec
=============================================================================
