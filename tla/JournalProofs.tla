--------------------------- MODULE JournalProofs ---------------------------
(***************************************************************************)
(* Machine-checked facts about PromotionJournal, for any files, contents,  *)
(* bounds and environments: the journal on disk is sound, what was         *)
(* promoted is kept, only known contents are overwritten, and promotions   *)
(* implement AtomicStore.  The invariant is stronger than what the runs    *)
(* check: it relates each place of the thread to the record, the backup    *)
(* and the live content it relies on.                                      *)
(*                                                                         *)
(* And about FailureCapture, for any callers, writers, failures and        *)
(* bounds: what flush counts is exact, the cursor of a cycle passes over   *)
(* late failures only, and a stop or flush that returns has drained.       *)
(***************************************************************************)
EXTENDS PromotionJournal, FailureCapture, FiniteSetTheorems, SequenceTheorems,
        WellFoundedInduction, TLAPS

(* The least element of a set of ids, as the code takes it with a sort by  *)
(* created_ns, is one of them.                                             *)
LEMMA MinIsMember ==
    ASSUME NEW S \in SUBSET Nat, S # {}
    PROVE  Min(S) \in S
<1>1. PICK x \in S : \A y \in S : ~ (<<y, x>> \in OpToRel(<, Nat))
  BY NatLessThanWellFounded, WFMin
<1>2. ASSUME NEW y \in S PROVE x =< y
  <2>1. <<y, x>> \notin {ss \in Nat \X Nat : ss[1] < ss[2]}
    BY <1>1 DEF OpToRel
  <2>2. ~(y < x)
    BY <2>1
  <2>3. QED
    BY <2>2
<1>3. QED
  BY <1>2 DEF Min

(* recover_incomplete acts on a record that exists and is prepared.        *)
LEMMA OldestPrepared ==
    ASSUME TypeOK, Prepared # {}
    PROVE  Min(Prepared) \in Prepared
  BY MinIsMember DEF TypeOK, Prepared, WithStatus, Ids

-----------------------------------------------------------------------------
(* The inductive invariant.                                                *)

(* The stretches of validate_and_promote and of rollback, and whose change *)
(* is in hand: that of a promotion, or a record that start-up undoes.      *)
Changes == [id : Ids, file : Files, before : Contents, after : Versions]
Preparing == {"capacity", "evict", "backup", "metadata"}
Trying == {"recheck", "replace", "verify", "health", "commit"}
RollingBack == {"rollback", "restore", "mark"}
Recovering == pc \in RollingBack /\ caller = "recovery"
Promoting == \/ pc \in Preparing \cup Trying \cup {"undo"}
             \/ pc \in RollingBack /\ caller # "recovery"

(* The locals agree with the place of the thread; a promotion works on the *)
(* newest id, and knows of its record from the metadata on until it is     *)
(* over.                                                                   *)
HandOK ==
    /\ Promoting \/ Recovering => change \in Changes
    /\ Promoting => change.id = created
    /\ pc \in Preparing \/ ~Promoting => ~held
    /\ Promoting /\ pc \notin Preparing \cup {"undo"} => held

(* The record of the change in hand says what the change says ...          *)
Matches == /\ change.id \in DOMAIN records
           /\ records[change.id].file = change.file
           /\ records[change.id].before = change.before
           /\ records[change.id].after = change.after

(* ... while it is known or being undone; it is still prepared wherever    *)
(* the code is about to rely on that; ids are never reused.                *)
RecordsOK ==
    /\ DOMAIN records \subseteq 1 .. created
    /\ pc \in Preparing => created \notin DOMAIN records
    /\ held \/ Recovering => Matches
    /\ pc \in Trying \cup {"restore", "mark"} => records[change.id].status = "prepared"
    /\ \A i \in DOMAIN records : records[i].after \in Versions

(* JournalSound's conjunct on backups, and the backup that is complete     *)
(* before its metadata are written.                                        *)
BackupsOK ==
    /\ BackupsComplete
    /\ pc = "metadata" => created \in DOMAIN backups /\ backups[created] = change.before

(* JournalSound's bound, and the room that _ensure_capacity has made for   *)
(* the record about to be written.                                         *)
RoomOK ==
    /\ RecordsBounded
    /\ pc \in {"backup", "metadata"} => Cardinality(DOMAIN records) < MaxRecords

(* Only the file of the promotion in hand has an attempt open.             *)
OpenOK == \A f \in Files : outcome[f] = "open" => Promoting /\ change.file = f

(* Where no write raises after its effect at most one record is prepared,  *)
(* it is that of the change in hand, and the caller of its promotion has   *)
(* not been told that it is over.                                          *)
PromptOK == Prompt =>
    /\ \A i, j \in Prepared : i = j
    /\ pc = "idle" \/ pc \in Preparing \/ (pc = "undo" /\ ~held) => Prepared = {}
    /\ Promoting => Prepared \subseteq {change.id} /\ outcome[change.file] = "open"
    /\ \A i \in Prepared : outcome[records[i].file] \in {"open", "unknown"}

(* Where nothing but crashes goes wrong, the live content of a prepared    *)
(* record is its base or its candidate, and a rollback that start-up began *)
(* finds what it needs at each of its steps.                               *)
CalmOK == Calm =>
    /\ pc # "refused"
    /\ \A i \in Prepared : live[records[i].file] \in {records[i].before, records[i].after}
    /\ Recovering => change.id \in Prepared
    /\ Recovering /\ pc # "mark" => live[change.file] = change.after
    /\ Recovering /\ pc = "mark" => live[change.file] = change.before

(* What the code has compared of the live file still holds at its next     *)
(* write, unless that file was edited in between; before the replacement   *)
(* only foreign edits take a file away from its base.                      *)
LiveOK ==
    /\ pc \in Preparing => live[change.file] \in Foreign \cup {change.before}
    /\ Calm /\ pc \in Preparing => live[change.file] = change.before
    /\ unseen # {} => pc \in Windows \cap env.edits
    /\ pc = "replace" /\ change.file \notin unseen => live[change.file] = change.before
    /\ pc = "restore" /\ change.file \notin unseen => live[change.file] = change.after
    /\ pc \in {"health", "commit"} /\ {"health", "commit"} \cap env.edits = {}
       => live[change.file] = change.after

JournalInv == /\ TypeOK /\ HandOK /\ RecordsOK /\ BackupsOK /\ RoomOK
              /\ PromptOK /\ OpenOK /\ CalmOK /\ LiveOK

-----------------------------------------------------------------------------
(* The writes of a status, and the ends of a rollback.                     *)

(* A record with another status is a record of the same change.            *)
LEMMA StatusOnly ==
    ASSUME NEW r \in Records, NEW status \in Terminal
    PROVE  /\ [r EXCEPT !.status = status] \in Records
           /\ [r EXCEPT !.status = status].file = r.file
           /\ [r EXCEPT !.status = status].before = r.before
           /\ [r EXCEPT !.status = status].after = r.after
           /\ [r EXCEPT !.status = status].status = status
  BY DEF Records

(* Writing a terminal status changes that record only, and takes it out of *)
(* the prepared ones.                                                      *)
LEMMA ResolveEffect ==
    ASSUME TypeOK, NEW i \in DOMAIN records, NEW status \in Terminal, Resolve(i, status)
    PROVE  /\ UNCHANGED <<live, backups>>
           /\ DOMAIN records' = DOMAIN records
           /\ records'[i] = [records[i] EXCEPT !.status = status]
           /\ \A j \in DOMAIN records \ {i} : records'[j] = records[j]
           /\ Prepared' = Prepared \ {i}
<1>1. /\ UNCHANGED <<live, backups>>
      /\ DOMAIN records' = DOMAIN records
      /\ records'[i] = [records[i] EXCEPT !.status = status]
      /\ \A j \in DOMAIN records \ {i} : records'[j] = records[j]
  BY DEF Resolve, SetRecord, Put
<1>2. records'[i].status = status
  BY <1>1 DEF TypeOK, Records
<1>3. QED
  BY <1>1, <1>2 DEF Prepared, WithStatus, Terminal

(* A step that rewrites the status of record i, or leaves the disk alone.  *)
StatusStep(i) == UNCHANGED disk \/ \E status \in Terminal : Resolve(i, status)

(* It keeps the disk well typed ...                                        *)
LEMMA StatusStepTypes ==
    ASSUME TypeOK, NEW i \in DOMAIN records, StatusStep(i)
    PROVE  /\ live' = live /\ backups' = backups
           /\ DOMAIN records' = DOMAIN records
           /\ \A j \in DOMAIN records' : records'[j] \in Records
<1>1. CASE UNCHANGED disk
  BY <1>1 DEF disk, TypeOK
<1>2. ASSUME NEW status \in Terminal, Resolve(i, status)
      PROVE  /\ live' = live /\ backups' = backups
             /\ DOMAIN records' = DOMAIN records
             /\ \A j \in DOMAIN records' : records'[j] \in Records
  <2>1. records'[i] \in Records
    <3>1. records[i] \in Records
      BY DEF TypeOK
    <3>2. [records[i] EXCEPT !.status = status] \in Records
      BY <3>1, StatusOnly
    <3>3. records'[i] = [records[i] EXCEPT !.status = status]
      BY <1>2, ResolveEffect
    <3>4. QED
      BY <3>2, <3>3
  <2>2. QED
    BY <1>2, <2>1, ResolveEffect DEF TypeOK
<1>3. QED
  BY <1>1, <1>2 DEF StatusStep

(* A rollback that raises goes where its caller's except clause sends it.  *)
LEMMA RaisesEffect ==
    ASSUME TypeOK, RollbackRaises
    PROVE  \/ caller = "health" /\ pc' = "undo" /\ Quiet
           \/ caller = "undo" /\ Leave("safe", "unknown")
           \/ caller = "recovery" /\ Leave("refused", "unknown")
  BY DEF RollbackRaises, TypeOK, Then, Goto

(* A rollback that succeeds returns to its caller.                         *)
LEMMA DoneEffect ==
    ASSUME TypeOK, RollbackDone
    PROVE  \/ caller = "health" /\ Leave("idle", "rejected")
           \/ caller = "undo" /\ Leave("idle", "unknown")
           \/ caller = "recovery" /\ Leave("recover", "unknown")
  BY DEF RollbackDone, TypeOK

-----------------------------------------------------------------------------
(* Every step preserves the invariant.                                     *)

(* What is on disk keeps its type: with a restored content taken from a    *)
(* complete backup, not from a partial one.                                *)
LEMMA DiskTypes ==
    ASSUME TypeOK, HandOK, RecordsOK, BackupsOK, [Next]_vars
    PROVE  /\ live' \in [Files -> Contents]
           /\ DOMAIN records' \subseteq Ids /\ \A i \in DOMAIN records' : records'[i] \in Records
           /\ DOMAIN backups' \subseteq Ids
           /\ \A i \in DOMAIN backups' : backups'[i] \in Contents \cup {"partial"}
<1> USE DEF TypeOK, disk
<1>1. CASE Recovery
  <2>1. CASE RecoverAbort
    <3>1. Min(Prepared) \in DOMAIN records
      BY <2>1, OldestPrepared DEF RecoverAbort, Prepared, WithStatus
    <3>2. QED
      <4>1. StatusStep(Min(Prepared))
        BY <2>1 DEF RecoverAbort, Writes, StatusStep, Terminal
      <4>2. QED
        BY <3>1, <4>1, StatusStepTypes
  <2>2. QED
    BY <1>1, <2>1 DEF Recovery, Start, Known, Restrict, RecoveryDone, RecoverRefuse,
                      RecoverRollback
<1>2. CASE Prepare
  <2>1. CASE WriteMetadata
    BY <2>1 DEF WriteMetadata, Writes, SetRecord, Put, HandOK, Promoting, Preparing, Changes,
                Contents, Records
  <2>2. CASE WriteBackup
    BY <2>2 DEF WriteBackup, Put, HandOK, Promoting, Preparing, Changes
  <2>3. CASE Room \/ NoRoom \/ Evict \/ EvictBackup
    BY <2>3 DEF Room, NoRoom, Evict, EvictBackup, Sweep, Known, Restrict
  <2>4. QED
    BY <1>2, <2>1, <2>2, <2>3 DEF Prepare
<1>3. CASE Promote
  <2>1. change \in Changes /\ (pc = "commit" => change.id \in DOMAIN records)
    BY <1>3 DEF Promote, Recheck, Replace, Verify, Health, Commit, HandOK, Promoting, Trying,
                Preparing, RecordsOK, Matches
  <2>2. CASE Commit
    <3>1. StatusStep(change.id) /\ change.id \in DOMAIN records
      BY <2>1, <2>2 DEF Commit, StatusStep, Terminal
    <3>2. QED
      BY <3>1, StatusStepTypes
  <2>3. QED
    BY <1>3, <2>1, <2>2 DEF Promote, Recheck, Replace, Verify, Health, Writes, SetLive,
                            Changes, Contents
<1>4. CASE Unwind
  <2>1. CASE Restore
    <3>1. change.id \in DOMAIN backups /\ backups[change.id] \in Contents
      BY <2>1 DEF Restore, RecordsOK, HandOK, Promoting, Recovering, RollingBack, Preparing,
                  Matches, BackupsOK, BackupsComplete, Changes, Records
    <3>2. QED
      BY <2>1, <3>1 DEF Restore, Writes, SetLive
  <2>2. CASE MarkRolledBack \/ UndoAbort
    <3>1. change.id \in DOMAIN records
      BY <2>2 DEF MarkRolledBack, UndoAbort, RecordsOK, HandOK, Promoting, Recovering,
                  RollingBack, Preparing, Matches
    <3>2. QED
      <4>1. StatusStep(change.id)
        BY <2>2 DEF MarkRolledBack, UndoAbort, Writes, StatusStep, Terminal
      <4>2. QED
        BY <3>1, <4>1, StatusStepTypes
  <2>3. QED
    BY <1>4, <2>1, <2>2 DEF Unwind, Rollback, RestoreDamaged, UndoNothing, UndoRollback,
                            UndoUnknown
<1>5. CASE Crash
  BY <1>5 DEF Crash, Put, HandOK, Promoting, Preparing, Changes
<1>6. CASE \E f \in Files, v \in Versions : Begin(f, v)
  BY <1>6 DEF Begin
<1>7. CASE \E f \in Files, v \in Foreign : Edit(f, v)
  BY <1>7 DEF Edit, SetLive, Contents
<1>8. CASE UNCHANGED vars
  BY <1>8 DEF vars
<1>9. QED
  BY <1>1, <1>2, <1>3, <1>4, <1>5, <1>6, <1>7, <1>8 DEF Next

(* So does what is in memory.                                              *)
LEMMA MemoryTypes ==
    ASSUME TypeOK, HandOK, RecordsOK, [Next]_vars
    PROVE  /\ pc' \in Points /\ held' \in BOOLEAN /\ caller' \in {"health", "undo", "recovery"}
           /\ change' \in [id : Ids, file : Files, before : Contents, after : Contents] \cup {None}
           /\ created' \in 0 .. MaxPromotions /\ crashes' \in 0 .. MaxCrashes
           /\ outcome' \in [Files -> {"none", "open", "promoted", "rejected", "unknown"}]
<1> USE DEF TypeOK, Points, memory, Then, Goto, Quiet
<1>1. CASE Recovery
  <2>1. CASE RecoverRollback
    BY <2>1, OldestPrepared DEF RecoverRollback, Prepared, WithStatus, Records, Recovery, Next
  <2>2. CASE Start \/ RecoveryDone \/ RecoverAbort \/ RecoverRefuse
    BY <2>2 DEF Start, RecoveryDone, RecoverAbort, RecoverRefuse, Writes
  <2>3. QED
    BY <1>1, <2>1, <2>2 DEF Recovery
<1>2. CASE Prepare
  BY <1>2 DEF Prepare, Room, NoRoom, Evict, EvictBackup, WriteBackup, WriteMetadata, Writes
<1>3. CASE Promote
  BY <1>3 DEF Promote, Recheck, Replace, Verify, Health, Commit, Writes, Leave, Settle
<1>4. CASE Unwind
  <2>1. CASE Rollback \/ Restore \/ MarkRolledBack \/ RestoreDamaged
    <3>1. \/ pc = "rollback" /\ Then("restore")
          \/ pc = "restore" /\ Then("mark")
          \/ pc \in RollingBack /\ RollbackRaises
          \/ pc = "mark" /\ RollbackDone
      BY <2>1 DEF Rollback, Restore, MarkRolledBack, RestoreDamaged, Writes, RollingBack
    <3>2. QED
      BY <3>1, RaisesEffect, DoneEffect DEF Leave, Settle
  <2>2. CASE UndoNothing \/ UndoRollback \/ UndoAbort \/ UndoUnknown
    BY <2>2 DEF UndoNothing, UndoRollback, UndoAbort, UndoUnknown, Writes, Leave, Settle
  <2>3. QED
    BY <1>4, <2>1, <2>2 DEF Unwind
<1>5. CASE Crash
  <2>1. outcome' \in [Files -> {"none", "open", "promoted", "rejected", "unknown"}]
    BY <1>5 DEF Crash
  <2>2. crashes' \in 0 .. MaxCrashes
    BY <1>5, JournalAssumption DEF Crash
  <2>3. QED
    BY <1>5, <2>1, <2>2 DEF Crash
<1>6. CASE \E f \in Files, v \in Versions : Begin(f, v)
  BY <1>6, JournalAssumption DEF Begin, Ids, Contents
<1>7. CASE \E f \in Files, v \in Foreign : Edit(f, v)
  BY <1>7 DEF Edit
<1>8. CASE UNCHANGED vars
  BY <1>8 DEF vars
<1>10. QED
  BY <1>1, <1>2, <1>3, <1>4, <1>5, <1>6, <1>7, <1>8 DEF Next

(* HandOK is preserved.                                                    *)
LEMMA HandStep ==
    ASSUME TypeOK, HandOK, RecordsOK, [Next]_vars
    PROVE  HandOK'
<1> USE DEF HandOK, Promoting, Recovering, Preparing, Trying, RollingBack, Then, Goto, Quiet,
            memory
<1>1. CASE Recovery
  <2>1. CASE RecoverRollback
    BY <2>1, OldestPrepared DEF RecoverRollback, Prepared, WithStatus, Records, Recovery,
                                TypeOK, RecordsOK, Changes
  <2>2. CASE Start \/ RecoveryDone \/ RecoverAbort \/ RecoverRefuse
    BY <2>2 DEF Start, RecoveryDone, RecoverAbort, RecoverRefuse, Writes
  <2>3. QED
    BY <1>1, <2>1, <2>2 DEF Recovery
<1>2. CASE Prepare
  BY <1>2 DEF Prepare, Room, NoRoom, Evict, EvictBackup, WriteBackup, WriteMetadata, Writes,
              Sweep
<1>3. CASE Promote
  BY <1>3 DEF Promote, Recheck, Replace, Verify, Health, Commit, Writes, Leave, Settle
<1>4. CASE Unwind
  <2>1. CASE Rollback \/ Restore \/ MarkRolledBack \/ RestoreDamaged
    <3>1. \/ pc = "rollback" /\ Then("restore")
          \/ pc = "restore" /\ Then("mark")
          \/ pc \in RollingBack /\ RollbackRaises
          \/ pc = "mark" /\ RollbackDone
      BY <2>1 DEF Rollback, Restore, MarkRolledBack, RestoreDamaged, Writes, RollingBack
    <3>2. pc \in RollingBack /\ caller \in {"health", "undo", "recovery"}
      BY <3>1 DEF TypeOK
    <3>3. CASE RollbackRaises
      BY <3>2, <3>3, RaisesEffect DEF Leave
    <3>4. CASE RollbackDone
      BY <3>2, <3>4, DoneEffect DEF Leave
    <3>5. QED
      BY <3>1, <3>2, <3>3, <3>4
  <2>2. CASE UndoNothing \/ UndoRollback \/ UndoAbort \/ UndoUnknown
    BY <2>2 DEF UndoNothing, UndoRollback, UndoAbort, UndoUnknown, Writes, Leave, Settle
  <2>3. QED
    BY <1>4, <2>1, <2>2 DEF Unwind
<1>5. CASE Crash
  BY <1>5 DEF Crash
<1>6. CASE \E f \in Files, v \in Versions : Begin(f, v)
  BY <1>6, JournalAssumption DEF Begin, Ids, Changes, TypeOK
<1>7. CASE \E f \in Files, v \in Foreign : Edit(f, v)
  BY <1>7 DEF Edit
<1>8. CASE UNCHANGED vars
  BY <1>8 DEF vars
<1>10. QED
  BY <1>1, <1>2, <1>3, <1>4, <1>5, <1>6, <1>7, <1>8 DEF Next

(* ... and every record with its file, base and candidate.                 *)
LEMMA StatusStepRecords ==
    ASSUME TypeOK, RecordsOK, NEW i \in DOMAIN records, StatusStep(i)
    PROVE  /\ DOMAIN records' = DOMAIN records
           /\ \A j \in DOMAIN records : /\ records'[j].file = records[j].file
                                        /\ records'[j].before = records[j].before
                                        /\ records'[j].after = records[j].after
<1>1. CASE UNCHANGED disk
  BY <1>1 DEF disk
<1>2. ASSUME NEW status \in Terminal, Resolve(i, status)
      PROVE  /\ DOMAIN records' = DOMAIN records
             /\ \A j \in DOMAIN records : /\ records'[j].file = records[j].file
                                          /\ records'[j].before = records[j].before
                                          /\ records'[j].after = records[j].after
  <2>1. records[i] \in Records
    BY DEF TypeOK
  <2>2. records'[i] = [records[i] EXCEPT !.status = status]
    BY <1>2, ResolveEffect
  <2>3. /\ records'[i].file = records[i].file
        /\ records'[i].before = records[i].before
        /\ records'[i].after = records[i].after
    BY <2>1, <2>2, StatusOnly
  <2>4. QED
    BY <1>2, <2>3, ResolveEffect
<1>3. QED
  BY <1>1, <1>2 DEF StatusStep

(* RecordsOK is preserved: metadata are written under a fresh id, an       *)
(* eviction only happens while no record is in hand.                       *)
LEMMA RecordsStep ==
    ASSUME TypeOK, HandOK, RecordsOK, [Next]_vars
    PROVE  RecordsOK'
<1> USE DEF Promoting, Recovering, Preparing, Trying, RollingBack, Then, Goto, Quiet, memory,
            disk
<1>1. CASE Recovery
  <2>1. CASE RecoverRollback
    BY <2>1, OldestPrepared DEF RecoverRollback, Prepared, WithStatus, Records, Recovery,
                                TypeOK, RecordsOK, Changes, Matches, HandOK
  <2>2. CASE RecoverAbort
    <3>1. StatusStep(Min(Prepared)) /\ Min(Prepared) \in DOMAIN records
      BY <2>2, OldestPrepared DEF RecoverAbort, Writes, StatusStep, Terminal, Prepared,
                                  WithStatus
    <3>2. pc' \in {"recover", "refused"} /\ UNCHANGED <<held, caller, created>> /\ ~held
      BY <2>2 DEF RecoverAbort, Writes, HandOK
    <3>3. QED
      BY <3>1, <3>2, StatusStepRecords DEF RecordsOK
  <2>3. CASE Start \/ RecoveryDone \/ RecoverRefuse
    BY <2>3 DEF Start, RecoveryDone, RecoverRefuse, HandOK, RecordsOK
  <2>4. QED
    BY <1>1, <2>1, <2>2, <2>3 DEF Recovery
<1>2. CASE Prepare
  <2>1. CASE WriteMetadata
    <3>1. change \in Changes /\ change.id = created /\ created \notin DOMAIN records /\ created \in Ids /\ ~held
      BY <2>1 DEF WriteMetadata, HandOK, RecordsOK, Changes
    <3>2. QED
      BY <2>1, <3>1 DEF WriteMetadata, Writes, SetRecord, Put, Changes, Ids, RecordsOK, Matches
  <2>2. CASE Evict
    <3>1. /\ DOMAIN records' \subseteq DOMAIN records
          /\ \A i \in DOMAIN records' : records'[i] = records[i]
      BY <2>2 DEF Evict, Restrict
    <3>2. pc' \in {"evict", "undo"} /\ pc \in Preparing /\ UNCHANGED <<held, created, caller, change>>
      BY <2>2 DEF Evict, Sweep
    <3>3. QED
      BY <3>1, <3>2 DEF RecordsOK, HandOK
  <2>3. CASE Room \/ NoRoom \/ EvictBackup \/ WriteBackup
    <3>1. /\ pc \in Preparing /\ pc' \in Preparing \cup {"undo"}
          /\ UNCHANGED <<records, held, created, caller, change>>
      BY <2>3 DEF Room, NoRoom, Sweep, EvictBackup, WriteBackup
    <3>2. ~held
      BY <3>1 DEF HandOK
    <3>3. QED
      BY <3>1, <3>2 DEF RecordsOK
  <2>4. QED
    BY <1>2, <2>1, <2>2, <2>3 DEF Prepare
<1>3. CASE Promote
  <2>1. CASE Commit
    <3>1. StatusStep(change.id) /\ Matches
      BY <2>1 DEF Commit, StatusStep, Terminal, HandOK, RecordsOK
    <3>2. pc' \in {"idle", "undo"} /\ created' = created /\ (held' => UNCHANGED change)
      BY <2>1 DEF Commit, Leave
    <3>3. QED
      BY <3>1, <3>2, StatusStepRecords DEF RecordsOK, Matches
  <2>2. CASE Recheck \/ Replace \/ Verify \/ Health
    BY <2>2 DEF Recheck, Replace, Verify, Health, Writes, SetLive, RecordsOK, HandOK, Matches
  <2>3. QED
    BY <1>3, <2>1, <2>2 DEF Promote
<1>4. CASE Unwind
  <2>1. CASE MarkRolledBack \/ UndoAbort
    <3>1. StatusStep(change.id) /\ Matches
      BY <2>1 DEF MarkRolledBack, UndoAbort, Writes, StatusStep, Terminal, HandOK, RecordsOK
    <3>2. pc' \in {"idle", "safe", "refused", "recover", "undo"} /\ created' = created /\ (held' => UNCHANGED change)
      BY <2>1, RaisesEffect, DoneEffect DEF MarkRolledBack, UndoAbort, Writes, Leave
    <3>3. QED
      BY <3>1, <3>2, StatusStepRecords DEF RecordsOK, Matches
  <2>2. CASE Rollback \/ Restore \/ RestoreDamaged
    <3>0. UNCHANGED records
      BY <2>2 DEF Rollback, Restore, RestoreDamaged, Writes, SetLive
    <3>1. \/ RollbackRaises
          \/ pc = "rollback" /\ change.id \in Prepared /\ Then("restore")
          \/ pc = "restore" /\ Then("mark")
      BY <2>2 DEF Rollback, Restore, RestoreDamaged, Writes
    <3>2. pc \in RollingBack
      BY <2>2 DEF Rollback, Restore, RestoreDamaged
    <3>3. CASE RollbackRaises
      <4>1. /\ pc' \in {"undo", "safe", "refused"}
            /\ created' = created /\ (held' => UNCHANGED change /\ held)
        <5>1. CASE pc' = "undo" /\ Quiet
          BY <5>1
        <5>2. CASE Leave("safe", "unknown") \/ Leave("refused", "unknown")
          BY <5>2 DEF Leave
        <5>3. QED
          BY <3>3, <5>1, <5>2, RaisesEffect
      <4>2. QED
        BY <3>0, <4>1 DEF RecordsOK, Matches
    <3>4. CASE pc = "rollback" /\ change.id \in Prepared /\ Then("restore")
      BY <3>0, <3>4 DEF RecordsOK, Matches, Prepared, WithStatus
    <3>5. CASE pc = "restore" /\ Then("mark")
      BY <3>0, <3>5 DEF RecordsOK, Matches
    <3>6. QED
      BY <3>1, <3>3, <3>4, <3>5
  <2>3. CASE UndoNothing \/ UndoRollback \/ UndoUnknown
    BY <2>3 DEF UndoNothing, UndoRollback, UndoUnknown, Leave, RecordsOK, Matches
  <2>4. QED
    BY <1>4, <2>1, <2>2, <2>3 DEF Unwind
<1>5. CASE Crash
  BY <1>5 DEF Crash, RecordsOK
<1>6. CASE \E f \in Files, v \in Versions : Begin(f, v)
  BY <1>6 DEF Begin, RecordsOK, HandOK, TypeOK
<1>7. CASE \E f \in Files, v \in Foreign : Edit(f, v)
  BY <1>7 DEF Edit, SetLive, RecordsOK, Matches
<1>8. CASE UNCHANGED vars
  BY <1>8 DEF vars, RecordsOK, Matches
<1>10. QED
  BY <1>1, <1>2, <1>3, <1>4, <1>5, <1>6, <1>7, <1>8 DEF Next

(* BackupsOK is preserved: metadata follow their backup and precede it     *)
(* when deleted.                                                           *)
LEMMA BackupsStep ==
    ASSUME TypeOK, HandOK, RecordsOK, BackupsOK, [Next]_vars
    PROVE  BackupsOK'
<1> USE DEF Preparing, Then, Goto, Quiet, memory, disk
<1>1. ASSUME pc' # "metadata", backups' = backups, DOMAIN records' = DOMAIN records,
             \A i \in DOMAIN records : records'[i].before = records[i].before
      PROVE  BackupsOK'
  BY <1>1 DEF BackupsOK, BackupsComplete
<1>2. ASSUME pc' # "metadata", UNCHANGED <<records, backups>>
      PROVE  BackupsOK'
  BY <1>2 DEF BackupsOK, BackupsComplete
<1>3. ASSUME NEW i \in DOMAIN records, StatusStep(i), pc' # "metadata"
      PROVE  BackupsOK'
  BY <1>1, <1>3, StatusStepTypes, StatusStepRecords
<1>4. ASSUME pc' # "metadata", records' = records, backups' = Known(backups)
      PROVE  BackupsOK'
  BY <1>4 DEF BackupsOK, BackupsComplete, Known, Restrict
<1>5. ASSUME pc' # "metadata", records' = records, pc \in Preparing,
             NEW content, backups' = Put(backups, change.id, content)
      PROVE  BackupsOK'
  <2>1. change.id \notin DOMAIN records
    BY <1>5 DEF HandOK, Promoting, RecordsOK
  <2>2. QED
    BY <1>5, <2>1 DEF BackupsOK, BackupsComplete, Put
<1>6. CASE Recovery
  <2>1. CASE RecoverAbort
    <3>1. StatusStep(Min(Prepared)) /\ Min(Prepared) \in DOMAIN records /\ pc' # "metadata"
      BY <2>1, OldestPrepared DEF RecoverAbort, Writes, StatusStep, Terminal, Prepared,
                                  WithStatus
    <3>2. QED
      BY <3>1, <1>3
  <2>2. CASE Start
    BY <2>2, <1>4 DEF Start
  <2>3. CASE RecoveryDone \/ RecoverRefuse \/ RecoverRollback
    BY <2>3, <1>2 DEF RecoveryDone, RecoverRefuse, RecoverRollback
  <2>4. QED
    BY <1>6, <2>1, <2>2, <2>3 DEF Recovery
<1>7. CASE Prepare
  <2>1. CASE WriteMetadata
    <3>1. /\ created \in DOMAIN backups /\ backups[created] = change.before
          /\ change.id = created
      BY <2>1 DEF WriteMetadata, BackupsOK, HandOK, Promoting
    <3>2. QED
      BY <2>1, <3>1 DEF WriteMetadata, Writes, SetRecord, Put, BackupsOK, BackupsComplete
  <2>2. CASE WriteBackup
    <3>1. CASE pc' # "metadata"
      BY <2>2, <3>1, <1>2, <1>5 DEF WriteBackup
    <3>2. CASE pc' = "metadata"
      <4>1. /\ backups' = Put(backups, created, change.before)
            /\ UNCHANGED <<records, created, change>>
            /\ created \notin DOMAIN records
        BY <2>2, <3>2 DEF WriteBackup, HandOK, Promoting, RecordsOK
      <4>2. QED
        BY <4>1 DEF BackupsOK, BackupsComplete, Put
    <3>3. QED
      BY <3>1, <3>2
  <2>3. CASE Evict
    <3>1. pc' # "metadata" /\ backups' = Known(backups)
      BY <2>3 DEF Evict, Sweep
    <3>2. CASE records' = records
      BY <3>1, <3>2, <1>4
    <3>3. CASE records' = Restrict(records, DOMAIN records \ {Min(Resolved)})
      BY <3>1, <3>3 DEF BackupsOK, BackupsComplete, Known, Restrict
    <3>4. QED
      BY <2>3, <3>2, <3>3 DEF Evict
  <2>4. CASE Room \/ NoRoom \/ EvictBackup
    BY <2>4, <1>2, <1>4 DEF Room, NoRoom, EvictBackup, Sweep
  <2>5. QED
    BY <1>7, <2>1, <2>2, <2>3, <2>4 DEF Prepare
<1>8. CASE Promote
  <2>1. CASE Commit
    <3>1. StatusStep(change.id) /\ Matches /\ pc' # "metadata"
      BY <2>1 DEF Commit, Leave, StatusStep, Terminal, HandOK, RecordsOK, Promoting, Trying,
                  RollingBack
    <3>2. QED
      BY <3>1, <1>3 DEF Matches
  <2>2. CASE Recheck \/ Replace \/ Verify \/ Health
    BY <2>2, <1>2 DEF Recheck, Replace, Verify, Health, Writes, SetLive
  <2>3. QED
    BY <1>8, <2>1, <2>2 DEF Promote
<1>9. CASE Unwind
  <2>1. CASE MarkRolledBack \/ UndoAbort
    <3>1. StatusStep(change.id) /\ Matches
      BY <2>1 DEF MarkRolledBack, UndoAbort, Writes, StatusStep, Terminal, HandOK, RecordsOK,
                  Promoting, Recovering, RollingBack, Trying
    <3>2. pc' # "metadata"
      BY <2>1, RaisesEffect, DoneEffect DEF MarkRolledBack, UndoAbort, Writes, Leave
    <3>3. QED
      BY <3>1, <3>2, <1>3 DEF Matches
  <2>2. CASE Rollback \/ Restore \/ RestoreDamaged
    <3>1. UNCHANGED <<records, backups>>
      BY <2>2 DEF Rollback, Restore, RestoreDamaged, Writes, SetLive
    <3>2. pc' # "metadata"
      BY <2>2, RaisesEffect DEF Rollback, Restore, RestoreDamaged, Writes, Leave
    <3>3. QED
      BY <3>1, <3>2, <1>2
  <2>3. CASE UndoNothing \/ UndoRollback \/ UndoUnknown
    BY <2>3, <1>2 DEF UndoNothing, UndoRollback, UndoUnknown, Leave
  <2>4. QED
    BY <1>9, <2>1, <2>2, <2>3 DEF Unwind
<1>10. CASE Crash
  BY <1>10, <1>2, <1>5 DEF Crash
<1>11. CASE \E f \in Files, v \in Versions : Begin(f, v)
  BY <1>11, <1>2 DEF Begin
<1>12. CASE \E f \in Files, v \in Foreign : Edit(f, v)
  BY <1>12 DEF Edit, SetLive, BackupsOK, BackupsComplete
<1>13. CASE UNCHANGED vars
  BY <1>13 DEF vars, BackupsOK, BackupsComplete
<1>14. QED
  BY <1>6, <1>7, <1>8, <1>9, <1>10, <1>11, <1>12, <1>13 DEF Next

(* There are finitely many records.                                        *)
LEMMA RecordsFinite ==
    ASSUME TypeOK
    PROVE  IsFiniteSet(DOMAIN records)
<1>1. IsFiniteSet(Ids)
  BY FS_Interval, JournalAssumption DEF Ids
<1>2. QED
  BY <1>1, FS_Subset DEF TypeOK

(* RoomOK is preserved: a record is added only where there was room.       *)
LEMMA RoomStep ==
    ASSUME TypeOK, HandOK, RecordsOK, RoomOK, [Next]_vars
    PROVE  RoomOK'
<1> USE DEF Preparing, Then, Goto, Quiet, memory, disk
<1>0. IsFiniteSet(DOMAIN records) /\ Cardinality(DOMAIN records) \in Nat
  BY RecordsFinite, FS_CardinalityType
<1>1. ASSUME pc' \notin {"backup", "metadata"} \/ pc \in {"backup", "metadata"},
             DOMAIN records' = DOMAIN records
      PROVE  RoomOK'
  BY <1>1 DEF RoomOK, RecordsBounded
<1>3. ASSUME NEW i \in DOMAIN records, StatusStep(i), pc' \notin {"backup", "metadata"}
      PROVE  RoomOK'
  BY <1>1, <1>3, StatusStepTypes
<1>6. CASE Recovery
  <2>1. CASE RecoverAbort
    <3>1. StatusStep(Min(Prepared)) /\ Min(Prepared) \in DOMAIN records /\ pc' \notin {"backup", "metadata"}
      BY <2>1, OldestPrepared DEF RecoverAbort, Writes, StatusStep, Terminal, Prepared,
                                  WithStatus
    <3>2. QED
      BY <3>1, <1>3
  <2>2. CASE Start
    BY <2>2, <1>1 DEF Start
  <2>3. CASE RecoveryDone \/ RecoverRefuse \/ RecoverRollback
    BY <2>3, <1>1 DEF RecoveryDone, RecoverRefuse, RecoverRollback
  <2>4. QED
    BY <1>6, <2>1, <2>2, <2>3 DEF Recovery
<1>7. CASE Prepare
  <2>1. CASE WriteMetadata
    <3>1. CASE records' = records
      BY <2>1, <3>1, <1>1 DEF WriteMetadata
    <3>2. CASE DOMAIN records' = DOMAIN records \cup {created}
      <4>1. created \notin DOMAIN records /\ Cardinality(DOMAIN records) < MaxRecords
        BY <2>1 DEF WriteMetadata, RecordsOK, RoomOK
      <4>2. Cardinality(DOMAIN records') = Cardinality(DOMAIN records) + 1
        BY <1>0, <3>2, <4>1, FS_AddElement
      <4>3. pc' \notin {"backup", "metadata"}
        BY <2>1 DEF WriteMetadata, Writes
      <4>4. QED
        BY <1>0, <4>1, <4>2, <4>3, JournalAssumption DEF RoomOK, RecordsBounded
    <3>3. QED
      BY <2>1, <3>1, <3>2 DEF WriteMetadata, Writes, SetRecord, Put, HandOK, Promoting
  <2>2. CASE WriteBackup
    BY <2>2, <1>1 DEF WriteBackup
  <2>3. CASE Evict
    <3>1. pc' \notin {"backup", "metadata"}
      BY <2>3 DEF Evict, Sweep
    <3>2. DOMAIN records' \subseteq DOMAIN records
      BY <2>3 DEF Evict, Restrict
    <3>3. Cardinality(DOMAIN records') =< Cardinality(DOMAIN records) /\ Cardinality(DOMAIN records') \in Nat
      BY <1>0, <3>2, FS_Subset, FS_CardinalityType
    <3>4. QED
      BY <1>0, <3>1, <3>3, JournalAssumption DEF RoomOK, RecordsBounded
  <2>4. CASE Room
    <3>1. records' = records /\ Cardinality(DOMAIN records) < MaxRecords
      BY <1>0, <2>4, JournalAssumption DEF Room, Full
    <3>2. QED
      BY <3>1 DEF RoomOK, RecordsBounded
  <2>5. CASE NoRoom \/ EvictBackup
    BY <2>5, <1>1 DEF NoRoom, EvictBackup
  <2>6. QED
    BY <1>7, <2>1, <2>2, <2>3, <2>4, <2>5 DEF Prepare
<1>8. CASE Promote
  <2>1. CASE Commit
    <3>1. StatusStep(change.id) /\ Matches /\ pc' \notin {"backup", "metadata"}
      BY <2>1 DEF Commit, Leave, StatusStep, Terminal, HandOK, RecordsOK, Promoting, Trying,
                  RollingBack
    <3>2. QED
      BY <3>1, <1>3 DEF Matches
  <2>2. CASE Recheck \/ Replace \/ Verify \/ Health
    BY <2>2, <1>1 DEF Recheck, Replace, Verify, Health, Writes, SetLive
  <2>3. QED
    BY <1>8, <2>1, <2>2 DEF Promote
<1>9. CASE Unwind
  <2>1. CASE MarkRolledBack \/ UndoAbort
    <3>1. StatusStep(change.id) /\ Matches
      BY <2>1 DEF MarkRolledBack, UndoAbort, Writes, StatusStep, Terminal, HandOK, RecordsOK,
                  Promoting, Recovering, RollingBack, Trying
    <3>2. pc' \notin {"backup", "metadata"}
      BY <2>1, RaisesEffect, DoneEffect DEF MarkRolledBack, UndoAbort, Writes, Leave
    <3>3. QED
      BY <3>1, <3>2, <1>3 DEF Matches
  <2>2. CASE Rollback \/ Restore \/ RestoreDamaged
    <3>1. UNCHANGED <<records, backups>>
      BY <2>2 DEF Rollback, Restore, RestoreDamaged, Writes, SetLive
    <3>2. pc' \notin {"backup", "metadata"}
      BY <2>2, RaisesEffect DEF Rollback, Restore, RestoreDamaged, Writes, Leave
    <3>3. QED
      BY <3>1, <3>2, <1>1
  <2>3. CASE UndoNothing \/ UndoRollback \/ UndoUnknown
    BY <2>3, <1>1 DEF UndoNothing, UndoRollback, UndoUnknown, Leave
  <2>4. QED
    BY <1>9, <2>1, <2>2, <2>3 DEF Unwind
<1>10. CASE Crash
  BY <1>10, <1>1 DEF Crash
<1>11. CASE \E f \in Files, v \in Versions : Begin(f, v)
  BY <1>11, <1>1 DEF Begin
<1>12. CASE \E f \in Files, v \in Foreign : Edit(f, v)
  BY <1>12, <1>1 DEF Edit, SetLive, TypeOK, Points
<1>13. CASE UNCHANGED vars
  BY <1>13 DEF vars, RoomOK, RecordsBounded
<1>14. QED
  BY <1>6, <1>7, <1>8, <1>9, <1>10, <1>11, <1>12, <1>13 DEF Next

(* OpenOK is preserved.                                                    *)
LEMMA OpenStep ==
    ASSUME TypeOK, HandOK, OpenOK, [Next]_vars
    PROVE  OpenOK'
<1> USE DEF Promoting, Preparing, Trying, RollingBack, Then, Goto, Quiet, memory
<1>1. ASSUME Promoting => Promoting', UNCHANGED <<outcome, change>>
      PROVE  OpenOK'
  BY <1>1 DEF OpenOK
<1>2. ASSUME ~Promoting, UNCHANGED outcome
      PROVE  OpenOK'
  BY <1>2 DEF OpenOK
<1>3. ASSUME NEW o, o # "open", Settle(o)
      PROVE  OpenOK'
  BY <1>3 DEF OpenOK, Settle, TypeOK
<1>4. CASE Recovery
  BY <1>4, <1>2 DEF Recovery, Start, RecoveryDone, RecoverAbort, RecoverRollback,
                    RecoverRefuse, Writes
<1>5. CASE Prepare
  BY <1>5, <1>1 DEF Prepare, Room, NoRoom, Evict, EvictBackup, WriteBackup, WriteMetadata,
                    Writes, Sweep
<1>6. CASE Promote
  <2>1. CASE Commit
    BY <2>1, <1>1, <1>3 DEF Commit, Leave
  <2>2. CASE Recheck \/ Replace \/ Verify \/ Health
    BY <2>2, <1>1 DEF Recheck, Replace, Verify, Health, Writes
  <2>3. QED
    BY <1>6, <2>1, <2>2 DEF Promote
<1>7. CASE Unwind
  <2>1. CASE RollbackRaises /\ pc \in RollingBack
    <3>1. CASE caller = "health" /\ pc' = "undo" /\ Quiet
      BY <3>1, <1>1
    <3>2. CASE Leave("safe", "unknown") \/ Leave("refused", "unknown")
      BY <3>2, <1>3 DEF Leave
    <3>3. QED
      BY <2>1, <3>1, <3>2, RaisesEffect
  <2>2. CASE RollbackDone
    BY <2>2, <1>3, DoneEffect DEF Leave
  <2>3. CASE \/ pc = "rollback" /\ Then("restore")
             \/ pc = "restore" /\ Then("mark")
    BY <2>3, <1>1
  <2>4. CASE Rollback \/ Restore \/ MarkRolledBack \/ RestoreDamaged
    BY <2>4, <2>1, <2>2, <2>3 DEF Rollback, Restore, MarkRolledBack, RestoreDamaged, Writes
  <2>5. CASE UndoRollback
    BY <2>5, <1>1 DEF UndoRollback
  <2>6. CASE UndoNothing \/ UndoAbort \/ UndoUnknown
    BY <2>6, <1>3 DEF UndoNothing, UndoAbort, UndoUnknown, Writes, Leave
  <2>7. QED
    BY <1>7, <2>4, <2>5, <2>6 DEF Unwind
<1>8. CASE Crash
  BY <1>8 DEF Crash, OpenOK
<1>9. CASE \E f \in Files, v \in Versions : Begin(f, v)
  BY <1>9 DEF Begin, OpenOK, TypeOK
<1>10. CASE \E f \in Files, v \in Foreign : Edit(f, v)
  BY <1>10, <1>1 DEF Edit
<1>11. CASE UNCHANGED vars
  BY <1>11, <1>1 DEF vars
<1>12. QED
  BY <1>4, <1>5, <1>6, <1>7, <1>8, <1>9, <1>10, <1>11 DEF Next

(* LiveOK is preserved.                                                    *)
LEMMA LiveStep ==
    ASSUME TypeOK, HandOK, LiveOK, [Next]_vars
    PROVE  LiveOK'
<1> USE DEF Windows, Promoting, Preparing, Trying, RollingBack, Then, Goto, Quiet, memory, disk, Calm
<1>0. env' = env
  BY DEF Next, vars
<1>3. pc' # pc \/ pc' \notin Windows => unseen' = {}
  BY DEF Next, vars, Watch, LiveOK
<1>1. ASSUME pc' \notin Preparing \cup {"replace", "restore", "health", "commit"}
      PROVE  LiveOK'
  BY <1>1, <1>3 DEF LiveOK
<1>2. ASSUME pc \in Preparing, pc' \in Preparing, UNCHANGED <<live, change>>
      PROVE  LiveOK'
  BY <1>0, <1>2, <1>3 DEF LiveOK
<1>4. CASE Recovery
  BY <1>4, <1>1 DEF Recovery, Start, RecoveryDone, RecoverAbort, RecoverRollback,
                    RecoverRefuse, Writes
<1>5. CASE Prepare
  BY <1>5, <1>1, <1>2 DEF Prepare, Room, NoRoom, Evict, EvictBackup, WriteBackup,
                          WriteMetadata, Writes, Sweep
<1>6. CASE Promote
  <2>1. CASE Recheck \/ Verify
    BY <1>0, <1>3, <2>1 DEF Recheck, Verify, LiveOK
  <2>2. CASE Health
    BY <1>0, <1>3, <2>2 DEF Health, LiveOK
  <2>3. CASE Replace \/ Commit
    BY <2>3, <1>1 DEF Replace, Commit, Writes, Leave
  <2>4. QED
    BY <1>6, <2>1, <2>2, <2>3 DEF Promote
<1>7. CASE Unwind
  <2>1. CASE RollbackRaises
    BY <2>1, <1>1, RaisesEffect DEF Leave
  <2>2. CASE RollbackDone
    BY <2>2, <1>1, DoneEffect DEF Leave
  <2>3. CASE Rollback
    <3>1. CASE live[change.file] = change.after /\ Then("restore") /\ UNCHANGED disk
      BY <1>0, <1>3, <2>3, <3>1 DEF Rollback, LiveOK
    <3>2. QED
      BY <2>3, <2>1, <3>1 DEF Rollback
  <2>4. CASE Restore \/ MarkRolledBack \/ RestoreDamaged
    BY <2>4, <1>1, <2>1, <2>2 DEF Restore, MarkRolledBack, RestoreDamaged, Writes
  <2>6. CASE UndoNothing \/ UndoAbort \/ UndoUnknown \/ UndoRollback
    BY <2>6, <1>1 DEF UndoNothing, UndoAbort, UndoUnknown, UndoRollback, Writes, Leave
  <2>7. QED
    BY <1>7, <2>3, <2>4, <2>6 DEF Unwind
<1>8. CASE Crash
  BY <1>8, <1>1 DEF Crash
<1>9. CASE \E f \in Files, v \in Versions : Begin(f, v)
  BY <1>3, <1>9 DEF Begin, LiveOK
<1>10. CASE \E f \in Files, v \in Foreign : Edit(f, v)
  <2>1. PICK f \in Files, v \in Foreign : Edit(f, v)
    BY <1>10
  <2>2. /\ UNCHANGED <<pc, change>> /\ pc \in env.edits
        /\ \A g \in Files : live'[g] = IF g = f THEN v ELSE live[g]
    BY <2>1 DEF Edit, SetLive, TypeOK
  <2>3. pc \in Preparing \cup Windows => change.file \in Files
    BY DEF HandOK, Changes, Recovering
  <2>4. unseen' = IF pc \in Windows THEN unseen \cup {g \in Files : live'[g] # live[g]} ELSE {}
    <3>1. CASE UNCHANGED vars
      BY <2>2, <3>1 DEF vars, LiveOK
    <3>2. CASE Watch
      BY <2>2, <3>2 DEF Watch
    <3>3. QED
      BY <3>1, <3>2 DEF Next
  <2>5. QED
    BY <1>0, <2>2, <2>3, <2>4 DEF LiveOK
<1>11. CASE UNCHANGED vars
  BY <1>11 DEF vars, LiveOK
<1>12. QED
  BY <1>4, <1>5, <1>6, <1>7, <1>8, <1>9, <1>10, <1>11 DEF Next

(* A status step never makes a record prepared.                            *)
LEMMA StatusStepPrepared ==
    ASSUME TypeOK, RecordsOK, NEW i \in DOMAIN records, StatusStep(i)
    PROVE  /\ \A j \in DOMAIN records : records'[j].file = records[j].file
           /\ Prepared' = Prepared \/ Prepared' = Prepared \ {i}
           /\ Prepared' \subseteq DOMAIN records
<1>1. CASE UNCHANGED disk
  BY <1>1 DEF disk, Prepared, WithStatus
<1>2. CASE \E status \in Terminal : Resolve(i, status)
  BY <1>2, ResolveEffect, StatusStepRecords DEF StatusStep, Prepared, WithStatus
<1>3. QED
  BY <1>1, <1>2 DEF StatusStep

(* PromptOK is preserved: every way out of a promotion that goes on to     *)
(* idle has resolved its record.                                           *)
LEMMA PromptStep ==
    ASSUME TypeOK, HandOK, RecordsOK, PromptOK, OpenOK, [Next]_vars
    PROVE  PromptOK'
<1> USE DEF Promoting, Preparing, Trying, RollingBack, Recovering, Then, Goto, Quiet, memory,
            disk
<1> SUFFICES ASSUME Prompt
             PROVE  PromptOK'
  BY DEF PromptOK, Prompt, Next, vars
<1>0. Prepared \subseteq DOMAIN records
  BY DEF Prepared, WithStatus
<1>1. ASSUME Prepared' \subseteq Prepared, \A i \in Prepared' : records'[i].file = records[i].file,
             UNCHANGED <<outcome, change>>, Promoting' => Promoting,
             pc' = "idle" \/ pc' \in Preparing \/ (pc' = "undo" /\ ~held') => Prepared' = {}
      PROVE  PromptOK'
  BY <1>1 DEF PromptOK
<1>2. ASSUME UNCHANGED <<records, outcome, change>>, Promoting' => Promoting,
             pc' = "idle" \/ pc' \in Preparing \/ (pc' = "undo" /\ ~held') => Prepared = {}
      PROVE  PromptOK'
  <2>1. Prepared' = Prepared
    BY <1>2 DEF Prepared, WithStatus
  <2>2. QED
    BY <1>1, <1>2, <2>1
<1>3. ASSUME NEW o \in {"promoted", "rejected", "unknown"}, NEW point, Leave(point, o),
             ~Promoting', Prepared' \subseteq Prepared,
             \A i \in Prepared' : records'[i].file = records[i].file,
             point = "idle" \/ o # "unknown" => Prepared' = {}
      PROVE  PromptOK'
  <2>1. \A i \in Prepared' : outcome'[records'[i].file] \in {"open", "unknown"}
    <3>1. ASSUME NEW i \in Prepared'
          PROVE  outcome'[records'[i].file] \in {"open", "unknown"}
      <4>1. records[i].file \in Files
        BY <1>0, <1>3, <3>1 DEF TypeOK, Records
      <4>2. o = "unknown"
        BY <1>3, <3>1
      <4>3. outcome[records[i].file] \in {"open", "unknown"}
        BY <1>3, <3>1 DEF PromptOK
      <4>4. outcome'[records[i].file] \in {"open", "unknown"}
        BY <1>3, <4>1, <4>2, <4>3 DEF Leave, Settle, TypeOK
      <4>5. QED
        BY <1>3, <4>4
    <3>2. QED
      BY <3>1
  <2>2. QED
    BY <1>3, <2>1 DEF Leave, PromptOK
<1>13. ASSUME records' = records, Leave("safe", "unknown") \/ Leave("refused", "unknown")
       PROVE  PromptOK'
  <2>1. Prepared' = Prepared
    BY <1>13 DEF Prepared, WithStatus
  <2>2. CASE Leave("safe", "unknown")
    <3>1. ~Promoting'
      BY <2>2 DEF Leave
    <3>2. QED
      BY <1>13, <2>1, <2>2, <3>1, <1>3
  <2>3. CASE Leave("refused", "unknown")
    <3>1. ~Promoting'
      BY <2>3 DEF Leave
    <3>2. QED
      BY <1>13, <2>1, <2>3, <3>1, <1>3
  <2>4. QED
    BY <1>13, <2>2, <2>3
<1>4. CASE Recovery
  <2>1. CASE RecoverAbort
    <3>1. StatusStep(Min(Prepared)) /\ Min(Prepared) \in DOMAIN records
      BY <2>1, OldestPrepared DEF RecoverAbort, Writes, StatusStep, Terminal, Prepared,
                                  WithStatus
    <3>2. pc' \in {"recover", "refused"} /\ UNCHANGED <<outcome, change, held, caller>>
      BY <2>1 DEF RecoverAbort, Writes
    <3>3. QED
      BY <1>0, <3>1, <3>2, <1>1, StatusStepPrepared
  <2>2. CASE RecoverRollback
    BY <2>2 DEF RecoverRollback, PromptOK, Prepared, WithStatus
  <2>3. CASE Start \/ RecoveryDone \/ RecoverRefuse
    BY <2>3, <1>2 DEF Start, RecoveryDone, RecoverRefuse
  <2>4. QED
    BY <1>4, <2>1, <2>2, <2>3 DEF Recovery
<1>5. CASE Prepare
  <2>0. /\ Prepared = {} /\ ~held
        /\ Promoting /\ outcome[change.file] = "open"
        /\ change.id = created /\ created \notin DOMAIN records
        /\ change \in Changes
    BY <1>5 DEF Prepare, Room, NoRoom, Evict, EvictBackup, WriteBackup, WriteMetadata, Sweep,
                PromptOK, HandOK, RecordsOK
  <2>1. CASE WriteMetadata
    <3>1. CASE UNCHANGED disk
      BY <2>0, <2>1, <3>1, <1>2 DEF WriteMetadata, Writes
    <3>2. CASE /\ SetRecord(change.id, [file |-> change.file, before |-> change.before,
                                        after |-> change.after, status |-> "prepared"])
               /\ pc' = "recheck" /\ held' = TRUE
      <4>1. Prepared' \subseteq {change.id} /\ \A i \in Prepared' : records'[i].file = change.file
        BY <2>0, <3>2 DEF SetRecord, Put, Prepared, WithStatus
      <4>2. UNCHANGED <<change, outcome>>
        BY <2>1 DEF WriteMetadata
      <4>3. QED
        BY <2>0, <3>2, <4>1, <4>2 DEF PromptOK
    <3>3. QED
      BY <2>1, <3>1, <3>2 DEF WriteMetadata, Writes, Prompt, IOFaults
  <2>2. CASE Evict
    <3>1. Prepared' \subseteq Prepared
      BY <2>2 DEF Evict, Restrict, Prepared, WithStatus
    <3>2. UNCHANGED <<outcome, change>>
      BY <2>2 DEF Evict
    <3>3. QED
      BY <2>0, <3>1, <3>2, <1>1
  <2>3. CASE Room \/ NoRoom \/ EvictBackup \/ WriteBackup
    BY <2>0, <2>3, <1>2 DEF Room, NoRoom, EvictBackup, WriteBackup
  <2>4. QED
    BY <1>5, <2>1, <2>2, <2>3 DEF Prepare
<1>6. CASE Promote
  <2>0. /\ held /\ Matches /\ Prepared \subseteq {change.id}
        /\ Promoting /\ outcome[change.file] = "open"
    BY <1>6 DEF Promote, Recheck, Replace, Verify, Health, Commit, PromptOK, HandOK, RecordsOK
  <2>1. CASE Commit
    <3>1. CASE UNCHANGED disk /\ Then("undo")
      BY <2>0, <3>1, <1>2
    <3>2. CASE Resolve(change.id, "committed") /\ Leave("idle", "promoted")
      <4>1. Prepared' = {}
        BY <2>0, <3>2, ResolveEffect DEF Matches, Terminal
      <4>2. QED
        BY <3>2, <4>1, <1>3 DEF Leave
    <3>3. QED
      BY <2>1, <3>1, <3>2 DEF Commit, Prompt, IOFaults
  <2>2. CASE Recheck \/ Replace \/ Verify \/ Health
    <3>1. UNCHANGED <<records, outcome, change, held>> /\ pc' \notin Preparing \cup {"idle"}
      BY <2>2 DEF Recheck, Replace, Verify, Health, Writes, SetLive
    <3>2. QED
      BY <2>0, <3>1, <1>2
  <2>3. QED
    BY <1>6, <2>1, <2>2 DEF Promote
<1>7. CASE Unwind
  <2>1. ASSUME RollbackRaises, records' = records, pc \in RollingBack
        PROVE  PromptOK'
    <3>1. CASE caller = "health" /\ pc' = "undo" /\ Quiet
      <4>1. held
        BY <2>1, <3>1 DEF HandOK
      <4>2. QED
        BY <2>1, <3>1, <4>1, <1>2
    <3>2. CASE Leave("safe", "unknown") \/ Leave("refused", "unknown")
      BY <2>1, <3>2, <1>13
    <3>3. QED
      BY <2>1, <3>1, <3>2, RaisesEffect
  <2>2. CASE Rollback \/ Restore
    <3>1. UNCHANGED records /\ pc \in RollingBack
      BY <2>2 DEF Rollback, Restore, Writes, SetLive
    <3>2. CASE \/ pc = "rollback" /\ Then("restore")
               \/ pc = "restore" /\ Then("mark")
      BY <3>1, <3>2, <1>2
    <3>3. QED
      BY <2>1, <2>2, <3>1, <3>2 DEF Rollback, Restore, Writes
  <2>3. CASE RestoreDamaged
    BY <2>1, <2>3 DEF RestoreDamaged
  <2>4. CASE MarkRolledBack
    <3>0. Matches
      BY <2>4 DEF MarkRolledBack, HandOK, RecordsOK
    <3>1. CASE RollbackDone /\ \E status \in Terminal : Resolve(change.id, status)
      <4>1. Prepared' = Prepared \ {change.id} /\ \A i \in Prepared' : records'[i] = records[i]
        BY <1>0, <3>0, <3>1, ResolveEffect DEF Matches
      <4>2. caller # "recovery" => Prepared' = {}
        BY <2>4, <4>1 DEF MarkRolledBack, PromptOK
      <4>3. \/ caller = "health" /\ Leave("idle", "rejected")
            \/ caller = "undo" /\ Leave("idle", "unknown")
            \/ caller = "recovery" /\ Leave("recover", "unknown")
        BY <3>1, DoneEffect
      <4>4. QED
        BY <4>1, <4>2, <4>3, <1>3 DEF Leave
    <3>2. CASE RollbackRaises /\ UNCHANGED disk
      BY <2>1, <2>4, <3>2 DEF MarkRolledBack
    <3>3. QED
      BY <2>4, <3>1, <3>2 DEF MarkRolledBack, Writes, Terminal, Prompt, IOFaults
  <2>5. CASE UndoAbort
    <3>0. Matches /\ Prepared \subseteq {change.id}
      BY <2>5 DEF UndoAbort, RecordsOK, PromptOK
    <3>1. CASE Leave("idle", "unknown") /\ Resolve(change.id, "aborted")
      <4>1. Prepared' = {}
        BY <3>0, <3>1, ResolveEffect DEF Matches, Terminal
      <4>2. QED
        BY <3>1, <4>1, <1>3 DEF Leave
    <3>2. CASE Leave("safe", "unknown") /\ UNCHANGED disk
      BY <3>2, <1>13
    <3>3. QED
      BY <2>5, <3>1, <3>2 DEF UndoAbort, Writes, Prompt, IOFaults
  <2>6. CASE UndoNothing \/ UndoUnknown
    <3>1. Prepared' = Prepared /\ records' = records
      BY <2>6 DEF UndoNothing, UndoUnknown, Prepared, WithStatus
    <3>2. \/ Leave("idle", "unknown") /\ Prepared = {}
          \/ Leave("safe", "unknown")
      BY <2>6 DEF UndoNothing, UndoUnknown, PromptOK
    <3>3. QED
      BY <3>1, <3>2, <1>3 DEF Leave
  <2>7. CASE UndoRollback
    BY <2>7, <1>2 DEF UndoRollback
  <2>8. QED
    BY <1>7, <2>2, <2>3, <2>4, <2>5, <2>6, <2>7 DEF Unwind
<1>8. CASE Crash
  <2>1. Prepared' = Prepared /\ records' = records
    BY <1>8 DEF Crash, Prepared, WithStatus
  <2>2. \A i \in Prepared : outcome'[records[i].file] = "unknown"
    BY <1>0, <1>8 DEF Crash, PromptOK, TypeOK, Records
  <2>3. pc' = "down"
    BY <1>8 DEF Crash
  <2>4. QED
    BY <2>1, <2>2, <2>3 DEF PromptOK
<1>9. CASE \E f \in Files, v \in Versions : Begin(f, v)
  <2>1. Prepared' = {}
    BY <1>9 DEF Begin, Prepared, WithStatus, PromptOK
  <2>2. QED
    BY <1>9, <2>1 DEF Begin, PromptOK, TypeOK
<1>10. CASE \E f \in Files, v \in Foreign : Edit(f, v)
  BY <1>10, <1>2 DEF Edit, SetLive, PromptOK
<1>11. CASE UNCHANGED vars
  BY <1>11, <1>2 DEF vars, PromptOK
<1>12. QED
  BY <1>4, <1>5, <1>6, <1>7, <1>8, <1>9, <1>10, <1>11 DEF Next

(* CalmOK is preserved: start-up finds its own base or candidate, a        *)
(* readable journal, and at each step of a rollback what the step before   *)
(* has left.                                                               *)
LEMMA CalmStep ==
    ASSUME TypeOK, HandOK, RecordsOK, BackupsOK, RoomOK, PromptOK, LiveOK, CalmOK, [Next]_vars
    PROVE  CalmOK'
<1> USE DEF Promoting, Preparing, Trying, RollingBack, Recovering, Then, Goto, Quiet, memory,
            disk
<1> SUFFICES ASSUME Calm
             PROVE  CalmOK'
  BY DEF CalmOK, Calm, Next, vars
<1>0. Prepared \subseteq DOMAIN records /\ IOFaults = {} /\ env.edits = {} /\ Prompt
  BY DEF Prepared, WithStatus, Calm, IOFaults, Prompt
<1>1. ASSUME live' = live, Prepared' \subseteq Prepared,
             \A i \in Prepared' : /\ records'[i].file = records[i].file
                                  /\ records'[i].before = records[i].before
                                  /\ records'[i].after = records[i].after,
             ~Recovering', pc' # "refused"
      PROVE  CalmOK'
  BY <1>1 DEF CalmOK
<1>2. ASSUME live' = live, records' = records, ~Recovering', pc' # "refused"
      PROVE  CalmOK'
  <2>1. Prepared' = Prepared
    BY <1>2 DEF Prepared, WithStatus
  <2>2. QED
    BY <1>1, <1>2, <2>1
<1>3. ASSUME NEW i \in DOMAIN records, StatusStep(i), ~Recovering', pc' # "refused"
      PROVE  CalmOK'
  BY <1>1, <1>3, StatusStepTypes, StatusStepRecords, StatusStepPrepared
<1>4. CASE Recovery
  <2>0. ~Recovering /\ ~held
    BY <1>4 DEF Recovery, Start, RecoveryDone, RecoverAbort, RecoverRollback, RecoverRefuse,
                HandOK
  <2>1. CASE RecoverAbort
    <3>1. StatusStep(Min(Prepared)) /\ Min(Prepared) \in DOMAIN records
      BY <2>1, OldestPrepared DEF RecoverAbort, Writes, StatusStep, Terminal, Prepared,
                                  WithStatus
    <3>2. pc' = "recover"
      BY <1>0, <2>1 DEF RecoverAbort, Writes
    <3>3. QED
      BY <3>1, <3>2, <1>3
  <2>2. CASE RecoverRollback
    <3>1. Prepared' = Prepared
      BY <2>2 DEF RecoverRollback, Prepared, WithStatus
    <3>2. QED
      BY <2>2, <3>1, OldestPrepared DEF RecoverRollback, CalmOK
  <2>3. CASE RecoverRefuse
    BY <2>3, OldestPrepared DEF RecoverRefuse, CalmOK
  <2>4. CASE Start
    <3>1. Readable
      BY DEF Readable, Sound, RoomOK, RecordsBounded, BackupsOK, BackupsComplete
    <3>2. QED
      BY <2>4, <3>1, <1>2 DEF Start
  <2>5. CASE RecoveryDone
    BY <2>5, <1>2 DEF RecoveryDone
  <2>6. QED
    BY <1>4, <2>1, <2>2, <2>3, <2>4, <2>5 DEF Recovery
<1>5. CASE Prepare
  <2>1. CASE WriteMetadata
    <3>1. SetRecord(change.id, [file |-> change.file, before |-> change.before,
                                after |-> change.after, status |-> "prepared"])
      BY <1>0, <2>1 DEF WriteMetadata, Writes
    <3>2. Prepared = {} /\ pc' = "recheck"
      BY <1>0, <2>1 DEF WriteMetadata, Writes, PromptOK
    <3>3. /\ Prepared' \subseteq {change.id}
          /\ records'[change.id].file = change.file
          /\ records'[change.id].before = change.before
          /\ live' = live
      BY <3>1, <3>2 DEF SetRecord, Put, Prepared, WithStatus
    <3>4. live[change.file] = change.before
      BY <2>1 DEF WriteMetadata, LiveOK
    <3>5. QED
      BY <3>2, <3>3, <3>4 DEF CalmOK
  <2>2. CASE Evict
    <3>1. /\ Prepared' \subseteq Prepared /\ live' = live
          /\ \A i \in Prepared' : records'[i] = records[i]
      BY <2>2 DEF Evict, Sweep, Restrict, Prepared, WithStatus
    <3>2. pc' \in {"evict", "undo"}
      BY <2>2 DEF Evict
    <3>3. QED
      BY <3>1, <3>2, <1>1
  <2>3. CASE Room \/ NoRoom \/ EvictBackup \/ WriteBackup
    BY <2>3, <1>2 DEF Room, NoRoom, Sweep, EvictBackup, WriteBackup
  <2>4. QED
    BY <1>5, <2>1, <2>2, <2>3 DEF Prepare
<1>6. CASE Promote
  <2>0. /\ held /\ Matches /\ Prepared \subseteq {change.id} /\ change.file \in Files
    BY <1>0, <1>6 DEF Promote, Recheck, Replace, Verify, Health, Commit, PromptOK, HandOK,
                      RecordsOK, Changes
  <2>1. CASE Commit
    <3>1. StatusStep(change.id) /\ change.id \in DOMAIN records
      BY <2>0, <2>1 DEF Commit, StatusStep, Terminal, Matches
    <3>2. pc' \in {"idle", "undo"}
      BY <2>1 DEF Commit, Leave
    <3>3. QED
      BY <3>1, <3>2, <1>3
  <2>2. CASE Replace
    <3>1. live' = [live EXCEPT ![change.file] = change.after] /\ records' = records /\ pc' = "verify"
      BY <1>0, <2>2 DEF Replace, Writes, SetLive
    <3>2. Prepared' = Prepared
      BY <3>1 DEF Prepared, WithStatus
    <3>3. live'[change.file] = records'[change.id].after /\ records'[change.id].file = change.file
      BY <2>0, <3>1 DEF Matches, TypeOK
    <3>4. QED
      BY <2>0, <3>1, <3>2, <3>3 DEF CalmOK
  <2>3. CASE Recheck \/ Verify \/ Health
    BY <2>3, <1>2 DEF Recheck, Verify, Health
  <2>4. QED
    BY <1>6, <2>1, <2>2, <2>3 DEF Promote
<1>7. CASE Unwind
  <2>0. pc # "undo" => Prepared \subseteq {change.id} /\ change \in Changes
    <3>1. Recovering => change.id \in Prepared
      BY DEF CalmOK
    <3>2. QED
      BY <1>0, <1>7, <3>1 DEF Unwind, Rollback, Restore, MarkRolledBack, RestoreDamaged,
                 UndoNothing, UndoRollback, UndoAbort, UndoUnknown, PromptOK, HandOK
  <2>1. ASSUME RollbackRaises, caller # "recovery", records' = records, live' = live
        PROVE  CalmOK'
    <3>1. pc' \in {"undo", "safe"}
      BY <2>1, RaisesEffect DEF Leave
    <3>2. QED
      BY <2>1, <3>1, <1>2
  <2>2. CASE Rollback
    <3>1. CASE Then("restore") /\ change.id \in Prepared /\ live[change.file] = change.after
      <4>1. Prepared' = Prepared /\ live' = live /\ records' = records
        BY <2>2 DEF Rollback, Prepared, WithStatus
      <4>2. QED
        BY <3>1, <4>1 DEF CalmOK
    <3>2. CASE RollbackRaises /\ caller # "recovery"
      BY <2>1, <2>2, <3>2 DEF Rollback
    <3>3. caller = "recovery"
          => /\ change.id \in Prepared
             /\ live[change.file] = change.after
             /\ backups[change.id] = change.before
      BY <1>0, <2>2 DEF Rollback, CalmOK, RecordsOK, Matches, BackupsOK, BackupsComplete
    <3>4. QED
      BY <2>2, <3>1, <3>2, <3>3 DEF Rollback
  <2>3. CASE Restore
    <3>1. /\ live' = [live EXCEPT ![change.file] = backups[change.id]]
          /\ records' = records /\ Then("mark")
      BY <1>0, <2>3 DEF Restore, Writes, SetLive
    <3>2. Matches /\ change.id \in DOMAIN records /\ change.id \in Prepared
      BY <2>3 DEF Restore, RecordsOK, HandOK, Matches, Prepared, WithStatus
    <3>3. backups[change.id] = change.before
      BY <3>2 DEF Matches, BackupsOK, BackupsComplete
    <3>4. Prepared' = Prepared /\ Prepared \subseteq {change.id} /\ change.file \in Files
      BY <2>0, <2>3, <3>1 DEF Restore, Prepared, WithStatus, Changes
    <3>5. live'[change.file] = change.before
      BY <3>1, <3>3, <3>4 DEF TypeOK
    <3>6. records'[change.id].file = change.file /\ records'[change.id].before = change.before
      BY <3>1, <3>2 DEF Matches
    <3>7. QED
      BY <3>1, <3>2, <3>4, <3>5, <3>6 DEF CalmOK
  <2>4. CASE RestoreDamaged
    <3>1. caller # "recovery"
      BY <2>4 DEF RestoreDamaged, CalmOK
    <3>2. QED
      BY <2>1, <2>4, <3>1 DEF RestoreDamaged
  <2>5. CASE MarkRolledBack
    <3>1. StatusStep(change.id) /\ change.id \in DOMAIN records
      BY <2>5 DEF MarkRolledBack, Writes, StatusStep, Terminal, RecordsOK, HandOK, Matches
    <3>2. pc' \in {"idle", "recover"}
      BY <1>0, <2>5, DoneEffect DEF MarkRolledBack, Writes, Leave
    <3>3. QED
      BY <3>1, <3>2, <1>3
  <2>6. CASE UndoAbort
    <3>1. StatusStep(change.id) /\ change.id \in DOMAIN records
      BY <2>6 DEF UndoAbort, Writes, StatusStep, Terminal, RecordsOK, Matches
    <3>2. pc' \in {"idle", "safe"}
      BY <2>6 DEF UndoAbort, Writes, Leave
    <3>3. QED
      BY <3>1, <3>2, <1>3
  <2>7. CASE UndoNothing \/ UndoUnknown
    BY <2>7, <1>2 DEF UndoNothing, UndoUnknown, Leave
  <2>8. CASE UndoRollback
    BY <2>8, <1>2 DEF UndoRollback
  <2>9. QED
    BY <1>7, <2>2, <2>3, <2>4, <2>5, <2>6, <2>7, <2>8 DEF Unwind
<1>8. CASE Crash
  BY <1>8, <1>2 DEF Crash
<1>9. CASE \E f \in Files, v \in Versions : Begin(f, v)
  BY <1>9, <1>2 DEF Begin
<1>10. CASE \E f \in Files, v \in Foreign : Edit(f, v)
  BY <1>0, <1>10 DEF Edit
<1>11. CASE UNCHANGED vars
  <2>1. Prepared' = Prepared
    BY <1>11 DEF vars, Prepared, WithStatus
  <2>2. QED
    BY <1>11, <2>1 DEF vars, CalmOK
<1>12. QED
  BY <1>4, <1>5, <1>6, <1>7, <1>8, <1>9, <1>10, <1>11 DEF Next

-----------------------------------------------------------------------------
(* JournalInv holds in every reachable state.                              *)
THEOREM JournalInvariant == Spec => []JournalInv
<1>1. Init => JournalInv
  <2> SUFFICES ASSUME Init
               PROVE  JournalInv
    OBVIOUS
  <2> USE DEF Init
  <2>1. DOMAIN records = {} /\ DOMAIN backups = {} /\ Prepared = {}
    BY DEF Prepared, WithStatus
  <2>2. TypeOK
    <3>1. live \in [Files -> Contents]
      BY DEF Contents
    <3>2. created \in 0 .. MaxPromotions /\ crashes \in 0 .. MaxCrashes
      BY JournalAssumption
    <3>3. outcome \in [Files -> {"none", "open", "promoted", "rejected", "unknown"}]
      OBVIOUS
    <3>4. QED
      BY <2>1, <3>1, <3>2, <3>3 DEF TypeOK, Points
  <2>3. HandOK /\ RecordsOK /\ BackupsOK /\ OpenOK /\ LiveOK
    BY <2>1 DEF HandOK, RecordsOK, BackupsOK, BackupsComplete, OpenOK, LiveOK,
                Promoting, Recovering, Preparing, Trying, RollingBack
  <2>4. RoomOK
    BY <2>1, FS_EmptySet, JournalAssumption DEF RoomOK, RecordsBounded
  <2>5. PromptOK /\ CalmOK
    BY <2>1 DEF PromptOK, CalmOK, Promoting, Recovering, Preparing, Trying, RollingBack
  <2>6. QED
    BY <2>2, <2>3, <2>4, <2>5 DEF JournalInv
<1>2. JournalInv /\ [Next]_vars => JournalInv'
  <2> SUFFICES ASSUME JournalInv, [Next]_vars
               PROVE  JournalInv'
    OBVIOUS
  <2> USE DEF JournalInv
  <2>1. TypeOK'
    <3>1. env' \in Environments
      BY DEF TypeOK, Next, vars
    <3>2. unseen' \subseteq Files
      BY DEF TypeOK, Next, vars, Watch
    <3>3. QED
      BY <3>1, <3>2, DiskTypes, MemoryTypes DEF TypeOK
  <2>2. QED
    BY <2>1, HandStep, RecordsStep, BackupsStep, RoomStep, PromptStep, OpenStep, CalmStep,
       LiveStep
<1>3. QED
  BY <1>1, <1>2, PTL DEF Spec

(* On disk the journal is sound: every metadata file has its complete      *)
(* backup, records are bounded, normal work leaves none of them open       *)
(* unless a write raises late, and crashes alone never keep the program    *)
(* from starting.                                                          *)
THEOREM JournalIsSound == Spec => []JournalSound
<1>1. JournalInv => JournalSound
  BY DEF JournalInv, JournalSound, BackupsOK, RoomOK, PromptOK, CalmOK, RestResolved,
         RecoverySucceeds
<1>2. QED
  BY <1>1, JournalInvariant, PTL

(* The program itself writes a live file in two places only, and only the  *)
(* file of the change in hand ...                                          *)
LEMMA LiveEffect ==
    ASSUME TypeOK, HandOK, [Next]_vars, live' # live, pc' # pc
    PROVE  /\ Replace \/ Restore
           /\ change \in Changes
           /\ \A f \in Files : live'[f] # live[f] => f = change.file
<1>1. Replace \/ Restore
  BY DEF Next, vars, disk, Recovery, Start, RecoveryDone, RecoverAbort, RecoverRollback,
         RecoverRefuse,
         Prepare, Room, NoRoom, Evict, EvictBackup, WriteBackup, WriteMetadata, Sweep, SetRecord, Resolve,
         Promote, Recheck, Verify, Health, Commit, Unwind, Rollback, MarkRolledBack,
         RestoreDamaged, UndoNothing, UndoRollback, UndoAbort, UndoUnknown, Begin, Edit, Crash, Writes
<1>2. change \in Changes
  BY <1>1 DEF Replace, Restore, HandOK, Promoting, Recovering, Trying, Preparing, RollingBack
<1>3. QED
  BY <1>1, <1>2 DEF Replace, Restore, Writes, SetLive, disk, TypeOK

(* ... whose record is on disk and prepared.                               *)
LEMMA LiveInHand ==
    ASSUME TypeOK, HandOK, RecordsOK, Replace \/ Restore
    PROVE  /\ change.id \in Prepared /\ Matches
           /\ pc = "replace" \/ pc = "restore"
<1>1. held \/ Recovering
  BY DEF Replace, Restore, HandOK, Promoting, Recovering, Trying, Preparing, RollingBack
<1>2. QED
  BY <1>1 DEF Replace, Restore, RecordsOK, Matches, Prepared, WithStatus, Trying

(* What was reported as promoted stays in the live tree, over crashes and  *)
(* recoveries, unless a write raises after it was done.                    *)
THEOREM PromotedIsKept == Spec => PromotedIsKeptIfPrompt
<1>1. JournalInv /\ [Next]_vars => [Prompt => Kept]_vars
  <2> SUFFICES ASSUME JournalInv, [Next]_vars, Prompt,
                      NEW f \in Files, outcome[f] = "promoted", pc' # pc, live'[f] # live[f]
               PROVE  FALSE
    BY DEF Kept
  <2>1. (Replace \/ Restore) /\ f = change.file
    BY LiveEffect DEF JournalInv
  <2>2. change.id \in Prepared /\ records[change.id].file = f
    BY <2>1, LiveInHand DEF JournalInv, Matches
  <2>3. QED
    BY <2>2 DEF JournalInv, PromptOK
<1>2. QED
  BY <1>1, JournalInvariant, PTL DEF Spec, PromotedIsKeptIfPrompt

(* The program overwrites only the base or the candidate of an unresolved  *)
(* record of that file, wherever else files are edited; only an edit that  *)
(* falls between a comparison and the very next step, the write, can be    *)
(* lost.                                                                   *)
THEOREM OnlyKnownOverwritten == Spec => UnknownNeverOverwritten
<1> DEFINE Overwrites(f) ==
      \/ f \in unseen
      \/ \E i \in Prepared : /\ records[i].file = f
                             /\ live[f] \in {records[i].before, records[i].after}
<1>1. JournalInv /\ [Next]_vars
      => [\A f \in Files : live'[f] # live[f] /\ pc' # pc => Overwrites(f)]_vars
  <2> SUFFICES ASSUME JournalInv, [Next]_vars,
                      NEW f \in Files, pc' # pc, live'[f] # live[f], f \notin unseen
               PROVE  \E i \in Prepared : /\ records[i].file = f
                                          /\ live[f] \in {records[i].before, records[i].after}
    OBVIOUS
  <2>1. (Replace \/ Restore) /\ f = change.file
    BY LiveEffect DEF JournalInv
  <2>2. /\ change.id \in Prepared /\ records[change.id].file = f
        /\ records[change.id].before = change.before
        /\ records[change.id].after = change.after
        /\ pc = "replace" \/ pc = "restore"
    BY <2>1, LiveInHand DEF JournalInv, Matches
  <2>3. live[f] \in {change.before, change.after}
    BY <2>1, <2>2 DEF JournalInv, LiveOK
  <2>4. QED
    BY <2>2, <2>3
<1>2. QED
  BY <1>1, JournalInvariant, PTL DEF Spec, UnknownNeverOverwritten

-----------------------------------------------------------------------------
(* The refinement of AtomicStore.                                          *)

(* Logical, for given contents and records: the proofs speak of it before  *)
(* and after a step.                                                       *)
Open(rs) == {i \in DOMAIN rs : rs[i].status = "prepared"}
Seen(ls, rs, f) ==
    LET interrupted == {i \in Open(rs) : rs[i].file = f /\ rs[i].after = ls[f]}
    IN  IF interrupted = {} THEN ls[f] ELSE rs[Min(interrupted)].before
SameStore == \A f \in Files : Logical(f)' = Logical(f)

(* They are the two, before and after a step.                              *)
LEMMA LogicalIsSeen ==
    /\ \A f \in Files : Logical(f) = Seen(live, records, f)
    /\ \A f \in Files : Logical(f)' = Seen(live', records', f)
    /\ Prepared = Open(records) /\ Prepared' = Open(records')
  BY DEF Logical, Seen, Open, Prepared, WithStatus

(* With at most one prepared record, its base is seen where its candidate  *)
(* is live, and the live content elsewhere.                                *)
LEMMA SeenOfOne ==
    ASSUME NEW ls, NEW rs, DOMAIN rs \subseteq Nat, \A i, j \in Open(rs) : i = j, NEW f
    PROVE  /\ \A i \in Open(rs) : rs[i].file = f /\ rs[i].after = ls[f]
                                  => Seen(ls, rs, f) = rs[i].before
           /\ (\A i \in Open(rs) : ~(rs[i].file = f /\ rs[i].after = ls[f]))
              => Seen(ls, rs, f) = ls[f]
<1> DEFINE I == {i \in Open(rs) : rs[i].file = f /\ rs[i].after = ls[f]}
<1>1. ASSUME NEW i \in Open(rs), rs[i].file = f /\ rs[i].after = ls[f]
      PROVE  Seen(ls, rs, f) = rs[i].before
  <2>1. i \in I /\ I \in SUBSET Nat
    BY <1>1 DEF Open
  <2>2. Min(I) \in I
    BY <2>1, MinIsMember
  <2>3. Min(I) = i
    BY <2>2
  <2>4. QED
    BY <2>1, <2>3 DEF Seen
<1>2. ASSUME \A i \in Open(rs) : ~(rs[i].file = f /\ rs[i].after = ls[f])
      PROVE  Seen(ls, rs, f) = ls[f]
  BY <1>2 DEF Seen
<1>3. QED
  BY <1>1, <1>2

(* While the file of that record has its base, the live contents are what  *)
(* is seen.                                                                *)
LEMMA SeenAtBase ==
    ASSUME NEW ls, NEW rs, DOMAIN rs \subseteq Nat, NEW i, Open(rs) \subseteq {i},
           i \in Open(rs) => ls[rs[i].file] = rs[i].before, NEW f
    PROVE  Seen(ls, rs, f) = ls[f]
<1>1. \A j, k \in Open(rs) : j = k
  OBVIOUS
<1>2. CASE \E j \in Open(rs) : rs[j].file = f /\ rs[j].after = ls[f]
  <2>1. i \in Open(rs) /\ rs[i].file = f /\ rs[i].after = ls[f]
    BY <1>2
  <2>2. Seen(ls, rs, f) = rs[i].before
    BY <1>1, <2>1, SeenOfOne
  <2>3. QED
    BY <2>1, <2>2
<1>3. CASE ~\E j \in Open(rs) : rs[j].file = f /\ rs[j].after = ls[f]
  BY <1>1, <1>3, SeenOfOne
<1>4. QED
  BY <1>2, <1>3

(* Nothing changes in the store when nothing changes on disk ...           *)
LEMMA SameDisk ==
    ASSUME UNCHANGED <<live, records>>
    PROVE  SameStore
  BY LogicalIsSeen DEF SameStore

(* ... or when a record is resolved whose file has its base.               *)
LEMMA ResolvedAtBase ==
    ASSUME TypeOK, RecordsOK, NEW i \in DOMAIN records, StatusStep(i), Prepared \subseteq {i},
           live[records[i].file] = records[i].before
    PROVE  SameStore
<1>1. /\ live' = live /\ DOMAIN records' = DOMAIN records
      /\ records'[i].file = records[i].file
      /\ records'[i].before = records[i].before
      /\ Prepared' \subseteq {i}
  BY StatusStepTypes, StatusStepRecords, StatusStepPrepared
<1>2. DOMAIN records \subseteq Nat
  BY DEF TypeOK, Ids
<1>3. ASSUME NEW f \in Files
      PROVE  Logical(f)' = Logical(f)
  <2>1. Seen(live, records, f) = live[f]
    BY <1>2, SeenAtBase, LogicalIsSeen
  <2>2. Seen(live', records', f) = live'[f]
    BY <1>1, <1>2, SeenAtBase, LogicalIsSeen
  <2>3. QED
    BY <1>1, <2>1, <2>2, LogicalIsSeen
<1>4. QED
  BY <1>3 DEF SameStore

(* Steps that neither open nor close an attempt and keep the store are not *)
(* steps of AtomicStore.                                                   *)
LEMMA StoreStutters ==
    ASSUME SameStore, UNCHANGED outcome,
           UNCHANGED change \/ \A f \in Files : outcome[f] # "open"
    PROVE  UNCHANGED Store!asVars
  BY DEF SameStore, Store!asVars

(* Closing an attempt with rejected or unknown, the store as it was, is    *)
(* its Keep.                                                               *)
LEMMA StoreKeeps ==
    ASSUME TypeOK, OpenOK, SameStore, NEW f \in Files, f = change.file, outcome[f] = "open",
           NEW o \in {"rejected", "unknown"}, outcome' = [outcome EXCEPT ![f] = o]
    PROVE  Store!Next
<1>1. [g \in Files |-> IF outcome[g] = "open" THEN change.after ELSE None]'
      = [[g \in Files |-> IF outcome[g] = "open" THEN change.after ELSE None]
            EXCEPT ![f] = None]
  BY DEF TypeOK, OpenOK
<1>2. Store!Keep(f)
  BY <1>1 DEF Store!Keep, Store!Close, SameStore
<1>3. QED
  BY <1>2 DEF Store!Next

(* Leaving a promotion or a recovery is therefore a Keep or nothing.       *)
LEMMA StoreLeaves ==
    ASSUME TypeOK, HandOK, PromptOK, OpenOK, Prompt, SameStore,
           NEW o \in {"rejected", "unknown"}, Settle(o)
    PROVE  Store!Next \/ UNCHANGED Store!asVars
<1>1. CASE Promoting
  <2>1. change.file \in Files /\ outcome[change.file] = "open"
    BY <1>1 DEF HandOK, Changes, PromptOK
  <2>2. PICK f \in Files : f = change.file
    BY <2>1
  <2>3. outcome' = [outcome EXCEPT ![f] = o]
    BY <2>1, <2>2 DEF Settle, TypeOK
  <2>4. QED
    BY <2>1, <2>2, <2>3, StoreKeeps
<1>2. CASE ~Promoting
  <2>1. \A f \in Files : outcome[f] # "open"
    BY <1>2 DEF OpenOK
  <2>2. outcome' = outcome
    BY <2>1 DEF Settle, TypeOK
  <2>3. QED
    BY <2>1, <2>2, StoreStutters
<1>3. QED
  BY <1>1, <1>2

(* Begin is Attempt, the commit mark is Promote, every other way out of a  *)
(* promotion, crashes included, is Keep, an edit by somebody else is Edit, *)
(* and all other steps are invisible.                                      *)
LEMMA StoreStep ==
    ASSUME JournalInv, JournalInv', [Next]_vars, Prompt,
           env.edits \cap {"replace", "restore", "health", "commit"} = {}
    PROVE  Store!Next \/ UNCHANGED Store!asVars
<1> USE DEF JournalInv, Promoting, Preparing, Trying, RollingBack, Recovering, Then, Goto,
            Quiet, memory, disk
<1>0. /\ DOMAIN records \subseteq Nat
      /\ \A i, j \in Open(records) : i = j
      /\ \A i, j \in Open(records') : i = j
  BY LogicalIsSeen DEF TypeOK, Ids, PromptOK, Prompt, Next, vars
<1>1. ASSUME UNCHANGED <<live, records, outcome, change>>
      PROVE  UNCHANGED Store!asVars
  BY <1>1, SameDisk, StoreStutters
<1>2. ASSUME SameStore, RollbackRaises
      PROVE  Store!Next \/ UNCHANGED Store!asVars
  <2>1. CASE pc' = "undo" /\ Quiet
    BY <1>2, <2>1, StoreStutters
  <2>2. CASE Leave("safe", "unknown") \/ Leave("refused", "unknown")
    BY <1>2, <2>2, StoreLeaves DEF Leave
  <2>3. QED
    BY <1>2, <2>1, <2>2, RaisesEffect
<1>3. ASSUME SameStore, RollbackDone
      PROVE  Store!Next \/ UNCHANGED Store!asVars
  BY <1>3, DoneEffect, StoreLeaves DEF Leave
<1>4. CASE Recovery
  <2>0. \A f \in Files : outcome[f] # "open"
    BY <1>4 DEF Recovery, Start, RecoveryDone, RecoverAbort, RecoverRollback, RecoverRefuse,
                OpenOK
  <2>1. CASE RecoverAbort
    <3>1. StatusStep(Min(Prepared)) /\ Min(Prepared) \in Prepared
      BY <2>1, OldestPrepared DEF RecoverAbort, Writes, StatusStep, Terminal
    <3>2. PICK i \in DOMAIN records : i = Min(Prepared)
      BY <3>1 DEF Prepared, WithStatus
    <3>3. /\ StatusStep(i) /\ Prepared \subseteq {i}
          /\ live[records[i].file] = records[i].before
      BY <2>1, <3>1, <3>2 DEF RecoverAbort, PromptOK
    <3>4. outcome' = outcome
      BY <2>1 DEF RecoverAbort, Writes
    <3>5. QED
      BY <2>0, <3>3, <3>4, ResolvedAtBase, StoreStutters
  <2>2. CASE Start \/ RecoveryDone \/ RecoverRefuse \/ RecoverRollback
    BY <2>0, <2>2, SameDisk, StoreStutters DEF Start, RecoveryDone, RecoverRefuse,
                                               RecoverRollback
  <2>3. QED
    BY <1>4, <2>1, <2>2 DEF Recovery
<1>5. CASE Prepare
  <2>0. Prepared = {} /\ change \in Changes
    BY <1>5 DEF Prepare, Room, NoRoom, Evict, EvictBackup, WriteBackup, WriteMetadata, Sweep,
                PromptOK, HandOK
  <2>1. CASE WriteMetadata
    <3>0. UNCHANGED <<outcome, change>>
      BY <2>1 DEF WriteMetadata
    <3>1. CASE UNCHANGED disk
      BY <3>0, <3>1, <1>1
    <3>2. CASE SetRecord(change.id, [file |-> change.file, before |-> change.before,
                                     after |-> change.after, status |-> "prepared"])
      <4>1. /\ live' = live /\ Open(records') \subseteq {change.id}
            /\ DOMAIN records' = DOMAIN records \cup {change.id}
            /\ records'[change.id].file = change.file
            /\ records'[change.id].before = change.before
            /\ records'[change.id].after = change.after
            /\ DOMAIN records' \subseteq Nat
        BY <1>0, <2>0, <3>2 DEF SetRecord, Put, Prepared, WithStatus, Open, Changes, Ids
      <4>2. live[change.file] # change.before => change.after # live[change.file]
        BY <2>0, <2>1, JournalAssumption DEF WriteMetadata, LiveOK, Changes, Contents
      <4>3. ASSUME NEW f \in Files
            PROVE  Seen(live', records', f) = live[f]
        <5>1. CASE live[change.file] = change.before
          BY <4>1, <5>1, SeenAtBase
        <5>2. CASE live[change.file] # change.before
          BY <1>0, <4>1, <4>2, <5>2, SeenOfOne
        <5>3. QED
          BY <5>1, <5>2
      <4>4. \A f \in Files : Seen(live, records, f) = live[f]
        BY <1>0, <2>0, SeenOfOne, LogicalIsSeen
      <4>5. QED
        BY <3>0, <4>3, <4>4, LogicalIsSeen, StoreStutters DEF SameStore
    <3>3. QED
      BY <2>1, <3>1, <3>2 DEF WriteMetadata, Writes, Prompt, IOFaults
  <2>2. CASE Evict
    <3>1. Open(records') = {} /\ live' = live /\ DOMAIN records' \subseteq Nat
      BY <1>0, <2>0, <2>2 DEF Evict, Sweep, Restrict, Prepared, WithStatus, Open
    <3>2. \A f \in Files : Seen(live', records', f) = live'[f]
      BY <3>1, SeenOfOne
    <3>3. \A f \in Files : Seen(live, records, f) = live[f]
      BY <1>0, <2>0, SeenOfOne, LogicalIsSeen
    <3>4. UNCHANGED <<outcome, change>>
      BY <2>2 DEF Evict
    <3>5. QED
      BY <3>1, <3>2, <3>3, <3>4, LogicalIsSeen, StoreStutters DEF SameStore
  <2>3. CASE Room \/ NoRoom \/ EvictBackup \/ WriteBackup
    BY <2>3, <1>1 DEF Room, NoRoom, Sweep, EvictBackup, WriteBackup
  <2>4. QED
    BY <1>5, <2>1, <2>2, <2>3 DEF Prepare
<1>6. CASE Recheck \/ Verify \/ Health
  BY <1>6, <1>1 DEF Recheck, Verify, Health
<1>7. ASSUME Replace \/ Restore, live' # live
      PROVE  UNCHANGED Store!asVars
  <2>0. change \in Changes /\ Matches /\ change.id \in Open(records) /\ records' = records
    BY <1>7, LiveInHand, LogicalIsSeen DEF Replace, Restore, Writes, SetLive, HandOK
  <2>1. Open(records) \subseteq {change.id}
    BY <1>0, <2>0
  <2>2. UNCHANGED <<outcome, change>>
    BY <1>7 DEF Replace, Restore, Writes, Prompt, IOFaults
  <2>3. CASE Replace
    <3>1. /\ live' = [live EXCEPT ![change.file] = change.after]
          /\ live[change.file] = change.before
      BY <1>7, <2>3 DEF Replace, Writes, SetLive, LiveOK
    <3>2. \A f \in Files : Seen(live, records, f) = live[f]
      BY <1>0, <2>0, <2>1, <3>1, SeenAtBase DEF Matches
    <3>3. ASSUME NEW f \in Files
          PROVE  Seen(live', records', f) = live[f]
      <4>1. CASE f = change.file
        <5>1. live'[f] = change.after
          BY <3>1, <4>1 DEF TypeOK
        <5>2. /\ records[change.id].file = f
              /\ records[change.id].after = live'[f]
              /\ records[change.id].before = live[f]
          BY <2>0, <3>1, <4>1, <5>1 DEF Matches
        <5>3. Seen(live', records, f) = records[change.id].before
          BY <1>0, <2>0, <5>2, SeenOfOne
        <5>4. QED
          BY <2>0, <5>2, <5>3
      <4>2. CASE f # change.file
        <5>1. live'[f] = live[f]
          BY <3>1, <4>2 DEF TypeOK
        <5>2. QED
          BY <1>0, <2>0, <2>1, <4>2, <5>1, SeenOfOne DEF Matches
      <4>3. QED
        BY <4>1, <4>2
    <3>4. QED
      BY <2>2, <3>2, <3>3, LogicalIsSeen, StoreStutters DEF SameStore
  <2>4. CASE Restore
    <3>1. /\ live' = [live EXCEPT ![change.file] = change.before]
          /\ live[change.file] = change.after
      BY <1>7, <2>0, <2>4 DEF Restore, Writes, SetLive, LiveOK, Matches, BackupsOK,
                              BackupsComplete
    <3>2. live'[change.file] = change.before
      BY <2>0, <3>1 DEF TypeOK, Changes
    <3>3. \A f \in Files : Seen(live', records', f) = live'[f]
      BY <1>0, <2>0, <2>1, <3>2, SeenAtBase DEF Matches
    <3>4. ASSUME NEW f \in Files
          PROVE  Seen(live, records, f) = live'[f]
      <4>1. CASE f = change.file
        BY <1>0, <2>0, <3>1, <3>2, <4>1, SeenOfOne DEF Matches
      <4>2. CASE f # change.file
        <5>1. live'[f] = live[f]
          BY <3>1, <4>2 DEF TypeOK
        <5>2. QED
          BY <1>0, <2>0, <2>1, <4>2, <5>1, SeenOfOne DEF Matches
      <4>3. QED
        BY <4>1, <4>2
    <3>5. QED
      BY <2>2, <3>3, <3>4, LogicalIsSeen, StoreStutters DEF SameStore
  <2>5. QED
    BY <1>7, <2>3, <2>4
<1>8. CASE Replace
  <2>1. CASE live' = live
    BY <1>8, <2>1, <1>1 DEF Replace, Writes, SetLive
  <2>2. QED
    BY <1>8, <1>7, <2>1
<1>9. CASE Commit
  <2>1. CASE UNCHANGED disk /\ Then("undo")
    BY <2>1, <1>1
  <2>2. CASE Resolve(change.id, "committed") /\ Leave("idle", "promoted")
    <3>1. /\ Matches /\ change \in Changes /\ Prepared = {change.id}
          /\ outcome[change.file] = "open"
          /\ live[change.file] = change.after
      BY <1>9 DEF Commit, HandOK, RecordsOK, Matches, PromptOK, Prepared, WithStatus, LiveOK
    <3>2. /\ live' = live /\ Open(records') = {} /\ DOMAIN records' \subseteq Nat
      BY <1>0, <2>2, <3>1, ResolveEffect, LogicalIsSeen DEF Matches, Terminal
    <3>3. PICK f \in Files : f = change.file
      BY <3>1 DEF Changes
    <3>4. \A g \in Files : Logical(g)' = live[g]
      BY <3>2, SeenOfOne, LogicalIsSeen
    <3>5. \A g \in Files : g # f => Logical(g) = live[g]
      BY <1>0, <3>1, <3>3, SeenOfOne, LogicalIsSeen DEF Matches
    <3>6. [g \in Files |-> Logical(g)]' = [[g \in Files |-> Logical(g)] EXCEPT ![f] = change.after]
      BY <3>1, <3>3, <3>4, <3>5
    <3>7. outcome' = [outcome EXCEPT ![f] = "promoted"]
      BY <2>2, <3>1, <3>3 DEF Leave, Settle, TypeOK
    <3>8. [g \in Files |-> IF outcome[g] = "open" THEN change.after ELSE None]'
          = [[g \in Files |-> IF outcome[g] = "open" THEN change.after ELSE None]
                EXCEPT ![f] = None]
      BY <3>3, <3>7 DEF TypeOK, OpenOK
    <3>9. Store!Promote(f)
      BY <3>1, <3>3, <3>6, <3>7, <3>8 DEF Store!Promote, Store!Close
    <3>10. QED
      BY <3>9 DEF Store!Next
  <2>3. QED
    BY <1>9, <2>1, <2>2 DEF Commit, Prompt, IOFaults
<1>10. CASE Rollback \/ RestoreDamaged
  <2>1. CASE Then("restore")
    BY <1>10, <2>1, <1>1 DEF Rollback, RestoreDamaged
  <2>2. CASE RollbackRaises
    BY <1>10, <2>2, <1>2, SameDisk DEF Rollback, RestoreDamaged
  <2>3. QED
    BY <1>10, <2>1, <2>2 DEF Rollback, RestoreDamaged
<1>11. CASE Restore
  <2>1. CASE live' = live /\ Then("mark")
    BY <1>11, <2>1, <1>1 DEF Restore, Writes, SetLive
  <2>2. CASE UNCHANGED disk /\ RollbackRaises
    BY <2>2, <1>2, SameDisk
  <2>3. QED
    BY <1>11, <1>7, <2>1, <2>2 DEF Restore, Writes, Prompt, IOFaults
<1>12. CASE MarkRolledBack
  <2>1. /\ Matches /\ Prepared \subseteq {change.id}
        /\ StatusStep(change.id)
        /\ live[change.file] = change.before
    BY <1>0, <1>12, LogicalIsSeen DEF MarkRolledBack, Writes, StatusStep, Terminal, HandOK,
                                      RecordsOK, Matches,
                       Prepared, WithStatus, Open
  <2>2. PICK i \in DOMAIN records : i = change.id
    BY <2>1 DEF Matches
  <2>3. SameStore
    BY <2>1, <2>2, ResolvedAtBase DEF Matches
  <2>4. QED
    BY <1>12, <1>2, <1>3, <2>3 DEF MarkRolledBack, Writes
<1>13. CASE UndoAbort
  <2>1. /\ Matches /\ Prepared \subseteq {change.id}
        /\ StatusStep(change.id)
        /\ live[change.file] = change.before
    BY <1>13 DEF UndoAbort, Writes, StatusStep, Terminal, HandOK, RecordsOK, Matches, PromptOK
  <2>2. PICK i \in DOMAIN records : i = change.id
    BY <2>1 DEF Matches
  <2>3. SameStore
    BY <2>1, <2>2, ResolvedAtBase DEF Matches
  <2>4. Settle("unknown")
    BY <1>13 DEF UndoAbort, Writes, Leave
  <2>5. QED
    BY <2>3, <2>4, StoreLeaves
<1>14. CASE UndoNothing \/ UndoUnknown
  BY <1>14, SameDisk, StoreLeaves DEF UndoNothing, UndoUnknown, Leave
<1>15. CASE UndoRollback
  BY <1>15, <1>1 DEF UndoRollback
<1>16. CASE Crash
  <2>1. SameStore
    BY <1>16, SameDisk DEF Crash
  <2>2. CASE \A f \in Files : outcome[f] # "open"
    <3>1. outcome' = outcome
      BY <1>16, <2>2 DEF Crash, TypeOK
    <3>2. QED
      BY <2>1, <2>2, <3>1, StoreStutters
  <2>3. CASE \E f \in Files : outcome[f] = "open"
    <3>1. PICK f \in Files : outcome[f] = "open"
      BY <2>3
    <3>2. f = change.file /\ \A g \in Files : outcome[g] = "open" => g = f
      BY <3>1 DEF OpenOK
    <3>3. outcome' = [outcome EXCEPT ![f] = "unknown"]
      BY <1>16, <3>1, <3>2 DEF Crash, TypeOK
    <3>4. QED
      BY <2>1, <3>1, <3>2, <3>3, StoreKeeps
  <2>4. QED
    BY <2>2, <2>3
<1>17. CASE \E f \in Files, v \in Versions : Begin(f, v)
  <2>1. PICK f \in Files, v \in Versions : Begin(f, v)
    BY <1>17
  <2>2. SameStore
    BY <2>1, SameDisk DEF Begin
  <2>3. \A g \in Files : outcome[g] # "open"
    BY <2>1 DEF Begin, OpenOK
  <2>4. outcome' = [outcome EXCEPT ![f] = "open"] /\ change'.after = v
    BY <2>1 DEF Begin
  <2>5. [g \in Files |-> IF outcome[g] = "open" THEN change.after ELSE None]'
        = [[g \in Files |-> IF outcome[g] = "open" THEN change.after ELSE None] EXCEPT ![f] = v]
    BY <2>3, <2>4 DEF TypeOK
  <2>6. Store!Attempt(f, v)
    BY <2>2, <2>3, <2>4, <2>5 DEF Store!Attempt, SameStore
  <2>7. v \in Contents
    BY DEF Contents
  <2>8. QED
    BY <2>6, <2>7 DEF Store!Next
<1>18. CASE \E f \in Files, v \in Foreign : Edit(f, v)
  <2>1. PICK f \in Files, v \in Foreign : Edit(f, v)
    BY <1>18
  <2>2. /\ \A g \in Files : live'[g] = IF g = f THEN v ELSE live[g]
        /\ UNCHANGED <<records, outcome, change>>
    BY <2>1 DEF Edit, SetLive, TypeOK
  <2>3. \A i \in Open(records) : records[i].after # v
    BY JournalAssumption DEF Open, RecordsOK
  <2>4. Seen(live', records', f) = v
    BY <1>0, <2>2, <2>3, SeenOfOne
  <2>5. ASSUME NEW g \in Files, g # f
        PROVE  Seen(live', records', g) = Seen(live, records, g)
    BY <2>2, <2>5 DEF Seen
  <2>6. [g \in Files |-> Logical(g)]' = [[g \in Files |-> Logical(g)] EXCEPT ![f] = v]
    BY <2>4, <2>5, LogicalIsSeen
  <2>7. Store!Edit(f, v)
    BY <2>2, <2>6 DEF Store!Edit
  <2>8. QED
    BY <2>7 DEF Store!Next
<1>19. CASE UNCHANGED vars
  BY <1>19, <1>1 DEF vars
<1>20. QED
  BY <1>4, <1>5, <1>6, <1>8, <1>9, <1>10, <1>11, <1>12, <1>13, <1>14, <1>15, <1>16, <1>17,
     <1>18, <1>19
     DEF Next, Promote, Unwind

(* Seen through recovery a promotion is atomic and its answer is true,     *)
(* unless a write raises late, and if nobody edits between a comparison    *)
(* and the write that relies on it.  The hypothesis speaks of the          *)
(* environments without late faults only: the others are exempt in         *)
(* ImplementsStore.                                                        *)
THEOREM JournalImplementsStore ==
    ASSUME \A e \in Environments : \/ "late" \in e.faults
                                   \/ e.edits \cap {"replace", "restore", "health", "commit"} = {}
    PROVE  Spec => ImplementsStore
<1>1. Init => Store!Init
  <2> SUFFICES ASSUME Init
               PROVE  Store!Init
    OBVIOUS
  <2>1. \A f \in Files : Logical(f) = live[f]
    BY DEF Init, Logical, Prepared, WithStatus
  <2>2. [f \in Files |-> Logical(f)] \in [Files -> Contents]
    BY <2>1 DEF Init, Contents
  <2>3. QED
    BY <2>2 DEF Init, Store!Init
<1>2. JournalInv /\ JournalInv' /\ [Next]_vars => [Prompt => Store!Next]_<<Store!asVars, env>>
  <2> SUFFICES ASSUME JournalInv, JournalInv', [Next]_vars, Prompt
               PROVE  Store!Next \/ UNCHANGED <<Store!asVars, env>>
    OBVIOUS
  <2>1. env' = env /\ env.edits \cap {"replace", "restore", "health", "commit"} = {}
    BY DEF Next, vars, JournalInv, TypeOK, Prompt
  <2>2. QED
    BY <2>1, StoreStep
<1>3. QED
  BY <1>1, <1>2, JournalInvariant, PTL DEF Spec, ImplementsStore

-----------------------------------------------------------------------------
(* FailureCapture: the inductive invariant.                                *)

Held == {w \in Writers : in_hand[w] # Unset}

(* A writer that holds a failure lives, and a daemon told to stop accepts  *)
(* nothing.                                                                *)
WritersOK ==
    /\ \A w \in Writers : in_hand[w] # Unset => writer[w] = "alive"
    /\ \A w \in Writers : written[w] => in_hand[w] # Unset
    /\ stop_requested => ~accepting

(* What has been submitted has its time.                                   *)
StampsOK ==
    /\ \A f \in Range(queue) \cup Range(db) \cup lost : stamp[f] # Unset
    /\ \A w \in Held : stamp[in_hand[w]] # Unset

(* The cursor is the cutoff of an earlier cycle, and what the cycle under  *)
(* way has not seen is not older than its cutoff, or late.                 *)
CursorOK ==
    /\ cursor <= cutoff /\ cutoff <= clock
    /\ OnlyLateIsSkipped
    /\ cycle = "work" =>
          \A f \in Range(db) : stamp[f] < cutoff => f \in mined \cup late

(* As long as no writer has been forgotten the daemon knows the one that   *)
(* lives, which counts down for itself; and there is one, or nothing to do.*)
CounterOK ==
    ~forgotten =>
        /\ Alive \subseteq {thread}
        /\ \/ Held = {} /\ unfinished_tasks = Len(queue)
           \/ \E w \in Writers : Held = {w} /\ unfinished_tasks = Len(queue) + 1
        /\ Alive = {} => queue = <<>> /\ ~accepting

(* An accepted failure is committed or lost, or queued, or in a writer's   *)
(* hands and not yet through.                                              *)
Through(f) == f \in stored \cup lost
Accounted(f) ==
    \/ Through(f)
    \/ f \in Range(queue)
    \/ \E w \in Writers : in_hand[w] = f /\ ~written[w]

AccountOK ==
    /\ \A f \in accepted : Accounted(f)
    /\ \A c \in Controllers : \A f \in due[c] : Accounted(f)
    /\ ~writer_error => lost \cap accepted = {}

(* Whoever is about to return without an exception has nothing under way.  *)
Relies(c) ==
    \/ call[c] \in {"reading", "clearing"}
    \/ call[c] = "joining" /\ joined[c] \notin Alive

PromiseOK ==
    ~forgotten =>
        /\ thread = Unset => accepted \subseteq stored
        /\ \A c \in Controllers : Relies(c) => \A f \in due[c] : Through(f)

CaptureInv == CaptureTypeOK /\ WritersOK /\ StampsOK /\ CursorOK /\ CounterOK
              /\ AccountOK /\ PromiseOK

-----------------------------------------------------------------------------
(* Queues and tables.                                                      *)

LEMMA CaptureBounds ==
    /\ Capacity \in Nat \ {0} /\ MaxFailureRecords \in Nat \ {0} /\ MaxTime \in Nat
    /\ \A f \in Failures : f # Unset
    /\ \A w \in Writers : w # Unset
    /\ \A n \in Nat : n # Unset
  BY CaptureAssumption

LEMMA RowTaken ==
    ASSUME NEW S, NEW s \in Seq(S), s # <<>>
    PROVE  /\ Head(s) \in S /\ Tail(s) \in Seq(S)
           /\ Len(s) \in Nat /\ Len(Tail(s)) \in Nat /\ Len(s) = Len(Tail(s)) + 1
           /\ \A x \in Range(s) : x = Head(s) \/ x \in Range(Tail(s))
           /\ \A x \in Range(Tail(s)) : x \in Range(s)
           /\ Head(s) \in Range(s)
<1>1. /\ Len(s) \in Nat /\ Len(s) >= 1 /\ Tail(s) \in Seq(S) /\ Len(Tail(s)) = Len(s) - 1
      /\ \A i \in 1 .. Len(s) - 1 : Tail(s)[i] = s[i + 1]
      /\ Head(s) = s[1] /\ DOMAIN s = 1 .. Len(s) /\ DOMAIN Tail(s) = 1 .. Len(s) - 1
  OBVIOUS
<1>2. \A x \in Range(s) : x = Head(s) \/ x \in Range(Tail(s))
  <2>1. SUFFICES ASSUME NEW i \in 1 .. Len(s), i # 1 PROVE s[i] \in Range(Tail(s))
    BY <1>1 DEF Range
  <2>2. i - 1 \in 1 .. Len(s) - 1 /\ Tail(s)[i - 1] = s[i]
    BY <1>1, <2>1
  <2>3. QED
    BY <1>1, <2>2 DEF Range
<1>3. \A x \in Range(Tail(s)) : x \in Range(s)
  BY <1>1 DEF Range
<1>4. Head(s) \in Range(s)
  BY <1>1 DEF Range
<1>5. QED
  BY <1>1, <1>2, <1>3, <1>4

LEMMA RowPut ==
    ASSUME NEW S, NEW s \in Seq(S), NEW x \in S
    PROVE  /\ Append(s, x) \in Seq(S)
           /\ Len(s) \in Nat /\ Len(Append(s, x)) = Len(s) + 1
           /\ \A y \in Range(Append(s, x)) : y = x \/ y \in Range(s)
           /\ \A y \in Range(s) : y \in Range(Append(s, x))
           /\ x \in Range(Append(s, x))
<1>1. /\ Len(s) \in Nat /\ Append(s, x) \in Seq(S) /\ Len(Append(s, x)) = Len(s) + 1
      /\ \A i \in 1 .. Len(s) : Append(s, x)[i] = s[i]
      /\ Append(s, x)[Len(s) + 1] = x
      /\ DOMAIN s = 1 .. Len(s) /\ DOMAIN Append(s, x) = 1 .. Len(s) + 1
  OBVIOUS
<1>2. QED
  BY <1>1 DEF Range

LEMMA NoRows == Range(<<>>) = {} /\ Len(<<>>) = 0
  BY DEF Range

LEMMA RetainedEffect ==
    ASSUME NEW rows \in Seq(Failures)
    PROVE  /\ Retained(rows) \in Seq(Failures) /\ Len(Retained(rows)) <= MaxFailureRecords
           /\ \A f \in Range(Retained(rows)) : f \in Range(rows)
<1>1. Len(rows) \in Nat /\ DOMAIN rows = 1 .. Len(rows)
  OBVIOUS
<1>2. CASE Len(rows) <= MaxFailureRecords
  BY <1>2 DEF Retained
<1>3. CASE ~(Len(rows) <= MaxFailureRecords)
  <2> DEFINE m == Len(rows) - MaxFailureRecords + 1
  <2> DEFINE s == SubSeq(rows, m, Len(rows))
  <2>1. /\ m \in 1 .. Len(rows) + 1 /\ Len(rows) \in m - 1 .. Len(rows)
        /\ m \in Int /\ Len(rows) - m + 1 = MaxFailureRecords
        /\ \A i \in 1 .. MaxFailureRecords : m + i - 1 \in 1 .. Len(rows)
    BY <1>1, <1>3, CaptureBounds
  <2> HIDE DEF m
  <2>2. /\ s \in Seq(Failures) /\ Len(s) = MaxFailureRecords
        /\ \A i \in 1 .. Len(s) : s[i] = rows[m + i - 1]
    BY <2>1, SubSeqProperties
  <2>3. DOMAIN s = 1 .. MaxFailureRecords
    BY <2>2
  <2>4. Retained(rows) = s
    BY <1>3 DEF Retained, m
  <2> HIDE DEF s
  <2>5. \A f \in Range(s) : f \in Range(rows)
    <3>1. SUFFICES ASSUME NEW i \in 1 .. MaxFailureRecords PROVE s[i] \in Range(rows)
      BY <2>3 DEF Range
    <3>2. s[i] = rows[m + i - 1] /\ m + i - 1 \in 1 .. Len(rows)
      BY <2>1, <2>2, <3>1
    <3>3. QED
      BY <1>1, <3>2 DEF Range
  <2>6. QED
    BY <2>2, <2>4, <2>5, CaptureBounds
<1>4. QED
  BY <1>2, <1>3

-----------------------------------------------------------------------------
(* Types.                                                                  *)

Handlers(c) == StopRequest(c) \/ StopJoin(c) \/ StopClear(c)
               \/ FlushBegin(c) \/ FlushWait(c) \/ FlushEnd(c)
Cycles == Advance \/ CycleBegin \/ CycleQuery \/ CycleRaises \/ CycleEnd
CaptureStep ==
    \/ \E c \in Controllers, w \in Writers : StartDaemon(c, w)
    \/ \E c \in Controllers : Handlers(c)
    \/ \E f \in Failures : Submit(f) \/ Reject(f)
    \/ \E w \in Writers : Write(w)
    \/ Cycles

LEMMA TypesByHandlers ==
    ASSUME CaptureTypeOK, NEW c \in Controllers, Handlers(c), UNCHANGED use
    PROVE  CaptureTypeOK'
<1>1. CASE StopRequest(c)
  BY <1>1 DEF CaptureTypeOK, StopRequest, Resting, backlog, stats, writers, epoch, table, mining
<1>2. CASE StopJoin(c)
  BY <1>2 DEF CaptureTypeOK, StopJoin, Ends, Resting, daemon, backlog, stats, writers, epoch,
              table, mining
<1>3. CASE StopClear(c)
  BY <1>3 DEF CaptureTypeOK, StopClear, Ends, Resting, backlog, stats, writers, epoch, table,
              mining
<1>4. CASE FlushBegin(c)
  BY <1>4 DEF CaptureTypeOK, FlushBegin, Resting, daemon, backlog, stats, writers, epoch,
              table, mining
<1>5. CASE FlushWait(c)
  BY <1>5 DEF CaptureTypeOK, FlushWait, Ends, Resting, daemon, backlog, stats, writers, epoch,
              table, mining
<1>6. CASE FlushEnd(c)
  BY <1>6 DEF CaptureTypeOK, FlushEnd, Ends, Resting, daemon, backlog, stats, writers, epoch,
              table, mining
<1>7. QED
  BY <1>1, <1>2, <1>3, <1>4, <1>5, <1>6 DEF Handlers

LEMMA TypesStep ==
    ASSUME CaptureTypeOK, CaptureStep, UNCHANGED use
    PROVE  CaptureTypeOK'
<1>1. ASSUME NEW c \in Controllers, NEW w \in Writers, StartDaemon(c, w) PROVE CaptureTypeOK'
  <2>1. Range(queue) \subseteq Failures
    BY DEF CaptureTypeOK, Range
  <2>2. queue' \in Seq(Failures) /\ Len(queue') <= Capacity
    BY <1>1, CaptureBounds, NoRows DEF StartDaemon
  <2>3. QED
    BY <1>1, <2>1, <2>2 DEF CaptureTypeOK, StartDaemon, Ends, Resting, stats, table, mining
<1>2. ASSUME NEW f \in Failures, Submit(f) PROVE CaptureTypeOK'
  <2>1. queue' \in Seq(Failures) /\ Len(queue') <= Capacity
    <3>1. Append(queue, f) \in Seq(Failures) /\ Len(Append(queue, f)) = Len(queue) + 1
          /\ Len(queue) \in Nat
      BY RowPut DEF CaptureTypeOK
    <3>2. QED
      BY <1>2, <3>1, CaptureBounds DEF Submit, CaptureTypeOK
  <2>2. QED
    BY <1>2, <2>1, CaptureBounds
    DEF CaptureTypeOK, Submit, Stamp, daemon, writers, controllers, table, mining
<1>3. ASSUME NEW f \in Failures, Reject(f) PROVE CaptureTypeOK'
  BY <1>3, CaptureBounds
  DEF CaptureTypeOK, Reject, Stamp, daemon, backlog, writers, controllers, epoch, table, mining
<1>4. ASSUME NEW w \in Writers, Take(w) PROVE CaptureTypeOK'
  <2>1. queue' \in Seq(Failures) /\ Len(queue') <= Capacity /\ Head(queue) \in Failures
    <3>1. queue \in Seq(Failures) /\ queue # <<>>
      BY <1>4 DEF CaptureTypeOK, Take
    <3>2. /\ Head(queue) \in Failures /\ Tail(queue) \in Seq(Failures)
          /\ Len(queue) \in Nat /\ Len(Tail(queue)) \in Nat /\ Len(queue) = Len(Tail(queue)) + 1
      BY <3>1, RowTaken
    <3>3. QED
      BY <1>4, <3>2, CaptureBounds DEF Take, CaptureTypeOK
  <2>2. QED
    BY <1>4, <2>1
    DEF CaptureTypeOK, Take, daemon, stats, controllers, epoch, table, mining
<1>5. ASSUME NEW w \in Writers, Record(w) PROVE CaptureTypeOK'
  <2>1. in_hand[w] \in Failures
    BY <1>5 DEF CaptureTypeOK, Record
  <2>2. Append(db, in_hand[w]) \in Seq(Failures)
    BY <2>1, RowPut DEF CaptureTypeOK
  <2>3. db' \in Seq(Failures) /\ Len(db') <= MaxFailureRecords
    BY <1>5, <2>2, RetainedEffect DEF Record
  <2>4. QED
    BY <1>5, <2>1, <2>3
    DEF CaptureTypeOK, Record, daemon, backlog, controllers, epoch, mining
<1>6. ASSUME NEW w \in Writers, RecordFails(w) PROVE CaptureTypeOK'
  BY <1>6
  DEF CaptureTypeOK, RecordFails, backlog, stats, controllers, table, mining
<1>7. ASSUME NEW w \in Writers, TaskDone(w) PROVE CaptureTypeOK'
  BY <1>7 DEF CaptureTypeOK, TaskDone, daemon, stats, controllers, epoch, table, mining
<1>8. ASSUME NEW w \in Writers, WriterExit(w) PROVE CaptureTypeOK'
  BY <1>8
  DEF CaptureTypeOK, WriterExit, daemon, backlog, stats, controllers, epoch, table, mining
<1>9. CASE Cycles
  <2>1. CaptureTypeOK /\ UNCHANGED elsewhere
    BY <1>9 DEF Cycles, Advance, CycleBegin, CycleQuery, CycleRaises, CycleEnd
  <2>2. /\ clock' \in 0 .. MaxTime /\ cursor' \in 0 .. MaxTime /\ cutoff' \in 0 .. MaxTime
        /\ cycle' \in {"idle", "query", "work"} /\ mined' \subseteq Failures
    <3>1. \A f \in Range(db) : f \in Failures
      BY DEF CaptureTypeOK, Range
    <3>2. CASE Advance
      <4>1. use.time \in 0 .. MaxTime
        BY CaptureAssumption DEF CaptureTypeOK
      <4>2. QED
        BY <3>2, <4>1, CaptureBounds DEF Advance, CaptureTypeOK, mining
    <3>3. CASE CycleBegin \/ CycleQuery \/ CycleRaises \/ CycleEnd
      BY <3>1, <3>3 DEF CycleBegin, CycleQuery, CycleRaises, CycleEnd, CaptureTypeOK
    <3>4. QED
      BY <1>9, <3>2, <3>3 DEF Cycles
  <2>3. QED
    BY <2>1, <2>2
    DEF CaptureTypeOK, elsewhere, daemon, backlog, stats, writers, controllers, epoch, table
<1>10. QED
  BY <1>1, <1>2, <1>3, <1>4, <1>5, <1>6, <1>7, <1>8, <1>9, TypesByHandlers
  DEF CaptureStep, Write

-----------------------------------------------------------------------------
(* The writers, and the time of what is under way.                         *)

LEMMA WritersStep ==
    ASSUME CaptureTypeOK, WritersOK, CaptureStep
    PROVE  WritersOK'
<1>1. ASSUME NEW c \in Controllers, NEW w \in Writers, StartDaemon(c, w) PROVE WritersOK'
  BY <1>1 DEF CaptureTypeOK, WritersOK, StartDaemon
<1>2. ASSUME NEW c \in Controllers, Handlers(c) PROVE WritersOK'
  <2>1. UNCHANGED writers
    BY <1>2 DEF Handlers, StopRequest, StopJoin, StopClear, FlushBegin, FlushWait, FlushEnd
  <2>2. stop_requested' => ~accepting'
    BY <1>2 DEF Handlers, StopRequest, StopJoin, StopClear, FlushBegin, FlushWait, FlushEnd,
                WritersOK, daemon
  <2>3. QED
    BY <2>1, <2>2 DEF WritersOK, writers
<1>3. ASSUME NEW f \in Failures, Submit(f) \/ Reject(f) PROVE WritersOK'
  BY <1>3 DEF WritersOK, Submit, Reject, daemon, writers
<1>4. ASSUME NEW w \in Writers, Take(w) PROVE WritersOK'
  BY <1>4 DEF CaptureTypeOK, WritersOK, Take, daemon
<1>5. ASSUME NEW w \in Writers, Record(w) PROVE WritersOK'
  BY <1>5 DEF CaptureTypeOK, WritersOK, Record, daemon
<1>6. ASSUME NEW w \in Writers, RecordFails(w) PROVE WritersOK'
  BY <1>6 DEF CaptureTypeOK, WritersOK, RecordFails
<1>7. ASSUME NEW w \in Writers, TaskDone(w) PROVE WritersOK'
  BY <1>7 DEF CaptureTypeOK, WritersOK, TaskDone, daemon
<1>8. ASSUME NEW w \in Writers, WriterExit(w) PROVE WritersOK'
  BY <1>8 DEF CaptureTypeOK, WritersOK, WriterExit, daemon
<1>9. CASE Cycles
  BY <1>9 DEF Cycles, Advance, CycleBegin, CycleQuery, CycleRaises, CycleEnd,
              elsewhere, WritersOK, daemon, writers
<1>10. QED
  BY <1>1, <1>2, <1>3, <1>4, <1>5, <1>6, <1>7, <1>8, <1>9 DEF CaptureStep, Write

LEMMA StampsStep ==
    ASSUME CaptureTypeOK, StampsOK, CaptureStep
    PROVE  StampsOK'
<1>0. \A f \in Range(queue) \cup Range(db) : f \in Failures
  BY DEF CaptureTypeOK, Range
<1>1. ASSUME NEW c \in Controllers, NEW w \in Writers, StartDaemon(c, w) PROVE StampsOK'
  <2>1. Range(queue') = {}
    BY <1>1, NoRows DEF StartDaemon
  <2>2. QED
    BY <1>1, <2>1 DEF StampsOK, StartDaemon, Held, table
<1>2. ASSUME NEW c \in Controllers, Handlers(c) PROVE StampsOK'
  BY <1>2 DEF Handlers, StopRequest, StopJoin, StopClear, FlushBegin, FlushWait, FlushEnd,
              StampsOK, Held, backlog, table, writers, epoch
<1>3. ASSUME NEW f \in Failures, stamp[f] = Unset, Stamp(f), UNCHANGED <<db, lost, in_hand>>,
             \A g \in Range(queue') : g = f \/ g \in Range(queue)
      PROVE  StampsOK'
  <2>1. \A g \in Failures : stamp'[g] = IF g = f THEN clock ELSE stamp[g]
    BY <1>3 DEF Stamp, CaptureTypeOK
  <2>2. clock # Unset
    BY CaptureBounds DEF CaptureTypeOK
  <2>3. \A g \in Failures : stamp[g] # Unset => stamp'[g] # Unset
    BY <2>1, <2>2
  <2>4. \A g \in Range(queue') : stamp'[g] # Unset
    BY <1>0, <1>3, <2>1, <2>2, <2>3 DEF StampsOK
  <2>5. \A g \in Range(db') \cup lost' : stamp'[g] # Unset
    BY <1>0, <1>3, <2>3 DEF StampsOK, CaptureTypeOK
  <2>6. \A w \in Held' : stamp'[in_hand'[w]] # Unset
    BY <1>3, <2>3 DEF StampsOK, Held, CaptureTypeOK
  <2>7. QED
    BY <2>4, <2>5, <2>6 DEF StampsOK
<1>4. ASSUME NEW f \in Failures, Submit(f) PROVE StampsOK'
  <2>1. \A g \in Range(queue') : g = f \/ g \in Range(queue)
    BY <1>4, RowPut DEF Submit, CaptureTypeOK
  <2>2. QED
    BY <1>3, <1>4, <2>1 DEF Submit, table, writers
<1>5. ASSUME NEW f \in Failures, Reject(f) PROVE StampsOK'
  BY <1>3, <1>5 DEF Reject, table, writers, epoch, backlog
<1>6. ASSUME NEW w \in Writers, Take(w) PROVE StampsOK'
  <2>1. /\ Head(queue) \in Range(queue)
        /\ \A g \in Range(queue') : g \in Range(queue)
    BY <1>6, RowTaken DEF Take, CaptureTypeOK
  <2>2. \A v \in Writers : in_hand'[v] = IF v = w THEN Head(queue) ELSE in_hand[v]
    BY <1>6 DEF Take, CaptureTypeOK
  <2>3. UNCHANGED <<db, lost, stamp>>
    BY <1>6 DEF Take, table, epoch
  <2>4. QED
    BY <2>1, <2>2, <2>3 DEF StampsOK, Held
<1>7. ASSUME NEW w \in Writers, Record(w) PROVE StampsOK'
  <2>1. in_hand[w] \in Failures /\ stamp[in_hand[w]] # Unset
    BY <1>7 DEF Record, StampsOK, Held, CaptureTypeOK
  <2>2. Append(db, in_hand[w]) \in Seq(Failures)
        /\ \A g \in Range(Append(db, in_hand[w])) : g = in_hand[w] \/ g \in Range(db)
    BY <2>1, RowPut DEF CaptureTypeOK
  <2>3. \A g \in Range(db') : g = in_hand[w] \/ g \in Range(db)
    BY <1>7, <2>2, RetainedEffect DEF Record
  <2>4. UNCHANGED <<queue, lost, in_hand, stamp>>
    BY <1>7 DEF Record, backlog, epoch
  <2>5. QED
    BY <2>1, <2>3, <2>4 DEF StampsOK, Held
<1>8. ASSUME NEW w \in Writers, RecordFails(w) PROVE StampsOK'
  BY <1>8 DEF RecordFails, StampsOK, Held, backlog, table
<1>9. ASSUME NEW w \in Writers, TaskDone(w) PROVE StampsOK'
  BY <1>9 DEF TaskDone, StampsOK, Held, table, epoch, CaptureTypeOK
<1>10. ASSUME NEW w \in Writers, WriterExit(w) PROVE StampsOK'
  BY <1>10 DEF WriterExit, StampsOK, Held, table, epoch, backlog
<1>11. CASE Cycles
  BY <1>11 DEF Cycles, Advance, CycleBegin, CycleQuery, CycleRaises, CycleEnd,
               elsewhere, StampsOK, Held, backlog, writers, epoch, table
<1>12. QED
  BY <1>1, <1>2, <1>4, <1>5, <1>6, <1>7, <1>8, <1>9, <1>10, <1>11 DEF CaptureStep, Write

-----------------------------------------------------------------------------
(* The cursor of the night cycle.                                          *)

LEMMA CursorStep ==
    ASSUME CaptureTypeOK, StampsOK, CursorOK, CaptureStep
    PROVE  CursorOK'
<1>0. /\ \A f \in Range(db) : f \in Failures /\ stamp[f] \in Nat
      /\ cursor \in Nat /\ cutoff \in Nat /\ clock \in Nat
  <2>1. \A f \in Range(db) : f \in Failures /\ stamp[f] # Unset
    BY DEF CaptureTypeOK, StampsOK, Range
  <2>2. QED
    BY <2>1, CaptureBounds DEF CaptureTypeOK
<1>1. ASSUME UNCHANGED <<db, stamp, late, clock, cursor, cutoff, cycle, mined>>
      PROVE  CursorOK'
  BY <1>1 DEF CursorOK, OnlyLateIsSkipped
<1>2. ASSUME NEW c \in Controllers, NEW w \in Writers, StartDaemon(c, w) PROVE CursorOK'
  BY <1>1, <1>2 DEF StartDaemon, table, mining
<1>3. ASSUME NEW c \in Controllers, Handlers(c) PROVE CursorOK'
  BY <1>1, <1>3 DEF Handlers, StopRequest, StopJoin, StopClear, FlushBegin, FlushWait, FlushEnd,
                    table, mining
<1>4. ASSUME NEW f \in Failures, Submit(f) \/ Reject(f) PROVE CursorOK'
  <2>1. stamp[f] = Unset /\ \A g \in Failures : g # f => stamp'[g] = stamp[g]
    BY <1>4 DEF Submit, Reject, Stamp, CaptureTypeOK
  <2>2. UNCHANGED <<db, late, clock, cursor, cutoff, cycle, mined>>
    BY <1>4 DEF Submit, Reject, table, mining
  <2>3. \A g \in Range(db) : stamp'[g] = stamp[g]
    BY <1>0, <2>1 DEF StampsOK
  <2>4. QED
    BY <2>2, <2>3 DEF CursorOK, OnlyLateIsSkipped
<1>5. ASSUME NEW w \in Writers, Record(w) PROVE CursorOK'
  <2> DEFINE f == in_hand[w]
  <2>1. f \in Failures /\ stamp[f] \in Nat
    <3>1. f \in Failures /\ stamp[f] # Unset
      BY <1>5 DEF Record, StampsOK, Held, CaptureTypeOK
    <3>2. QED
      BY <3>1, CaptureBounds DEF CaptureTypeOK
  <2>2. \A g \in Range(db') : g = f \/ g \in Range(db)
    <3>1. Append(db, f) \in Seq(Failures)
          /\ \A g \in Range(Append(db, f)) : g = f \/ g \in Range(db)
      BY <2>1, RowPut DEF CaptureTypeOK
    <3>2. QED
      BY <1>5, <3>1, RetainedEffect DEF Record
  <2>3. /\ UNCHANGED <<stamp, clock, cursor, cutoff, cycle, mined>>
        /\ \A g \in late : g \in late'
        /\ stamp[f] < (IF cycle = "work" THEN cutoff ELSE cursor) => f \in late'
    BY <1>5 DEF Record, mining
  <2> HIDE DEF f
  <2>4. \A g \in Range(db') : stamp[g] < cursor => g \in mined \cup late'
    BY <1>0, <2>1, <2>2, <2>3 DEF CursorOK, OnlyLateIsSkipped
  <2>5. cycle = "work" => \A g \in Range(db') : stamp[g] < cutoff => g \in mined \cup late'
    BY <2>2, <2>3 DEF CursorOK
  <2>6. QED
    BY <2>3, <2>4, <2>5 DEF CursorOK, OnlyLateIsSkipped
<1>6. ASSUME NEW w \in Writers, Take(w) \/ RecordFails(w) \/ TaskDone(w) \/ WriterExit(w)
      PROVE  CursorOK'
  BY <1>1, <1>6 DEF Take, RecordFails, TaskDone, WriterExit, table, mining
<1>7. CASE Advance
  <2>1. clock' = clock + 1 /\ UNCHANGED <<db, stamp, late, cursor, cutoff, cycle, mined>>
    BY <1>7 DEF Advance, elsewhere, table, mining
  <2>2. QED
    BY <1>0, <2>1 DEF CursorOK, OnlyLateIsSkipped
<1>8. CASE CycleBegin
  <2>1. cutoff' = clock /\ cycle' = "query" /\ UNCHANGED <<db, stamp, late, cursor, clock, mined>>
    BY <1>8 DEF CycleBegin, elsewhere, table
  <2>2. QED
    BY <1>0, <2>1 DEF CursorOK, OnlyLateIsSkipped
<1>9. CASE CycleQuery
  <2>1. /\ mined' = mined \cup {f \in Range(db) : stamp[f] >= cursor}
        /\ UNCHANGED <<db, stamp, late, cursor, clock, cutoff>>
    BY <1>9 DEF CycleQuery, elsewhere, table
  <2>2. \A f \in Range(db) : f \in mined' \cup late
    BY <1>0, <2>1 DEF CursorOK, OnlyLateIsSkipped
  <2>3. QED
    BY <2>1, <2>2 DEF CursorOK, OnlyLateIsSkipped
<1>10. CASE CycleRaises
  BY <1>10 DEF CycleRaises, elsewhere, table, CursorOK, OnlyLateIsSkipped
<1>11. CASE CycleEnd
  BY <1>0, <1>11 DEF CycleEnd, elsewhere, table, CursorOK, OnlyLateIsSkipped
<1>12. QED
  BY <1>2, <1>3, <1>4, <1>5, <1>6, <1>7, <1>8, <1>9, <1>10, <1>11
  DEF CaptureStep, Write, Cycles

-----------------------------------------------------------------------------
(* One writer, which the daemon knows, as long as none is forgotten.       *)

LEMMA CounterStep ==
    ASSUME CaptureTypeOK, WritersOK, CounterOK, CaptureStep
    PROVE  CounterOK'
<1>0. Len(queue) \in Nat /\ unfinished_tasks \in Nat
  BY DEF CaptureTypeOK
<1>1. ASSUME NEW c \in Controllers, NEW w \in Writers, StartDaemon(c, w) PROVE CounterOK'
  <2>1. /\ forgotten' = (Alive # {}) /\ queue' = <<>> /\ unfinished_tasks' = 0
        /\ thread' = w /\ UNCHANGED in_hand
        /\ \A v \in Writers : writer'[v] = IF v = w THEN "alive" ELSE writer[v]
    BY <1>1 DEF StartDaemon, CaptureTypeOK
  <2>2. SUFFICES ASSUME Alive = {} PROVE CounterOK'
    BY <2>1 DEF CounterOK
  <2>3. Held = {}
    BY <2>2 DEF Held, Alive, WritersOK
  <2>4. Held' = {} /\ unfinished_tasks' = Len(queue')
    BY <2>1, <2>3, NoRows DEF Held
  <2>5. Alive' = {w}
    BY <2>1, <2>2 DEF Alive
  <2>6. QED
    BY <2>1, <2>4, <2>5 DEF CounterOK
<1>2. ASSUME UNCHANGED <<thread, queue, unfinished_tasks, writer, in_hand>>,
             accepting' => accepting, forgotten' = forgotten
      PROVE  CounterOK'
  BY <1>2 DEF CounterOK, Alive, Held
<1>3. ASSUME NEW c \in Controllers, Handlers(c) PROVE CounterOK'
  <2>1. CASE StopClear(c)
    <3>1. /\ UNCHANGED <<accepting, queue, unfinished_tasks, writer, in_hand>>
          /\ thread' = Unset /\ forgotten' = (forgotten \/ thread \in Alive)
      BY <2>1 DEF StopClear, backlog, writers
    <3>2. SUFFICES ASSUME ~forgotten, thread \notin Alive PROVE CounterOK'
      BY <3>1 DEF CounterOK
    <3>3. Alive = {}
      BY <3>2 DEF CounterOK
    <3>4. Alive' = {}
      BY <3>1, <3>3 DEF Alive
    <3>5. Held' = Held
      BY <3>1 DEF Held
    <3>6. QED
      BY <3>1, <3>2, <3>3, <3>4, <3>5 DEF CounterOK
  <2>2. CASE StopRequest(c)
    BY <1>2, <2>2 DEF StopRequest, backlog, writers, epoch
  <2>3. CASE StopJoin(c) \/ FlushBegin(c) \/ FlushWait(c) \/ FlushEnd(c)
    BY <1>2, <2>3 DEF StopJoin, FlushBegin, FlushWait, FlushEnd, daemon, backlog, writers, epoch
  <2>4. QED
    BY <1>3, <2>1, <2>2, <2>3 DEF Handlers
<1>4. ASSUME NEW f \in Failures, Submit(f) PROVE CounterOK'
  <2>1. /\ UNCHANGED <<thread, accepting, writer, in_hand, forgotten>>
        /\ unfinished_tasks' = unfinished_tasks + 1 /\ accepting
        /\ Len(queue') = Len(queue) + 1
    BY <1>4, RowPut DEF Submit, daemon, writers, CaptureTypeOK
  <2>2. Held' = Held /\ Alive' = Alive
    BY <2>1 DEF Held, Alive
  <2>3. QED
    BY <1>0, <2>1, <2>2 DEF CounterOK
<1>5. ASSUME NEW f \in Failures, Reject(f) PROVE CounterOK'
  BY <1>2, <1>5 DEF Reject, daemon, backlog, writers, epoch
<1>6. ASSUME NEW w \in Writers, Take(w) PROVE CounterOK'
  <2>1. /\ UNCHANGED <<thread, accepting, writer, forgotten, unfinished_tasks>>
        /\ Len(queue) = Len(queue') + 1 /\ Len(queue') \in Nat
        /\ w \in Alive
        /\ \A v \in Writers \ {w} : in_hand'[v] = in_hand[v]
        /\ in_hand[w] = Unset /\ in_hand'[w] # Unset
    <3>1. /\ Len(queue) = Len(Tail(queue)) + 1 /\ Len(Tail(queue)) \in Nat
          /\ Head(queue) \in Failures
      BY <1>6, RowTaken DEF Take, CaptureTypeOK
    <3>2. QED
      BY <1>6, <3>1, CaptureBounds DEF Take, daemon, epoch, Alive, CaptureTypeOK
  <2>2. SUFFICES ASSUME ~forgotten PROVE CounterOK'
    BY <2>1 DEF CounterOK
  <2>3. Alive = {w} /\ Alive' = Alive
    BY <2>1, <2>2 DEF CounterOK, Alive
  <2>4. Held \subseteq Alive
    BY DEF Held, Alive, WritersOK
  <2>5. Held = {}
    BY <2>1, <2>3, <2>4 DEF Held
  <2>6. Held' = {w}
    BY <2>1, <2>5 DEF Held
  <2>7. QED
    BY <1>0, <2>1, <2>2, <2>3, <2>5, <2>6 DEF CounterOK
<1>7. ASSUME NEW w \in Writers, Record(w) \/ RecordFails(w) PROVE CounterOK'
  BY <1>2, <1>7 DEF Record, RecordFails, daemon, backlog, epoch
<1>8. ASSUME NEW w \in Writers, TaskDone(w) PROVE CounterOK'
  <2>1. SUFFICES ASSUME ~forgotten PROVE CounterOK'
    BY <1>8 DEF TaskDone, CounterOK, epoch
  <2>2. w \in Held
    BY <1>8 DEF TaskDone, Held
  <2>3. Held = {w} /\ unfinished_tasks = Len(queue) + 1
    BY <2>1, <2>2 DEF CounterOK
  <2>4. /\ unfinished_tasks' = Len(queue)
        /\ UNCHANGED <<thread, accepting, writer, forgotten, queue>>
        /\ \A v \in Writers : in_hand'[v] = IF v = w THEN Unset ELSE in_hand[v]
    BY <1>0, <1>8, <2>3 DEF TaskDone, daemon, epoch, CaptureTypeOK
  <2>5. Held' = {} /\ Alive' = Alive
    BY <2>3, <2>4 DEF Held, Alive
  <2>6. QED
    BY <2>1, <2>4, <2>5 DEF CounterOK
<1>9. ASSUME NEW w \in Writers, WriterExit(w) PROVE CounterOK'
  <2>1. /\ UNCHANGED <<thread, accepting, forgotten, unfinished_tasks, queue, in_hand>>
        /\ queue = <<>> /\ stop_requested
        /\ \A v \in Writers : writer'[v] = IF v = w THEN "dead" ELSE writer[v]
    BY <1>9 DEF WriterExit, daemon, backlog, epoch, CaptureTypeOK
  <2>2. Alive' \subseteq Alive /\ Held' = Held
    BY <2>1 DEF Alive, Held
  <2>3. ~accepting
    BY <2>1 DEF WritersOK
  <2>4. QED
    BY <2>1, <2>2, <2>3 DEF CounterOK
<1>10. CASE Cycles
  BY <1>2, <1>10 DEF Cycles, Advance, CycleBegin, CycleQuery, CycleRaises, CycleEnd,
                     elsewhere, daemon, backlog, writers, epoch
<1>11. QED
  BY <1>1, <1>3, <1>4, <1>5, <1>6, <1>7, <1>8, <1>9, <1>10 DEF CaptureStep, Write

-----------------------------------------------------------------------------
(* What has been accepted stays accounted for.                             *)

LEMMA StaysAccounted ==
    ASSUME CaptureTypeOK, WritersOK, CaptureStep, NEW f \in Failures, Accounted(f)
    PROVE  Accounted(f)'
<1>1. ASSUME UNCHANGED <<stored, lost, queue, in_hand, written>> PROVE Accounted(f)'
  BY <1>1 DEF Accounted, Through
<1>2. ASSUME NEW c \in Controllers, NEW w \in Writers, StartDaemon(c, w) PROVE Accounted(f)'
  BY <1>2 DEF StartDaemon, Accounted, Through, table
<1>3. ASSUME NEW c \in Controllers, Handlers(c) PROVE Accounted(f)'
  BY <1>1, <1>3 DEF Handlers, StopRequest, StopJoin, StopClear, FlushBegin, FlushWait, FlushEnd,
                    table, epoch, backlog, writers
<1>4. ASSUME NEW g \in Failures, Submit(g) PROVE Accounted(f)'
  <2>1. \A h \in Range(queue) : h \in Range(queue')
    BY <1>4, RowPut DEF Submit, CaptureTypeOK
  <2>2. QED
    BY <1>4, <2>1 DEF Submit, Accounted, Through, table, writers
<1>5. ASSUME NEW g \in Failures, Reject(g) PROVE Accounted(f)'
  BY <1>1, <1>5 DEF Reject, table, epoch, backlog, writers
<1>6. ASSUME NEW w \in Writers, Take(w) PROVE Accounted(f)'
  <2>1. \A h \in Range(queue) : h = Head(queue) \/ h \in Range(queue')
    BY <1>6, RowTaken DEF Take, CaptureTypeOK
  <2>2. UNCHANGED <<stored, lost, written>> /\ ~written[w]
    BY <1>6 DEF Take, table, epoch, WritersOK
  <2>3. \A v \in Writers : in_hand'[v] = IF v = w THEN Head(queue) ELSE in_hand[v]
    BY <1>6 DEF Take, CaptureTypeOK
  <2>4. in_hand[w] # f
    BY <1>6, CaptureBounds DEF Take
  <2>5. QED
    BY <2>1, <2>2, <2>3, <2>4 DEF Accounted, Through
<1>7. ASSUME NEW w \in Writers, Record(w) PROVE Accounted(f)'
  <2>1. /\ stored' = stored \cup {in_hand[w]} /\ UNCHANGED <<lost, queue, in_hand>>
        /\ \A v \in Writers : v # w => written'[v] = written[v]
    BY <1>7 DEF Record, epoch, backlog, CaptureTypeOK
  <2>2. QED
    BY <2>1 DEF Accounted, Through
<1>8. ASSUME NEW w \in Writers, RecordFails(w) PROVE Accounted(f)'
  <2>1. /\ lost' = lost \cup {in_hand[w]} /\ UNCHANGED <<stored, queue, in_hand>>
        /\ \A v \in Writers : v # w => written'[v] = written[v]
    BY <1>8 DEF RecordFails, table, backlog, CaptureTypeOK
  <2>2. QED
    BY <2>1 DEF Accounted, Through
<1>9. ASSUME NEW w \in Writers, TaskDone(w) PROVE Accounted(f)'
  <2>1. /\ UNCHANGED <<stored, queue, lost>> /\ written[w]
        /\ \A v \in Writers : v # w => written'[v] = written[v] /\ in_hand'[v] = in_hand[v]
    BY <1>9 DEF TaskDone, table, epoch, CaptureTypeOK
  <2>2. QED
    BY <2>1 DEF Accounted, Through
<1>10. ASSUME NEW w \in Writers, WriterExit(w) PROVE Accounted(f)'
  BY <1>1, <1>10 DEF WriterExit, table, epoch, backlog
<1>11. CASE Cycles
  BY <1>1, <1>11 DEF Cycles, Advance, CycleBegin, CycleQuery, CycleRaises, CycleEnd,
                     elsewhere, table, epoch, backlog, writers
<1>12. QED
  BY <1>2, <1>3, <1>4, <1>5, <1>6, <1>7, <1>8, <1>9, <1>10, <1>11 DEF CaptureStep, Write

LEMMA AccountStep ==
    ASSUME CaptureTypeOK, WritersOK, StampsOK, AccountOK, CaptureStep
    PROVE  AccountOK'
<1>0. \A f \in Failures : Accounted(f) => Accounted(f)'
  BY StaysAccounted
<1>1. ASSUME /\ \A f \in accepted' : f \in Failures /\ Accounted(f)'
             /\ \A c \in Controllers : \A f \in due'[c] : f \in due[c] \/ f \in accepted
             /\ ~writer_error' => lost' \cap accepted' = {}
      PROVE  AccountOK'
  <2>1. \A f \in accepted : f \in Failures /\ Accounted(f)
    BY DEF AccountOK, CaptureTypeOK
  <2>2. \A c \in Controllers : \A f \in due[c] : f \in Failures /\ Accounted(f)
    BY DEF AccountOK, CaptureTypeOK
  <2>3. QED
    BY <1>0, <1>1, <2>1, <2>2 DEF AccountOK
<1>2. \A f \in accepted : f \in Failures /\ Accounted(f)'
  BY <1>0 DEF AccountOK, CaptureTypeOK
<1>3. ASSUME UNCHANGED <<accepted, due, lost, writer_error>> PROVE AccountOK'
  BY <1>1, <1>2, <1>3 DEF AccountOK
<1>4. ASSUME NEW c \in Controllers, NEW w \in Writers, StartDaemon(c, w) PROVE AccountOK'
  <2>1. accepted' = {} /\ due' = due
    BY <1>4 DEF StartDaemon, Ends
  <2>2. QED
    BY <1>1, <2>1
<1>5. ASSUME NEW c \in Controllers, Handlers(c) PROVE AccountOK'
  <2>1. /\ UNCHANGED <<lost, writer_error>>
        /\ accepted' = accepted \/ accepted' = {}
        /\ \A d \in Controllers : due'[d] = due[d] \/ due'[d] = accepted
    BY <1>5 DEF Handlers, StopRequest, StopJoin, StopClear, FlushBegin, FlushWait, FlushEnd,
                Ends, daemon, epoch, CaptureTypeOK
  <2>2. /\ \A f \in accepted' : f \in accepted
        /\ \A d \in Controllers : \A f \in due'[d] : f \in due[d] \/ f \in accepted
    BY <2>1
  <2>3. ~writer_error' => lost' \cap accepted' = {}
    BY <2>1 DEF AccountOK
  <2>4. QED
    BY <1>1, <1>2, <2>2, <2>3
<1>6. ASSUME NEW f \in Failures, Submit(f) PROVE AccountOK'
  <2>1. accepted' = accepted \cup {f} /\ UNCHANGED <<due, lost, writer_error>>
        /\ f \notin lost
    BY <1>6 DEF Submit, daemon, controllers, StampsOK
  <2>2. f \in Range(queue')
    BY <1>6, RowPut DEF Submit, CaptureTypeOK
  <2>3. Accounted(f)'
    BY <2>2 DEF Accounted
  <2>4. \A g \in accepted' : g \in Failures /\ Accounted(g)'
    BY <1>2, <2>1, <2>3
  <2>5. ~writer_error' => lost' \cap accepted' = {}
    BY <2>1 DEF AccountOK
  <2>6. QED
    BY <1>1, <2>1, <2>4, <2>5
<1>7. ASSUME NEW f \in Failures, Reject(f) PROVE AccountOK'
  BY <1>3, <1>7 DEF Reject, daemon, controllers, epoch
<1>8. ASSUME NEW w \in Writers, RecordFails(w) PROVE AccountOK'
  <2>1. writer_error' /\ UNCHANGED <<due, accepted>>
    BY <1>8 DEF RecordFails, controllers
  <2>2. QED
    BY <1>1, <1>2, <2>1
<1>9. ASSUME NEW w \in Writers, Take(w) \/ Record(w) \/ TaskDone(w) \/ WriterExit(w) PROVE AccountOK'
  BY <1>3, <1>9 DEF Take, Record, TaskDone, WriterExit, daemon, controllers, epoch
<1>10. CASE Cycles
  BY <1>3, <1>10 DEF Cycles, Advance, CycleBegin, CycleQuery, CycleRaises, CycleEnd,
                     elsewhere, daemon, controllers, epoch
<1>11. QED
  BY <1>4, <1>5, <1>6, <1>7, <1>8, <1>9, <1>10 DEF CaptureStep, Write

-----------------------------------------------------------------------------
(* What a caller may rely on when it returns without an exception.         *)

(* With nothing queued and nothing in a writer's hands all is through.     *)
LEMMA AllThrough ==
    ASSUME CaptureTypeOK, AccountOK, queue = <<>>, Held = {}
    PROVE  /\ \A f \in accepted : Through(f)
           /\ \A c \in Controllers : \A f \in due[c] : Through(f)
<1>1. Range(queue) = {}
  BY NoRows
<1>2. \A f \in Failures : Accounted(f) => Through(f)
  BY <1>1, CaptureBounds DEF Accounted, Held
<1>3. QED
  BY <1>2 DEF AccountOK, CaptureTypeOK

LEMMA QuietWhenDead ==
    ASSUME CaptureTypeOK, WritersOK, CounterOK, AccountOK, ~forgotten, Alive = {}
    PROVE  /\ \A f \in accepted : Through(f)
           /\ \A c \in Controllers : \A f \in due[c] : Through(f)
<1>1. Held = {}
  BY DEF Held, Alive, WritersOK
<1>2. queue = <<>>
  BY DEF CounterOK
<1>3. QED
  BY <1>1, <1>2, AllThrough

LEMMA PromiseStep ==
    ASSUME CaptureTypeOK, WritersOK, CounterOK, AccountOK, PromiseOK, CaptureStep
    PROVE  PromiseOK'
<1>0. \A f \in Failures : Through(f) => Through(f)'
  <2>1. stored \subseteq stored' /\ lost \subseteq lost'
    BY DEF CaptureStep, Handlers, Cycles, Write, StartDaemon, StopRequest, StopJoin, StopClear,
           FlushBegin, FlushWait, FlushEnd, Submit, Reject, Take, Record, RecordFails, TaskDone,
           WriterExit, Advance, CycleBegin, CycleQuery, CycleRaises, CycleEnd, elsewhere,
           table, epoch
  <2>2. QED
    BY <2>1 DEF Through
<1>1. \A c \in Controllers : \A f \in due[c] : f \in Failures
  BY DEF CaptureTypeOK
<1>2. ASSUME UNCHANGED <<forgotten, thread, accepted, call, joined, due>>,
             stored \subseteq stored', Alive' = Alive
      PROVE  PromiseOK'
  BY <1>0, <1>1, <1>2 DEF PromiseOK, Relies
<1>3. ASSUME NEW c \in Controllers, NEW w \in Writers, StartDaemon(c, w) PROVE PromiseOK'
  <2>1. /\ forgotten' = (Alive # {}) /\ thread' = w /\ due' = due
        /\ lost' = lost \cup Range(queue) /\ stored' = stored
    BY <1>3 DEF StartDaemon, Ends, table
  <2>2. w # Unset
    BY CaptureBounds
  <2>3. SUFFICES ASSUME Alive = {}, NEW d \in Controllers, NEW f \in due[d] PROVE Through(f)'
    BY <2>1, <2>2 DEF PromiseOK
  <2>4. \A v \in Writers : in_hand[v] = Unset
    BY <2>3 DEF Alive, WritersOK
  <2>5. f \in Failures /\ Accounted(f)
    BY <1>1, <2>3 DEF AccountOK
  <2>6. QED
    BY <2>1, <2>4, <2>5, CaptureBounds DEF Accounted, Through
<1>4. ASSUME NEW c \in Controllers, StopRequest(c) PROVE PromiseOK'
  <2>1. /\ UNCHANGED <<forgotten, thread, accepted, stored, lost, writer>>
        /\ \A d \in Controllers \ {c} : UNCHANGED <<call[d], joined[d], due[d]>>
        /\ due'[c] = accepted
        /\ \/ call'[c] = "ok"
           \/ call'[c] = "joining" /\ joined'[c] = thread
    BY <1>4 DEF StopRequest, epoch, table, writers, CaptureTypeOK
  <2>2. SUFFICES ASSUME ~forgotten PROVE PromiseOK'
    BY <2>1 DEF PromiseOK
  <2>3. Alive' = Alive
    BY <2>1 DEF Alive
  <2>4. \A d \in Controllers \ {c} : Relies(d)' => \A f \in due'[d] : Through(f)'
    BY <2>1, <2>2, <2>3 DEF PromiseOK, Relies, Through
  <2>5. Relies(c)' => \A f \in due'[c] : Through(f)'
    <3>1. SUFFICES ASSUME thread \notin Alive PROVE \A f \in accepted : Through(f)'
      BY <2>1, <2>3 DEF Relies
    <3>2. Alive = {}
      BY <2>2, <3>1 DEF CounterOK
    <3>3. \A f \in accepted : Through(f)
      BY <2>2, <3>2, QuietWhenDead
    <3>4. QED
      BY <2>1, <3>3 DEF Through
  <2>6. QED
    BY <2>1, <2>2, <2>4, <2>5 DEF PromiseOK
<1>5. ASSUME NEW c \in Controllers, StopJoin(c) PROVE PromiseOK'
  <2>1. /\ UNCHANGED <<forgotten, thread, accepted, stored, lost, writer, joined, due>>
        /\ \A d \in Controllers \ {c} : UNCHANGED call[d]
        /\ call[c] = "joining"
        /\ call'[c] = "timeout" \/ joined[c] \notin Alive
    BY <1>5 DEF StopJoin, Ends, daemon, epoch, table, writers, CaptureTypeOK
  <2>2. Alive' = Alive
    BY <2>1 DEF Alive
  <2>3. \A d \in Controllers : Relies(d)' => Relies(d)
    BY <2>1, <2>2 DEF Relies
  <2>4. QED
    BY <2>1, <2>3 DEF PromiseOK, Through
<1>6. ASSUME NEW c \in Controllers, StopClear(c) PROVE PromiseOK'
  <2>1. /\ UNCHANGED <<stored, lost, writer, joined, due>>
        /\ forgotten' = (forgotten \/ thread \in Alive)
        /\ accepted' = IF writer_error THEN {} ELSE accepted
        /\ \A d \in Controllers \ {c} : UNCHANGED call[d]
        /\ call'[c] \in {"raised", "ok"}
    BY <1>6 DEF StopClear, Ends, table, writers, CaptureTypeOK
  <2>2. SUFFICES ASSUME ~forgotten, thread \notin Alive PROVE PromiseOK'
    BY <2>1 DEF PromiseOK
  <2>3. Alive' = Alive /\ Alive = {}
    BY <2>1, <2>2 DEF Alive, CounterOK
  <2>4. accepted' \subseteq stored'
    <3>1. CASE ~writer_error
      <4>1. \A f \in accepted : Through(f)
        BY <2>2, <2>3, QuietWhenDead
      <4>2. QED
        BY <2>1, <3>1, <4>1 DEF Through, AccountOK
    <3>2. QED
      BY <2>1, <3>1
  <2>5. \A d \in Controllers : Relies(d)' => Relies(d)
    BY <2>1, <2>3 DEF Relies
  <2>6. QED
    BY <2>1, <2>2, <2>4, <2>5 DEF PromiseOK, Through
<1>7. ASSUME NEW c \in Controllers, FlushBegin(c) PROVE PromiseOK'
  <2>1. /\ UNCHANGED <<forgotten, thread, accepted, stored, lost, writer, joined>>
        /\ \A d \in Controllers \ {c} : UNCHANGED <<call[d], due[d]>>
        /\ call'[c] = "flushing"
    BY <1>7 DEF FlushBegin, daemon, epoch, table, writers, CaptureTypeOK
  <2>2. Alive' = Alive
    BY <2>1 DEF Alive
  <2>3. ~Relies(c)' /\ \A d \in Controllers \ {c} : Relies(d)' => Relies(d)
    BY <2>1, <2>2 DEF Relies
  <2>4. QED
    BY <2>1, <2>3 DEF PromiseOK, Through
<1>8. ASSUME NEW c \in Controllers, FlushWait(c) PROVE PromiseOK'
  <2>1. /\ UNCHANGED <<forgotten, thread, accepted, stored, lost, writer, joined, due>>
        /\ \A d \in Controllers \ {c} : UNCHANGED call[d]
        /\ call'[c] = "timeout" \/ unfinished_tasks = 0
        /\ call'[c] \in {"timeout", "reading"}
    BY <1>8 DEF FlushWait, Ends, daemon, epoch, table, writers, CaptureTypeOK
  <2>2. Alive' = Alive
    BY <2>1 DEF Alive
  <2>3. \A d \in Controllers \ {c} : Relies(d)' => Relies(d)
    BY <2>1, <2>2 DEF Relies
  <2>4. Relies(c)' => unfinished_tasks = 0
    BY <2>1 DEF Relies
  <2>5. ASSUME ~forgotten, unfinished_tasks = 0 PROVE \A f \in due[c] : Through(f)
    <3>1. Len(queue) \in Nat
      BY DEF CaptureTypeOK
    <3>2. Held = {} /\ Len(queue) = 0
      BY <2>5, <3>1 DEF CounterOK
    <3>3. queue = <<>>
      BY <3>2 DEF CaptureTypeOK
    <3>4. QED
      BY <3>2, <3>3, AllThrough
  <2>6. QED
    BY <2>1, <2>3, <2>4, <2>5 DEF PromiseOK, Through
<1>9. ASSUME NEW c \in Controllers, FlushEnd(c) PROVE PromiseOK'
  <2>1. /\ UNCHANGED <<forgotten, thread, accepted, stored, lost, writer, joined, due>>
        /\ \A d \in Controllers \ {c} : UNCHANGED call[d]
        /\ call'[c] \in {"raised", "ok"}
    BY <1>9 DEF FlushEnd, Ends, daemon, epoch, table, writers, CaptureTypeOK
  <2>2. Alive' = Alive
    BY <2>1 DEF Alive
  <2>3. \A d \in Controllers : Relies(d)' => Relies(d)
    BY <2>1, <2>2 DEF Relies
  <2>4. QED
    BY <2>1, <2>3 DEF PromiseOK, Through
<1>10. ASSUME NEW f \in Failures, Submit(f) PROVE PromiseOK'
  <2>1. /\ UNCHANGED <<forgotten, thread, stored, lost, writer, call, joined, due>>
        /\ accepting
    BY <1>10 DEF Submit, daemon, controllers, table, writers
  <2>2. ~forgotten => thread # Unset
    BY <2>1, CaptureBounds DEF CounterOK, Alive
  <2>3. Alive' = Alive
    BY <2>1 DEF Alive
  <2>4. QED
    BY <2>1, <2>2, <2>3 DEF PromiseOK, Relies, Through
<1>11. ASSUME NEW f \in Failures, Reject(f) PROVE PromiseOK'
  BY <1>2, <1>11 DEF Reject, daemon, controllers, epoch, table, writers, Alive
<1>12. ASSUME NEW w \in Writers, Take(w) \/ Record(w) \/ RecordFails(w) PROVE PromiseOK'
  BY <1>2, <1>12
  DEF Take, Record, RecordFails, daemon, controllers, epoch, table, Alive
<1>13. ASSUME NEW w \in Writers, TaskDone(w) PROVE PromiseOK'
  <2>1. UNCHANGED <<forgotten, thread, accepted, call, joined, due, stored>>
    BY <1>13 DEF TaskDone, daemon, controllers, epoch, table
  <2>2. SUFFICES ASSUME ~forgotten PROVE PromiseOK'
    BY <2>1 DEF PromiseOK
  <2>3. w \in Held /\ Len(queue) \in Nat
    BY <1>13 DEF TaskDone, Held, CaptureTypeOK
  <2>4. unfinished_tasks = Len(queue) + 1
    BY <2>2, <2>3 DEF CounterOK
  <2>5. UNCHANGED writer
    BY <1>13, <2>3, <2>4 DEF TaskDone
  <2>6. QED
    BY <1>2, <2>1, <2>5 DEF Alive
<1>14. ASSUME NEW w \in Writers, WriterExit(w) PROVE PromiseOK'
  <2>1. /\ UNCHANGED <<forgotten, thread, accepted, call, joined, due, stored, lost>>
        /\ queue = <<>> /\ in_hand[w] = Unset /\ w \in Alive
    BY <1>14 DEF WriterExit, daemon, controllers, epoch, table, Alive
  <2>2. SUFFICES ASSUME ~forgotten PROVE PromiseOK'
    BY <2>1 DEF PromiseOK
  <2>3. Held = {}
    <3>1. Alive = {w} /\ Held \subseteq Alive
      BY <2>1, <2>2 DEF CounterOK, Held, Alive, WritersOK
    <3>2. QED
      BY <2>1, <3>1 DEF Held
  <2>4. \A d \in Controllers : \A f \in due[d] : Through(f)
    BY <2>1, <2>3, AllThrough
  <2>5. QED
    BY <2>1, <2>2, <2>4 DEF PromiseOK, Through
<1>15. CASE Cycles
  BY <1>2, <1>15 DEF Cycles, Advance, CycleBegin, CycleQuery, CycleRaises, CycleEnd,
                     elsewhere, daemon, controllers, epoch, table, writers, Alive
<1>16. QED
  BY <1>3, <1>4, <1>5, <1>6, <1>7, <1>8, <1>9, <1>10, <1>11, <1>12, <1>13, <1>14, <1>15
  DEF CaptureStep, Handlers, Write

-----------------------------------------------------------------------------
LEMMA CaptureNextSteps ==
    ASSUME CaptureTypeOK, CaptureNext PROVE CaptureStep /\ UNCHANGED use
<1>1. use.controllers \subseteq Controllers /\ use.failures \subseteq Failures
  BY CaptureAssumption DEF CaptureTypeOK
<1>2. QED
  BY <1>1 DEF CaptureNext, CaptureStep, Handlers, Cycles

LEMMA CaptureStarts == CaptureInit => CaptureInv
<1> SUFFICES ASSUME CaptureInit PROVE CaptureInv
  OBVIOUS
<1>1. /\ Range(queue) = {} /\ Range(db) = {} /\ Len(queue) = 0 /\ Len(db) = 0
      /\ queue \in Seq(Failures) /\ db \in Seq(Failures)
  BY NoRows DEF CaptureInit
<1>2. CaptureTypeOK
  <2>1. /\ queue \in Seq(Failures) /\ Len(queue) <= Capacity /\ unfinished_tasks \in Nat
        /\ db \in Seq(Failures) /\ Len(db) <= MaxFailureRecords
    BY <1>1, CaptureBounds DEF CaptureInit
  <2>2. /\ writer \in [Writers -> {"new", "alive", "dead"}]
        /\ in_hand \in [Writers -> Failures \cup {Unset}]
        /\ written \in [Writers -> BOOLEAN]
        /\ joined \in [Controllers -> Writers \cup {Unset}]
        /\ due \in [Controllers -> SUBSET Failures]
        /\ stamp \in [Failures -> 0 .. MaxTime \cup {Unset}]
    BY DEF CaptureInit
  <2>3. call \in [Controllers -> Resting \cup {"joining", "clearing", "flushing", "reading"}]
    BY DEF CaptureInit, Resting
  <2>4. clock \in 0 .. MaxTime /\ cursor \in 0 .. MaxTime /\ cutoff \in 0 .. MaxTime
    BY CaptureBounds DEF CaptureInit
  <2>5. QED
    BY <2>1, <2>2, <2>3, <2>4 DEF CaptureInit, CaptureTypeOK
<1>3. Held = {} /\ Alive = {}
  BY DEF CaptureInit, Held, Alive
<1>4. WritersOK /\ StampsOK /\ CursorOK
  BY <1>1, <1>3 DEF CaptureInit, WritersOK, StampsOK, CursorOK, OnlyLateIsSkipped
<1>5. CounterOK /\ AccountOK
  BY <1>1, <1>3 DEF CaptureInit, CounterOK, AccountOK
<1>6. PromiseOK
  BY DEF CaptureInit, PromiseOK
<1>7. QED
  BY <1>2, <1>4, <1>5, <1>6 DEF CaptureInv

LEMMA CaptureKeeps == CaptureInv /\ [CaptureNext]_capture_vars => CaptureInv'
<1> SUFFICES ASSUME CaptureInv, [CaptureNext]_capture_vars PROVE CaptureInv'
  OBVIOUS
<1>1. CASE CaptureNext
  <2>1. CaptureStep /\ UNCHANGED use
    BY <1>1, CaptureNextSteps DEF CaptureInv
  <2>2. CaptureTypeOK' /\ WritersOK' /\ StampsOK' /\ CursorOK'
    BY <2>1, TypesStep, WritersStep, StampsStep, CursorStep DEF CaptureInv
  <2>3. CounterOK' /\ AccountOK' /\ PromiseOK'
    BY <2>1, CounterStep, AccountStep, PromiseStep DEF CaptureInv
  <2>4. QED
    BY <2>2, <2>3 DEF CaptureInv
<1>2. CASE UNCHANGED capture_vars
  <2>1. UNCHANGED <<accepting, stop_requested, writer_error, thread, queue, unfinished_tasks,
                    submitted, recorded, rejected, writer, in_hand, written, call, joined, due>>
        /\ UNCHANGED <<accepted, forgotten, lost, db, stored, late, clock, stamp,
                       cursor, cutoff, cycle, mined, use>>
    BY <1>2 DEF capture_vars, daemon, backlog, stats, writers, controllers, epoch, table, mining
  <2>2. CaptureTypeOK'
    BY <2>1 DEF CaptureInv, CaptureTypeOK
  <2>3. Held' = Held /\ Alive' = Alive
    BY <2>1 DEF Held, Alive
  <2>4. WritersOK' /\ StampsOK' /\ CursorOK' /\ CounterOK'
    BY <2>1, <2>3 DEF CaptureInv, WritersOK, StampsOK, CursorOK, CounterOK, OnlyLateIsSkipped
  <2>5. \A f : Accounted(f)' = Accounted(f)
    BY <2>1 DEF Accounted, Through
  <2>6. AccountOK' /\ PromiseOK'
    BY <2>1, <2>3, <2>5 DEF CaptureInv, AccountOK, PromiseOK, Relies, Through
  <2>7. QED
    BY <2>2, <2>4, <2>6 DEF CaptureInv
<1>3. QED
  BY <1>1, <1>2

(* The invariant holds in every state of the daemon, its callers and the   *)
(* night cycle that reads the failures back.                               *)
THEOREM CaptureInvariant == CaptureSpec => []CaptureInv
<1>1. QED
  BY CaptureStarts, CaptureKeeps, PTL DEF CaptureSpec

(* FailureCaptureDaemon and BoundedLogDB keep their bounds, flush's count  *)
(* of unfinished tasks is exact while no writer is forgotten, and the      *)
(* cursor of _run_cycle passes over late failures only: for any numbers of *)
(* callers, writers, failures and cycles.                                  *)
THEOREM CaptureIsSound == CaptureSpec => []CaptureSound
<1>1. CaptureInv => CaptureSound
  <2> SUFFICES ASSUME CaptureInv PROVE CaptureSound
    OBVIOUS
  <2>1. CaptureTypeOK /\ OnlyLateIsSkipped
    BY DEF CaptureInv, CursorOK
  <2>2. CounterIsExact
    <3>1. SUFFICES ASSUME ~forgotten PROVE unfinished_tasks = Len(queue) + Cardinality(Held)
      BY DEF CounterIsExact, Held
    <3>2. Len(queue) \in Nat
      BY <2>1 DEF CaptureTypeOK
    <3>3. CASE Held = {}
      <4>1. Cardinality(Held) = 0
        BY <3>3, FS_EmptySet
      <4>2. unfinished_tasks = Len(queue)
        BY <3>1, <3>3 DEF CaptureInv, CounterOK
      <4>3. QED
        BY <3>2, <4>1, <4>2
    <3>4. CASE Held # {}
      <4>1. PICK w \in Writers : Held = {w} /\ unfinished_tasks = Len(queue) + 1
        BY <3>1, <3>4 DEF CaptureInv, CounterOK
      <4>2. Cardinality(Held) = 1
        BY <4>1, FS_Singleton
      <4>3. QED
        BY <4>1, <4>2
    <3>5. QED
      BY <3>3, <3>4
  <2>3. QED
    BY <2>1, <2>2 DEF CaptureSound
<1>2. QED
  BY <1>1, CaptureInvariant, PTL

(* stop and flush of FailureCaptureDaemon tell the truth: whoever of them  *)
(* returns without an exception has what was accepted before the call in   *)
(* the database, for any interleaving of calls and writers, unless a stop  *)
(* has forgotten a writer that lived.                                      *)
THEOREM ReturnsAreDrained == CaptureSpec => DrainedIfKnown
<1> DEFINE Drained ==
        \A c \in Controllers :
            call[c] # "ok" /\ call'[c] = "ok" =>
                \/ due'[c] \subseteq stored \cup lost /\ due'[c] \cap accepted \subseteq stored
                \/ forgotten
<1>1. CaptureInv /\ [CaptureNext]_capture_vars => [Drained]_capture_vars
  <2> SUFFICES ASSUME CaptureInv, CaptureNext, ~forgotten,
                      NEW c \in Controllers, call[c] # "ok", call'[c] = "ok"
               PROVE  /\ due'[c] \subseteq stored \cup lost
                      /\ due'[c] \cap accepted \subseteq stored
    OBVIOUS
  <2>1. CaptureTypeOK /\ CaptureStep
    BY CaptureNextSteps DEF CaptureInv
  <2>2. \/ StopRequest(c) /\ thread = Unset /\ due'[c] = accepted
        \/ Relies(c) /\ due'[c] = due[c] /\ ~writer_error
    <3>1. PICK d \in Controllers : Handlers(d) \/ \E w \in Writers : StartDaemon(d, w)
      BY <2>1 DEF CaptureStep, Write, Cycles, Submit, Reject, Take, Record, RecordFails,
                  TaskDone,
                  WriterExit, Advance, CycleBegin, CycleQuery, CycleRaises, CycleEnd,
                  elsewhere, controllers
    <3>2. d = c
      BY <2>1, <3>1 DEF Handlers, StartDaemon, StopRequest, StopJoin, StopClear, FlushBegin,
                        FlushWait, FlushEnd, Ends, CaptureTypeOK
    <3>3. StopRequest(c) \/ StopClear(c) \/ FlushEnd(c)
      BY <2>1, <3>1, <3>2 DEF Handlers, StartDaemon, StopRequest, StopJoin, StopClear,
                              FlushBegin,
                              FlushWait, FlushEnd, Ends, CaptureTypeOK
    <3>4. CASE StopRequest(c)
      BY <2>1, <3>4 DEF StopRequest, CaptureTypeOK
    <3>5. CASE StopClear(c) \/ FlushEnd(c)
      BY <2>1, <3>5 DEF StopClear, FlushEnd, Ends, Relies, CaptureTypeOK
    <3>6. QED
      BY <3>3, <3>4, <3>5
  <2>3. CASE StopRequest(c) /\ thread = Unset /\ due'[c] = accepted
    BY <2>3 DEF CaptureInv, PromiseOK
  <2>4. CASE Relies(c) /\ due'[c] = due[c] /\ ~writer_error
    <3>1. \A f \in due[c] : Through(f)
      BY <2>4 DEF CaptureInv, PromiseOK
    <3>2. lost \cap accepted = {}
      BY <2>4 DEF CaptureInv, AccountOK
    <3>3. QED
      BY <2>4, <3>1, <3>2 DEF Through
  <2>5. QED
    BY <2>2, <2>3, <2>4
<1>2. QED
  BY <1>1, CaptureInvariant, PTL DEF CaptureSpec, DrainedIfKnown
=============================================================================
