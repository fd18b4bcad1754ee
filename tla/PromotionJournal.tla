-------------------------- MODULE PromotionJournal --------------------------
(***************************************************************************)
(* BackupJournal and the part of JournaledHarnessPatcher that drives it    *)
(* (cogni_flow/production.py): a promotion writes a backup and a prepared  *)
(* record, replaces the live file, and resolves the record; a process that *)
(* dies in between leaves the record for recover_incomplete.               *)
(*                                                                         *)
(* live, records and backups are on disk and survive a crash; everything   *)
(* else is the memory of the one thread that holds the evolution slot.  A  *)
(* step is a stretch of code with at most one write.  env, chosen once,    *)
(* says how a write may fail: "early", before its effect is visible, or    *)
(* "late", after it (_atomic_write_bytes syncs the directory once          *)
(* os.replace is done); and where the thread may be when somebody else     *)
(* edits a file.                                                           *)
(* Digests identify contents; a crash keeps the effects already visible.   *)
(***************************************************************************)
EXTENDS Naturals, FiniteSets, FiniteSetsExt, Functions

CONSTANTS Files,            \* allowlisted source files
          Versions,         \* contents the harness proposes or starts from
          Foreign,          \* contents somebody else writes
          MaxRecords,       \* max_records of the journal
          Environments,     \* [faults, edits] records: what may go wrong
          MaxPromotions,    \* bound: promotions attempted
          MaxCrashes,       \* bound: processes that die
          None

Points == {"down", "recover", "idle", "capacity", "evict", "backup", "metadata",
           "recheck", "replace", "verify", "health", "commit", "rollback",
           "restore", "mark", "undo", "safe", "refused"}
Contents == Versions \cup Foreign
Ids == 1 .. MaxPromotions

ASSUME JournalAssumption ==
    /\ MaxRecords \in Nat \ {0}
    /\ MaxPromotions \in Nat
    /\ MaxCrashes \in Nat
    /\ Environments \subseteq [faults : SUBSET {"early", "late"}, edits : SUBSET Points]
    /\ Versions \cap Foreign = {}
    /\ "partial" \notin Contents

VARIABLES live,         \* the content of each source file
          records,      \* metadata files: id -> [file, before, after, status]
          backups,      \* backup files: id -> content, or "partial"
          pc,
          change,       \* the promotion or the record in hand
          held,         \* validate_and_promote's record is not None
          caller,       \* who called rollback: "health", "undo", "recovery"
          created,      \* record ids used, in order of created_ns
          outcome,      \* what the last promotion of each file reported
          crashes,
          env,          \* the environment of this behaviour
          unseen        \* history: files edited between a comparison and its write

IOFaults == env.faults

disk == <<live, records, backups>>
memory == <<change, held, caller>>
vars == <<disk, memory, pc, created, outcome, crashes, env, unseen>>

Terminal == {"committed", "rolled_back", "recovered_rollback", "aborted"}
Records == [file : Files, before : Contents, after : Contents,
            status : Terminal \cup {"prepared"}]
WithStatus(status) == {i \in DOMAIN records : records[i].status \in status}
Prepared == WithStatus({"prepared"})

Put(f, key, value) ==
    [k \in DOMAIN f \cup {key} |-> IF k = key THEN value ELSE f[k]]
Known(found) == Restrict(found, DOMAIN found \cap DOMAIN records)

Init ==
    /\ live \in [Files -> Versions]
    /\ records = <<>>
    /\ backups = <<>>
    /\ pc = "down"
    /\ change = None
    /\ held = FALSE
    /\ caller = "recovery"
    /\ created = 0
    /\ outcome = [f \in Files |-> "none"]
    /\ crashes = 0
    /\ env \in Environments
    /\ unseen = {}

-----------------------------------------------------------------------------
(* Writes and exceptions.                                                  *)

Goto(point) == pc' = point
Quiet == UNCHANGED <<memory, created, outcome, crashes>>

Then(point) == Goto(point) /\ Quiet

(* A write that succeeds, or raises with or without its effect. *)
Writes(Effect, Done, Raised) ==
    \/ Effect /\ Done
    \/ "early" \in IOFaults /\ UNCHANGED disk /\ Raised
    \/ "late" \in IOFaults /\ Effect /\ Raised

SetLive(f, v) ==
    /\ live' = [live EXCEPT ![f] = v]
    /\ UNCHANGED <<records, backups>>

SetRecord(i, r) ==
    /\ records' = Put(records, i, r)
    /\ UNCHANGED <<live, backups>>

Settle(o) ==
    outcome' = [outcome EXCEPT ![change.file] = IF @ = "open" THEN o ELSE @]

(* validate_and_promote is over: its locals are gone. *)
Leave(point, o) ==
    /\ Goto(point)
    /\ Settle(o)
    /\ change' = None
    /\ held' = FALSE
    /\ UNCHANGED <<caller, created, crashes>>

(* Who catches an exception of BackupJournal.rollback. *)
RollbackRaises ==
    CASE caller = "health"   -> Then("undo")
      [] caller = "undo"     -> Leave("safe", "unknown")
      [] caller = "recovery" -> Leave("refused", "unknown")

-----------------------------------------------------------------------------
(* Start-up: BackupJournal.recover_incomplete                              *)

(* _read_record_path: of what it checks only the backup can be missing,    *)
(* the metadata are written at once and never by hand.                     *)
Sound(i) == i \in DOMAIN backups

(* Orphaned backups are removed, then records() reads every record. *)
Readable == /\ Cardinality(DOMAIN records) <= MaxRecords
            /\ \A i \in DOMAIN records : Sound(i)

Start ==
    /\ pc = "down"
    /\ backups' = Known(backups)
    /\ UNCHANGED <<live, records>>
    /\ Then(IF Readable THEN "recover" ELSE "refused")

RecoveryDone ==
    /\ pc = "recover"
    /\ Prepared = {}
    /\ Then("idle")
    /\ UNCHANGED disk

Resolve(i, status) == SetRecord(i, [records[i] EXCEPT !.status = status])

(* The oldest prepared record: its promotion never reached the live file.  *)
RecoverAbort ==
    /\ pc = "recover"
    /\ Prepared # {}
    /\ LET i == Min(Prepared) IN
         /\ live[records[i].file] = records[i].before
         /\ Writes(Resolve(i, "aborted"), Then("recover"), Then("refused"))

(* Seeded bug: a candidate found live is taken for a finished promotion. *)
RecoverRollback_Forward ==
    /\ pc = "recover"
    /\ Prepared # {}
    /\ LET i == Min(Prepared) IN
         /\ live[records[i].file] = records[i].after
         /\ Writes(Resolve(i, "committed"), Then("recover"), Then("refused"))

(* Its candidate is live: roll it back. *)
RecoverRollback ==
    /\ pc = "recover"
    /\ Prepared # {}
    /\ LET i == Min(Prepared)
           r == records[i] IN
         /\ live[r.file] = r.after
         /\ r.after # r.before
         /\ change' = [id |-> i, file |-> r.file, before |-> r.before,
                       after |-> r.after]
    /\ caller' = "recovery"
    /\ Goto("rollback")
    /\ UNCHANGED <<disk, held, created, outcome, crashes>>

(* Neither: somebody else's content, which start-up refuses to touch. *)
RecoverRefuse ==
    /\ pc = "recover"
    /\ Prepared # {}
    /\ LET r == records[Min(Prepared)] IN live[r.file] \notin {r.before, r.after}
    /\ Then("refused")
    /\ UNCHANGED disk

-----------------------------------------------------------------------------
(* JournaledHarnessPatcher.validate_and_promote, from the reading of the   *)
(* base on; the candidate has passed the policy and the regression tests.  *)

Begin(f, after) ==
    /\ pc = "idle"
    /\ created < MaxPromotions
    /\ created' = created + 1
    /\ change' = [id |-> created + 1, file |-> f, before |-> live[f], after |-> after]
    /\ outcome' = [outcome EXCEPT ![f] = "open"]
    /\ Goto("capacity")
    /\ UNCHANGED <<disk, held, caller, crashes>>

(* _ensure_capacity removes orphaned backups, then deletes the oldest      *)
(* resolved records until there is room for one more.                      *)
Resolved == WithStatus(Terminal)
Full == Cardinality(DOMAIN records) >= MaxRecords

Sweep ==
    /\ pc = "capacity"
    /\ backups' = Known(backups)
    /\ UNCHANGED live

(* Seeded bug: off by one, the bound is only noticed once exceeded. *)
Room_OffByOne ==
    /\ Sweep
    /\ Readable
    /\ Cardinality(DOMAIN records) <= MaxRecords
    /\ UNCHANGED records
    /\ Then("backup")

Room ==
    /\ Sweep
    /\ Readable /\ ~Full
    /\ UNCHANGED records
    /\ Then("backup")

NoRoom ==
    /\ Sweep
    /\ ~Readable \/ (Full /\ Resolved = {})
    /\ UNCHANGED records
    /\ Then("undo")

(* _delete_record unlinks the metadata ... *)
Evict ==
    /\ Sweep
    /\ Readable /\ Full /\ Resolved # {}
    /\ \/ records' = Restrict(records, DOMAIN records \ {Min(Resolved)}) /\ Then("evict")
       \/ "early" \in IOFaults /\ UNCHANGED records /\ Then("undo")

(* ... then the backup, now the only one without metadata. *)
EvictBackup ==
    /\ pc = "evict"
    /\ \/ backups' = Known(backups) /\ Then("capacity")
       \/ "early" \in IOFaults /\ UNCHANGED backups /\ Then("undo")
    /\ UNCHANGED <<live, records>>

(* The backup is written in place, so that a failure may leave part of it. *)
WriteBackup ==
    /\ pc = "backup"
    /\ LET Leaves(content) == backups' = Put(backups, change.id, content) IN
         \/ Leaves(change.before) /\ Then("metadata")
         \/ "early" \in IOFaults /\ UNCHANGED backups /\ Then("undo")
         \/ "early" \in IOFaults /\ Leaves("partial") /\ Then("undo")
         \/ "late" \in IOFaults /\ Leaves(change.before) /\ Then("undo")
    /\ UNCHANGED <<live, records>>

(* prepare returns, and record is no longer None, only if it did not raise. *)
WriteMetadata ==
    /\ pc = "metadata"
    /\ Writes(SetRecord(change.id, [file |-> change.file, before |-> change.before,
                                    after |-> change.after, status |-> "prepared"]),
              Goto("recheck") /\ held' = TRUE,
              Goto("undo") /\ UNCHANGED held)
    /\ UNCHANGED <<change, caller, created, outcome, crashes>>

(* Seeded bug: the base is not compared again before the replacement. *)
Recheck_Skipped ==
    /\ pc = "recheck"
    /\ UNCHANGED disk
    /\ Then("replace")

Recheck ==
    /\ pc = "recheck"
    /\ UNCHANGED disk
    /\ Then(IF live[change.file] = change.before THEN "replace" ELSE "undo")

Replace ==
    /\ pc = "replace"
    /\ Writes(SetLive(change.file, change.after), Then("verify"), Then("undo"))

Verify ==
    /\ pc = "verify"
    /\ UNCHANGED disk
    /\ Then(IF live[change.file] = change.after THEN "health" ELSE "undo")

(* The health check of the promoted tree passes, fails, or cannot be run.  *)
Health ==
    /\ pc = "health"
    /\ \/ Goto("commit") /\ UNCHANGED caller
       \/ Goto("rollback") /\ caller' = "health"
       \/ Goto("undo") /\ UNCHANGED caller
    /\ UNCHANGED <<disk, change, held, created, outcome, crashes>>

(* Seeded bug: a promotion is reported without its commit mark. *)
Commit_Unmarked ==
    /\ pc = "commit"
    /\ UNCHANGED disk
    /\ Leave("idle", "promoted")

(* Once "committed" is on disk the promotion stands, whatever is reported. *)
Commit ==
    /\ pc = "commit"
    /\ \/ Resolve(change.id, "committed") /\ Leave("idle", "promoted")
       \/ "early" \in IOFaults /\ UNCHANGED disk /\ Then("undo")
       \/ /\ "late" \in IOFaults
          /\ Resolve(change.id, "committed")
          /\ Settle("unknown")
          /\ Goto("undo")
          /\ UNCHANGED <<memory, created, crashes>>

-----------------------------------------------------------------------------
(* BackupJournal.rollback and _rollback_after_exception                    *)

Rollback ==
    /\ pc = "rollback"
    /\ IF /\ change.id \in Prepared
          /\ live[change.file] = change.after
          /\ backups[change.id] = change.before
       THEN Then("restore")
       ELSE RollbackRaises
    /\ UNCHANGED disk

Restore ==
    /\ pc = "restore"
    /\ Writes(SetLive(change.file, backups[change.id]), Then("mark"), RollbackRaises)

RollbackDone ==
    CASE caller = "health"   -> Leave("idle", "rejected")
      [] caller = "undo"     -> Leave("idle", "unknown")
      [] caller = "recovery" -> Leave("recover", "unknown")

(* The restored file is read back, then the record is marked. *)
MarkRolledBack ==
    /\ pc = "mark"
    /\ live[change.file] = change.before
    /\ Writes(Resolve(change.id, IF caller = "recovery" THEN "recovered_rollback"
                                 ELSE "rolled_back"),
              RollbackDone, RollbackRaises)

RestoreDamaged ==
    /\ pc = "mark"
    /\ live[change.file] # change.before
    /\ UNCHANGED disk
    /\ RollbackRaises

(* Nothing was prepared, as far as the except clause can tell. *)
UndoNothing ==
    /\ pc = "undo"
    /\ ~held
    /\ UNCHANGED disk
    /\ Leave("idle", "unknown")

UndoRollback ==
    /\ pc = "undo"
    /\ held
    /\ live[change.file] = change.after
    /\ caller' = "undo"
    /\ Goto("rollback")
    /\ UNCHANGED <<disk, change, held, created, outcome, crashes>>

(* The live file is untouched or already restored.  mark raises if the     *)
(* record has meanwhile another terminal status.                           *)
UndoAbort ==
    /\ pc = "undo"
    /\ held
    /\ live[change.file] = change.before
    /\ change.before # change.after
    /\ IF records[change.id].status \in {"prepared", "aborted"}
       THEN Writes(Resolve(change.id, "aborted"),
                   Leave("idle", "unknown"), Leave("safe", "unknown"))
       ELSE UNCHANGED disk /\ Leave("safe", "unknown")

UndoUnknown ==
    /\ pc = "undo"
    /\ held
    /\ live[change.file] \notin {change.before, change.after}
    /\ UNCHANGED disk
    /\ Leave("safe", "unknown")

-----------------------------------------------------------------------------
(* The rest of the world.                                                  *)

(* The process dies; a backup being written may be left incomplete.        *)
Crash ==
    /\ pc # "down"
    /\ crashes < MaxCrashes
    /\ crashes' = crashes + 1
    /\ pc' = "down"
    /\ outcome' = [f \in Files |-> IF outcome[f] = "open" THEN "unknown" ELSE outcome[f]]
    /\ \/ UNCHANGED backups
       \/ pc = "backup" /\ backups' = Put(backups, change.id, "partial")
    /\ change' = None
    /\ held' = FALSE
    /\ caller' = "recovery"
    /\ UNCHANGED <<live, records, created>>

(* Somebody else writes a source file. *)
Edit(f, v) ==
    /\ pc \in env.edits
    /\ SetLive(f, v)
    /\ UNCHANGED <<pc, memory, created, outcome, crashes>>

(* The steps before a write of a live file, and after the comparison that  *)
(* allows it.                                                              *)
Windows == {"replace", "restore"}
Watch ==
    unseen' = IF pc' = pc /\ pc \in Windows
                THEN unseen \cup {f \in Files : live'[f] # live[f]}
                ELSE {}

Recovery == Start \/ RecoveryDone \/ RecoverAbort \/ RecoverRollback \/ RecoverRefuse
Prepare == Room \/ NoRoom \/ Evict \/ EvictBackup \/ WriteBackup \/ WriteMetadata
Promote == Recheck \/ Replace \/ Verify \/ Health \/ Commit
Unwind == \/ Rollback \/ Restore \/ MarkRolledBack \/ RestoreDamaged
          \/ UndoNothing \/ UndoRollback \/ UndoAbort \/ UndoUnknown

Next ==
    /\ UNCHANGED env
    /\ \/ Recovery
       \/ \E f \in Files, v \in Versions : Begin(f, v)
       \/ Prepare
       \/ Promote
       \/ Unwind
       \/ Crash
       \/ \E f \in Files, v \in Foreign : Edit(f, v)
    /\ Watch

Spec == Init /\ [][Next]_vars

-----------------------------------------------------------------------------
(* Every variable has its type. *)
TypeOK ==
    /\ live \in [Files -> Contents]
    /\ DOMAIN records \subseteq Ids
    /\ \A i \in DOMAIN records : records[i] \in Records
    /\ DOMAIN backups \subseteq Ids
    /\ \A i \in DOMAIN backups : backups[i] \in Contents \cup {"partial"}
    /\ pc \in Points
    /\ change \in [id : Ids, file : Files, before : Contents, after : Contents] \cup {None}
    /\ held \in BOOLEAN
    /\ caller \in {"health", "undo", "recovery"}
    /\ created \in 0 .. MaxPromotions
    /\ outcome \in [Files -> {"none", "open", "promoted", "rejected", "unknown"}]
    /\ crashes \in 0 .. MaxCrashes
    /\ env \in Environments
    /\ unseen \subseteq Files

(* Where every write that raises had no effect, and where nothing but      *)
(* crashes goes wrong.                                                     *)
Prompt == "late" \notin env.faults
Calm == env.faults = {} /\ env.edits = {}

(* Whatever the write a promotion dies in, and whatever _ensure_capacity   *)
(* was deleting, a metadata file on disk has its complete backup next to   *)
(* it: otherwise every later start refuses the journal or has nothing to   *)
(* restore.                                                                *)
BackupsComplete ==
    \A i \in DOMAIN records : i \in DOMAIN backups /\ backups[i] = records[i].before

(* prepare makes room before it adds, so that records() never finds more   *)
(* files than its bound, not even after a crash during the eviction.       *)
RecordsBounded == Cardinality(DOMAIN records) <= MaxRecords

(* No promotion and no recovery returns to normal work leaving a record    *)
(* that a later start would act on, unless a write raised after it was     *)
(* done: prepare then leaves a record its caller does not know of.         *)
RestResolved == Prompt /\ pc = "idle" => Prepared = {}

(* Crashes alone, wherever they fall in a promotion, an eviction or an     *)
(* earlier recovery, never make a start refuse the journal.                *)
RecoverySucceeds == Calm => pc # "refused"

(* BackupJournal.prepare, mark, rollback and its eviction (production.py)  *)
(* on disk: backups are complete, records bounded, none is left open, and  *)
(* crashes alone never keep the program from starting.                     *)
JournalSound ==
    TypeOK /\ BackupsComplete /\ RecordsBounded /\ RestResolved /\ RecoverySucceeds

(* A promotion reported to the cycle stays in the live tree, over crashes  *)
(* and recoveries, until the file is promoted again or edited ...          *)
Kept == \A f \in Files :
           outcome[f] = "promoted" /\ outcome'[f] = "promoted" /\ pc' # pc
           => live'[f] = live[f]

(* ... unless a write raises after it was done. *)
PromotedIsKeptIfPrompt == [][Prompt => Kept]_vars

(* The journal and the patcher overwrite only contents they know, the base *)
(* or the candidate of an unresolved record of that very file, whatever    *)
(* anybody wrote since the promotion began.  The exception is an edit that *)
(* falls between the last comparison and the write: nothing sees it.       *)
UnknownNeverOverwritten ==
    [][\A f \in Files :
          live'[f] # live[f] /\ pc' # pc
          => \/ f \in unseen
             \/ \E i \in Prepared : /\ records[i].file = f
                                    /\ live[f] \in {records[i].before, records[i].after}]_vars

(* What a restart would make of a file: the base of an unresolved record   *)
(* whose candidate is live, the live content otherwise.                    *)
Logical(f) ==
    LET interrupted == {i \in Prepared : records[i].file = f /\ records[i].after = live[f]}
    IN  IF interrupted = {} THEN live[f] ELSE records[Min(interrupted)].before

Store == INSTANCE AtomicStore WITH
             store <- [f \in Files |-> Logical(f)],
             candidate <- [f \in Files |-> IF outcome[f] = "open" THEN change.after
                                          ELSE None]

(* Seen through recovery, every promotion is atomic and its answer true,   *)
(* unless a write raises after it was done.                                *)
ImplementsStore ==
    Store!Init /\ [][Prompt => Store!Next]_<<Store!asVars, env>>
=============================================================================
