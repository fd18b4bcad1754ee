--------------------------- MODULE FailureCapture ---------------------------
(***************************************************************************)
(* FailureCaptureDaemon (cogni_flow/daemon.py) between the threads that    *)
(* report failures, the threads that start, stop and flush it, and the     *)
(* bounded LogDB it writes; with ProductionSelfHarness._run_cycle, which   *)
(* reads the failures back from a cursor in time.                          *)
(*                                                                         *)
(* A step is a critical section of the daemon's lock, of the queue, or one *)
(* database transaction.  A writer is one activation of _writer_loop.  The *)
(* audit trail is left out: the daemon swallows its errors and reads none  *)
(* of it.                                                                  *)
(***************************************************************************)
EXTENDS Naturals, FiniteSets, SequencesExt

CONSTANTS Failures,             \* captured failures, each submitted once
          Controllers,          \* threads calling start, stop and flush
          Writers,              \* activations of _writer_loop, in order
          Capacity,             \* of the queue
          MaxFailureRecords,    \* retention of the database
          MaxTime,              \* bound: readings of the clock
          Uses,                 \* who uses the daemon for what, and may
                                \* record_failure raise?
          Unset

ASSUME CaptureAssumption ==
    /\ Capacity \in Nat \ {0}
    /\ MaxFailureRecords \in Nat \ {0}
    /\ MaxTime \in Nat
    /\ Uses \subseteq [controllers : SUBSET Controllers, failures : SUBSET Failures,
                       faults : BOOLEAN, time : 0 .. MaxTime]
    /\ Unset \notin Failures \cup Writers \cup Nat

VARIABLES accepting, stop_requested, writer_error,
          thread,           \* _thread: the writer the daemon knows of
          queue, unfinished_tasks,
          submitted, recorded, rejected,
          writer,           \* [Writers -> new, alive or dead]
          in_hand,          \* what each writer has taken off the queue
          written,          \* ... and whether it is through with the database
          call,             \* each controller's call, or how its last one ended
          joined,           \* the writer its stop waits for
          accepted,         \* failures accepted since the last start, unless
                            \* a stop has since raised the writer's error
          due,              \* what was accepted when the call began
          forgotten,        \* a stop has let go of a writer that lived, and no
                            \* start since has found them all dead
          lost,             \* refused by the database, or left in a queue
                            \* that a start replaced
          db,               \* the failures table, oldest first
          stored,           \* every failure ever committed
          late,             \* committed behind the cursor's back
          clock, stamp,     \* the time, and when each failure was submitted
          cursor, cutoff, cycle, mined,
          use               \* drawn once

daemon == <<accepting, stop_requested, writer_error, thread>>
backlog == <<queue, unfinished_tasks>>
stats == <<submitted, recorded, rejected>>
writers == <<writer, in_hand, written>>
controllers == <<call, joined, due>>
epoch == <<accepted, forgotten, lost>>
table == <<db, stored, late>>
mining == <<cursor, cutoff, cycle, mined>>
capture_vars == <<daemon, backlog, stats, writers, controllers, epoch, table,
          clock, stamp, mining, use>>

Alive == {w \in Writers : writer[w] = "alive"}
Resting == {"out", "ok", "raised", "timeout"}

CaptureInit ==
    /\ accepting = FALSE
    /\ stop_requested = FALSE
    /\ writer_error = FALSE
    /\ thread = Unset
    /\ queue = <<>>
    /\ unfinished_tasks = 0
    /\ submitted = 0 /\ recorded = 0 /\ rejected = 0
    /\ writer = [w \in Writers |-> "new"]
    /\ in_hand = [w \in Writers |-> Unset]
    /\ written = [w \in Writers |-> FALSE]
    /\ call = [c \in Controllers |-> "out"]
    /\ joined = [c \in Controllers |-> Unset]
    /\ accepted = {}
    /\ due = [c \in Controllers |-> {}]
    /\ forgotten = FALSE
    /\ lost = {}
    /\ db = <<>>
    /\ stored = {}
    /\ late = {}
    /\ clock = 0
    /\ stamp = [f \in Failures |-> Unset]
    /\ cursor = 0 /\ cutoff = 0 /\ cycle = "idle" /\ mined = {}
    /\ use \in Uses

Ends(c, how) ==
    /\ call' = [call EXCEPT ![c] = how]
    /\ UNCHANGED <<joined, due>>

-----------------------------------------------------------------------------
(* start                                                                   *)

(* Already accepting: start returns as it is.  A writer still stopping: it *)
(* raises.  Neither changes anything.                                      *)
StartDaemon(c, w) ==
    /\ call[c] \in Resting
    /\ ~accepting
    /\ thread \notin Alive
    /\ writer[w] = "new"
    /\ queue' = <<>>
    /\ unfinished_tasks' = 0
    /\ stop_requested' = FALSE
    /\ writer_error' = FALSE
    /\ accepting' = TRUE
    /\ thread' = w
    /\ writer' = [writer EXCEPT ![w] = "alive"]
    /\ accepted' = {}
    /\ forgotten' = (Alive # {})
    /\ lost' = lost \cup Range(queue)
    /\ Ends(c, "out")
    /\ UNCHANGED <<stats, in_hand, written, table, clock, stamp, mining>>

-----------------------------------------------------------------------------
(* stop                                                                    *)

StopRequest(c) ==
    /\ call[c] \in Resting
    /\ due' = [due EXCEPT ![c] = accepted]
    /\ accepting' = FALSE
    /\ IF thread = Unset
       THEN /\ call' = [call EXCEPT ![c] = "ok"]
            /\ UNCHANGED <<stop_requested, joined>>
       ELSE /\ stop_requested' = TRUE
            /\ joined' = [joined EXCEPT ![c] = thread]
            /\ call' = [call EXCEPT ![c] = "joining"]
    /\ UNCHANGED <<writer_error, thread, backlog, stats, writers, epoch,
                   table, clock, stamp, mining>>

(* The writer has ended, or the join has timed out. *)
StopJoin(c) ==
    /\ call[c] = "joining"
    /\ Ends(c, IF joined[c] \in Alive THEN "timeout" ELSE "clearing")
    /\ UNCHANGED <<daemon, backlog, stats, writers, epoch, table, clock,
                   stamp, mining>>

StopClear(c) ==
    /\ call[c] = "clearing"
    /\ thread' = Unset
    /\ Ends(c, IF writer_error THEN "raised" ELSE "ok")
    /\ accepted' = IF writer_error THEN {} ELSE accepted
    /\ forgotten' = (forgotten \/ thread \in Alive)
    /\ UNCHANGED <<accepting, stop_requested, writer_error, backlog, stats,
                   writers, lost, table, clock, stamp, mining>>

-----------------------------------------------------------------------------
(* flush                                                                   *)

FlushBegin(c) ==
    /\ call[c] \in Resting
    /\ due' = [due EXCEPT ![c] = accepted]
    /\ call' = [call EXCEPT ![c] = "flushing"]
    /\ UNCHANGED <<daemon, backlog, stats, writers, joined, epoch, table,
                   clock, stamp, mining>>

FlushWait(c) ==
    /\ call[c] = "flushing"
    /\ Ends(c, IF unfinished_tasks = 0 THEN "reading" ELSE "timeout")
    /\ UNCHANGED <<daemon, backlog, stats, writers, epoch, table, clock,
                   stamp, mining>>

FlushEnd(c) ==
    /\ call[c] = "reading"
    /\ Ends(c, IF writer_error THEN "raised" ELSE "ok")
    /\ UNCHANGED <<daemon, backlog, stats, writers, epoch, table, clock,
                   stamp, mining>>

-----------------------------------------------------------------------------
(* submit: accepted, or refused loudly                                     *)

Stamp(f) == stamp' = [stamp EXCEPT ![f] = clock]

Submit(f) ==
    /\ stamp[f] = Unset
    /\ accepting /\ ~writer_error
    /\ Len(queue) < Capacity
    /\ Stamp(f)
    /\ queue' = Append(queue, f)
    /\ unfinished_tasks' = unfinished_tasks + 1
    /\ submitted' = submitted + 1
    /\ accepted' = accepted \cup {f}
    /\ UNCHANGED <<daemon, recorded, rejected, writers, controllers,
                   forgotten, lost, table, clock, mining>>

(* The writer has failed (FailureWriterError) or the queue is full         *)
(* (FailureQueueOverflow).                                                 *)
Reject(f) ==
    /\ stamp[f] = Unset
    /\ accepting
    /\ writer_error \/ Len(queue) = Capacity
    /\ Stamp(f)
    /\ rejected' = rejected + 1
    /\ UNCHANGED <<daemon, backlog, submitted, recorded, writers, controllers,
                   epoch, table, clock, mining>>

-----------------------------------------------------------------------------
(* _writer_loop                                                            *)

Take(w) ==
    /\ writer[w] = "alive"
    /\ in_hand[w] = Unset
    /\ queue # <<>>
    /\ in_hand' = [in_hand EXCEPT ![w] = Head(queue)]
    /\ queue' = Tail(queue)
    /\ UNCHANGED <<daemon, unfinished_tasks, stats, writer, written, controllers,
                   epoch, table, clock, stamp, mining>>

Retained(rows) ==
    IF Len(rows) <= MaxFailureRecords THEN rows
    ELSE SubSeq(rows, Len(rows) - MaxFailureRecords + 1, Len(rows))

(* BoundedLogDB.record_failure, one transaction. *)
Record(w) ==
    /\ in_hand[w] # Unset
    /\ ~written[w]
    /\ db' = Retained(Append(db, in_hand[w]))
    /\ stored' = stored \cup {in_hand[w]}
    /\ late' = IF stamp[in_hand[w]] < IF cycle = "work" THEN cutoff ELSE cursor
               THEN late \cup {in_hand[w]} ELSE late
    /\ recorded' = recorded + 1
    /\ written' = [written EXCEPT ![w] = TRUE]
    /\ UNCHANGED <<daemon, backlog, submitted, rejected, writer, in_hand,
                   controllers, epoch, clock, stamp, mining>>

(* Seeded bug: the exception ends the writer instead of being kept. *)
RecordFails_Unhandled(w) ==
    /\ use.faults
    /\ in_hand[w] # Unset
    /\ ~written[w]
    /\ writer' = [writer EXCEPT ![w] = "dead"]
    /\ in_hand' = [in_hand EXCEPT ![w] = Unset]
    /\ UNCHANGED <<daemon, backlog, stats, written, controllers, epoch, table,
                   clock, stamp, mining>>

RecordFails(w) ==
    /\ use.faults
    /\ in_hand[w] # Unset
    /\ ~written[w]
    /\ writer_error' = TRUE
    /\ written' = [written EXCEPT ![w] = TRUE]
    /\ lost' = lost \cup {in_hand[w]}
    /\ UNCHANGED <<accepting, stop_requested, thread, backlog, stats, writer,
                   in_hand, controllers, accepted, forgotten, table, clock,
                   stamp, mining>>

(* On a queue that start has meanwhile replaced, task_done raises and the  *)
(* writer ends.                                                            *)
TaskDone(w) ==
    /\ in_hand[w] # Unset
    /\ written[w]
    /\ in_hand' = [in_hand EXCEPT ![w] = Unset]
    /\ written' = [written EXCEPT ![w] = FALSE]
    /\ IF unfinished_tasks > 0
       THEN unfinished_tasks' = unfinished_tasks - 1 /\ UNCHANGED writer
       ELSE writer' = [writer EXCEPT ![w] = "dead"] /\ UNCHANGED unfinished_tasks
    /\ UNCHANGED <<daemon, queue, stats, controllers, epoch, table, clock,
                   stamp, mining>>

(* Seeded bug: the writer leaves as soon as it is told to. *)
WriterExit_Undrained(w) ==
    /\ writer[w] = "alive"
    /\ in_hand[w] = Unset
    /\ stop_requested
    /\ writer' = [writer EXCEPT ![w] = "dead"]
    /\ UNCHANGED <<daemon, backlog, stats, in_hand, written, controllers,
                   epoch, table, clock, stamp, mining>>

WriterExit(w) ==
    /\ writer[w] = "alive"
    /\ in_hand[w] = Unset
    /\ stop_requested
    /\ queue = <<>>
    /\ writer' = [writer EXCEPT ![w] = "dead"]
    /\ UNCHANGED <<daemon, backlog, stats, in_hand, written, controllers,
                   epoch, table, clock, stamp, mining>>

-----------------------------------------------------------------------------
(* ProductionSelfHarness._run_cycle                                        *)

elsewhere == <<daemon, backlog, stats, writers, controllers, epoch, table, stamp>>

Advance ==
    /\ clock < use.time
    /\ clock' = clock + 1
    /\ UNCHANGED <<elsewhere, mining>>

CycleBegin ==
    /\ cycle = "idle"
    /\ cutoff' = clock
    /\ cycle' = "query"
    /\ UNCHANGED <<elsewhere, clock, cursor, mined>>

(* failures_since(cursor) *)
CycleQuery ==
    /\ cycle = "query"
    /\ mined' = mined \cup {f \in Range(db) : stamp[f] >= cursor}
    /\ cycle' = "work"
    /\ UNCHANGED <<elsewhere, clock, cursor, cutoff>>

(* Seeded bug: a cycle that raised moves the cursor all the same. *)
CycleRaises_MovesCursor ==
    /\ cycle \in {"query", "work"}
    /\ cycle' = "idle"
    /\ cursor' = cutoff
    /\ UNCHANGED <<elsewhere, clock, cutoff, mined>>

CycleRaises ==
    /\ cycle \in {"query", "work"}
    /\ cycle' = "idle"
    /\ UNCHANGED <<elsewhere, clock, cursor, cutoff, mined>>

CycleEnd ==
    /\ cycle = "work"
    /\ cycle' = "idle"
    /\ cursor' = cutoff
    /\ UNCHANGED <<elsewhere, clock, cutoff, mined>>

-----------------------------------------------------------------------------
Write(w) == Take(w) \/ Record(w) \/ RecordFails(w) \/ TaskDone(w) \/ WriterExit(w)

CaptureNext ==
    /\ UNCHANGED use
    /\ \/ \E c \in use.controllers :
            \/ \E w \in Writers : StartDaemon(c, w)
            \/ StopRequest(c) \/ StopJoin(c) \/ StopClear(c)
            \/ FlushBegin(c) \/ FlushWait(c) \/ FlushEnd(c)
       \/ \E f \in use.failures : Submit(f) \/ Reject(f)
       \/ \E w \in Writers : Write(w)
       \/ Advance \/ CycleBegin \/ CycleQuery \/ CycleRaises \/ CycleEnd

CaptureSpec == CaptureInit /\ [][CaptureNext]_capture_vars

(* The writer thread is scheduled and the database answers. *)
FairSpec == CaptureSpec /\ \A w \in Writers : WF_capture_vars(Write(w) /\ UNCHANGED use)

-----------------------------------------------------------------------------
(* Every variable has its type; the queue and the table keep their bounds. *)
CaptureTypeOK ==
    /\ accepting \in BOOLEAN /\ stop_requested \in BOOLEAN /\ writer_error \in BOOLEAN
    /\ thread \in Writers \cup {Unset}
    /\ queue \in Seq(Failures) /\ Len(queue) <= Capacity
    /\ unfinished_tasks \in Nat
    /\ submitted \in Nat /\ recorded \in Nat /\ rejected \in Nat
    /\ writer \in [Writers -> {"new", "alive", "dead"}]
    /\ in_hand \in [Writers -> Failures \cup {Unset}]
    /\ written \in [Writers -> BOOLEAN]
    /\ call \in [Controllers -> Resting \cup {"joining", "clearing", "flushing", "reading"}]
    /\ joined \in [Controllers -> Writers \cup {Unset}]
    /\ accepted \subseteq Failures
    /\ forgotten \in BOOLEAN /\ lost \subseteq Failures
    /\ due \in [Controllers -> SUBSET Failures]
    /\ db \in Seq(Failures) /\ Len(db) <= MaxFailureRecords
    /\ stored \subseteq Failures /\ late \subseteq Failures
    /\ clock \in 0 .. MaxTime
    /\ stamp \in [Failures -> 0 .. MaxTime \cup {Unset}]
    /\ cursor \in 0 .. MaxTime /\ cutoff \in 0 .. MaxTime
    /\ cycle \in {"idle", "query", "work"}
    /\ mined \subseteq Failures /\ use \in Uses

(* stop and flush tell the truth: when one returns without an exception,   *)
(* the failures accepted before the call are committed, except those       *)
(* accepted before a restart in the meantime that the database refused.    *)
(* Unless a start has come between the two critical sections of a stop: it *)
(* is then the new writer that the stop forgets.                           *)
DrainedIfKnown ==
    [][\A c \in Controllers :
          call[c] # "ok" /\ call'[c] = "ok" =>
              \/ due'[c] \subseteq stored \cup lost /\ due'[c] \cap accepted \subseteq stored
              \/ forgotten]_capture_vars

(* An accepted failure does not disappear in silence: it is committed, or  *)
(* the writer's error is kept for the next caller, or a new start has      *)
(* begun another epoch.                                                    *)
AcceptedIsSettled ==
    \A f \in Failures :
        f \in accepted ~> f \in stored \/ writer_error \/ f \notin accepted

(* A cycle that raises keeps its failures for the next one: a failure      *)
(* still in the table is passed over only if it was committed after the    *)
(* query of a cycle that had already taken its cutoff.                     *)
OnlyLateIsSkipped ==
    \A f \in Range(db) : stamp[f] < cursor => f \in mined \cup late

(* What flush waits for is exact: each task not done is queued or in a     *)
(* writer's hands, unless a forgotten writer counts down for another.      *)
CounterIsExact ==
    ~forgotten => unfinished_tasks = Len(queue) + Cardinality({w \in Writers : in_hand[w] # Unset})

(* The queue and the table keep to their bounds (daemon.py, logdb.py), the *)
(* counter of the queue is what flush takes it for, and the cursor of      *)
(* ProductionSelfHarness passes over late failures only.                   *)
CaptureSound == CaptureTypeOK /\ CounterIsExact /\ OnlyLateIsSkipped
=============================================================================
