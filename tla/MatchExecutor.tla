---------------------------- MODULE MatchExecutor ----------------------------
(***************************************************************************)
(* MatchEngine::execute_operations and execute_operations_audit            *)
(* (src/src/core/matcher/engine.rs) with the transactional journal         *)
(* (src/src/core/matcher/journal.rs), on top of the file tasks.            *)
(*                                                                         *)
(* The operations of a batch run one after the other: an optional backup,  *)
(* the copy or rename, a journal entry, a save of the journal.             *)
(***************************************************************************)
EXTENDS FileTasks

CONSTANTS
  N,            \* the number of operations
  Mode,         \* operation -> relocation_mode: "none", "copy" or "move"
  Relocates,    \* operation -> has it a relocation_target_path?
  BackupTask,   \* operation -> the task create_backup_task makes
  PrimaryTask,  \* operation -> the task create_copy_task or create_rename_task makes
  Conflict,     \* conflict_resolution: "Skip", "AutoRename" or "Prompt"
  Backups,      \* backup_enabled
  HasJournal,   \* does journal_path() find a directory?
  SaveFails,    \* may JournalData::save fail?
  Cancels,      \* may the reporter ask to stop?
  DryRuns       \* the values of dry_run explored

Ops == 1..N

ASSUME ExecutorAssumption ==
  /\ N \in Nat
  /\ Mode \in [Ops -> {"none", "copy", "move"}]
  /\ Relocates \in [Ops -> BOOLEAN]
  /\ BackupTask \in [Ops -> Tasks] /\ PrimaryTask \in [Ops -> Tasks]
  /\ \A o \in Ops :
       /\ Kind[BackupTask[o]] = "copy"
       /\ Kind[PrimaryTask[o]] = IF Mode[o] = "copy" THEN "copyWithRename" ELSE "move"
       /\ Source[BackupTask[o]] = Source[PrimaryTask[o]]
       /\ Mode[o] = "none" => ~Relocates[o]
  /\ Conflict \in {"Skip", "AutoRename", "Prompt"}
  /\ Backups \in BOOLEAN /\ HasJournal \in BOOLEAN
  /\ SaveFails \in BOOLEAN /\ Cancels \in BOOLEAN /\ DryRuns \subseteq BOOLEAN

\* Each operation makes its own tasks.
ASSUME PlanAssumption ==
  \A o, q \in Ops : PrimaryTask[o] = PrimaryTask[q] \/ BackupTask[o] = BackupTask[q] => o = q

\* conflict_resolution "Skip" hands a taken target to a copy, which empties it.
NoOverwrite == Conflict = "Skip" => \A o \in Ops : Mode[o] # "copy"

\* Batches for which the files are safe.
SafePlan == NoOverwrite /\ \E own \in SUBSET FileOps : TargetsApart(own)

\* Batches for which the journal is sound as well: every subtitle is in one operation,
\* and one that stays in its directory is given a name of its own, not the one it
\* has; the engine resolves the conflicts of relocations only, and the name a task
\* resorts to does not reach the journal.
ResolvedPlan ==
  /\ Conflict # "Skip"
  /\ \A o, q \in Ops : Source[PrimaryTask[o]] = Source[PrimaryTask[q]] => o = q
  /\ \E own \in SUBSET FileOps :
       TargetsApart(own) /\ \A o \in Ops : ~Relocates[o] => PrimaryTask[o] \in own

VARIABLES
  audit,     \* execute_operations_audit or execute_operations?
  dry,       \* dry_run
  xpc,       \* control state of the engine
  op,        \* index of the current operation
  entries,   \* journal.entries in memory
  tmp,       \* the journal's temporary file: "none", "written" or "synced"
  journal,   \* the entries of the journal file
  torn,      \* is the journal file partly written?
  durable,   \* has the journal file been synced?
  outcomes,  \* one "applied" or "error" per operation done, "skipped" if cancelled
  stream,    \* the ProgressEvents the reporter has seen, in order
  result     \* what the call returned

journalVars == <<tmp, journal, torn, durable>>
engineVars == <<audit, dry, xpc, op, entries, journalVars, outcomes, stream, result>>
vars == <<taskVars, engineVars>>

EnginePcs == {"begin", "next", "backup", "plan", "primary", "write", "sync",
              "replace", "advance", "returned", "panicked", "overflowed"}

ExecInit ==
  /\ FileInit
  /\ target = Wanted
  /\ pc = [t \in Tasks |-> "idle"]
  /\ audit \in BOOLEAN
  /\ dry \in DryRuns
  /\ xpc = "begin"
  /\ op = 1
  /\ entries = <<>>
  /\ tmp = "none"
  /\ journal = <<>>
  /\ torn = FALSE
  /\ durable = TRUE
  /\ outcomes = <<>>
  /\ stream = <<>>
  /\ result = "none"

-----------------------------------------------------------------------------
XAt(label) == xpc = label /\ ~crashed
Primary    == PrimaryTask[op]
Backup     == BackupTask[op]
Padded     == outcomes \o [k \in 1..(N - Len(outcomes)) |-> "skipped"]

\* ProgressEvent; the item of an Advanced is the subtitle just done, which only the
\* audited loop names.
Event(kind, done, item) == [kind |-> kind, done |-> done, total |-> N, item |-> item]
Report(kind, done, item) == stream' = Append(stream, Event(kind, done, item))

\* ProgressEvent::Finished, then return.
Return(done, res) ==
  /\ Report("Finished", done, None)
  /\ result' = res
  /\ xpc' = "returned"

\* A dry run previews and returns, without events.
DryRun ==
  /\ XAt("begin") /\ dry
  /\ xpc' = "returned"
  /\ result' = "ok"
  /\ outcomes' = IF audit THEN Padded ELSE outcomes
  /\ UNCHANGED <<taskVars, audit, dry, op, entries, journalVars, stream>>

Start ==
  /\ XAt("begin") /\ ~dry
  /\ Report("Started", 0, None)
  /\ xpc' = "next"
  /\ UNCHANGED <<taskVars, audit, dry, op, entries, journalVars,
                 outcomes, result>>

\* Run(t): hand task t to the file system.
Run(t) == pc' = [pc EXCEPT ![t] = "begin"]

\* A Move with backups enabled starts with the backup.
NextOp ==
  /\ XAt("next") /\ op <= N
  /\ IF Mode[op] = "move" /\ Backups
     THEN Run(Backup) /\ xpc' = "backup"
     ELSE UNCHANGED pc /\ xpc' = "plan"
  /\ UNCHANGED <<dir, data, synced, target, attempt, final, in, out, crashed,
                 audit, dry, op, entries, journalVars, outcomes, stream,
                 result>>

\* reporter.cancelled() before an operation of the audited loop.
Cancel ==
  /\ XAt("next") /\ op <= N
  /\ audit /\ Cancels
  /\ outcomes' = Padded
  /\ Return(Len(outcomes), "ok")
  /\ UNCHANGED <<taskVars, audit, dry, op, entries, journalVars>>

Finish ==
  /\ XAt("next") /\ op > N
  /\ Return(Len(outcomes), "ok")
  /\ UNCHANGED <<taskVars, audit, dry, op, entries, journalVars, outcomes>>

\* One more Advanced event, and on to the next operation.
Advanced(outcome) ==
  /\ outcomes' = Append(outcomes, outcome)
  /\ Report("Advanced", Len(outcomes) + 1, IF audit THEN Source[Primary] ELSE None)
  /\ op' = op + 1
  /\ xpc' = "next"

FailOpSilently ==
  IF audit
  THEN op' = op + 1 /\ xpc' = "next" /\ UNCHANGED <<outcomes, stream, result>>
  ELSE Return(Len(outcomes), "error") /\ UNCHANGED <<outcomes, op>>
FailOpRetrying == xpc' = "next" /\ UNCHANGED <<op, outcomes, stream, result>>

\* A task failed: the audited loop records it and goes on, the other stops.
FailOp ==
  IF audit
  THEN Advanced("error") /\ UNCHANGED result
  ELSE Return(Len(outcomes), "error") /\ UNCHANGED <<outcomes, op>>

\* Mutant of BackupEnds: a failed backup does not stop the move.
BackupIgnored ==
  /\ XAt("backup") /\ pc[Backup] \in Ended
  /\ xpc' = "plan"
  /\ UNCHANGED <<taskVars, audit, dry, op, entries, journalVars, stream,
                 outcomes, result>>

BackupEnds ==
  /\ XAt("backup") /\ pc[Backup] \in Ended
  /\ IF pc[Backup] = "success"
     THEN xpc' = "plan" /\ UNCHANGED <<op, outcomes, stream, result>>
     ELSE FailOp
  /\ UNCHANGED <<taskVars, audit, dry, entries, journalVars>>

\* The engine's own resolve_filename_conflict.  AutoRename probes the names
\* with create_new and removes the placeholder again.
Names(t)  == <<Wanted[t]>> \o Suffixed[Wanted[t]]
Free(t)   == {k \in DOMAIN Names(t) : ~Exists(Names(t)[k])}

Resolved(t) ==
  IF Conflict = "Skip" THEN Wanted[t]
  ELSE Names(t)[CHOOSE k \in Free(t) : \A m \in Free(t) : k <= m]

Planned(p) ==
  /\ target' = [target EXCEPT ![Primary] = p]
  /\ Run(Primary)
  /\ xpc' = "primary"

Unplanned(label) == xpc' = label /\ UNCHANGED <<target, pc>>

\* create_copy_task and create_rename_task.  Both unwrap the result of the
\* conflict resolution, which has no name left or meets another I/O error, and
\* the former unwraps the relocation target; Prompt calls itself until the
\* stack overflows.
Plan ==
  /\ XAt("plan")
  /\ LET conflict == Relocates[op] /\ Exists(Wanted[Primary])
         panics   == \/ Mode[op] = "copy" /\ ~Relocates[op]
                     \/ conflict /\ Conflict = "AutoRename" /\ Free(Primary) = {} IN
       \/ panics /\ Unplanned("panicked")
       \/ conflict /\ Conflict = "AutoRename" /\ IoFails /\ Unplanned("panicked")
       \/ conflict /\ Conflict = "Prompt" /\ Unplanned("overflowed")
       \/ ~conflict /\ ~panics /\ Planned(Wanted[Primary])
       \/ conflict /\ ~panics /\ Conflict # "Prompt" /\ Planned(Resolved(Primary))
  /\ UNCHANGED <<dir, data, synced, attempt, final, in, out, crashed, audit, dry,
                 op, entries, journalVars, outcomes, stream, result>>

\* JournalEntry, with the operation it is about.  An entry is made after the fact:
\* it is never Pending.
JournalEntry(operation_type, source, destination, backup_path) ==
  [op |-> op, operation_type |-> operation_type, source |-> source,
   destination |-> destination, backup_path |-> backup_path, status |-> "Completed"]

OperationType == CASE Mode[op] = "copy" -> "Copied" [] Mode[op] = "move" -> "Moved"
                   [] OTHER -> "Renamed"
BackupPath == IF Mode[op] = "move" /\ Backups THEN Wanted[Backup] ELSE None

\* Mutant of Entry: the target before conflict resolution.
EntryUnresolved == JournalEntry(OperationType, Source[Primary], Wanted[Primary], BackupPath)

\* The entry names the requested target and backup, not the ones the tasks chose.
Entry == JournalEntry(OperationType, Source[Primary], target[Primary], BackupPath)

PrimaryEnds ==
  /\ XAt("primary") /\ pc[Primary] \in Ended
  /\ IF pc[Primary] = "success"
     THEN /\ entries' = Append(entries, Entry)
          /\ xpc' = IF HasJournal THEN "write" ELSE "advance"
          /\ UNCHANGED <<op, outcomes, stream, result>>
     ELSE FailOp /\ UNCHANGED entries
  /\ UNCHANGED <<taskVars, audit, dry, journalVars>>

-----------------------------------------------------------------------------
(* JournalData::save: write the temporary file, sync it, rename it. *)

WriteTmp ==
  /\ XAt("write")
  /\ tmp' = "written"
  /\ xpc' = "sync"
  /\ UNCHANGED <<taskVars, audit, dry, op, entries, journal, torn, durable, outcomes,
                 stream, result>>

SyncTmp ==
  /\ XAt("sync")
  /\ tmp' = "synced"
  /\ xpc' = "replace"
  /\ UNCHANGED <<taskVars, audit, dry, op, entries, journal, torn, durable, outcomes,
                 stream, result>>

Replace ==
  /\ XAt("replace")
  /\ journal' = entries
  /\ durable' = (tmp = "synced")
  /\ tmp' = "none"
  /\ xpc' = "advance"
  /\ UNCHANGED <<taskVars, audit, dry, op, entries, torn, outcomes, stream, result>>

\* A failed save closes the stream and ends both loops.
SaveError ==
  /\ SaveFails
  /\ xpc \in {"write", "sync", "replace"} /\ ~crashed
  /\ Return(Len(outcomes), "error")
  /\ UNCHANGED <<taskVars, audit, dry, op, entries, journalVars, outcomes>>

Advance ==
  /\ XAt("advance")
  /\ Advanced("applied")
  /\ UNCHANGED <<taskVars, audit, dry, entries, journalVars, result>>

\* The machine stops; a journal that was not synced may be torn.
Crash ==
  /\ PowerLoss
  /\ torn' \in IF durable THEN {FALSE} ELSE BOOLEAN
  /\ UNCHANGED <<audit, dry, xpc, op, entries, tmp, journal, durable, outcomes, stream, result>>

\* JournalData::load, as whoever resumes or undoes the batch does it: there is no
\* file before the first save, and a torn one does not parse.
Load ==
  LET ok == journal # <<>> /\ ~torn IN [ok |-> ok, entries |-> IF ok THEN journal ELSE <<>>]

Stopped ==
  /\ crashed \/ xpc \in {"returned", "panicked", "overflowed"}
  /\ UNCHANGED vars

Engine ==
  \/ DryRun \/ Start \/ NextOp \/ Cancel \/ Finish \/ BackupEnds \/ Plan
  \/ PrimaryEnds \/ WriteTmp \/ SyncTmp \/ Replace \/ SaveError \/ Advance

FileStep == (\E t \in Tasks : TaskStep(t)) /\ UNCHANGED engineVars

ExecNext == Engine \/ FileStep \/ Crash \/ Stopped

ExecSpec == ExecInit /\ [][ExecNext]_vars

\* The runtime polls the call and the blocking pool runs its file task.
ExecFairSpec == ExecSpec /\ WF_vars(Engine) /\ WF_vars(FileStep)

-----------------------------------------------------------------------------
(* Properties *)

Applied(o) == pc[PrimaryTask[o]] = "success"
Holds(p, t) == Exists(p) /\ data[dir[p]] = Source[t]

\* "The journal is saved atomically after each operation so that a crash
\* mid-batch still leaves a consistent, resumable on-disk record": once saved it can
\* be loaded, lists operations that were applied, in order, and misses at most the
\* last one.
JournalConsistent ==
  HasJournal =>
    LET found == Load.entries IN
      /\ journal # <<>> => Load.ok
      /\ \A k \in DOMAIN found : Applied(found[k].op)
      /\ \A k, m \in DOMAIN found : k < m => found[k].op < found[m].op
      /\ \A o, q \in Ops : o < q /\ Applied(o) /\ Applied(q) =>
           \E k \in DOMAIN found : found[k].op = o

\* An entry's destination is where the subtitle is, and its source is still there
\* exactly if the entry says it was copied, so that the entry can be undone.  (After
\* a power loss this is said of moves only: copies are not synced.)
JournalTruthful ==
  \A k \in DOMAIN Load.entries :
    LET e == Load.entries[k] IN
      ~crashed \/ e.operation_type # "Copied" =>
        /\ Holds(e.destination, PrimaryTask[e.op])
        /\ Exists(e.source) <=> e.operation_type = "Copied"

\* "a backup SHALL be created before the move": a subtitle that is no longer
\* under its name has been backed up, completely.
BackupBeforeMove ==
  ~crashed /\ Backups => \A o \in Ops :
    Mode[o] = "move" /\ ~Holds(Source[PrimaryTask[o]], PrimaryTask[o]) =>
      pc[BackupTask[o]] = "success" /\ Holds(final[BackupTask[o]], BackupTask[o])

\* What an interrupted or unwanted batch is undone from holds whatever fails: the
\* journal lists what was done, where the file is now.
JournalSound == JournalConsistent /\ JournalTruthful

\* No contents disappear, and a subtitle leaves its place only once it is backed up.
SubtitlesSafe == NothingLost /\ BackupBeforeMove

\* One outcome per operation, "applied" exactly for those whose file was put in
\* place; only a failed save ends an audited batch early.
OutcomesTruthful ==
  /\ \A k \in DOMAIN outcomes : outcomes[k] = "applied" <=> Applied(k)
  /\ audit /\ result = "ok" => Len(outcomes) = N
  /\ ~audit /\ result = "ok" /\ ~dry => \A o \in Ops : Applied(o)

\* The stream contract: "exactly one `Started`, zero or more `Advanced`, and exactly
\* one `Finished`", whose counts never decrease nor exceed the total, and which a
\* call that returns has always closed, whatever failed.  Advanced counts one
\* operation at a time and names it; Finished counts what was done, which is the
\* total only if nothing was skipped.
StreamClosed ==
  /\ \A k \in DOMAIN stream :
       /\ stream[k].kind = "Started" <=> k = 1
       /\ stream[k].kind = "Finished" => k = Len(stream) /\ stream[k].done = k - 2
       /\ stream[k].kind = "Advanced" => stream[k].done = k - 1
       /\ stream[k].kind = "Advanced" /\ audit => stream[k].item = Source[PrimaryTask[k - 1]]
       /\ stream[k].done <= N
  /\ xpc = "returned" /\ stream # <<>> => stream[Len(stream)].kind = "Finished"
  /\ \A k \in DOMAIN stream : stream[k].done = N =>
       \A m \in DOMAIN outcomes : outcomes[m] # "skipped"

\* What a caller is told, by the outcomes and by the progress events, is what
\* happened.
ReportsTruthful == OutcomesTruthful /\ StreamClosed

\* A conflict is resolved or reported: the call returns or unwinds.
BatchEnds == <>(crashed \/ xpc \in {"returned", "panicked"})
===========================================================================
