------------------------------ MODULE WorkerPool -----------------------------
(***************************************************************************)
(* The worker pool (src/src/core/parallel/worker.rs) running file tasks,   *)
(* and a caller that shuts it down and then undoes the copies the tasks    *)
(* made through a FileManager (src/src/core/file_manager.rs).              *)
(*                                                                         *)
(* Several callers execute() concurrently: the capacity check and the      *)
(* insertion of the worker hold the lock one after the other, and the task *)
(* is spawned in between.  No worker leaves the map before shutdown().     *)
(***************************************************************************)
EXTENDS FileTasks, FiniteSets, SequencesExt

CONSTANTS
  MaxWorkers,  \* max_workers
  Callers,     \* the holders of a clone of the pool
  Owner,       \* the one that shuts it down, after its own calls
  Submits      \* caller -> the tasks it submits, one after the other

ASSUME PoolAssumption ==
  /\ MaxWorkers \in Nat
  /\ Owner \in Callers
  /\ Submits \in [Callers -> Seq(Tasks)]
  /\ IsFiniteSet(Callers) /\ IsFiniteSet(Tasks)
  /\ \A t \in Tasks : \E c \in Callers : t \in Range(Submits[c])
  /\ \A c, d \in Callers : \A i \in DOMAIN Submits[c], j \in DOMAIN Submits[d] :
       Submits[c][i] = Submits[d][j] => c = d /\ i = j

\* Batches without the race of fs::rename, which replaces what was created since
\* target.exists(): a move, like a copy that does not look, was given a name of its
\* own, or one where there is a file that stays.
RaceFree(own) ==
  /\ TargetsApart(own)
  /\ \A t \in FileOps \ own :
       Kind[t] = "copy" \/ (Kind[t] = "move" /\ Wanted[t] \in Existing)

NoRenameRace == \E own \in SUBSET FileOps : RaceFree(own)

VARIABLES
  call,      \* task -> where its execute() stands
  workers,   \* the tasks whose worker is in the map
  taken,     \* the tasks whose worker shutdown() took out of the map
  joined,    \* those it has waited for
  shut,      \* "up", "draining" or "down"
  ops,       \* FileManager.operations, the oldest first
  undone     \* what rollback() returned: "no" (not called), "ok" or "error"

poolVars == <<call, workers, taken, joined, shut>>
managerVars == <<ops, undone>>
systemVars == <<taskVars, poolVars, managerVars>>

\* execute() has not begun / passed the check / spawned the task / returned.
Calls == {"new", "checked", "spawned", "submitted", "refused"}

PoolInit ==
  /\ FileInit
  /\ target = Wanted
  /\ pc = [t \in Tasks |-> "idle"]
  /\ call = [t \in Tasks |-> "new"]
  /\ workers = {} /\ taken = {} /\ joined = {}
  /\ shut = "up"
  /\ ops = <<>> /\ undone = "no"

-----------------------------------------------------------------------------
Returned == {"submitted", "refused"}

\* A caller awaits its execute() before the next one.
Turn(t) ==
  \E c \in Callers : \E i \in DOMAIN Submits[c] :
    /\ Submits[c][i] = t
    /\ \A j \in 1 .. i - 1 : call[Submits[c][j]] \in Returned

\* The lock is held for the check only; "Worker pool is full" is the error.
Check(t) ==
  /\ call[t] = "new" /\ Turn(t)
  /\ ~crashed
  /\ call' = [call EXCEPT ![t] = IF Cardinality(workers) >= MaxWorkers
                                 THEN "refused" ELSE "checked"]
  /\ UNCHANGED <<taskVars, workers, taken, joined, shut, managerVars>>

\* tokio::spawn: from here on the task runs.
Spawn(t) ==
  /\ call[t] = "checked"
  /\ ~crashed
  /\ call' = [call EXCEPT ![t] = "spawned"]
  /\ Goto(t, "begin")
  /\ UNCHANGED <<dir, data, synced, target, attempt, final, in, out, crashed>>
  /\ UNCHANGED <<workers, taken, joined, shut, managerVars>>

\* The worker's handle enters the map and execute() returns.
Enrol(t) ==
  /\ call[t] = "spawned"
  /\ ~crashed
  /\ call' = [call EXCEPT ![t] = "submitted"]
  /\ workers' = workers \cup {t}
  /\ UNCHANGED <<taskVars, taken, joined, shut, managerVars>>

WorkerTypes == {"CpuIntensive", "IoIntensive", "Mixed"}

\* determine_worker_type, from the task's type.
WorkerType(t) ==
  CASE Kind[t] = "convert" -> "CpuIntensive"
    [] Kind[t] \in {"match", "validate"} -> "IoIntensive"
    [] OTHER -> "Mixed"

\* list_active_workers: a row for each worker, whatever the ids of its tasks.
Listed == {[worker |-> t, task_id |-> TaskId(t), worker_type |-> WorkerType(t)] : t \in workers}

\* get_worker_stats, which counts the map by the type of the workers.
Stats ==
  [total  |-> Cardinality(workers),
   byType |-> [w \in WorkerTypes |->
                 Cardinality({row \in Listed : row.worker_type = w})]]

\* shutdown(): mem::take of the map, under the lock.
Shutdown ==
  /\ shut = "up"
  /\ \A t \in Range(Submits[Owner]) : call[t] \in Returned
  /\ ~crashed
  /\ shut' = "draining"
  /\ taken' = workers
  /\ workers' = {}
  /\ UNCHANGED <<taskVars, call, joined, managerVars>>

\* Mutant of Join: the handle is dropped, which detaches the task.
JoinDetached(t) ==
  /\ shut = "draining" /\ t \in taken \ joined
  /\ ~crashed
  /\ joined' = joined \cup {t}
  /\ UNCHANGED <<taskVars, call, workers, taken, shut, managerVars>>

\* info.handle.await, in any order; how the task ended is ignored.
Join(t) ==
  /\ shut = "draining" /\ t \in taken \ joined
  /\ pc[t] \in Ended
  /\ ~crashed
  /\ joined' = joined \cup {t}
  /\ UNCHANGED <<taskVars, call, workers, taken, shut, managerVars>>

ShutdownReturns ==
  /\ shut = "draining" /\ joined = taken
  /\ ~crashed
  /\ shut' = "down"
  /\ UNCHANGED <<taskVars, call, workers, taken, joined, managerVars>>

-----------------------------------------------------------------------------
\* The caller undoes its batch once every task it submitted has ended and
\* before anything else is submitted.
Quiet ==
  /\ shut = "down" /\ ~crashed /\ undone = "no"
  /\ \A t \in Tasks : call[t] = "refused" \/ (call[t] = "submitted" /\ pc[t] \in Ended)

Created(p) == [op |-> "Created", path |-> p]
Removed(p) == [op |-> "Removed", path |-> p]

\* record_creation of the copy a task reported.
RecordCreation(t) ==
  /\ Quiet
  /\ Kind[t] = "copy" /\ pc[t] = "success"
  /\ Created(final[t]) \notin Range(ops)
  /\ ops' = Append(ops, Created(final[t]))
  /\ UNCHANGED <<taskVars, poolVars, undone>>

\* remove_file of a copy: nothing is kept of it but the record.
RemoveFile(t) ==
  /\ Quiet
  /\ Kind[t] = "copy" /\ pc[t] = "success"
  /\ Exists(final[t])
  /\ dir' = [dir EXCEPT ![final[t]] = None]
  /\ ops' = Append(ops, Removed(final[t]))
  /\ UNCHANGED <<data, synced, target, pc, attempt, final, in, out, crashed>>
  /\ UNCHANGED <<poolVars, undone>>

\* The recorded creations among the k newest operations.
Newest(k) ==
  {ops[i].path : i \in {j \in Len(ops) - k + 1 .. Len(ops) : ops[j].op = "Created"}}

Erase(paths) == dir' = [p \in Paths |-> IF p \in paths THEN None ELSE dir[p]]

\* rollback(): newest first.  Created files that still exist are removed, for a
\* removed one there is only a warning.  The first error ends it, and drain has
\* emptied the list in either case.
Rollback ==
  /\ Quiet
  /\ \E k \in 0 .. Len(ops) :
       /\ k < Len(ops) => IoFails /\ ops[Len(ops) - k].op = "Created"
                                  /\ Exists(ops[Len(ops) - k].path)
       /\ Erase(Newest(k))
       /\ undone' = IF k = Len(ops) THEN "ok" ELSE "error"
  /\ ops' = <<>>
  /\ UNCHANGED <<data, synced, target, pc, attempt, final, in, out, crashed, poolVars>>

-----------------------------------------------------------------------------
Running(t) == TaskStep(t) /\ UNCHANGED <<poolVars, managerVars>>
Execute(t) == Check(t) \/ Spawn(t) \/ Enrol(t)
Drain      == Shutdown \/ (\E t \in Tasks : Join(t)) \/ ShutdownReturns
Manage     == (\E t \in Tasks : RecordCreation(t) \/ RemoveFile(t)) \/ Rollback
Fault      == PowerLoss /\ UNCHANGED <<poolVars, managerVars>>

Settled ==
  /\ crashed \/ undone # "no"
  /\ UNCHANGED systemVars

Next ==
  \/ \E t \in Tasks : Execute(t) \/ Running(t)
  \/ Drain \/ Manage \/ Fault \/ Settled

\* The runtime runs every caller and every task; nothing makes the caller undo
\* its batch, and the power need not fail.
PoolSpec ==
  /\ PoolInit /\ [][Next]_systemVars
  /\ \A t \in Tasks : WF_systemVars(Execute(t)) /\ WF_systemVars(Running(t))
  /\ WF_systemVars(Drain)

-----------------------------------------------------------------------------
\* Until the caller undoes its copies: a task that reported Success has put its
\* source's contents under its own name, which no other task has; and a move
\* that failed or was interrupted has not removed its source, or its contents
\* are already durable at the target.
FilesDelivered ==
  /\ ops = <<>> /\ undone = "no" => SuccessDelivers
  /\ MoveIsAllOrNothing

\* When shutdown() returns, every worker that was in the map has ended, so the
\* files of its task are settled.  No running task is out of sight: its worker is
\* in the map, was waited for, or is about to be inserted.  And a pool shared by
\* n callers reports at most n - 1 workers more than its capacity, since each
\* checks before any inserts.
PoolSound ==
  /\ shut = "down" => \A t \in taken : pc[t] \in Ended
  /\ \A t \in Tasks : pc[t] # "idle" =>
       t \in workers \cup taken \/ call[t] = "spawned"
  /\ Stats.total <= MaxWorkers + Cardinality(Callers) - 1
  /\ Stats.total = Stats.byType["CpuIntensive"] + Stats.byType["IoIntensive"]
                     + Stats.byType["Mixed"]

\* execute() either refuses a task or runs it to an end, and shutdown() returns,
\* however conflicts, errors and late submissions interleave.
PoolSettles ==
  /\ \A t \in Tasks : <>(call[t] = "refused" \/ pc[t] \in Ended \/ crashed)
  /\ <>(shut = "down" \/ crashed)

=============================================================================
