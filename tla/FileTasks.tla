------------------------------ MODULE FileTasks ------------------------------
(***************************************************************************)
(* The file operations of FileProcessingTask (src/src/core/parallel/task.rs *)
(* with src/src/core/fs_util.rs): copying, moving, renaming and backing up *)
(* a subtitle, one action per file-system call, for tasks that run         *)
(* concurrently on the blocking pool.                                      *)
(*                                                                         *)
(* The file system is a directory of names and a store of inodes: a name   *)
(* can be replaced while a task still writes through its open handle.      *)
(* Creating, renaming and removing a name are atomic and reach the disk in *)
(* order; the contents of a file are durable only after sync_all.          *)
(***************************************************************************)
EXTENDS Naturals, Sequences

CONSTANTS
  Tasks,       \* the FileProcessingTasks
  Paths,       \* absolute paths
  Existing,    \* the paths that name a file at the start
  Kind,        \* task -> its operation, one of Kinds
  Source,      \* task -> input path
  Wanted,      \* task -> the target it is given
  Suffixed,    \* path -> <stem>.1.<ext>, <stem>.2.<ext>, ... (999 in the code)
  RenameFails, \* may fs::rename fail (another device, permissions)?
  IoFails,     \* may any other call fail?
  Crashes      \* may the machine stop?

\* "copy" is CopyToVideoFolder and CreateBackup, "move" is MoveToVideoFolder and
\* RenameFile: each pair has the same code.  The others touch no file.
Stubs == {"convert", "match", "validate", "sync"}
Kinds == {"copy", "move", "copyWithRename"} \cup Stubs

\* ProcessingOperation::hash: the variant and its paths; hashes are taken not to
\* collide.
OperationHash(t) == <<Kind[t], Source[t], Wanted[t]>>

\* task_id: the type and a hash of the input path and the operation.
TaskId(t) == <<Kind[t], Source[t], OperationHash(t)>>

ASSUME TasksAssumption ==
  /\ Existing \subseteq Paths
  /\ Existing \cap Tasks = {}
  /\ Kind \in [Tasks -> Kinds]
  /\ Source \in [Tasks -> Paths]
  /\ Wanted \in [Tasks -> Paths]
  /\ Suffixed \in [Paths -> Seq(Paths)]
  /\ RenameFails \in BOOLEAN /\ IoFails \in BOOLEAN /\ Crashes \in BOOLEAN

\* The names a task may put a file under, given the target p.
NamesOf(p) == {p} \cup {Suffixed[p][k] : k \in DOMAIN Suffixed[p]}

\* A batch: the files exist, and no file is moved by two tasks.
FileOps == {t \in Tasks : Kind[t] \notin Stubs}
ASSUME BatchAssumption ==
  /\ \A t \in FileOps : Source[t] \in Existing
  /\ \A t, u \in FileOps : Kind[t] = "move" /\ Kind[u] = "move" /\ Source[t] = Source[u] => t = u

\* The names under which whoever runs task t and t itself may put a file, both of
\* them resolving conflicts.
Reach(t) == UNION {NamesOf(p) : p \in NamesOf(Wanted[t])}

\* The tasks of own were each given a free name that no other task was given or can
\* resort to; and what the others can resort to is nobody's source, save that a
\* move may have been given its own.  (What the theorems about files suppose of a
\* batch, which the code does not check.)
TargetsApart(own) ==
  /\ \A t \in own : Wanted[t] \notin Existing
  /\ \A t, u \in own : Wanted[t] = Wanted[u] => t = u
  /\ \A u \in FileOps \ own :
       /\ \A t \in own : Wanted[t] \notin Reach(u)
       /\ \A v \in FileOps : Source[v] \in Reach(u) => Kind[u] = "move" /\ Source[v] = Source[u]

\* A file that was there is its own inode; a task creates at most one more.
Inodes == Existing \cup Tasks
None   == "none"
Torn   == "torn"   \* contents: empty or partly written
ASSUME FileSentinels == None \notin Inodes \cup Paths /\ Torn \notin Existing

VARIABLES
  dir,      \* path -> inode or None
  data,     \* inode -> the original file whose contents it has, or Torn
  synced,   \* the inodes whose contents are durable
  target,   \* the target of each task
  pc,       \* control state of each task
  attempt,  \* how many names resolve_filename_conflict has found taken
  final,    \* final_target: the name the task created or renamed to
  in,       \* inode of the open source
  out,      \* inode of the open destination
  crashed   \* the machine has stopped

taskVars == <<dir, data, synced, target, pc, attempt, final, in, out, crashed>>

Pcs == {"idle", "begin", "rename", "claim", "open", "truncate", "copy", "sync",
        "remove", "success", "failed"}
Ended == {"success", "failed"}

FileInit ==
  /\ dir = [p \in Paths |-> IF p \in Existing THEN p ELSE None]
  /\ data = [i \in Inodes |-> IF i \in Existing THEN i ELSE Torn]
  /\ synced = Existing
  /\ attempt = [t \in Tasks |-> 0]
  /\ final = [t \in Tasks |-> None]
  /\ in = [t \in Tasks |-> None]
  /\ out = [t \in Tasks |-> None]
  /\ crashed = FALSE

-----------------------------------------------------------------------------
At(t, label)   == pc[t] = label /\ ~crashed
Goto(t, label) == pc' = [pc EXCEPT ![t] = label]
Exists(p)      == dir[p] # None

\* convert_format, match_files and validate_format return at once; a sync task
\* fails, since "Sync functionality not implemented".
Stub(t) ==
  /\ At(t, "begin")
  /\ Kind[t] \in Stubs
  /\ Goto(t, IF Kind[t] = "sync" THEN "failed" ELSE "success")
  /\ UNCHANGED <<dir, data, synced, target, attempt, final, in, out, crashed>>

\* create_dir_all, then target.exists() if the task is a move.
Begin(t) ==
  /\ At(t, "begin")
  /\ Kind[t] \notin Stubs
  /\ Goto(t, CASE Kind[t] = "copyWithRename" -> "open"
               [] Kind[t] = "move" /\ ~Exists(target[t]) -> "rename"
               [] OTHER -> "claim")
  /\ UNCHANGED <<dir, data, synced, target, attempt, final, in, out, crashed>>

\* fs::rename replaces whatever the target names by now.
Rename(t) ==
  /\ At(t, "rename")
  /\ Exists(Source[t])
  /\ dir' = [[dir EXCEPT ![Source[t]] = None] EXCEPT ![target[t]] = dir[Source[t]]]
  /\ final' = [final EXCEPT ![t] = target[t]]
  /\ Goto(t, "success")
  /\ UNCHANGED <<data, synced, target, attempt, in, out, crashed>>

\* Any error of fs::rename falls through to copying and deleting.
RenameError(t) ==
  /\ At(t, "rename")
  /\ RenameFails \/ ~Exists(Source[t])
  /\ Goto(t, "claim")
  /\ UNCHANGED <<dir, data, synced, target, attempt, final, in, out, crashed>>

Candidate(t) ==
  IF attempt[t] = 0 THEN target[t] ELSE Suffixed[target[t]][attempt[t]]

\* Mutant of Claim: the name is taken over even if a file has it.
ClaimAnyway(t) ==
  /\ At(t, "claim")
  /\ dir' = [dir EXCEPT ![Candidate(t)] = t]
  /\ final' = [final EXCEPT ![t] = Candidate(t)]
  /\ out' = [out EXCEPT ![t] = t]
  /\ Goto(t, "open")
  /\ UNCHANGED <<data, synced, target, attempt, in, crashed>>

\* resolve_filename_conflict: atomic_create_file (O_EXCL) on a free candidate.
Claim(t) ==
  /\ At(t, "claim")
  /\ ~Exists(Candidate(t))
  /\ dir' = [dir EXCEPT ![Candidate(t)] = t]
  /\ final' = [final EXCEPT ![t] = Candidate(t)]
  /\ out' = [out EXCEPT ![t] = t]
  /\ Goto(t, "open")
  /\ UNCHANGED <<data, synced, target, attempt, in, crashed>>

\* Mutant of Taken: after the last suffix the search starts over.
TakenForever(t) ==
  /\ At(t, "claim")
  /\ Exists(Candidate(t))
  /\ attempt' = [attempt EXCEPT ![t] = IF @ < Len(Suffixed[target[t]]) THEN @ + 1 ELSE 0]
  /\ UNCHANGED <<pc, dir, data, synced, target, final, in, out, crashed>>

\* AlreadyExists: the next suffix, and an error when there is none left.
Taken(t) ==
  /\ At(t, "claim")
  /\ Exists(Candidate(t))
  /\ IF attempt[t] < Len(Suffixed[target[t]])
     THEN attempt' = [attempt EXCEPT ![t] = @ + 1] /\ UNCHANGED pc
     ELSE Goto(t, "failed") /\ UNCHANGED attempt
  /\ UNCHANGED <<dir, data, synced, target, final, in, out, crashed>>

\* validate_write_target and File::open of the source; an error leaves the
\* claimed name behind, empty.
Open(t) ==
  /\ At(t, "open")
  /\ IF Exists(Source[t])
     THEN /\ in' = [in EXCEPT ![t] = dir[Source[t]]]
          /\ Goto(t, IF Kind[t] = "copyWithRename" THEN "truncate" ELSE "copy")
     ELSE Goto(t, "failed") /\ UNCHANGED in
  /\ UNCHANGED <<dir, data, synced, target, attempt, final, out, crashed>>

\* copy_file_cifs_safe: File::create creates the target or empties it.
Truncate(t) ==
  /\ At(t, "truncate")
  /\ final' = [final EXCEPT ![t] = target[t]]
  /\ IF Exists(target[t])
     THEN /\ data' = [data EXCEPT ![dir[target[t]]] = Torn]
          /\ out' = [out EXCEPT ![t] = dir[target[t]]]
          /\ synced' = synced \ {dir[target[t]]}
          /\ UNCHANGED dir
     ELSE /\ dir' = [dir EXCEPT ![target[t]] = t]
          /\ out' = [out EXCEPT ![t] = t]
          /\ UNCHANGED <<data, synced>>
  /\ Goto(t, "copy")
  /\ UNCHANGED <<target, attempt, in, crashed>>

\* Mutant of Copy: a move removes the source without sync_all.
CopyWithoutSync(t) ==
  /\ At(t, "copy")
  /\ data' = [data EXCEPT ![out[t]] = data[in[t]]]
  /\ Goto(t, IF Kind[t] = "move" THEN "remove" ELSE "success")
  /\ UNCHANGED <<dir, synced, target, attempt, final, in, out, crashed>>

\* io::copy through the two handles.
Copy(t) ==
  /\ At(t, "copy")
  /\ data' = [data EXCEPT ![out[t]] = data[in[t]]]
  /\ Goto(t, IF Kind[t] = "move" THEN "sync" ELSE "success")
  /\ UNCHANGED <<dir, synced, target, attempt, final, in, out, crashed>>

\* file.sync_all()
Sync(t) ==
  /\ At(t, "sync")
  /\ synced' = synced \cup {out[t]}
  /\ Goto(t, "remove")
  /\ UNCHANGED <<dir, data, target, attempt, final, in, out, crashed>>

\* fs::remove_file(source)
RemoveSource(t) ==
  /\ At(t, "remove")
  /\ IF Exists(Source[t])
     THEN dir' = [dir EXCEPT ![Source[t]] = None] /\ Goto(t, "success")
     ELSE Goto(t, "failed") /\ UNCHANGED dir
  /\ UNCHANGED <<data, synced, target, attempt, final, in, out, crashed>>

\* Any call may return an error: the task stops where it is.  A copy that fails
\* half way leaves the destination torn.
IoError(t) ==
  /\ IoFails
  /\ ~crashed
  /\ pc[t] \in Pcs \ ({"idle", "rename"} \cup Ended)
  /\ Goto(t, "failed")
  /\ UNCHANGED <<dir, data, synced, target, attempt, final, in, out, crashed>>

TaskStep(t) ==
  \/ Stub(t) \/ Begin(t) \/ Rename(t) \/ RenameError(t) \/ Claim(t) \/ Taken(t) \/ Open(t)
  \/ Truncate(t) \/ Copy(t) \/ Sync(t) \/ RemoveSource(t) \/ IoError(t)

\* Power is lost: contents that were not synced may or may not be on the disk.
PowerLoss ==
  /\ Crashes /\ ~crashed
  /\ crashed' = TRUE
  /\ \E lost \in SUBSET (Inodes \ synced) :
       data' = [i \in Inodes |-> IF i \in lost THEN Torn ELSE data[i]]
  /\ UNCHANGED <<dir, synced, target, pc, attempt, final, in, out>>

-----------------------------------------------------------------------------
\* "neither overwrites the other": whatever runs concurrently, fails or crashes,
\* the contents of every file that was there can still be read under some name.
\* (True of tasks among which no two rename to one free name: Begin and Rename
\* are two steps, and fs::rename replaces.)
NothingLost ==
  \A f \in Existing : \E p \in Paths : Exists(p) /\ data[dir[p]] = f

\* A task that reported Success has put its source's contents under its own
\* name, which no other task has.
SuccessDelivers ==
  ~crashed =>
    /\ \A t \in Tasks : pc[t] = "success" /\ Kind[t] \notin Stubs =>
         Exists(final[t]) /\ data[dir[final[t]]] = Source[t]
    /\ \A t, u \in Tasks : pc[t] = "success" /\ pc[u] = "success" /\ final[t] = final[u]
         => t = u \/ final[t] = None

\* A move that failed or was interrupted has not removed its source, or its
\* contents are already durable at the target.
MoveIsAllOrNothing ==
  \A t \in Tasks : Kind[t] = "move" =>
    \/ dir[Source[t]] = Source[t]
    \/ Exists(final[t]) /\ data[dir[final[t]]] = Source[t]
=============================================================================
