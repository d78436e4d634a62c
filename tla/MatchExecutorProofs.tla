------------------------- MODULE MatchExecutorProofs -------------------------
(***************************************************************************)
(* TLAPS proofs about the execution of operations on files.                *)
(*                                                                         *)
(* FileTasks and WorkerPool, for every batch of tasks, pool and set of     *)
(* callers: what a step of one task does to the files of all of them; no   *)
(* worker is out of sight, the pool is overrun by at most one worker per   *)
(* further caller, and no contents are lost.                               *)
(*                                                                         *)
(* MatchExecutor, for every batch of operations: a subtitle is never lost  *)
(* and leaves its place only once it is backed up, the journal and the     *)
(* reports say what happened.                                              *)
(***************************************************************************)
EXTENDS MatchExecutor, WorkerPool, FiniteSetTheorems, SequenceTheorems, WellFoundedInduction, TLAPS

FileTypeOK ==
  /\ dir \in [Paths -> Inodes \cup {None}]
  /\ data \in [Inodes -> Existing \cup {Torn}]
  /\ synced \subseteq Inodes
  /\ target \in [Tasks -> Paths]
  /\ pc \in [Tasks -> Pcs]
  /\ attempt \in [Tasks -> Nat]
  /\ final \in [Tasks -> Paths \cup {None}]
  /\ in \in [Tasks -> Inodes \cup {None}]
  /\ out \in [Tasks -> Inodes \cup {None}]
  /\ crashed \in BOOLEAN

\* The names under which t may put a file as long as its search is where it is.
Options(t) == IF attempt[t] = 0 THEN {target[t]} ELSE NamesOf(target[t])

\* None of them is the name of a source; only a move may have been given its own
\* source as target.
Apart ==
  \A t, u \in FileOps : Source[u] \in Options(t) =>
    Kind[t] = "move" /\ Source[u] = Source[t]

\* t will put a file under its target without looking whether there is one.
Unguarded(t) ==
  pc[t] = "rename" \/ (Kind[t] = "copyWithRename" /\ pc[t] \in {"begin", "open", "truncate"})

\* No step of u creates what an unguarded task would then replace.
NoRace(u) ==
  \A t \in FileOps \ {u} : Unguarded(t) => target[t] \notin Options(u)

\* A task with a name of its own need not search, and finds it free.
Owned(own) ==
  \A t \in own :
    /\ target[t] = Wanted[t] /\ attempt[t] = 0
    /\ final[t] = None => dir[Wanted[t]] = None

(* The parts of the invariant. *)

\* The contents of the files that were there never change and are durable.
Originals == \A f \in Existing : data[f] = f /\ f \in synced

\* A source is where it was or gone.
SourcesHome == \A t \in FileOps : dir[Source[t]] \in {Source[t], None}

\* It leaves its place exactly when the task that moves it has succeeded.
MoversWait ==
  \A t \in FileOps : Kind[t] = "move" =>
    dir[Source[t]] = IF pc[t] = "success" THEN None ELSE Source[t]

Moved(m, f) == Kind[m] = "move" /\ Source[m] = f /\ pc[m] = "success"

Kept == \A f \in Existing : dir[f] = f \/ \E m \in FileOps : Moved(m, f)

\* What an unguarded task is about to write to is not there.
TargetsFree == \A t \in FileOps : Unguarded(t) => dir[target[t]] = None

\* Control states each kind of task goes through.
Route(t) ==
  /\ pc[t] = "rename" => Kind[t] = "move"
  /\ pc[t] = "claim" => Kind[t] # "copyWithRename"
  /\ pc[t] = "truncate" => Kind[t] = "copyWithRename"
  /\ pc[t] \in {"sync", "remove"} => Kind[t] = "move"
  /\ attempt[t] \in 0..Len(Suffixed[target[t]])

\* t has created its file, which is still there.
HasFile(t) == final[t] # None /\ dir[final[t]] = t

\* What t has done by its control state.
Done(t) ==
  /\ pc[t] \in {"idle", "begin", "rename", "claim", "truncate"} => final[t] = None
  /\ pc[t] = "open" => IF Kind[t] = "copyWithRename" THEN final[t] = None
                                                     ELSE HasFile(t) /\ out[t] = t
  /\ pc[t] = "truncate" => in[t] = Source[t]
  /\ pc[t] \in {"copy", "sync", "remove"} => HasFile(t) /\ out[t] = t /\ in[t] = Source[t]
  /\ pc[t] = "sync" /\ ~crashed => data[t] = Source[t]
  /\ pc[t] = "remove" => data[t] = Source[t] /\ t \in synced
  /\ pc[t] = "failed" => final[t] = None \/ HasFile(t)

\* What a task that succeeded has delivered: a moved file is durable.
Delivered(t) ==
  pc[t] = "success" =>
    IF Kind[t] = "move"
    THEN /\ final[t] # None
         /\ \/ dir[final[t]] = Source[t]
            \/ dir[final[t]] = t /\ data[t] = Source[t] /\ t \in synced
    ELSE HasFile(t) /\ (crashed \/ data[t] = Source[t])

NotASource(t) == final[t] # None => \A u \in FileOps : final[t] # Source[u]

\* A stub touches nothing.
Inert == \A t \in Tasks \ FileOps : pc[t] \in {"idle", "begin", "success", "failed"} /\ final[t] = None

FileInv ==
  /\ FileTypeOK
  /\ Originals
  /\ SourcesHome
  /\ MoversWait
  /\ Kept
  /\ TargetsFree
  /\ \A t \in FileOps : Route(t) /\ Done(t) /\ Delivered(t) /\ NotASource(t)

-----------------------------------------------------------------------------
(* Facts about the constants. *)

LEMMA Constants ==
  /\ \A t \in FileOps : t \in Tasks /\ Source[t] \in Existing /\ Source[t] # None
  /\ \A t \in Tasks : t \in Inodes /\ t # None /\ t \notin Existing
  /\ \A f \in Existing : f \in Inodes /\ f \in Paths /\ f # Torn /\ f # None
  /\ None \notin Paths
  /\ \A t \in Tasks : Kind[t] \in Kinds
  BY BatchAssumption, TasksAssumption, FileSentinels DEF FileOps, Inodes

LEMMA SoleMover ==
  ASSUME NEW t \in FileOps, NEW u \in FileOps, Kind[t] = "move", Kind[u] = "move",
         Source[t] = Source[u]
  PROVE  t = u
  BY BatchAssumption

LEMMA CandidateIsName ==
  ASSUME FileTypeOK, NEW t \in Tasks, Route(t)
  PROVE  Candidate(t) \in Options(t) /\ Candidate(t) \in NamesOf(target[t]) /\ Candidate(t) \in Paths
<1>1. Suffixed[target[t]] \in Seq(Paths) /\ target[t] \in Paths
  BY TasksAssumption DEF FileTypeOK
<1>2. CASE attempt[t] = 0
  BY <1>1, <1>2 DEF Candidate, Options, NamesOf
<1>3. CASE attempt[t] # 0
  <2>1. attempt[t] \in DOMAIN Suffixed[target[t]]
    BY <1>1, <1>3 DEF Route
  <2> QED
    BY <1>1, <1>3, <2>1 DEF Candidate, Options, NamesOf
<1> QED
  BY <1>2, <1>3

-----------------------------------------------------------------------------
(* Steps that leave the files alone. *)

\* A task that had not succeeded gives up: what it created stays.
LEMMA FailStep ==
  ASSUME FileInv, NEW t \in Tasks, pc[t] # "success", pc[t] # "idle", pc' = [pc EXCEPT ![t] = "failed"],
         UNCHANGED <<dir, data, synced, target, attempt, final, in, out, crashed>>
  PROVE  FileInv'
<1>1. FileTypeOK'
  BY DEF FileInv, FileTypeOK, Pcs
<1>2. Originals' /\ SourcesHome' /\ MoversWait' /\ Kept'
  BY DEF FileInv, FileTypeOK, Originals, SourcesHome, MoversWait, Kept, Moved
<1>3. TargetsFree'
  BY DEF FileInv, FileTypeOK, TargetsFree, Unguarded
<1>4. ASSUME NEW u \in FileOps PROVE Route(u)' /\ Done(u)' /\ Delivered(u)' /\ NotASource(u)'
  BY DEF Pcs, FileInv, FileTypeOK, FileOps, Route, Done, HasFile, Delivered, NotASource
<1> QED
  BY <1>1, <1>2, <1>3, <1>4 DEF FileInv

LEMMA IdleSteps ==
  ASSUME FileInv, NEW t \in Tasks,
         Stub(t) \/ Begin(t) \/ RenameError(t) \/ Taken(t) \/ Open(t) \/ IoError(t)
  PROVE  FileInv'
<1>1. CASE Stub(t)
  <2>1. FileTypeOK' /\ t \notin FileOps
    BY <1>1 DEF Stub, Goto, FileInv, FileTypeOK, Pcs, FileOps
  <2> QED
    BY <1>1, <2>1 DEF Stub, At, Goto, FileInv, FileTypeOK, Originals, SourcesHome, MoversWait, Kept, Moved,
       TargetsFree, Unguarded, Route, Done, HasFile, Delivered, NotASource, FileOps
<1>2. CASE Begin(t)
  <2>1. FileTypeOK'
    BY <1>2 DEF Begin, Goto, FileInv, FileTypeOK, Pcs
  <2>2. Originals' /\ SourcesHome' /\ MoversWait' /\ Kept'
    BY <1>2 DEF Begin, At, Goto, FileInv, FileTypeOK, Originals, SourcesHome, MoversWait, Kept, Moved
  <2>3. TargetsFree'
    BY <1>2 DEF Begin, At, Goto, FileInv, FileTypeOK, TargetsFree, Unguarded, Exists
  <2>4. ASSUME NEW u \in FileOps PROVE Route(u)' /\ Done(u)' /\ Delivered(u)' /\ NotASource(u)'
    BY <1>2 DEF Begin, At, Goto, FileInv, FileTypeOK, FileOps, Route, Done, HasFile, Delivered, NotASource
  <2> QED
    BY <2>1, <2>2, <2>3, <2>4 DEF FileInv
<1>3. CASE RenameError(t)
  <2>1. FileTypeOK'
    BY <1>3 DEF RenameError, Goto, FileInv, FileTypeOK, Pcs
  <2>2. Originals' /\ SourcesHome' /\ MoversWait' /\ Kept'
    BY <1>3 DEF RenameError, At, Goto, FileInv, FileTypeOK, Originals, SourcesHome, MoversWait, Kept, Moved
  <2>3. TargetsFree'
    BY <1>3 DEF RenameError, At, Goto, FileInv, FileTypeOK, TargetsFree, Unguarded
  <2>4. ASSUME NEW u \in FileOps PROVE Route(u)' /\ Done(u)' /\ Delivered(u)' /\ NotASource(u)'
    BY <1>3 DEF RenameError, At, Goto, FileInv, FileTypeOK, FileOps, Route, Done, HasFile, Delivered, NotASource
  <2> QED
    BY <2>1, <2>2, <2>3, <2>4 DEF FileInv
<1>4. CASE Taken(t)
  <2>0. Suffixed[target[t]] \in Seq(Paths) /\ attempt[t] \in Nat /\ Len(Suffixed[target[t]]) \in Nat
    BY TasksAssumption DEF FileInv, FileTypeOK
  <2>1. pc[t] = "claim" /\ UNCHANGED <<dir, data, synced, target, final, in, out, crashed>>
    BY <1>4 DEF Taken, At
  <2>2. CASE attempt[t] < Len(Suffixed[target[t]])
    <3>1. pc' = pc /\ attempt' = [attempt EXCEPT ![t] = attempt[t] + 1]
      BY <1>4, <2>2 DEF Taken
    <3>2. FileTypeOK'
      BY <2>0, <2>1, <3>1 DEF FileInv, FileTypeOK
    <3>3. Originals' /\ SourcesHome' /\ MoversWait' /\ Kept' /\ TargetsFree'
      BY <2>1, <3>1 DEF FileInv, Originals, SourcesHome, MoversWait, Kept, Moved, TargetsFree, Unguarded
    <3>4. ASSUME NEW u \in FileOps PROVE Route(u)'
      BY <2>0, <2>1, <2>2, <3>1 DEF FileInv, FileTypeOK, FileOps, Route
    <3>5. ASSUME NEW u \in FileOps PROVE Done(u)' /\ Delivered(u)' /\ NotASource(u)'
      BY <2>1, <3>1 DEF FileInv, Done, HasFile, Delivered, NotASource
    <3> QED
      BY <3>2, <3>3, <3>4, <3>5 DEF FileInv
  <2>3. CASE ~(attempt[t] < Len(Suffixed[target[t]]))
    <3>1. pc' = [pc EXCEPT ![t] = "failed"] /\ attempt' = attempt
      BY <1>4, <2>3 DEF Taken, Goto
    <3> QED
      BY <2>1, <3>1, FailStep
  <2> QED
    BY <2>2, <2>3
<1>5. CASE Open(t)
  <2>1. pc[t] = "open" /\ UNCHANGED <<dir, data, synced, target, attempt, final, out, crashed>>
    BY <1>5 DEF Open, At
  <2>2. CASE dir[Source[t]] # None
    <3>1. /\ in' = [in EXCEPT ![t] = dir[Source[t]]]
          /\ pc' = [pc EXCEPT ![t] = IF Kind[t] = "copyWithRename" THEN "truncate" ELSE "copy"]
      BY <1>5, <2>2 DEF Open, Goto, Exists
    <3>2. FileTypeOK'
      BY <2>1, <3>1, TasksAssumption DEF FileInv, FileTypeOK, Pcs
    <3>3. Originals' /\ SourcesHome' /\ MoversWait' /\ Kept'
      BY <2>1, <3>1 DEF FileInv, FileTypeOK, Originals, SourcesHome, MoversWait, Kept, Moved
    <3>4. TargetsFree'
      BY <2>1, <3>1 DEF FileInv, FileTypeOK, TargetsFree, Unguarded
    <3>5. ASSUME NEW u \in FileOps PROVE Route(u)' /\ Done(u)' /\ Delivered(u)' /\ NotASource(u)'
      BY <2>1, <2>2, <3>1 DEF FileInv, FileTypeOK, SourcesHome, FileOps, Route, Done, HasFile, Delivered, NotASource
    <3> QED
      BY <3>2, <3>3, <3>4, <3>5 DEF FileInv
  <2>3. CASE dir[Source[t]] = None
    <3>1. in' = in /\ pc' = [pc EXCEPT ![t] = "failed"]
      BY <1>5, <2>3 DEF Open, Goto, Exists
    <3> QED
      BY <2>1, <3>1, FailStep
  <2> QED
    BY <2>2, <2>3
<1>6. CASE IoError(t)
  BY <1>6, FailStep DEF IoError, Goto, Pcs, Ended
<1> QED
  BY <1>1, <1>2, <1>3, <1>4, <1>5, <1>6

-----------------------------------------------------------------------------
(* Steps that create a file. *)

\* A name under which there was nothing gets the file of t: nobody else's.
LEMMA NewFile ==
  ASSUME FileInv, Apart, NEW t \in FileOps, NoRace(t), NEW p \in Options(t), p \in Paths,
         dir[p] = None, pc[t] # "success",
         dir' = [dir EXCEPT ![p] = t], final' = [final EXCEPT ![t] = p], target' = target,
         pc' \in [Tasks -> Pcs], \A u \in Tasks \ {t} : pc'[u] = pc[u],
         pc'[t] # "success", ~Unguarded(t)'
  PROVE  /\ SourcesHome' /\ MoversWait' /\ Kept' /\ TargetsFree' /\ NotASource(t)'
         /\ dir' \in [Paths -> Inodes \cup {None}] /\ final' \in [Tasks -> Paths \cup {None}]
         /\ \A u \in FileOps \ {t} : dir[final[u]] # None => dir'[final[u]] = dir[final[u]]
<1> USE Constants
<1>1. \A u \in FileOps : p # Source[u]
  <2>1. SUFFICES ASSUME NEW u \in FileOps, p = Source[u] PROVE FALSE
    OBVIOUS
  <2>2. Kind[t] = "move" /\ Source[t] = p
    BY <2>1 DEF Apart
  <2>3. dir[p] = Source[t]
    BY <2>2 DEF FileInv, MoversWait
  <2> QED
    BY <2>3
<1>2. SourcesHome' /\ MoversWait' /\ NotASource(t)'
  BY <1>1 DEF FileInv, FileTypeOK, SourcesHome, MoversWait, NotASource, FileOps
<1>3. Kept'
  BY DEF FileInv, FileTypeOK, Kept, Moved, FileOps
<1>4. TargetsFree'
  BY DEF FileInv, FileTypeOK, TargetsFree, NoRace, Unguarded, FileOps
<1>5. /\ dir' \in [Paths -> Inodes \cup {None}] /\ final' \in [Tasks -> Paths \cup {None}]
      /\ \A u \in FileOps \ {t} : dir[final[u]] # None => dir'[final[u]] = dir[final[u]]
  BY DEF FileInv, FileTypeOK, FileOps
<1> QED
  BY <1>2, <1>3, <1>4, <1>5

LEMMA ClaimStep ==
  ASSUME FileInv, Apart, NEW t \in FileOps, NoRace(t), Claim(t)
  PROVE  FileInv'
<1> USE Constants
<1>1. /\ pc[t] = "claim"
      /\ dir[Candidate(t)] = None
      /\ dir' = [dir EXCEPT ![Candidate(t)] = t]
      /\ final' = [final EXCEPT ![t] = Candidate(t)]
      /\ out' = [out EXCEPT ![t] = t]
      /\ pc' = [pc EXCEPT ![t] = "open"]
      /\ UNCHANGED <<data, synced, target, attempt, in, crashed>>
  BY DEF Claim, At, Goto, Exists
<1>2. Candidate(t) \in Options(t) /\ Candidate(t) \in Paths /\ Kind[t] # "copyWithRename"
  BY <1>1, CandidateIsName DEF FileInv, Route
<1>3. /\ pc' \in [Tasks -> Pcs] /\ \A u \in Tasks \ {t} : pc'[u] = pc[u]
      /\ pc'[t] = "open" /\ ~Unguarded(t)'
  BY <1>1, <1>2 DEF FileInv, FileTypeOK, Pcs, Unguarded
<1>4. /\ SourcesHome' /\ MoversWait' /\ Kept' /\ TargetsFree' /\ NotASource(t)'
      /\ dir' \in [Paths -> Inodes \cup {None}] /\ final' \in [Tasks -> Paths \cup {None}]
      /\ \A u \in FileOps \ {t} : dir[final[u]] # None => dir'[final[u]] = dir[final[u]]
  BY <1>1, <1>2, <1>3, NewFile
<1>5. FileTypeOK'
  BY <1>1, <1>3, <1>4 DEF FileInv, FileTypeOK
<1>6. Originals'
  BY <1>1 DEF FileInv, Originals
<1>7. Route(t)' /\ Done(t)' /\ Delivered(t)'
  BY <1>1, <1>2, <1>3 DEF FileInv, FileTypeOK, Route, Done, HasFile, Delivered
<1>8. ASSUME NEW u \in FileOps \ {t} PROVE Route(u)' /\ Done(u)' /\ Delivered(u)' /\ NotASource(u)'
  BY <1>1, <1>4 DEF FileInv, FileTypeOK, Route, Done, HasFile, Delivered, NotASource
<1> QED
  BY <1>4, <1>5, <1>6, <1>7, <1>8 DEF FileInv

LEMMA TruncateStep ==
  ASSUME FileInv, Apart, NEW t \in FileOps, NoRace(t), Truncate(t)
  PROVE  FileInv'
<1> USE Constants
<1>0. Kind[t] = "copyWithRename" /\ pc[t] = "truncate" /\ dir[target[t]] = None
  BY DEF Truncate, At, FileInv, Route, TargetsFree, Unguarded
<1>1. /\ dir' = [dir EXCEPT ![target[t]] = t]
      /\ final' = [final EXCEPT ![t] = target[t]]
      /\ out' = [out EXCEPT ![t] = t]
      /\ pc' = [pc EXCEPT ![t] = "copy"]
      /\ UNCHANGED <<data, synced, target, attempt, in, crashed>>
  BY <1>0 DEF Truncate, Goto, Exists
<1>2. target[t] \in Options(t) /\ target[t] \in Paths
  BY DEF Options, NamesOf, FileInv, FileTypeOK
<1>3. /\ pc' \in [Tasks -> Pcs] /\ \A u \in Tasks \ {t} : pc'[u] = pc[u]
      /\ pc'[t] = "copy" /\ ~Unguarded(t)'
  BY <1>1 DEF FileInv, FileTypeOK, Pcs, Unguarded
<1>4. /\ SourcesHome' /\ MoversWait' /\ Kept' /\ TargetsFree' /\ NotASource(t)'
      /\ dir' \in [Paths -> Inodes \cup {None}] /\ final' \in [Tasks -> Paths \cup {None}]
      /\ \A u \in FileOps \ {t} : dir[final[u]] # None => dir'[final[u]] = dir[final[u]]
  BY <1>0, <1>1, <1>2, <1>3, NewFile
<1>5. FileTypeOK'
  BY <1>1, <1>3, <1>4 DEF FileInv, FileTypeOK
<1>6. Originals'
  BY <1>1 DEF FileInv, Originals
<1>7. Route(t)' /\ Done(t)' /\ Delivered(t)'
  BY <1>0, <1>1, <1>2, <1>3 DEF FileInv, FileTypeOK, Route, Done, HasFile, Delivered
<1>8. ASSUME NEW u \in FileOps \ {t} PROVE Route(u)' /\ Done(u)' /\ Delivered(u)' /\ NotASource(u)'
  BY <1>1, <1>4 DEF FileInv, FileTypeOK, Route, Done, HasFile, Delivered, NotASource
<1> QED
  BY <1>4, <1>5, <1>6, <1>7, <1>8 DEF FileInv

-----------------------------------------------------------------------------
(* Steps that take a source away, write or sync. *)

\* The source of t, and nothing else, leaves its place.
LEMMA SourceGone ==
  ASSUME FileInv, NEW t \in FileOps, Kind[t] = "move",
         dir' \in [Paths -> Inodes \cup {None}],
         dir'[Source[t]] = None,
         \A f \in Existing : f # Source[t] => dir'[f] = dir[f] \/ (dir[f] = None /\ \A u \in FileOps : f # Source[u]),
         pc' = [pc EXCEPT ![t] = "success"]
  PROVE  SourcesHome' /\ MoversWait' /\ Kept'
<1> USE Constants
<1>1. pc \in [Tasks -> Pcs] /\ t \in Tasks
  BY DEF FileInv, FileTypeOK
<1>2. \A u \in FileOps : Source[u] # Source[t] => dir'[Source[u]] = dir[Source[u]]
  OBVIOUS
<1>3. SourcesHome'
  BY <1>2 DEF FileInv, SourcesHome
<1>4. MoversWait'
  <2> SUFFICES ASSUME NEW u \in FileOps, Kind[u] = "move"
               PROVE dir'[Source[u]] = IF pc'[u] = "success" THEN None ELSE Source[u]
    BY DEF MoversWait
  <2>1. CASE u = t
    BY <1>1, <2>1
  <2>2. CASE u # t
    <3>1. Source[u] # Source[t]
      BY <2>2, SoleMover
    <3>2. dir'[Source[u]] = dir[Source[u]] /\ pc'[u] = pc[u]
      BY <1>1, <1>2, <2>2, <3>1
    <3> QED
      BY <3>2 DEF FileInv, MoversWait
  <2> QED
    BY <2>1, <2>2
<1>5. Kept'
  <2> SUFFICES ASSUME NEW f \in Existing
               PROVE dir'[f] = f \/ \E m \in FileOps : Moved(m, f)'
    BY DEF Kept
  <2>1. CASE f = Source[t]
    BY <1>1, <2>1 DEF Moved
  <2>2. CASE f # Source[t] /\ dir[f] = f
    BY <2>2
  <2>3. CASE f # Source[t] /\ dir[f] # f
    <3>1. PICK m \in FileOps : Moved(m, f)
      BY <2>3 DEF FileInv, Kept
    <3>2. Moved(m, f)'
      BY <1>1, <3>1 DEF Moved
    <3> QED
      BY <3>2
  <2> QED
    BY <2>1, <2>2, <2>3
<1> QED
  BY <1>3, <1>4, <1>5

LEMMA RenameStep ==
  ASSUME FileInv, Apart, NEW t \in FileOps, NoRace(t), Rename(t)
  PROVE  FileInv'
<1> USE Constants
<1> DEFINE S == Source[t]
           T == target[t]
<1>1. /\ pc[t] = "rename" /\ Kind[t] = "move"
      /\ dir' = [[dir EXCEPT ![S] = None] EXCEPT ![T] = dir[S]]
      /\ final' = [final EXCEPT ![t] = T]
      /\ pc' = [pc EXCEPT ![t] = "success"]
      /\ UNCHANGED <<data, synced, target, attempt, in, out, crashed>>
  BY DEF Rename, At, Goto, FileInv, Route
<1>2. dir[S] = S /\ dir[T] = None /\ S # T /\ T \in Paths /\ T # None /\ S \in Paths
  BY <1>1 DEF FileInv, FileTypeOK, MoversWait, TargetsFree, Unguarded
<1>3. \A u \in FileOps : T # Source[u]
  BY <1>2 DEF Apart, Options, NamesOf
<1>4. /\ dir' \in [Paths -> Inodes \cup {None}] /\ dir'[S] = None /\ dir'[T] = S
      /\ \A p \in Paths : p # S /\ p # T => dir'[p] = dir[p]
  BY <1>1, <1>2 DEF FileInv, FileTypeOK
<1>5. SourcesHome' /\ MoversWait' /\ Kept'
  <2> HIDE DEF T
  <2>1. \A f \in Existing : f # S => dir'[f] = dir[f] \/ (dir[f] = None /\ \A u \in FileOps : f # Source[u])
    BY <1>2, <1>3, <1>4
  <2> QED
    BY <1>1, <1>4, <2>1, SourceGone
<1>6. FileTypeOK'
  BY <1>1, <1>2, <1>4 DEF FileInv, FileTypeOK, Pcs
<1>7. Originals'
  BY <1>1 DEF FileInv, Originals
<1>8. TargetsFree'
  <2> SUFFICES ASSUME NEW u \in FileOps, Unguarded(u)' PROVE dir'[target'[u]] = None
    BY DEF TargetsFree
  <2>1. u # t /\ Unguarded(u)
    BY <1>1 DEF Unguarded, FileInv, FileTypeOK
  <2>2. target[u] # T /\ dir[target[u]] = None /\ target[u] \in Paths
    BY <2>1 DEF NoRace, Options, NamesOf, FileInv, FileTypeOK, TargetsFree
  <2> QED
    BY <1>1, <1>4, <2>2
<1>9. Route(t)' /\ Done(t)' /\ Delivered(t)' /\ NotASource(t)'
  BY <1>1, <1>2, <1>3, <1>4 DEF FileInv, FileTypeOK, Route, Done, Delivered, NotASource
<1>10. ASSUME NEW u \in FileOps \ {t} PROVE Route(u)' /\ Done(u)' /\ Delivered(u)' /\ NotASource(u)'
  <2>1. dir[final[u]] # None /\ final[u] # None => dir'[final[u]] = dir[final[u]]
    BY <1>2, <1>4 DEF FileInv, FileTypeOK, NotASource
  <2>2. pc'[u] = pc[u] /\ final'[u] = final[u]
    BY <1>1 DEF FileInv, FileTypeOK
  <2> QED
    BY <1>1, <2>1, <2>2 DEF FileInv, Route, Done, HasFile, Delivered, NotASource
<1> QED
  BY <1>5, <1>6, <1>7, <1>8, <1>9, <1>10 DEF FileInv

LEMMA RemoveStep ==
  ASSUME FileInv, NEW t \in FileOps, RemoveSource(t)
  PROVE  FileInv'
<1> USE Constants
<1> DEFINE S == Source[t]
<1>1. /\ pc[t] = "remove" /\ Kind[t] = "move" /\ dir[S] = S
      /\ UNCHANGED <<data, synced, target, attempt, final, in, out, crashed>>
  BY DEF RemoveSource, At, FileInv, Route, MoversWait
<1>2. dir' = [dir EXCEPT ![S] = None] /\ pc' = [pc EXCEPT ![t] = "success"]
  BY <1>1 DEF RemoveSource, Exists, Goto
<1>3. /\ dir' \in [Paths -> Inodes \cup {None}] /\ dir'[S] = None
      /\ \A p \in Paths : p # S => dir'[p] = dir[p]
  BY <1>2 DEF FileInv, FileTypeOK
<1>4. SourcesHome' /\ MoversWait' /\ Kept'
  BY <1>1, <1>2, <1>3, SourceGone
<1>5. FileTypeOK' /\ Originals'
  BY <1>1, <1>2, <1>3 DEF FileInv, FileTypeOK, Pcs, Originals
<1>6. TargetsFree'
  BY <1>1, <1>2, <1>3 DEF FileInv, FileTypeOK, TargetsFree, Unguarded
<1>7. ASSUME NEW u \in FileOps PROVE Route(u)' /\ Done(u)' /\ Delivered(u)' /\ NotASource(u)'
  <2>1. final[u] # None => dir'[final[u]] = dir[final[u]]
    BY <1>3 DEF FileInv, FileTypeOK, NotASource
  <2>2. CASE u = t
    BY <1>1, <1>2, <2>1, <2>2 DEF FileInv, FileTypeOK, Route, Done, HasFile, Delivered, NotASource
  <2>3. CASE u # t
    <3>1. pc'[u] = pc[u]
      BY <1>2, <2>3 DEF FileInv, FileTypeOK
    <3> QED
      BY <1>1, <2>1, <3>1 DEF FileInv, Route, Done, HasFile, Delivered, NotASource
  <2> QED
    BY <2>2, <2>3
<1> QED
  BY <1>4, <1>5, <1>6, <1>7 DEF FileInv

LEMMA CopyStep ==
  ASSUME FileInv, NEW t \in FileOps, Copy(t)
  PROVE  FileInv'
<1> USE Constants
<1>1. /\ pc[t] = "copy" /\ out[t] = t /\ in[t] = Source[t] /\ HasFile(t)
      /\ data[Source[t]] = Source[t]
  BY DEF Copy, At, FileInv, Done, Originals
<1>2. /\ data' = [data EXCEPT ![t] = Source[t]]
      /\ pc' = [pc EXCEPT ![t] = IF Kind[t] = "move" THEN "sync" ELSE "success"]
      /\ UNCHANGED <<dir, synced, target, attempt, final, in, out, crashed>>
  BY <1>1 DEF Copy, Goto
<1>3. FileTypeOK'
  BY <1>2 DEF FileInv, FileTypeOK, Pcs
<1>4. Originals' /\ SourcesHome' /\ MoversWait' /\ Kept'
  BY <1>1, <1>2 DEF FileInv, FileTypeOK, Originals, SourcesHome, MoversWait, Kept, Moved
<1>5. TargetsFree'
  BY <1>2 DEF FileInv, FileTypeOK, TargetsFree, Unguarded
<1>6. Route(t)' /\ Done(t)' /\ Delivered(t)' /\ NotASource(t)'
  BY <1>1, <1>2 DEF FileInv, FileTypeOK, Route, Done, HasFile, Delivered, NotASource
<1>7. ASSUME NEW u \in FileOps \ {t} PROVE Route(u)' /\ Done(u)' /\ Delivered(u)' /\ NotASource(u)'
  BY <1>2 DEF FileInv, FileTypeOK, Route, Done, HasFile, Delivered, NotASource
<1> QED
  BY <1>3, <1>4, <1>5, <1>6, <1>7 DEF FileInv

LEMMA SyncStep ==
  ASSUME FileInv, NEW t \in FileOps, Sync(t)
  PROVE  FileInv'
<1> USE Constants
<1>1. /\ pc[t] = "sync" /\ Kind[t] = "move" /\ out[t] = t /\ data[t] = Source[t]
      /\ synced' = synced \cup {t}
      /\ pc' = [pc EXCEPT ![t] = "remove"]
      /\ UNCHANGED <<dir, data, target, attempt, final, in, out, crashed>>
  BY DEF Sync, At, Goto, FileInv, Route, Done
<1>2. FileTypeOK'
  BY <1>1 DEF FileInv, FileTypeOK, Pcs
<1>3. Originals' /\ SourcesHome' /\ MoversWait' /\ Kept'
  BY <1>1 DEF FileInv, FileTypeOK, Originals, SourcesHome, MoversWait, Kept, Moved
<1>4. TargetsFree'
  BY <1>1 DEF FileInv, FileTypeOK, TargetsFree, Unguarded
<1>5. ASSUME NEW u \in FileOps PROVE Route(u)' /\ Done(u)' /\ Delivered(u)' /\ NotASource(u)'
  BY <1>1 DEF FileInv, FileTypeOK, Route, Done, HasFile, Delivered, NotASource
<1> QED
  BY <1>2, <1>3, <1>4, <1>5 DEF FileInv

LEMMA PowerLossStep ==
  ASSUME FileInv, PowerLoss
  PROVE  FileInv'
<1> USE Constants
<1>1. /\ crashed' = TRUE
      /\ data' \in [Inodes -> Existing \cup {Torn}]
      /\ \A i \in synced : data'[i] = data[i]
      /\ UNCHANGED <<dir, synced, target, pc, attempt, final, in, out>>
  BY DEF PowerLoss, FileInv, FileTypeOK
<1>2. FileTypeOK' /\ Originals' /\ SourcesHome' /\ MoversWait' /\ Kept' /\ TargetsFree'
  BY <1>1 DEF FileInv, FileTypeOK, Originals, SourcesHome, MoversWait, Kept, Moved, TargetsFree, Unguarded
<1>3. ASSUME NEW u \in FileOps PROVE Route(u)' /\ Done(u)' /\ Delivered(u)' /\ NotASource(u)'
  BY <1>1 DEF FileInv, FileTypeOK, Route, Done, HasFile, Delivered, NotASource
<1> QED
  BY <1>2, <1>3 DEF FileInv

LEMMA InertStep ==
  ASSUME FileTypeOK, Inert, NEW t \in Tasks, TaskStep(t)
  PROVE  Inert'
<1>1. ASSUME t \in FileOps PROVE \A u \in Tasks \ {t} : pc'[u] = pc[u] /\ final'[u] = final[u]
  BY <1>1 DEF TaskStep, Stub, Begin, Rename, RenameError, Claim, Taken, Open, Truncate, Copy, Sync,
     RemoveSource, IoError, Goto, FileTypeOK
<1>2. CASE t \in FileOps
  BY <1>1, <1>2 DEF Inert
<1>3. CASE t \notin FileOps
  <2>1. pc[t] \in {"idle", "begin", "success", "failed"} /\ Kind[t] \in Stubs
    BY <1>3 DEF Inert, FileOps
  <2>2. Stub(t) \/ IoError(t)
    BY <2>1 DEF TaskStep, Begin, Rename, RenameError, Claim, Taken, Open, Truncate, Copy, Sync,
       RemoveSource, At
  <2> QED
    BY <2>2 DEF Stub, IoError, Goto, Inert, FileTypeOK
<1> QED
  BY <1>2, <1>3

LEMMA TaskStepInv ==
  ASSUME FileInv, Inert, Apart, NEW t \in Tasks, t \in FileOps => NoRace(t), TaskStep(t)
  PROVE  FileInv' /\ Inert'
<1>0. Inert'
  BY InertStep DEF FileInv
<1>1. CASE Stub(t) \/ Begin(t) \/ RenameError(t) \/ Taken(t) \/ Open(t) \/ IoError(t)
  BY <1>0, <1>1, IdleSteps
<1>2. CASE Rename(t) \/ Claim(t) \/ Truncate(t) \/ Copy(t) \/ Sync(t) \/ RemoveSource(t)
  <2>1. t \in FileOps
    BY <1>2 DEF Inert, Rename, Claim, Truncate, Copy, Sync, RemoveSource, At
  <2> QED
    BY <1>0, <1>2, <2>1, RenameStep, ClaimStep, TruncateStep, CopyStep, SyncStep, RemoveStep
<1> QED
  BY <1>1, <1>2 DEF TaskStep

\* A task that has done nothing yet is started, on a target that is free if the
\* task will not look.
LEMMA StartTask ==
  ASSUME FileInv, Inert, NEW t \in Tasks, NEW p \in Paths, pc[t] = "idle", attempt[t] = 0,
         Kind[t] = "copyWithRename" => dir[p] = None,
         pc' = [pc EXCEPT ![t] = "begin"], target' = [target EXCEPT ![t] = p],
         UNCHANGED <<dir, data, synced, attempt, final, in, out, crashed>>
  PROVE  FileInv' /\ Inert'
<1> USE Constants
<1>1. FileTypeOK'
  BY DEF FileInv, FileTypeOK, Pcs
<1>2. Originals' /\ SourcesHome' /\ MoversWait' /\ Kept'
  BY DEF FileInv, FileTypeOK, Originals, SourcesHome, MoversWait, Kept, Moved
<1>3. TargetsFree'
  BY DEF FileInv, FileTypeOK, TargetsFree, Unguarded
<1>4. ASSUME NEW u \in FileOps PROVE Done(u)' /\ Delivered(u)' /\ NotASource(u)'
  BY DEF FileInv, FileTypeOK, Done, HasFile, Delivered, NotASource
<1>5. ASSUME NEW u \in FileOps PROVE Route(u)'
  <2>1. Suffixed[p] \in Seq(Paths)
    BY TasksAssumption
  <2>2. Len(Suffixed[p]) \in Nat
    BY <2>1
  <2>3. 0 \in 0 .. Len(Suffixed[p])
    BY <2>2
  <2> QED
    BY <2>3 DEF FileInv, FileTypeOK, Route
<1>6. Inert'
  BY DEF FileInv, FileTypeOK, Inert
<1> QED
  BY <1>1, <1>2, <1>3, <1>4, <1>5, <1>6 DEF FileInv

LEMMA PcFrame ==
  ASSUME pc \in [Tasks -> Pcs], NEW t \in Tasks, TaskStep(t)
  PROVE  /\ pc' \in [Tasks -> Pcs] /\ pc[t] \notin {"idle", "success", "failed"}
         /\ \A u \in Tasks \ {t} : pc'[u] = pc[u]
  BY DEF TaskStep, Stub, Begin, Rename, RenameError, Claim, Taken, Open, Truncate, Copy, Sync,
     RemoveSource, IoError, Goto, At, Ended, Pcs

\* What a step of t leaves alone.
LEMMA TaskFrame ==
  ASSUME FileTypeOK, NEW t \in Tasks, TaskStep(t)
  PROVE  /\ ~crashed /\ crashed' = crashed /\ target' = target
         /\ pc[t] \notin {"idle", "success", "failed"}
         /\ pc'[t] \in Pcs \ {"idle"}
         /\ \A u \in Tasks \ {t} : pc'[u] = pc[u] /\ final'[u] = final[u] /\ attempt'[u] = attempt[u]
<1>1. ~crashed /\ crashed' = crashed /\ target' = target /\ pc[t] \notin {"idle", "success", "failed"}
  BY DEF TaskStep, Stub, Begin, Rename, RenameError, Claim, Taken, Open, Truncate, Copy, Sync,
     RemoveSource, IoError, At, Pcs, Ended
<1>2. pc'[t] \in Pcs \ {"idle"}
  BY <1>1 DEF TaskStep, Stub, Begin, Rename, RenameError, Claim, Taken, Open, Truncate, Copy, Sync,
     RemoveSource, IoError, Goto, Pcs, FileTypeOK
<1>3. \A u \in Tasks \ {t} : pc'[u] = pc[u] /\ final'[u] = final[u] /\ attempt'[u] = attempt[u]
  BY DEF TaskStep, Stub, Begin, Rename, RenameError, Claim, Taken, Open, Truncate, Copy, Sync,
     RemoveSource, IoError, Goto, FileTypeOK
<1> QED
  BY <1>1, <1>2, <1>3

\* A step of t puts a file only under a name it may choose now.
LEMMA TaskNames ==
  ASSUME FileTypeOK, NEW t \in Tasks, TaskStep(t), Route(t)
  PROVE  \A p \in Paths \ Options(t) : dir'[p] \in {dir[p], None}
<1>1. Candidate(t) \in Options(t) /\ target[t] \in Options(t)
  BY CandidateIsName DEF Options, NamesOf
<1>2. CASE Rename(t)
  BY <1>1, <1>2 DEF Rename, FileTypeOK
<1>3. CASE Claim(t)
  BY <1>1, <1>3 DEF Claim, FileTypeOK
<1>4. CASE Truncate(t)
  BY <1>1, <1>4 DEF Truncate, FileTypeOK
<1>5. CASE RemoveSource(t)
  BY <1>5 DEF RemoveSource, FileTypeOK
<1>6. CASE Stub(t) \/ Begin(t) \/ RenameError(t) \/ Taken(t) \/ Open(t) \/ Copy(t) \/ Sync(t) \/ IoError(t)
  BY <1>6 DEF Stub, Begin, RenameError, Taken, Open, Copy, Sync, IoError
<1> QED
  BY <1>2, <1>3, <1>4, <1>5, <1>6 DEF TaskStep

-----------------------------------------------------------------------------
(* Names of one's own. *)

\* What a task may choose is its own name, or within its reach.
LEMMA ChosenNames ==
  ASSUME FileTypeOK, NEW own \in SUBSET FileOps, Owned(own), NEW t \in FileOps,
         target[t] \in NamesOf(Wanted[t])
  PROVE  /\ t \in own => Options(t) = {Wanted[t]}
         /\ Options(t) \subseteq Reach(t)
<1>1. t \in own => Options(t) = {Wanted[t]}
  BY DEF Owned, Options
<1>2. Options(t) \subseteq Reach(t)
  BY DEF Options, Reach, NamesOf
<1> QED
  BY <1>1, <1>2

\* So no task puts a file where a source is.
LEMMA OwnedApart ==
  ASSUME FileTypeOK, NEW own \in SUBSET FileOps, TargetsApart(own), Owned(own),
         \A t \in FileOps : target[t] \in NamesOf(Wanted[t])
  PROVE  Apart
<1> SUFFICES ASSUME NEW t \in FileOps, NEW u \in FileOps, Source[u] \in Options(t)
             PROVE  Kind[t] = "move" /\ Source[u] = Source[t]
  BY DEF Apart
<1>1. CASE t \in own
  <2>1. Source[u] = Wanted[t] /\ Source[u] \in Existing
    BY <1>1, ChosenNames, Constants
  <2> QED
    BY <1>1, <2>1 DEF TargetsApart
<1>2. CASE t \notin own
  BY <1>2, ChosenNames DEF TargetsApart
<1> QED
  BY <1>1, <1>2

\* A name of one's own stays free until one has put a file there.
LEMMA OwnedStep ==
  ASSUME FileInv, Inert, NEW own \in SUBSET FileOps, TargetsApart(own), Owned(own),
         \A t \in FileOps : target[t] \in NamesOf(Wanted[t]),
         NEW t \in Tasks, TaskStep(t)
  PROVE  Owned(own)'
<1>1. /\ target' = target /\ FileTypeOK
      /\ \A u \in Tasks \ {t} : final'[u] = final[u] /\ attempt'[u] = attempt[u]
  BY TaskFrame DEF FileInv
<1>2. ASSUME NEW u \in own, u # t
      PROVE  target'[u] = Wanted[u] /\ attempt'[u] = 0 /\ (final'[u] = None => dir'[Wanted[u]] = None)
  <2>1. u \in FileOps /\ u \in Tasks /\ Wanted[u] \in Paths
    BY TasksAssumption DEF FileOps
  <2>2. ASSUME t \in FileOps PROVE Wanted[u] \notin Options(t)
    <3>1. CASE t \in own
      BY <1>1, <1>2, <2>1, <2>2, <3>1, ChosenNames DEF TargetsApart
    <3>2. CASE t \notin own
      BY <1>1, <2>1, <2>2, <3>2, ChosenNames DEF TargetsApart
    <3> QED
      BY <3>1, <3>2
  <2>3. dir'[Wanted[u]] \in {dir[Wanted[u]], None}
    <3>1. CASE t \in FileOps
      <4>1. Route(t)
        BY <3>1 DEF FileInv
      <4> QED
        BY <1>1, <2>1, <2>2, <3>1, <4>1, TaskNames
    <3>2. CASE t \notin FileOps
      BY <3>2 DEF Inert, TaskStep, Stub, Begin, Rename, RenameError, Claim, Taken, Open, Truncate, Copy,
         Sync, RemoveSource, IoError, At
    <3> QED
      BY <3>1, <3>2
  <2> QED
    BY <1>1, <1>2, <2>1, <2>3 DEF Owned
<1>3. ASSUME t \in own
      PROVE  target'[t] = Wanted[t] /\ attempt'[t] = 0 /\ (final'[t] = None => dir'[Wanted[t]] = None)
  <2>1. /\ t \in FileOps /\ Wanted[t] \in Paths /\ target[t] = Wanted[t] /\ attempt[t] = 0
        /\ final[t] = None => dir[Wanted[t]] = None
        /\ Candidate(t) = target[t]
        /\ pc[t] = "claim" => final[t] = None
    BY <1>3, TasksAssumption DEF Owned, FileOps, Candidate, FileInv, Done
  <2>2. CASE Rename(t) \/ Claim(t) \/ Truncate(t)
    BY <1>1, <2>1, <2>2, Constants DEF Rename, Claim, Truncate, FileTypeOK
  <2>3. CASE Taken(t)
    BY <2>1, <2>3 DEF Taken, At, Exists
  <2>4. CASE RemoveSource(t)
    BY <1>1, <2>1, <2>4 DEF RemoveSource, FileTypeOK
  <2>5. CASE Stub(t) \/ Begin(t) \/ RenameError(t) \/ Open(t) \/ Copy(t) \/ Sync(t) \/ IoError(t)
    BY <1>1, <2>1, <2>5 DEF Stub, Begin, RenameError, Open, Copy, Sync, IoError
  <2> QED
    BY <2>2, <2>3, <2>4, <2>5 DEF TaskStep
<1> QED
  BY <1>2, <1>3 DEF Owned

-----------------------------------------------------------------------------
(* What the invariant gives. *)

\* Every file that was there can be read: where it was, or where its mover put it.
LEMMA InvNothingLost == FileInv => NothingLost
<1> SUFFICES ASSUME FileInv, NEW f \in Existing PROVE \E p \in Paths : Exists(p) /\ data[dir[p]] = f
  BY DEF NothingLost
<1> USE Constants
<1>1. CASE dir[f] = f
  BY <1>1 DEF FileInv, Originals, Exists
<1>2. CASE dir[f] # f
  <2>1. PICK m \in FileOps : Moved(m, f)
    BY <1>2 DEF FileInv, Kept
  <2>2. final[m] \in Paths /\ dir[final[m]] # None /\ data[dir[final[m]]] = f
    BY <2>1 DEF FileInv, FileTypeOK, Moved, Delivered, Originals
  <2> QED
    BY <2>2 DEF Exists
<1> QED
  BY <1>1, <1>2

LEMMA InvMoves == FileInv => MoveIsAllOrNothing
<1> SUFFICES ASSUME FileInv, NEW t \in Tasks, Kind[t] = "move"
             PROVE  dir[Source[t]] = Source[t] \/ (Exists(final[t]) /\ data[dir[final[t]]] = Source[t])
  BY DEF MoveIsAllOrNothing
<1>1. t \in FileOps
  BY DEF FileOps, Stubs
<1>2. CASE pc[t] = "success"
  BY <1>1, <1>2, Constants DEF FileInv, Delivered, Originals, Exists
<1>3. CASE pc[t] # "success"
  BY <1>1, <1>3 DEF FileInv, MoversWait
<1> QED
  BY <1>2, <1>3

LEMMA InvDelivers == FileInv /\ Inert => SuccessDelivers
<1> SUFFICES ASSUME FileInv, Inert, ~crashed PROVE
      /\ \A t \in Tasks : pc[t] = "success" /\ Kind[t] \notin Stubs =>
           Exists(final[t]) /\ data[dir[final[t]]] = Source[t]
      /\ \A t, u \in Tasks : pc[t] = "success" /\ pc[u] = "success" /\ final[t] = final[u]
           => t = u \/ final[t] = None
  BY DEF SuccessDelivers
<1> USE Constants
<1>1. ASSUME NEW t \in FileOps, pc[t] = "success"
      PROVE  Exists(final[t]) /\ data[dir[final[t]]] = Source[t]
             /\ (dir[final[t]] = t \/ (dir[final[t]] = Source[t] /\ Kind[t] = "move"))
  BY <1>1 DEF FileInv, Delivered, HasFile, Originals, Exists
<1>2. ASSUME NEW t \in Tasks, NEW u \in Tasks, pc[t] = "success", pc[u] = "success",
             final[t] = final[u], final[t] # None
      PROVE  t = u
  <2>1. t \in FileOps /\ u \in FileOps
    BY <1>2 DEF Inert
  <2> QED
    BY <1>1, <1>2, <2>1, SoleMover
<1>3. ASSUME NEW t \in Tasks, Kind[t] \notin Stubs PROVE t \in FileOps
  BY <1>3 DEF FileOps
<1> QED
  BY <1>1, <1>2, <1>3

-----------------------------------------------------------------------------
(* The worker pool.                                                          *)

PoolSafety == PoolInit /\ [][Next]_systemVars

-----------------------------------------------------------------------------
(* The workers. *)

InFlight == {t \in Tasks : call[t] \in {"checked", "spawned"}}

PoolTypeOK ==
  /\ pc \in [Tasks -> Pcs]
  /\ call \in [Tasks -> Calls]
  /\ workers \subseteq Tasks /\ taken \subseteq Tasks /\ joined \subseteq taken
  /\ shut \in {"up", "draining", "down"}

\* Where execute() stands says where the task and its worker are.
Sighted ==
  \A t \in Tasks :
    /\ call[t] \in {"new", "checked", "refused"} => pc[t] = "idle"
    /\ call[t] = "submitted" => t \in workers \cup taken
    /\ t \in workers => call[t] = "submitted"

\* shutdown() has waited for what it counts as joined.
Waited ==
  /\ shut = "up" => taken = {}
  /\ \A t \in joined : pc[t] \in Ended
  /\ shut = "down" => joined = taken

\* A caller is in at most one execute().
InTurn ==
  \A c \in Callers : \A i \in DOMAIN Submits[c] : call[Submits[c][i]] # "new" =>
    \A j \in 1 .. i - 1 : call[Submits[c][j]] \in Returned

Bounded ==
  /\ InFlight # {} => 1 <= MaxWorkers
  /\ Cardinality(workers) + Cardinality(InFlight) <= MaxWorkers + Cardinality(Callers) - 1

PoolInv == PoolTypeOK /\ Sighted /\ Waited /\ InTurn /\ Bounded

LEMMA Finite ==
  /\ Cardinality(Callers) \in Nat /\ 1 <= Cardinality(Callers) /\ MaxWorkers \in Nat
  /\ \A S : S \subseteq Tasks => IsFiniteSet(S) /\ Cardinality(S) \in Nat
<1>1. IsFiniteSet(Callers) /\ IsFiniteSet(Tasks) /\ Owner \in Callers /\ MaxWorkers \in Nat
  BY PoolAssumption
<1>2. Cardinality(Callers) \in Nat
  BY <1>1, FS_CardinalityType
<1>3. Cardinality(Callers) # 0
  BY <1>1, FS_EmptySet
<1>4. ASSUME NEW S, S \subseteq Tasks PROVE IsFiniteSet(S) /\ Cardinality(S) \in Nat
  BY <1>1, <1>4, FS_Subset, FS_CardinalityType
<1> QED
  BY <1>1, <1>2, <1>3, <1>4

\* There is at most one task in flight per caller.
LEMMA FlightPerCaller ==
  ASSUME PoolTypeOK, InTurn
  PROVE  Cardinality(InFlight) <= Cardinality(Callers)
<1> DEFINE Of(t) == CHOOSE c \in Callers : t \in Range(Submits[c])
           g == [t \in InFlight |-> Of(t)]
<1>1. \A t \in InFlight : Of(t) \in Callers /\ t \in Range(Submits[Of(t)])
  BY PoolAssumption DEF InFlight
<1>2. \A t \in InFlight : Of(t) \in Callers /\ \E i \in DOMAIN Submits[Of(t)] : Submits[Of(t)][i] = t
  BY <1>1 DEF Range
<1> HIDE DEF Of
<1>3. ASSUME NEW t \in InFlight, NEW u \in InFlight, Of(t) = Of(u) PROVE t = u
  <2>1. PICK c \in Callers : c = Of(t)
    BY <1>2
  <2>2. Submits[c] \in Seq(Tasks)
    BY PoolAssumption
  <2>3. PICK i \in DOMAIN Submits[c] : Submits[c][i] = t
    BY <1>2, <2>1
  <2>4. PICK j \in DOMAIN Submits[c] : Submits[c][j] = u
    BY <1>2, <1>3, <2>1
  <2>5. i \in Nat /\ j \in Nat /\ 1 <= i /\ 1 <= j
    BY <2>2
  <2>6. call[t] \notin Returned \cup {"new"} /\ call[u] \notin Returned \cup {"new"}
    BY DEF InFlight, Returned
  <2>7. ~(i < j)
    <3>1. i < j => i \in 1 .. j - 1
      BY <2>5
    <3> QED
      BY <2>3, <2>4, <2>6, <3>1 DEF InTurn
  <2>8. ~(j < i)
    <3>1. j < i => j \in 1 .. i - 1
      BY <2>5
    <3> QED
      BY <2>3, <2>4, <2>6, <3>1 DEF InTurn
  <2>9. i = j
    BY <2>5, <2>7, <2>8
  <2> QED
    BY <2>3, <2>4, <2>9
<1>4. g \in [InFlight -> Callers] /\ \A t, u \in InFlight : g[t] = g[u] => t = u
  BY <1>2, <1>3
<1>5. g \in Injection(InFlight, Callers)
  BY <1>4 DEF Injection, IsInjective
<1> QED
  BY <1>5, FS_Injection, PoolAssumption

\* A step by which no call is taken back keeps the order of the callers.
LEMMA TurnsKept ==
  ASSUME InTurn, \A u \in Tasks : /\ call[u] \in Returned => call'[u] \in Returned
                                  /\ call'[u] # "new" => call[u] # "new"
  PROVE  InTurn'
<1> SUFFICES ASSUME NEW c \in Callers, NEW i \in DOMAIN Submits[c], call'[Submits[c][i]] # "new",
                    NEW j \in 1 .. i - 1
             PROVE  call'[Submits[c][j]] \in Returned
  BY DEF InTurn
<1>1. Submits[c] \in Seq(Tasks)
  BY PoolAssumption
<1>2. j \in DOMAIN Submits[c] /\ Submits[c][i] \in Tasks /\ Submits[c][j] \in Tasks
  BY <1>1
<1> QED
  BY <1>2 DEF InTurn

LEMMA CheckInv ==
  ASSUME PoolInv, NEW t \in Tasks, Check(t)
  PROVE  PoolInv'
<1>1. /\ call[t] = "new" /\ Turn(t)
      /\ call' = [call EXCEPT ![t] = IF Cardinality(workers) >= MaxWorkers THEN "refused" ELSE "checked"]
      /\ UNCHANGED <<pc, workers, taken, joined, shut>>
  BY DEF Check, taskVars
<1>2. PoolTypeOK' /\ Sighted' /\ Waited'
  BY <1>1 DEF PoolInv, PoolTypeOK, Sighted, Waited, Calls
<1>3. InTurn'
  <2> SUFFICES ASSUME NEW c \in Callers, NEW i \in DOMAIN Submits[c], call'[Submits[c][i]] # "new",
                      NEW j \in 1 .. i - 1
               PROVE  call'[Submits[c][j]] \in Returned
    BY DEF InTurn
  <2>0. Submits[c] \in Seq(Tasks)
    BY PoolAssumption
  <2>1. j \in DOMAIN Submits[c] /\ Submits[c][i] \in Tasks /\ Submits[c][j] \in Tasks
    BY <2>0
  <2>2. call[Submits[c][j]] \in Returned
    <3>1. CASE Submits[c][i] = t
      <4>1. PICK d \in Callers : \E k \in DOMAIN Submits[d] :
              /\ Submits[d][k] = t
              /\ \A m \in 1 .. k - 1 : call[Submits[d][m]] \in Returned
        BY <1>1 DEF Turn
      <4>2. PICK k \in DOMAIN Submits[d] :
              /\ Submits[d][k] = t
              /\ \A m \in 1 .. k - 1 : call[Submits[d][m]] \in Returned
        BY <4>1
      <4>3. c = d /\ i = k
        BY <3>1, <4>2, PoolAssumption
      <4> QED
        BY <4>2, <4>3
    <3>2. CASE Submits[c][i] # t
      <4>1. call[Submits[c][i]] # "new"
        BY <1>1, <2>1, <3>2 DEF PoolInv, PoolTypeOK
      <4> QED
        BY <4>1 DEF PoolInv, InTurn
    <3> QED
      BY <3>1, <3>2
  <2>3. Submits[c][j] # t
    BY <1>1, <2>2 DEF Returned
  <2> QED
    BY <1>1, <2>1, <2>2, <2>3 DEF PoolInv, PoolTypeOK
<1>4. Bounded'
  <2>1. CASE Cardinality(workers) >= MaxWorkers
    <3>1. InFlight' = InFlight
      BY <1>1, <2>1 DEF InFlight, PoolInv, PoolTypeOK
    <3> QED
      BY <1>1, <3>1 DEF PoolInv, Bounded
  <2>2. CASE ~(Cardinality(workers) >= MaxWorkers)
    <3>1. InFlight' \subseteq Tasks
      BY DEF InFlight
    <3>2. Cardinality(InFlight') \in Nat /\ Cardinality(workers) \in Nat
      BY <3>1, Finite DEF PoolInv, PoolTypeOK
    <3>3. Cardinality(InFlight') <= Cardinality(Callers)
      <4>1. (PoolTypeOK /\ InTurn => Cardinality(InFlight) <= Cardinality(Callers))'
        BY FlightPerCaller, PTL
      <4> QED
        BY <1>2, <1>3, <4>1
    <3> QED
      BY <1>1, <2>2, <3>2, <3>3, Finite DEF Bounded
  <2> QED
    BY <2>1, <2>2
<1> QED
  BY <1>2, <1>3, <1>4 DEF PoolInv

LEMMA SpawnInv ==
  ASSUME PoolInv, NEW t \in Tasks, Spawn(t)
  PROVE  PoolInv'
<1>1. /\ call[t] = "checked" /\ call' = [call EXCEPT ![t] = "spawned"]
      /\ pc' = [pc EXCEPT ![t] = "begin"]
      /\ UNCHANGED <<workers, taken, joined, shut>>
  BY DEF Spawn, Goto
<1>2. PoolTypeOK'
  BY <1>1 DEF PoolInv, PoolTypeOK, Calls, Pcs
<1>3. Sighted'
  BY <1>1 DEF PoolInv, PoolTypeOK, Sighted
<1>4. Waited'
  <2>1. pc[t] = "idle"
    BY <1>1 DEF PoolInv, Sighted
  <2>2. t \notin joined
    BY <2>1 DEF PoolInv, Waited, Ended
  <2> QED
    BY <1>1, <2>2 DEF PoolInv, PoolTypeOK, Waited
<1>5. \A u \in Tasks : /\ call[u] \in Returned => call'[u] \in Returned
                       /\ call'[u] # "new" => call[u] # "new"
  BY <1>1 DEF PoolInv, PoolTypeOK, Returned
<1>6. InTurn'
  BY <1>5, TurnsKept DEF PoolInv
<1>7. InFlight' = InFlight
  BY <1>1 DEF InFlight, PoolInv, PoolTypeOK
<1>8. Bounded'
  BY <1>1, <1>7 DEF PoolInv, Bounded
<1> QED
  BY <1>2, <1>3, <1>4, <1>6, <1>8 DEF PoolInv

LEMMA EnrolInv ==
  ASSUME PoolInv, NEW t \in Tasks, Enrol(t)
  PROVE  PoolInv'
<1>1. /\ call[t] = "spawned" /\ call' = [call EXCEPT ![t] = "submitted"]
      /\ workers' = workers \cup {t}
      /\ UNCHANGED <<pc, taken, joined, shut>>
  BY DEF Enrol, taskVars
<1>2. PoolTypeOK' /\ Sighted' /\ Waited'
  BY <1>1 DEF PoolInv, PoolTypeOK, Sighted, Waited, Calls
<1>3. \A u \in Tasks : /\ call[u] \in Returned => call'[u] \in Returned
                       /\ call'[u] # "new" => call[u] # "new"
  BY <1>1 DEF PoolInv, PoolTypeOK, Returned
<1>4. InTurn'
  BY <1>3, TurnsKept DEF PoolInv
<1>5. InFlight' = InFlight \ {t} /\ t \in InFlight /\ t \notin workers
  BY <1>1 DEF InFlight, PoolInv, PoolTypeOK, Sighted
<1>6. /\ IsFiniteSet(workers) /\ IsFiniteSet(InFlight)
      /\ Cardinality(workers) \in Nat /\ Cardinality(InFlight) \in Nat
  BY Finite DEF PoolInv, PoolTypeOK, InFlight
<1>7. Cardinality(workers') = Cardinality(workers) + 1
  BY <1>1, <1>5, <1>6, FS_AddElement
<1>8. Cardinality(InFlight') = Cardinality(InFlight) - 1
  BY <1>5, <1>6, FS_RemoveElement
<1>9. Bounded'
  BY <1>5, <1>6, <1>7, <1>8, Finite DEF PoolInv, Bounded
<1> QED
  BY <1>2, <1>4, <1>9 DEF PoolInv

LEMMA DrainInv ==
  ASSUME PoolInv, Drain
  PROVE  PoolInv'
<1>0. pc' = pc /\ call' = call /\ InFlight' = InFlight /\ InTurn'
  BY DEF Drain, Shutdown, Join, ShutdownReturns, taskVars, InFlight, PoolInv, InTurn
<1>1. CASE Shutdown
  <2>1. shut = "up" /\ shut' = "draining" /\ taken' = workers /\ workers' = {} /\ joined' = joined
    BY <1>1 DEF Shutdown
  <2>2. PoolTypeOK' /\ Sighted' /\ Waited'
    BY <1>0, <2>1 DEF PoolInv, PoolTypeOK, Sighted, Waited
  <2>3. Cardinality(workers') = 0
    BY <2>1, FS_EmptySet
  <2>4. Cardinality(InFlight) \in Nat
    BY Finite DEF InFlight
  <2>5. Cardinality(InFlight) <= Cardinality(Callers)
    BY FlightPerCaller DEF PoolInv
  <2>6. InFlight = {} => Cardinality(InFlight) = 0
    BY FS_EmptySet
  <2>7. Bounded'
    BY <1>0, <2>3, <2>4, <2>5, <2>6, Finite DEF PoolInv, Bounded
  <2> QED
    BY <1>0, <2>2, <2>7 DEF PoolInv
<1>2. CASE (\E t \in Tasks : Join(t)) \/ ShutdownReturns
  <2>1. workers' = workers /\ taken' = taken
    BY <1>2 DEF Join, ShutdownReturns
  <2>2. Bounded' /\ Sighted'
    BY <1>0, <2>1 DEF PoolInv, Bounded, Sighted
  <2>3. PoolTypeOK' /\ Waited'
    BY <1>0, <1>2, <2>1 DEF Join, ShutdownReturns, PoolInv, PoolTypeOK, Waited
  <2> QED
    BY <1>0, <2>2, <2>3 DEF PoolInv
<1> QED
  BY <1>1, <1>2 DEF Drain

LEMMA PoolNext ==
  ASSUME PoolInv, [Next]_systemVars
  PROVE  PoolInv'
<1>1. ASSUME NEW t \in Tasks, Execute(t) PROVE PoolInv'
  BY <1>1, CheckInv, SpawnInv, EnrolInv DEF Execute
<1>2. ASSUME NEW t \in Tasks, Running(t) PROVE PoolInv'
  <2>1. /\ pc' \in [Tasks -> Pcs] /\ pc[t] \notin {"idle", "success", "failed"}
        /\ \A u \in Tasks \ {t} : pc'[u] = pc[u]
    BY <1>2, PcFrame DEF Running, PoolInv, PoolTypeOK
  <2>2. UNCHANGED <<call, workers, taken, joined, shut>>
    BY <1>2 DEF Running, poolVars
  <2>3. PoolTypeOK' /\ Sighted' /\ Waited'
    BY <2>1, <2>2 DEF PoolInv, PoolTypeOK, Sighted, Waited, Ended
  <2>4. InTurn' /\ Bounded'
    BY <2>2 DEF PoolInv, InTurn, Bounded, InFlight
  <2> QED
    BY <2>3, <2>4 DEF PoolInv
<1>3. CASE Manage \/ Fault \/ Settled \/ UNCHANGED systemVars
  <2>1. UNCHANGED <<pc, call, workers, taken, joined, shut>>
    BY <1>3 DEF Manage, RecordCreation, RemoveFile, Rollback, Fault, PowerLoss, Settled, systemVars, taskVars, poolVars
  <2> QED
    BY <2>1 DEF PoolInv, PoolTypeOK, Sighted, Waited, InTurn, Bounded, InFlight
<1>4. CASE Drain
  BY <1>4, DrainInv
<1> QED
  BY <1>1, <1>2, <1>3, <1>4 DEF Next

LEMMA PoolInitInv == PoolInit => PoolInv
<1> SUFFICES ASSUME PoolInit PROVE PoolInv
  OBVIOUS
<1>1. PoolTypeOK /\ Sighted /\ Waited
  BY DEF PoolInit, PoolTypeOK, Calls, Pcs, Sighted, Waited
<1>2. InTurn
  <2>1. \A c \in Callers : Submits[c] \in Seq(Tasks)
    BY PoolAssumption
  <2>2. \A c \in Callers : \A i \in DOMAIN Submits[c] : Submits[c][i] \in Tasks
    BY <2>1
  <2> QED
    BY <2>2 DEF PoolInit, InTurn
<1>3. workers = {} /\ InFlight = {}
  BY DEF PoolInit, InFlight
<1>4. Bounded
  BY <1>3, Finite, FS_EmptySet DEF Bounded
<1> QED
  BY <1>1, <1>2, <1>4 DEF PoolInv

\* The list has one row per worker, and every worker has one of the three types.
LEMMA StatsAddUp ==
  ASSUME PoolTypeOK
  PROVE  /\ Stats.total = Cardinality(workers)
         /\ Stats.total = Stats.byType["CpuIntensive"] + Stats.byType["IoIntensive"] + Stats.byType["Mixed"]
<1> DEFINE Row(t) == [worker |-> t, task_id |-> TaskId(t), worker_type |-> WorkerType(t)]
           f == [t \in workers |-> Row(t)]
           Of(w) == {row \in Listed : row.worker_type = w}
<1>1. IsFiniteSet(workers) /\ Cardinality(workers) \in Nat
  BY Finite DEF PoolTypeOK
<1>2. f \in Bijection(workers, Listed)
  <2>1. \A t, u \in workers : Row(t) = Row(u) => t = u
    OBVIOUS
  <2>2. Listed = {Row(t) : t \in workers}
    BY DEF Listed
  <2> HIDE DEF Row
  <2>3. f \in [workers -> Listed]
    BY <2>2
  <2>4. \A t, u \in workers : f[t] = f[u] => t = u
    BY <2>1
  <2>5. \A row \in Listed : \E t \in workers : f[t] = row
    BY <2>2
  <2> HIDE DEF f
  <2> QED
    BY <2>3, <2>4, <2>5 DEF Bijection, Injection, Surjection, IsInjective
<1>3. Cardinality(Listed) = Cardinality(workers) /\ IsFiniteSet(Listed)
  <2> HIDE DEF f
  <2>1. ExistsBijection(workers, Listed)
    BY <1>2, Zenon DEF ExistsBijection
  <2> QED
    BY <1>1, <2>1, FS_Bijection
<1>4. \A row \in Listed : row.worker_type \in WorkerTypes
  BY DEF Listed, WorkerType, WorkerTypes
<1> DEFINE A == Of("CpuIntensive")
           B == Of("IoIntensive")
           C == Of("Mixed")
<1>5. Listed = (A \cup B) \cup C /\ A \cap B = {} /\ (A \cup B) \cap C = {}
  BY <1>4 DEF WorkerTypes
<1>6. A \subseteq Listed /\ B \subseteq Listed /\ C \subseteq Listed
  OBVIOUS
<1> HIDE DEF A, B, C
<1>7. IsFiniteSet(A) /\ IsFiniteSet(B) /\ IsFiniteSet(C)
  BY <1>3, <1>6, FS_Subset
<1>8. Cardinality({}) = 0 /\ Cardinality(A) \in Nat /\ Cardinality(B) \in Nat /\ Cardinality(C) \in Nat
  BY <1>7, FS_EmptySet, FS_CardinalityType
<1>9. IsFiniteSet(A \cup B) /\ Cardinality(A \cup B) = Cardinality(A) + Cardinality(B)
  <2>1. IsFiniteSet(A \cup B) /\ Cardinality(A \cup B) = Cardinality(A) + Cardinality(B) - Cardinality(A \cap B)
    BY <1>7, FS_Union
  <2>2. Cardinality(A \cap B) = 0
    BY <1>5, <1>8, Zenon
  <2> QED
    BY <1>8, <2>1, <2>2
<1>10. Cardinality(Listed) = Cardinality(A) + Cardinality(B) + Cardinality(C)
  <2>1. Cardinality((A \cup B) \cup C) = Cardinality(A \cup B) + Cardinality(C) - Cardinality((A \cup B) \cap C)
    BY <1>7, <1>9, FS_Union
  <2>2. Cardinality((A \cup B) \cap C) = 0 /\ Cardinality(Listed) = Cardinality((A \cup B) \cup C)
    BY <1>5, <1>8, Zenon
  <2> QED
    BY <1>8, <1>9, <2>1, <2>2
<1>11. /\ Stats.total = Cardinality(workers) /\ Stats.byType["CpuIntensive"] = Cardinality(A)
       /\ Stats.byType["IoIntensive"] = Cardinality(B) /\ Stats.byType["Mixed"] = Cardinality(C)
  BY DEF Stats, WorkerTypes, A, B, C
<1> QED
  BY <1>3, <1>10, <1>11

\* A running task is never out of sight, shutdown() returns only when every worker it
\* found has ended, and a pool of n callers exceeds its capacity by n - 1 at most.
THEOREM PoolIsSound == PoolSafety => []PoolSound
<1>1. PoolInv /\ [Next]_systemVars => PoolInv'
  BY PoolNext
<1>2. PoolInv => PoolSound
  <2> SUFFICES ASSUME PoolInv PROVE PoolSound
    OBVIOUS
  <2>1. shut = "down" => \A t \in taken : pc[t] \in Ended
    BY DEF PoolInv, Waited
  <2>2. \A t \in Tasks : pc[t] # "idle" => t \in workers \cup taken \/ call[t] = "spawned"
    BY DEF PoolInv, PoolTypeOK, Sighted, Calls
  <2>3. Cardinality(workers) <= MaxWorkers + Cardinality(Callers) - 1
    <3>1. Cardinality(workers) \in Nat /\ Cardinality(InFlight) \in Nat
      BY Finite DEF PoolInv, PoolTypeOK, InFlight
    <3> QED
      BY <3>1, Finite DEF PoolInv, Bounded
  <2> QED
    BY <2>1, <2>2, <2>3, StatsAddUp DEF PoolInv, PoolSound
<1> QED
  BY <1>1, <1>2, PoolInitInv, PTL DEF PoolSafety

-----------------------------------------------------------------------------
(* The files. *)

\* Until the caller makes use of the file manager the invariant of the tasks holds.
Early == ops = <<>> /\ undone = "no"

\* A task that has not been started has not searched.
Started == \A t \in Tasks : pc[t] = "idle" => attempt[t] = 0

\* From then on nothing runs, and what undoing can reach are copies.
CopyPaths == {final[t] : t \in {u \in FileOps : Kind[u] = "copy" /\ pc[u] = "success"}}

Aftermath ==
  /\ FileTypeOK
  /\ Originals
  /\ Kept
  /\ \A t \in FileOps : Kind[t] = "move" =>
       /\ pc[t] = "success" => Delivered(t)
       /\ pc[t] # "success" => dir[Source[t]] = Source[t]
  /\ \A t \in FileOps : Kind[t] = "copy" /\ pc[t] = "success" => final[t] # None /\ dir[final[t]] \in {t, None}

Still == \A t \in Tasks : call[t] \in Returned /\ pc[t] \in {"idle", "success", "failed"}

CopyRecorded ==
  /\ ops \in Seq([op : {"Created", "Removed"}, path : Paths])
  /\ \A i \in 1..Len(ops) : ops[i].path \in CopyPaths

FilesInv(own) ==
  /\ target = Wanted
  /\ Aftermath
  /\ CopyRecorded
  /\ Early => FileInv /\ Inert /\ Started /\ Owned(own)
  /\ ~Early => Still

LEMMA InvAftermath == FileInv => Aftermath
  BY DEF FileInv, MoversWait, Delivered, HasFile, Aftermath

\* Aftermath is enough for what must hold when everything is over.
LEMMA AftermathKeeps == Aftermath => NothingLost /\ MoveIsAllOrNothing
<1> SUFFICES ASSUME Aftermath PROVE NothingLost /\ MoveIsAllOrNothing
  OBVIOUS
<1> USE Constants
<1>1. ASSUME NEW m \in FileOps, Kind[m] = "move", pc[m] = "success"
      PROVE  final[m] \in Paths /\ Exists(final[m]) /\ data[dir[final[m]]] = Source[m]
  BY <1>1 DEF Aftermath, FileTypeOK, Delivered, Originals, Exists
<1>2. ASSUME NEW f \in Existing PROVE \E p \in Paths : Exists(p) /\ data[dir[p]] = f
  <2>1. CASE dir[f] = f
    BY <2>1 DEF Aftermath, Originals, Exists
  <2>2. CASE dir[f] # f
    <3>1. PICK m \in FileOps : Moved(m, f)
      BY <2>2 DEF Aftermath, Kept
    <3> QED
      BY <1>1, <3>1 DEF Moved
  <2> QED
    BY <2>1, <2>2
<1>3. MoveIsAllOrNothing
  <2> SUFFICES ASSUME NEW t \in Tasks, Kind[t] = "move"
               PROVE  dir[Source[t]] = Source[t] \/ (Exists(final[t]) /\ data[dir[final[t]]] = Source[t])
    BY DEF MoveIsAllOrNothing
  <2>1. t \in FileOps
    BY DEF FileOps, Stubs
  <2> QED
    BY <1>1, <2>1 DEF Aftermath
<1> QED
  BY <1>2, <1>3 DEF NothingLost

\* Removing copies leaves the originals and what was moved alone.
LEMMA CopiesErased ==
  ASSUME Aftermath, dir' \in [Paths -> Inodes \cup {None}],
         \A p \in Paths : dir'[p] = dir[p] \/ (dir'[p] = None /\ p \in CopyPaths),
         UNCHANGED <<data, synced, target, pc, attempt, final, in, out, crashed>>
  PROVE  Aftermath'
<1> USE Constants
<1>1. ASSUME NEW p \in Paths, dir'[p] # dir[p]
      PROVE  \E t \in FileOps : Kind[t] = "copy" /\ dir[p] = t
  <2>1. PICK t \in FileOps : Kind[t] = "copy" /\ pc[t] = "success" /\ p = final[t]
    BY <1>1 DEF CopyPaths
  <2>2. dir[p] = t
    BY <1>1, <2>1 DEF Aftermath
  <2> QED
    BY <2>1, <2>2
<1>2. \A f \in Existing : dir[f] = f => dir'[f] = f
  BY <1>1
<1>3. FileTypeOK' /\ Originals' /\ Kept'
  BY <1>2 DEF Aftermath, FileTypeOK, Originals, Kept, Moved
<1>4. ASSUME NEW t \in FileOps, Kind[t] = "move"
      PROVE  /\ pc[t] = "success" => Delivered(t)'
             /\ pc[t] # "success" => dir'[Source[t]] = Source[t]
  <2>1. ASSUME pc[t] = "success" PROVE Delivered(t)'
    <3>1. /\ final[t] # None /\ final[t] \in Paths
          /\ \/ dir[final[t]] = Source[t]
             \/ dir[final[t]] = t /\ data[t] = Source[t] /\ t \in synced
      BY <1>4, <2>1 DEF Aftermath, Delivered, FileTypeOK
    <3>2. dir'[final[t]] = dir[final[t]]
      BY <1>1, <1>4, <3>1
    <3> QED
      BY <1>4, <3>1, <3>2 DEF Delivered
  <2>2. ASSUME pc[t] # "success" PROVE dir'[Source[t]] = Source[t]
    BY <1>2, <1>4, <2>2 DEF Aftermath
  <2> QED
    BY <2>1, <2>2
<1>5. \A t \in FileOps : Kind[t] = "copy" /\ pc[t] = "success" => final[t] # None /\ dir'[final[t]] \in {t, None}
  BY DEF Aftermath, FileTypeOK
<1> QED
  BY <1>3, <1>4, <1>5 DEF Aftermath

LEMMA PowerLossAfter ==
  ASSUME Aftermath, PowerLoss
  PROVE  Aftermath'
<1> USE Constants
<1>1. /\ crashed' = TRUE
      /\ data' \in [Inodes -> Existing \cup {Torn}]
      /\ \A i \in synced : data'[i] = data[i]
      /\ UNCHANGED <<dir, synced, target, pc, attempt, final, in, out>>
  BY DEF PowerLoss, Aftermath, FileTypeOK
<1>2. FileTypeOK' /\ Originals' /\ Kept'
  BY <1>1 DEF Aftermath, FileTypeOK, Originals, Kept, Moved
<1>3. ASSUME NEW t \in FileOps, Kind[t] = "move", pc[t] = "success" PROVE Delivered(t)'
  BY <1>1, <1>3 DEF Aftermath, Delivered
<1> QED
  BY <1>1, <1>2, <1>3 DEF Aftermath

LEMMA SeparateTasks ==
  ASSUME NEW own \in SUBSET FileOps, RaceFree(own), FilesInv(own), Early
  PROVE  Apart /\ \A u \in FileOps : NoRace(u)
<1>1. FileInv /\ target = Wanted /\ Owned(own) /\ TargetsApart(own) /\ FileTypeOK
  BY DEF FilesInv, RaceFree, FileInv
<1>2. \A t \in FileOps : target[t] \in NamesOf(Wanted[t])
  BY <1>1 DEF NamesOf
<1>3. Apart
  BY <1>1, <1>2, OwnedApart
<1>4. ASSUME NEW u \in FileOps, NEW t \in FileOps \ {u}, Unguarded(t) PROVE target[t] \notin Options(u)
  <2>1. Kind[t] \in {"move", "copyWithRename"} /\ dir[target[t]] = None /\ pc[t] # "success"
    BY <1>1, <1>4 DEF Unguarded, FileInv, Route, TargetsFree
  <2>2. t \in own
    <3>1. SUFFICES ASSUME t \notin own PROVE FALSE
      OBVIOUS
    <3>2. Kind[t] = "move" /\ Wanted[t] \in Existing
      BY <2>1, <3>1 DEF RaceFree
    <3>3. dir[Wanted[t]] # Wanted[t]
      BY <1>1, <2>1, <3>2, Constants
    <3>4. PICK m \in FileOps : Moved(m, Wanted[t])
      BY <1>1, <3>2, <3>3 DEF FileInv, Kept
    <3>5. Wanted[t] \in Reach(t)
      BY DEF Reach, NamesOf
    <3>6. Source[m] = Source[t]
      BY <1>1, <3>1, <3>4, <3>5 DEF Moved, TargetsApart
    <3>7. m = t
      BY <3>2, <3>4, <3>6, SoleMover DEF Moved
    <3> QED
      BY <2>1, <3>4, <3>7 DEF Moved
  <2>3. CASE u \in own
    <3>1. Options(u) = {Wanted[u]}
      BY <1>1, <1>2, <2>3, ChosenNames
    <3> QED
      BY <1>1, <1>4, <2>2, <2>3, <3>1 DEF TargetsApart
  <2>4. CASE u \notin own
    <3>1. Options(u) \subseteq Reach(u)
      BY <1>1, <1>2, ChosenNames
    <3> QED
      BY <1>1, <1>4, <2>2, <2>4, <3>1 DEF TargetsApart
  <2> QED
    BY <2>3, <2>4
<1> QED
  BY <1>3, <1>4 DEF NoRace

LEMMA FilesRunning ==
  ASSUME NEW own \in SUBSET FileOps, RaceFree(own), PoolInv, FilesInv(own), NEW t \in Tasks, Running(t)
  PROVE  FilesInv(own)'
<1>0. TaskStep(t) /\ UNCHANGED <<call, ops, undone>>
  BY DEF Running, poolVars, managerVars
<1>1. /\ target' = target /\ pc[t] \notin {"idle", "success", "failed"} /\ pc'[t] # "idle"
      /\ \A u \in Tasks \ {t} : pc'[u] = pc[u] /\ attempt'[u] = attempt[u]
  BY <1>0, TaskFrame DEF FilesInv, Aftermath
<1>2. Early /\ FileInv /\ Inert /\ Started /\ Owned(own) /\ target = Wanted
  BY <1>1 DEF FilesInv, Still
<1>3. FileInv' /\ Inert'
  BY <1>0, <1>2, SeparateTasks, TaskStepInv
<1>4. Aftermath'
  <2>1. (FileInv => Aftermath)'
    BY InvAftermath, PTL
  <2> QED
    BY <1>3, <2>1
<1>5. Started'
  BY <1>1, <1>2 DEF Started
<1>6. Owned(own)'
  <2>1. \A u \in FileOps : target[u] \in NamesOf(Wanted[u])
    BY <1>2 DEF NamesOf
  <2> QED
    BY <1>0, <1>2, <2>1, OwnedStep DEF RaceFree
<1>7. Early' /\ CopyRecorded'
  BY <1>0, <1>2 DEF Early, CopyRecorded
<1> QED
  BY <1>1, <1>2, <1>3, <1>4, <1>5, <1>6, <1>7 DEF FilesInv

LEMMA FilesSpawn ==
  ASSUME NEW own \in SUBSET FileOps, RaceFree(own), PoolInv, FilesInv(own), NEW t \in Tasks, Spawn(t)
  PROVE  FilesInv(own)'
<1>1. /\ call[t] = "checked" /\ pc' = [pc EXCEPT ![t] = "begin"]
      /\ UNCHANGED <<dir, data, synced, target, attempt, final, in, out, crashed, ops, undone>>
  BY DEF Spawn, Goto, managerVars
<1>2. /\ Early /\ FileInv /\ Inert /\ Started /\ Owned(own) /\ target = Wanted
      /\ FileTypeOK /\ pc[t] = "idle"
  BY <1>1 DEF FilesInv, Still, Returned, FileInv, PoolInv, Sighted
<1>3. Kind[t] = "copyWithRename" => dir[target[t]] = None
  <2> SUFFICES ASSUME Kind[t] = "copyWithRename" PROVE dir[Wanted[t]] = None
    BY <1>2
  <2>1. t \in FileOps
    BY DEF FileOps, Stubs
  <2>2. t \in own /\ final[t] = None
    BY <1>2, <2>1 DEF RaceFree, FileInv, Done
  <2> QED
    BY <1>2, <2>2 DEF Owned
<1>4. target' = [target EXCEPT ![t] = target[t]] /\ target[t] \in Paths /\ attempt[t] = 0
  BY <1>1, <1>2 DEF FileTypeOK, Started
<1>5. FileInv' /\ Inert'
  BY <1>1, <1>2, <1>3, <1>4, StartTask
<1>6. Aftermath'
  <2>1. (FileInv => Aftermath)'
    BY InvAftermath, PTL
  <2> QED
    BY <1>5, <2>1
<1>7. Started' /\ Owned(own)'
  <2>1. \A u \in Tasks : (pc'[u] = "idle" => pc[u] = "idle")
    BY <1>1, <1>2 DEF FileTypeOK
  <2> QED
    BY <1>1, <1>2, <2>1 DEF Started, Owned
<1>8. Early' /\ CopyRecorded'
  BY <1>1, <1>2 DEF Early, CopyRecorded
<1> QED
  BY <1>1, <1>2, <1>5, <1>6, <1>7, <1>8 DEF FilesInv

\* Steps of the pool that touch no file.
LEMMA FilesAside ==
  ASSUME NEW own \in SUBSET FileOps, FilesInv(own), UNCHANGED taskVars, UNCHANGED managerVars, Still => Still'
  PROVE  FilesInv(own)'
<1>1. FileInv /\ Inert => FileInv' /\ Inert'
  BY DEF taskVars, FileInv, FileTypeOK, Inert, Originals, SourcesHome, MoversWait, Kept, Moved,
     TargetsFree, Unguarded, Route, Done, HasFile, Delivered, NotASource
<1>2. Aftermath'
  BY DEF taskVars, FilesInv, Aftermath, FileTypeOK, Originals, Kept, Moved, Delivered
<1>3. target' = target /\ (Started => Started') /\ (Owned(own) => Owned(own)') /\ Early' = Early /\ CopyRecorded'
  BY DEF taskVars, managerVars, FilesInv, Started, Owned, Early, CopyRecorded, CopyPaths
<1> QED
  BY <1>1, <1>2, <1>3 DEF FilesInv

LEMMA FilesManage ==
  ASSUME NEW own \in SUBSET FileOps, PoolInv, FilesInv(own), Manage
  PROVE  FilesInv(own)'
<1> DEFINE R == [op : {"Created", "Removed"}, path : Paths]
<1>0. /\ Quiet /\ UNCHANGED <<data, synced, target, pc, attempt, final, in, out, crashed, call>>
  BY DEF Manage, RecordCreation, RemoveFile, Rollback, taskVars, poolVars
<1>1. Still /\ Still'
  BY <1>0 DEF Quiet, Still, Returned, Ended, PoolInv, Sighted
<1>2. FileTypeOK /\ Aftermath /\ ops \in Seq(R) /\ \A i \in 1..Len(ops) : ops[i].path \in CopyPaths
  BY DEF FilesInv, Aftermath, CopyRecorded
<1>3. CopyPaths' = CopyPaths
  BY <1>0 DEF CopyPaths
<1>4. ASSUME NEW t \in Tasks, Kind[t] = "copy", pc[t] = "success"
      PROVE  t \in FileOps /\ final[t] \in CopyPaths /\ final[t] \in Paths
  <2>1. t \in FileOps
    BY <1>4 DEF FileOps, Stubs
  <2> QED
    BY <1>2, <1>4, <2>1 DEF CopyPaths, Aftermath, FileTypeOK
<1>5. ASSUME NEW r \in R, r.path \in CopyPaths, ops' = Append(ops, r) PROVE CopyRecorded' /\ ~Early'
  <2>1. ops' \in Seq(R) /\ Len(ops') = Len(ops) + 1 /\ ops'[Len(ops) + 1] = r /\ Len(ops) \in Nat
        /\ \A i \in 1..Len(ops) : ops'[i] = ops[i]
    BY <1>2, <1>5
  <2>2. \A i \in 1..Len(ops') : i \in 1..Len(ops) \/ i = Len(ops) + 1
    BY <2>1
  <2>3. ops' # <<>>
    BY <2>1
  <2> QED
    BY <1>2, <1>3, <1>5, <2>1, <2>2, <2>3 DEF CopyRecorded, Early
<1>6. ASSUME NEW t \in Tasks, RecordCreation(t) PROVE FilesInv(own)'
  <2>1. Kind[t] = "copy" /\ pc[t] = "success" /\ ops' = Append(ops, Created(final[t])) /\ dir' = dir
    BY <1>6 DEF RecordCreation, taskVars
  <2>2. Created(final[t]) \in R /\ Created(final[t]).path \in CopyPaths
    BY <1>4, <2>1 DEF Created
  <2>3. Aftermath'
    BY <1>0, <1>2, <2>1, CopiesErased DEF FileTypeOK
  <2> QED
    BY <1>0, <1>1, <1>5, <2>1, <2>2, <2>3 DEF FilesInv
<1>7. ASSUME NEW t \in Tasks, RemoveFile(t) PROVE FilesInv(own)'
  <2>1. /\ Kind[t] = "copy" /\ pc[t] = "success" /\ ops' = Append(ops, Removed(final[t]))
        /\ dir' = [dir EXCEPT ![final[t]] = None]
    BY <1>7 DEF RemoveFile
  <2>2. Removed(final[t]) \in R /\ Removed(final[t]).path \in CopyPaths
    BY <1>4, <2>1 DEF Removed
  <2>3. Aftermath'
    BY <1>0, <1>2, <1>4, <2>1, CopiesErased DEF FileTypeOK
  <2> QED
    BY <1>0, <1>1, <1>5, <2>1, <2>2, <2>3 DEF FilesInv
<1>8. CASE Rollback
  <2>1. PICK k \in 0 .. Len(ops) : Erase(Newest(k)) /\ undone' \in {"ok", "error"}
    BY <1>8 DEF Rollback
  <2>2. Newest(k) \subseteq CopyPaths
    <3>1. ASSUME NEW j \in Len(ops) - k + 1 .. Len(ops) PROVE j \in 1 .. Len(ops)
      <4>1. Len(ops) \in Nat /\ k \in Nat /\ k <= Len(ops)
        BY <1>2
      <4> QED
        BY <4>1
    <3> QED
      BY <1>2, <3>1 DEF Newest
  <2>3. Aftermath'
    BY <1>0, <1>2, <2>1, <2>2, CopiesErased DEF Erase, FileTypeOK
  <2>4. ops' = <<>> /\ ~Early'
    BY <1>8, <2>1 DEF Rollback, Early
  <2>5. CopyRecorded'
    BY <2>4 DEF CopyRecorded
  <2> QED
    BY <1>0, <1>1, <2>3, <2>4, <2>5 DEF FilesInv
<1> QED
  BY <1>6, <1>7, <1>8 DEF Manage

LEMMA FilesNext ==
  ASSUME NEW own \in SUBSET FileOps, RaceFree(own), PoolInv, FilesInv(own), [Next]_systemVars
  PROVE  FilesInv(own)'
<1>1. ASSUME NEW t \in Tasks, Execute(t) PROVE FilesInv(own)'
  <2>1. CASE Check(t) \/ Enrol(t)
    <3>1. ~Still /\ UNCHANGED taskVars /\ UNCHANGED managerVars
      BY <2>1 DEF Check, Enrol, Still, Returned
    <3> QED
      BY <3>1, FilesAside
  <2>2. CASE Spawn(t)
    BY <2>2, FilesSpawn
  <2> QED
    BY <1>1, <2>1, <2>2 DEF Execute
<1>2. ASSUME NEW t \in Tasks, Running(t) PROVE FilesInv(own)'
  BY <1>2, FilesRunning
<1>3. CASE Drain \/ Settled \/ UNCHANGED systemVars
  <2>1. UNCHANGED taskVars /\ UNCHANGED managerVars /\ call' = call
    BY <1>3 DEF Drain, Shutdown, Join, ShutdownReturns, Settled, systemVars, poolVars
  <2> QED
    BY <2>1, FilesAside DEF Still, taskVars
<1>4. CASE Manage
  BY <1>4, FilesManage
<1>5. CASE Fault
  <2>1. PowerLoss /\ UNCHANGED <<ops, undone, call, dir, target, pc, attempt, final>>
    BY <1>5 DEF Fault, PowerLoss, poolVars, managerVars
  <2>2. Aftermath'
    BY <2>1, PowerLossAfter DEF FilesInv
  <2>3. FileInv => FileInv'
    BY <2>1, PowerLossStep
  <2>4. /\ (Inert => Inert') /\ (Started => Started') /\ (Owned(own) => Owned(own)')
       /\ Early' = Early /\ CopyRecorded' /\ (Still => Still')
    BY <2>1 DEF FilesInv, Inert, Started, Owned, Early, CopyRecorded, CopyPaths, Still
  <2> QED
    BY <2>1, <2>2, <2>3, <2>4 DEF FilesInv
<1> QED
  BY <1>1, <1>2, <1>3, <1>4, <1>5 DEF Next

LEMMA FilesInit ==
  ASSUME NEW own \in SUBSET FileOps, RaceFree(own), PoolInit
  PROVE  FilesInv(own)
<1> USE Constants
<1>1. FileTypeOK
  BY TasksAssumption DEF PoolInit, FileInit, FileTypeOK, Pcs, Inodes
<1>2. Originals /\ SourcesHome /\ MoversWait /\ Kept /\ TargetsFree /\ Inert
  BY DEF PoolInit, FileInit, Originals, SourcesHome, MoversWait, Kept, TargetsFree, Unguarded, Inert
<1>3. ASSUME NEW t \in FileOps PROVE Route(t) /\ Done(t) /\ Delivered(t) /\ NotASource(t)
  <2>1. Suffixed[target[t]] \in Seq(Paths)
    BY TasksAssumption DEF PoolInit
  <2>2. 0 \in 0 .. Len(Suffixed[target[t]])
    BY <2>1
  <2> QED
    BY <2>2 DEF PoolInit, FileInit, Route, Done, Delivered, NotASource
<1>4. Owned(own)
  BY TasksAssumption DEF PoolInit, FileInit, Owned, RaceFree, TargetsApart, FileOps
<1>5. FileInv /\ Started /\ Early /\ CopyRecorded
  BY <1>1, <1>2, <1>3 DEF FileInv, PoolInit, FileInit, Started, Early, CopyRecorded
<1> QED
  BY <1>2, <1>4, <1>5, InvAftermath DEF FilesInv, PoolInit

\* In a batch without races of fs::rename: whatever runs concurrently, fails, is
\* interrupted or undone, the contents of every file that was there can still be read
\* under some name.
THEOREM PoolLosesNothing == NoRenameRace => (PoolSafety => []NothingLost)
<1> SUFFICES ASSUME NoRenameRace PROVE PoolSafety => []NothingLost
  OBVIOUS
<1>1. PICK own \in SUBSET FileOps : RaceFree(own)
  BY DEF NoRenameRace
<1> DEFINE Inv == PoolInv /\ FilesInv(own)
<1>2. PoolInit => Inv
  BY <1>1, PoolInitInv, FilesInit
<1>3. Inv /\ [Next]_systemVars => Inv'
  BY <1>1, PoolNext, FilesNext
<1>4. Inv => NothingLost
  BY AftermathKeeps DEF FilesInv
<1> HIDE DEF Inv
<1> QED
  BY <1>2, <1>3, <1>4, PTL DEF PoolSafety

\* In such a batch a task that reported Success has put its source's contents under
\* its own name; a move has removed its source only if the contents are durable at
\* the target.
THEOREM PoolDelivers == NoRenameRace => (PoolSafety => []FilesDelivered)
<1> SUFFICES ASSUME NoRenameRace PROVE PoolSafety => []FilesDelivered
  OBVIOUS
<1>1. PICK own \in SUBSET FileOps : RaceFree(own)
  BY DEF NoRenameRace
<1> DEFINE Inv == PoolInv /\ FilesInv(own)
<1>2. PoolInit => Inv
  BY <1>1, PoolInitInv, FilesInit
<1>3. Inv /\ [Next]_systemVars => Inv'
  BY <1>1, PoolNext, FilesNext
<1>4. Inv => FilesDelivered
  BY AftermathKeeps, InvDelivers DEF FilesInv, FilesDelivered, Early
<1> HIDE DEF Inv
<1> QED
  BY <1>2, <1>3, <1>4, PTL DEF PoolSafety

-----------------------------------------------------------------------------
(* The executor.                                                             *)

Busy == {"backup", "plan", "primary", "write", "sync", "replace", "advance"}

EngineOK ==
  /\ xpc \in EnginePcs
  /\ op \in Nat /\ 1 <= op /\ op <= N + 1
  /\ xpc \in Busy => op <= N

\* The task the engine awaits, the only one that runs.
Current(t) == (xpc = "backup" /\ t = Backup) \/ (xpc = "primary" /\ t = Primary)
Quiescent  == \A t \in Tasks : pc[t] \in {"idle", "success", "failed"}
OneTask    == \A t \in Tasks : pc[t] \in {"idle", "success", "failed"} \/ Current(t)

Fresh ==
  \A t \in Tasks :
    /\ target[t] \in NamesOf(Wanted[t])
    /\ pc[t] = "idle" => attempt[t] = 0 /\ target[t] = Wanted[t]

\* The tasks of the operations still to come have not been started.
Ahead ==
  \A o \in Ops :
    /\ o > op => pc[PrimaryTask[o]] = "idle" /\ pc[BackupTask[o]] = "idle"
    /\ o = op /\ xpc \in {"begin", "next"} =>
         pc[PrimaryTask[o]] = "idle" /\ pc[BackupTask[o]] = "idle"
    /\ o = op /\ xpc \in {"backup", "plan"} => pc[PrimaryTask[o]] = "idle"

\* A move is started on a complete backup.
BackedUp ==
  Backups => \A o \in Ops :
    Mode[o] = "move" /\ (pc[PrimaryTask[o]] # "idle" \/ (o = op /\ xpc = "plan")) =>
      pc[BackupTask[o]] = "success"

ExecInv ==
  FileInv /\ Inert /\ EngineOK /\ OneTask /\ Fresh /\ Ahead /\ BackedUp

-----------------------------------------------------------------------------
LEMMA OpTasks ==
  /\ \A o \in Ops : /\ PrimaryTask[o] \in FileOps /\ BackupTask[o] \in FileOps
                    /\ PrimaryTask[o] \in Tasks /\ BackupTask[o] \in Tasks
                    /\ Kind[BackupTask[o]] = "copy"
                    /\ Kind[PrimaryTask[o]] = IF Mode[o] = "copy" THEN "copyWithRename" ELSE "move"
                    /\ Source[BackupTask[o]] = Source[PrimaryTask[o]]
  /\ \A o, q \in Ops : PrimaryTask[o] # BackupTask[q]
  /\ \A o, q \in Ops : PrimaryTask[o] = PrimaryTask[q] => o = q
  /\ \A o, q \in Ops : BackupTask[o] = BackupTask[q] => o = q
  BY ExecutorAssumption, PlanAssumption DEF FileOps, Stubs

LEMMA InvApart ==
  ASSUME ExecInv, NEW own \in SUBSET FileOps, TargetsApart(own), Owned(own)
  PROVE  Apart
<1>1. \A t \in FileOps : target[t] \in NamesOf(Wanted[t])
  BY DEF ExecInv, Fresh, FileOps
<1> QED
  BY <1>1, OwnedApart DEF ExecInv, FileInv

LEMMA InvNoRace ==
  ASSUME ExecInv, NEW t \in Tasks, pc[t] \notin {"idle", "success", "failed"}
  PROVE  NoRace(t)
<1>1. Current(t)
  BY DEF ExecInv, OneTask
<1>2. ASSUME NEW u \in FileOps \ {t}, Unguarded(u) PROVE FALSE
  <2>1. u \in Tasks /\ pc[u] \notin {"idle", "success", "failed"}
    BY <1>2 DEF Unguarded, FileOps
  <2>2. Current(u)
    BY <2>1 DEF ExecInv, OneTask
  <2> QED
    BY <1>1, <2>2, <1>2 DEF Current
<1> QED
  BY <1>2 DEF NoRace

LEMMA FilesUnchanged ==
  ASSUME FileInv, Inert, UNCHANGED taskVars
  PROVE  FileInv' /\ Inert'
  BY DEF taskVars, FileInv, FileTypeOK, Inert, Originals, SourcesHome, MoversWait, Kept, Moved,
     TargetsFree, Unguarded, Route, Done, HasFile, Delivered, NotASource

LEMMA FileStepInv ==
  ASSUME ExecInv, NEW own \in SUBSET FileOps, TargetsApart(own), Owned(own),
         NEW t \in Tasks, TaskStep(t), UNCHANGED engineVars
  PROVE  ExecInv'
<1>1. FileTypeOK
  BY DEF ExecInv, FileInv
<1>2. /\ target' = target /\ pc[t] \notin {"idle", "success", "failed"} /\ pc'[t] \in Pcs \ {"idle"}
      /\ \A u \in Tasks \ {t} : pc'[u] = pc[u] /\ attempt'[u] = attempt[u]
      /\ xpc' = xpc /\ op' = op
  BY <1>1, TaskFrame DEF engineVars
<1>3. FileInv' /\ Inert'
  BY <1>2, InvNoRace, InvApart, TaskStepInv DEF ExecInv
<1>4. Current(t) /\ EngineOK
  BY <1>2 DEF ExecInv, OneTask
<1>5. EngineOK' /\ OneTask' /\ Fresh'
  BY <1>2, <1>4 DEF ExecInv, EngineOK, OneTask, Fresh, Current, Primary, Backup
<1>6. op \in Ops /\ (xpc = "backup" \/ xpc = "primary")
  BY <1>4 DEF Current, EngineOK, Busy, Ops
<1>7. Ahead'
  <2> SUFFICES ASSUME NEW o \in Ops
               PROVE  /\ o > op => pc'[PrimaryTask[o]] = "idle" /\ pc'[BackupTask[o]] = "idle"
                      /\ o = op /\ xpc = "backup" => pc'[PrimaryTask[o]] = "idle"
    BY <1>2, <1>6 DEF Ahead
  <2>1. o \in Nat /\ op \in Nat /\ o \in Ops
    BY <1>6 DEF Ops
  <2>2. o > op => t # PrimaryTask[o] /\ t # BackupTask[o]
    BY <1>4, <1>6, <2>1, OpTasks DEF Current, Primary, Backup
  <2>3. o = op /\ xpc = "backup" => t # PrimaryTask[o]
    BY <1>4, <1>6, OpTasks DEF Current, Primary, Backup
  <2> QED
    BY <1>2, <2>2, <2>3, OpTasks DEF ExecInv, Ahead
<1>8. BackedUp'
  <2> SUFFICES ASSUME Backups, NEW o \in Ops, Mode[o] = "move", pc'[PrimaryTask[o]] # "idle"
               PROVE  pc'[BackupTask[o]] = "success"
    BY <1>2, <1>6 DEF BackedUp
  <2>1. pc[PrimaryTask[o]] # "idle"
    BY <1>2, OpTasks
  <2>2. pc[BackupTask[o]] = "success"
    BY <2>1 DEF ExecInv, BackedUp
  <2> QED
    BY <1>2, <2>2, OpTasks
<1> QED
  BY <1>3, <1>5, <1>7, <1>8 DEF ExecInv

\* A step of the engine that starts no task: it ends, goes on to the next operation,
\* or goes on with this one.
LEMMA EngineMoves ==
  ASSUME ExecInv, Quiescent, UNCHANGED taskVars,
         \/ op' = op /\ xpc' \in {"returned", "panicked", "overflowed"}
         \/ op' = op + 1 /\ xpc' = "next" /\ xpc \in Busy
         \/ op' = op /\ xpc = "begin" /\ xpc' = "next"
         \/ op' = op /\ xpc = "backup" /\ xpc' = "plan" /\ pc[Backup] = "success"
         \/ /\ op' = op /\ xpc \in {"primary", "write", "sync", "replace"}
            /\ xpc' \in {"write", "sync", "replace", "advance"}
  PROVE  ExecInv'
<1>1. FileInv' /\ Inert'
  BY FilesUnchanged DEF ExecInv
<1>2. pc' = pc /\ target' = target /\ attempt' = attempt
  BY DEF taskVars
<1>3. op \in Nat /\ 1 <= op /\ N \in Nat /\ (xpc \in Busy => op \in Ops)
  BY ExecutorAssumption DEF ExecInv, EngineOK, Ops
<1>4. EngineOK'
  BY <1>3 DEF ExecInv, EngineOK, EnginePcs, Busy
<1>5. OneTask' /\ Fresh'
  BY <1>2 DEF ExecInv, OneTask, Fresh, Quiescent
<1>6. Ahead'
  <2> SUFFICES ASSUME NEW o \in Ops
               PROVE  /\ o > op' => pc[PrimaryTask[o]] = "idle" /\ pc[BackupTask[o]] = "idle"
                      /\ o = op' /\ xpc' = "next" => pc[PrimaryTask[o]] = "idle" /\ pc[BackupTask[o]] = "idle"
                      /\ o = op' /\ xpc' = "plan" => pc[PrimaryTask[o]] = "idle"
    BY <1>2 DEF Ahead
  <2>1. o \in Nat
    BY DEF Ops
  <2>2. o > op' \/ (o = op' /\ op' = op + 1) => o > op
    BY <2>1, <1>3
  <2> QED
    BY <2>2 DEF ExecInv, Ahead, Busy
<1>7. BackedUp'
  BY <1>2 DEF ExecInv, BackedUp, Backup
<1> QED
  BY <1>1, <1>4, <1>5, <1>6, <1>7 DEF ExecInv

LEMMA NextOpInv ==
  ASSUME ExecInv, NextOp
  PROVE  ExecInv'
<1>1. /\ xpc = "next" /\ op \in Ops /\ op' = op
      /\ UNCHANGED <<dir, data, synced, target, attempt, final, in, out, crashed>>
  BY DEF NextOp, XAt, ExecInv, EngineOK, Ops
<1>2. Backup \in Tasks /\ Primary \in Tasks /\ Kind[Backup] = "copy" /\ Primary # Backup
  BY <1>1, OpTasks DEF Backup, Primary
<1>3. Quiescent /\ pc[Backup] = "idle" /\ pc[Primary] = "idle"
  BY <1>1 DEF ExecInv, OneTask, Current, Quiescent, Ahead, Backup, Primary
<1>4. CASE Mode[op] = "move" /\ Backups
  <2>1. pc' = [pc EXCEPT ![Backup] = "begin"] /\ xpc' = "backup"
    BY <1>4 DEF NextOp, Run
  <2>2. target' = [target EXCEPT ![Backup] = target[Backup]] /\ target[Backup] \in Paths
    BY <1>1, <1>2 DEF ExecInv, FileInv, FileTypeOK
  <2>3. attempt[Backup] = 0
    BY <1>2, <1>3 DEF ExecInv, Fresh
  <2>4. FileInv' /\ Inert'
    BY <1>1, <1>2, <1>3, <2>1, <2>2, <2>3, StartTask DEF ExecInv
  <2>5. /\ pc'[Backup] = "begin" /\ \A u \in Tasks \ {Backup} : pc'[u] = pc[u]
        /\ Backup' = Backup
    BY <1>1, <1>2, <2>1 DEF ExecInv, FileInv, FileTypeOK, Backup
  <2>6. EngineOK' /\ OneTask' /\ Fresh'
    BY <1>1, <1>2, <1>3, <2>1, <2>5 DEF ExecInv, EngineOK, EnginePcs, Ops, OneTask, Quiescent, Current, Fresh
  <2>7. Ahead'
    <3> SUFFICES ASSUME NEW o \in Ops
                 PROVE  /\ o > op => pc'[PrimaryTask[o]] = "idle" /\ pc'[BackupTask[o]] = "idle"
                        /\ o = op => pc'[PrimaryTask[o]] = "idle"
      BY <1>1, <2>1 DEF Ahead
    <3>1. o > op => BackupTask[o] # Backup
      BY <1>1, OpTasks DEF Backup, Ops
    <3>2. PrimaryTask[o] # Backup
      BY <1>1, OpTasks DEF Backup
    <3> QED
      BY <1>1, <2>5, <3>1, <3>2, OpTasks DEF ExecInv, Ahead
  <2>8. BackedUp'
    <3> SUFFICES ASSUME Backups, NEW o \in Ops, Mode[o] = "move", pc'[PrimaryTask[o]] # "idle"
                 PROVE  pc'[BackupTask[o]] = "success"
      BY <1>1, <2>1 DEF BackedUp
    <3>1. pc[PrimaryTask[o]] # "idle"
      BY <1>1, <2>5, OpTasks DEF Backup
    <3>2. pc[BackupTask[o]] = "success"
      BY <3>1 DEF ExecInv, BackedUp
    <3> QED
      BY <1>3, <2>5, <3>2, OpTasks
  <2> QED
    BY <2>4, <2>6, <2>7, <2>8 DEF ExecInv
<1>5. CASE ~(Mode[op] = "move" /\ Backups)
  <2>1. pc' = pc /\ xpc' = "plan"
    BY <1>5 DEF NextOp
  <2>2. FileInv' /\ Inert'
    BY <1>1, <2>1, FilesUnchanged DEF ExecInv, taskVars
  <2>3. EngineOK' /\ OneTask' /\ Fresh' /\ Ahead' /\ BackedUp'
    BY <1>1, <1>3, <1>5, <2>1 DEF ExecInv, EngineOK, EnginePcs, Ops, OneTask, Quiescent, Current, Fresh, Ahead, BackedUp
  <2> QED
    BY <2>2, <2>3 DEF ExecInv
<1> QED
  BY <1>4, <1>5

\* The least of the free names is one of them.
LEMMA Least ==
  ASSUME NEW T, T \subseteq Nat, T # {}
  PROVE  \E k \in T : \A m \in T : k <= m
<1> DEFINE R == OpToRel(<, Nat)
<1>1. \A x, y \in Nat : x < y => <<x, y>> \in R
  BY DEF OpToRel
<1>2. IsWellFoundedOn(R, Nat)
  BY NatLessThanWellFounded
<1> HIDE DEF R
<1>3. PICK x \in T : \A y \in T : ~(<<y, x>> \in R)
  BY <1>2, WFMin
<1>4. ASSUME NEW y \in T PROVE x <= y
  <2>1. x \in Nat /\ y \in Nat /\ ~(y < x)
    BY <1>1, <1>3
  <2> QED
    BY <2>1
<1> QED
  BY <1>4

LEMMA NamesFacts ==
  ASSUME NEW t \in Tasks
  PROVE  /\ DOMAIN Names(t) \subseteq Nat
         /\ \A k \in DOMAIN Names(t) : Names(t)[k] \in NamesOf(Wanted[t]) /\ Names(t)[k] \in Paths
<1> DEFINE w == <<Wanted[t]>>
           s == Suffixed[Wanted[t]]
<1>1. w \in Seq(Paths) /\ s \in Seq(Paths) /\ Len(w) = 1 /\ w[1] = Wanted[t]
  BY TasksAssumption
<1> HIDE DEF w, s
<1>2. /\ w \o s \in Seq(Paths) /\ Len(w \o s) = 1 + Len(s)
      /\ \A i \in 1 .. 1 + Len(s) : (w \o s)[i] = IF i <= 1 THEN w[i] ELSE s[i - 1]
  BY <1>1, ConcatProperties
<1>3. DOMAIN (w \o s) = 1 .. 1 + Len(s) /\ DOMAIN s = 1 .. Len(s) /\ Len(s) \in Nat
  BY <1>1, <1>2
<1>4. ASSUME NEW i \in 1 .. 1 + Len(s) PROVE (w \o s)[i] \in NamesOf(Wanted[t]) /\ (w \o s)[i] \in Paths
  <2>1. CASE i <= 1
    BY <1>1, <1>2, <1>3, <2>1 DEF NamesOf
  <2>2. CASE i > 1
    <3>1. i - 1 \in DOMAIN s /\ (w \o s)[i] = s[i - 1] /\ s[i - 1] \in Paths
      BY <1>1, <1>2, <1>3, <2>2
    <3> QED
      BY <3>1 DEF NamesOf, s
  <2> QED
    BY <1>3, <2>1, <2>2
<1>5. Names(t) = w \o s
  BY DEF Names, w, s
<1> QED
  BY <1>3, <1>4, <1>5

LEMMA ResolvedIsFree ==
  ASSUME NEW t \in Tasks, Conflict # "Skip", Free(t) # {}
  PROVE  Resolved(t) \in NamesOf(Wanted[t]) /\ dir[Resolved(t)] = None
<1>1. Free(t) \subseteq Nat
  BY NamesFacts DEF Free
<1>2. \E k \in Free(t) : \A m \in Free(t) : k <= m
  BY <1>1, Least
<1> DEFINE k == CHOOSE k \in Free(t) : \A m \in Free(t) : k <= m
<1>3. k \in Free(t)
  BY <1>2
<1>4. Resolved(t) = Names(t)[k]
  BY DEF Resolved
<1> HIDE DEF k
<1> QED
  BY <1>3, <1>4, NamesFacts DEF Free, Exists

\* The target the engine plans is one of the requested one's names, in Paths, the
\* requested one if that is free, and free unless the task itself will look.
LEMMA PlannedTarget ==
  ASSUME ExecInv, NoOverwrite, Plan, xpc' = "primary"
  PROVE  \E p \in Paths :
           /\ p \in NamesOf(Wanted[Primary])
           /\ Kind[Primary] = "copyWithRename" => dir[p] = None
           /\ Conflict # "Skip" /\ Relocates[op] => dir[p] = None
           /\ p = Wanted[Primary] \/ (Relocates[op] /\ dir[Wanted[Primary]] # None)
           /\ target' = [target EXCEPT ![Primary] = p]
           /\ pc' = [pc EXCEPT ![Primary] = "begin"]
<1>1. op \in Ops /\ Primary \in Tasks /\ Kind[Primary] = IF Mode[op] = "copy" THEN "copyWithRename" ELSE "move"
  BY OpTasks DEF Plan, XAt, ExecInv, EngineOK, Busy, Ops, Primary
<1> DEFINE conflict == Relocates[op] /\ Exists(Wanted[Primary])
           panics   == \/ Mode[op] = "copy" /\ ~Relocates[op]
                       \/ conflict /\ Conflict = "AutoRename" /\ Free(Primary) = {}
<1>2. \/ ~conflict /\ ~panics /\ Planned(Wanted[Primary])
      \/ conflict /\ ~panics /\ Conflict # "Prompt" /\ Planned(Resolved(Primary))
  BY DEF Plan, Unplanned
<1>3. Wanted[Primary] \in Paths /\ Wanted[Primary] \in NamesOf(Wanted[Primary])
  BY <1>1, TasksAssumption DEF NamesOf
<1>4. CASE ~conflict /\ ~panics /\ Planned(Wanted[Primary])
  BY <1>1, <1>3, <1>4 DEF Planned, Run, Exists
<1>5. CASE conflict /\ ~panics /\ Conflict # "Prompt" /\ Planned(Resolved(Primary))
  <2>1. CASE Conflict = "Skip"
    <3>1. Resolved(Primary) = Wanted[Primary] /\ Mode[op] # "copy"
      BY <1>1, <2>1 DEF Resolved, NoOverwrite
    <3> QED
      BY <1>1, <1>3, <1>5, <2>1, <3>1 DEF Planned, Run
  <2>2. CASE Conflict # "Skip"
    <3>1. Conflict = "AutoRename"
      BY <1>5, <2>2, ExecutorAssumption
    <3>2. Resolved(Primary) \in NamesOf(Wanted[Primary]) /\ dir[Resolved(Primary)] = None
      BY <1>1, <1>5, <2>2, <3>1, ResolvedIsFree
    <3>3. Resolved(Primary) \in Paths
      BY <1>1, <3>2, <1>3, TasksAssumption DEF NamesOf
    <3> QED
      BY <1>5, <3>2, <3>3 DEF Planned, Run, Exists
  <2> QED
    BY <2>1, <2>2
<1> QED
  BY <1>2, <1>4, <1>5

LEMMA PlanInv ==
  ASSUME ExecInv, NoOverwrite, Plan
  PROVE  ExecInv'
<1>1. /\ xpc = "plan" /\ op \in Ops /\ op' = op
      /\ UNCHANGED <<dir, data, synced, attempt, final, in, out, crashed>>
  BY DEF Plan, XAt, ExecInv, EngineOK, Busy, Ops
<1>2. Primary \in Tasks /\ Primary \in FileOps /\ \A o \in Ops : Primary # BackupTask[o]
  BY <1>1, OpTasks DEF Primary
<1>3. Quiescent /\ pc[Primary] = "idle"
  BY <1>1 DEF ExecInv, OneTask, Current, Quiescent, Ahead, Primary
<1>4. CASE xpc' \in {"panicked", "overflowed"}
  <2>1. pc' = pc /\ target' = target
    BY <1>4 DEF Plan, Unplanned, Planned
  <2> QED
    BY <1>1, <1>3, <1>4, <2>1, EngineMoves DEF taskVars
<1>5. CASE xpc' = "primary"
  <2>1. PICK p \in Paths :
           /\ p \in NamesOf(Wanted[Primary])
           /\ Kind[Primary] = "copyWithRename" => dir[p] = None
           /\ target' = [target EXCEPT ![Primary] = p]
           /\ pc' = [pc EXCEPT ![Primary] = "begin"]
    BY <1>5, PlannedTarget
  <2>2. attempt[Primary] = 0
    BY <1>2, <1>3 DEF ExecInv, Fresh
  <2>3. FileInv' /\ Inert'
    BY <1>1, <1>2, <1>3, <2>1, <2>2, StartTask DEF ExecInv
  <2>4. /\ pc'[Primary] = "begin" /\ \A u \in Tasks \ {Primary} : pc'[u] = pc[u] /\ target'[u] = target[u]
        /\ target'[Primary] = p
        /\ Primary' = Primary
    BY <1>1, <1>2, <2>1 DEF ExecInv, FileInv, FileTypeOK, Primary
  <2>5. EngineOK' /\ OneTask'
    BY <1>1, <1>2, <1>3, <1>5, <2>4 DEF ExecInv, EngineOK, EnginePcs, Ops, OneTask, Quiescent, Current
  <2>6. Fresh'
    BY <1>1, <1>2, <2>1, <2>4 DEF ExecInv, Fresh
  <2>7. Ahead'
    <3> SUFFICES ASSUME NEW o \in Ops, o > op
                 PROVE  pc'[PrimaryTask[o]] = "idle" /\ pc'[BackupTask[o]] = "idle"
      BY <1>1, <1>5 DEF Ahead
    <3>1. PrimaryTask[o] # Primary
      BY <1>1, OpTasks DEF Primary, Ops
    <3> QED
      BY <1>1, <1>2, <2>4, <3>1, OpTasks DEF ExecInv, Ahead
  <2>8. BackedUp'
    <3> SUFFICES ASSUME Backups, NEW o \in Ops, Mode[o] = "move", pc'[PrimaryTask[o]] # "idle"
                 PROVE  pc'[BackupTask[o]] = "success"
      BY <1>1, <1>5 DEF BackedUp
    <3>1. pc[PrimaryTask[o]] # "idle" \/ o = op
      BY <1>1, <2>4, OpTasks DEF Primary
    <3>2. pc[BackupTask[o]] = "success"
      BY <1>1, <3>1 DEF ExecInv, BackedUp
    <3> QED
      BY <1>2, <2>4, <3>2, OpTasks
  <2> QED
    BY <2>3, <2>5, <2>6, <2>7, <2>8 DEF ExecInv
<1> QED
  BY <1>4, <1>5 DEF Plan, Planned, Unplanned

\* Where an awaited task has ended, or none is awaited, none runs.
LEMMA Awaited ==
  ASSUME ExecInv, xpc = "backup" => pc[Backup] \in Ended, xpc = "primary" => pc[Primary] \in Ended
  PROVE  Quiescent
  BY DEF ExecInv, OneTask, Current, Quiescent, Ended

LEMMA EngineInv ==
  ASSUME ExecInv, NoOverwrite, Engine
  PROVE  ExecInv'
<1>1. CASE NextOp
  BY <1>1, NextOpInv
<1>2. CASE Plan
  BY <1>2, PlanInv
<1>3. CASE BackupEnds
  <2>1. Quiescent
    BY <1>3, Awaited DEF BackupEnds, XAt
  <2> QED
    BY <1>3, <2>1, EngineMoves DEF BackupEnds, XAt, FailOp, Advanced, Return, Busy
<1>4. CASE PrimaryEnds
  <2>1. Quiescent
    BY <1>4, Awaited DEF PrimaryEnds, XAt
  <2> QED
    BY <1>4, <2>1, EngineMoves DEF PrimaryEnds, XAt, FailOp, Advanced, Return, Busy
<1>5. CASE DryRun \/ Start \/ Cancel \/ Finish \/ WriteTmp \/ SyncTmp \/ Replace \/ SaveError \/ Advance
  <2>1. xpc \notin {"backup", "primary"}
    BY <1>5 DEF DryRun, Start, Cancel, Finish, WriteTmp, SyncTmp, Replace, SaveError, Advance, XAt
  <2>2. Quiescent
    BY <2>1, Awaited
  <2> QED
    BY <1>5, <2>2, EngineMoves DEF DryRun, Start, Cancel, Finish, WriteTmp, SyncTmp, Replace, SaveError,
       Advance, XAt, Advanced, Return, Busy
<1> QED
  BY <1>1, <1>2, <1>3, <1>4, <1>5 DEF Engine

LEMMA CrashInv ==
  ASSUME ExecInv, Crash
  PROVE  ExecInv'
<1>1. FileInv'
  BY PowerLossStep DEF ExecInv, Crash
<1>2. /\ pc' = pc /\ target' = target /\ attempt' = attempt /\ final' = final
      /\ op' = op /\ xpc' = xpc
  BY DEF Crash, PowerLoss
<1> QED
  BY <1>1, <1>2 DEF ExecInv, Inert, EngineOK, OneTask, Current, Primary, Backup, Fresh, Ahead, BackedUp

LEMMA InitInv == ExecInit => ExecInv
<1> SUFFICES ASSUME ExecInit PROVE ExecInv
  OBVIOUS
<1> USE Constants
<1>1. FileTypeOK
  BY TasksAssumption DEF ExecInit, FileInit, FileTypeOK, Pcs, Inodes
<1>2. Originals /\ SourcesHome /\ MoversWait /\ Kept /\ TargetsFree /\ Inert
  BY DEF ExecInit, FileInit, Originals, SourcesHome, MoversWait, Kept, TargetsFree, Unguarded, Inert
<1>3. ASSUME NEW t \in FileOps PROVE Route(t) /\ Done(t) /\ Delivered(t) /\ NotASource(t)
  <2>1. Suffixed[target[t]] \in Seq(Paths)
    BY TasksAssumption DEF ExecInit
  <2>2. Len(Suffixed[target[t]]) \in Nat
    BY <2>1
  <2>3. 0 \in 0 .. Len(Suffixed[target[t]])
    BY <2>2
  <2> QED
    BY <2>3 DEF ExecInit, FileInit, Route, Done, Delivered, NotASource
<1>4. EngineOK /\ OneTask /\ Fresh /\ Ahead /\ BackedUp
  BY OpTasks, TasksAssumption, ExecutorAssumption DEF ExecInit, FileInit, EngineOK, EnginePcs, Busy, OneTask, Fresh, NamesOf, Ahead, BackedUp
<1> QED
  BY <1>1, <1>2, <1>3, <1>4 DEF ExecInv, FileInv

LEMMA NextInv ==
  ASSUME ExecInv, NEW own \in SUBSET FileOps, TargetsApart(own), Owned(own), NoOverwrite, [ExecNext]_vars
  PROVE  ExecInv'
<1>1. CASE Engine
  BY <1>1, EngineInv
<1>2. CASE FileStep
  BY <1>2, FileStepInv DEF FileStep
<1>3. CASE Crash
  BY <1>3, CrashInv
<1>4. CASE UNCHANGED vars
  <2>1. UNCHANGED taskVars /\ op' = op /\ xpc' = xpc
    BY <1>4 DEF vars, engineVars
  <2>2. FileInv' /\ Inert'
    BY <2>1, FilesUnchanged DEF ExecInv
  <2> QED
    BY <2>1, <2>2 DEF ExecInv, taskVars, EngineOK, OneTask, Current, Primary, Backup, Fresh, Ahead, BackedUp
<1> QED
  BY <1>1, <1>2, <1>3, <1>4 DEF ExecNext, Stopped

\* The engine leaves a free target as it is.
LEMMA OwnedNext ==
  ASSUME ExecInv, NEW own \in SUBSET FileOps, TargetsApart(own), Owned(own), NoOverwrite, [ExecNext]_vars
  PROVE  Owned(own)'
<1>1. CASE FileStep
  <2>1. PICK t \in Tasks : TaskStep(t)
    BY <1>1 DEF FileStep
  <2>2. \A u \in FileOps : target[u] \in NamesOf(Wanted[u])
    BY DEF ExecInv, Fresh, FileOps
  <2> QED
    BY <2>1, <2>2, OwnedStep DEF ExecInv
<1>2. CASE Plan /\ xpc' = "primary"
  <2>1. PICK p \in Paths :
           /\ p = Wanted[Primary] \/ (Relocates[op] /\ dir[Wanted[Primary]] # None)
           /\ target' = [target EXCEPT ![Primary] = p]
    BY <1>2, PlannedTarget
  <2>2. /\ xpc = "plan" /\ op \in Ops /\ UNCHANGED <<dir, attempt, final>>
        /\ target \in [Tasks -> Paths]
    BY <1>2 DEF Plan, XAt, ExecInv, EngineOK, Busy, Ops, FileInv, FileTypeOK
  <2>3. Primary \in FileOps /\ pc[Primary] = "idle"
    BY <2>2, OpTasks DEF Primary, ExecInv, Ahead
  <2>4. final[Primary] = None
    BY <2>3 DEF ExecInv, FileInv, Done
  <2>5. Primary \in own => target'[Primary] = Wanted[Primary]
    BY <2>1, <2>2, <2>3, <2>4 DEF Owned, FileOps
  <2>6. \A t \in own : t # Primary => target'[t] = target[t]
    BY <2>1, <2>2
  <2> QED
    BY <2>2, <2>5, <2>6 DEF Owned
<1>3. CASE Plan /\ xpc' # "primary"
  BY <1>3 DEF Plan, Planned, Unplanned, Owned
<1>4. CASE NextOp \/ Crash
  BY <1>4 DEF NextOp, Crash, PowerLoss, Owned
<1>5. CASE DryRun \/ Start \/ Cancel \/ Finish \/ BackupEnds \/ PrimaryEnds \/ WriteTmp \/ SyncTmp \/ Replace
           \/ SaveError \/ Advance \/ Stopped \/ UNCHANGED vars
  <2>1. UNCHANGED taskVars
    BY <1>5 DEF DryRun, Start, Cancel, Finish, BackupEnds, PrimaryEnds, WriteTmp, SyncTmp, Replace,
       SaveError, Advance, Stopped, vars
  <2> QED
    BY <2>1 DEF taskVars, Owned
<1> QED
  BY <1>1, <1>2, <1>3, <1>4, <1>5 DEF ExecNext, Engine

LEMMA OwnedInit ==
  ASSUME ExecInit, NEW own \in SUBSET FileOps, TargetsApart(own)
  PROVE  Owned(own)
  BY TasksAssumption DEF ExecInit, FileInit, Owned, TargetsApart, FileOps

LEMMA InvBackup == ExecInv => BackupBeforeMove
<1> SUFFICES ASSUME ExecInv, ~crashed, Backups, NEW o \in Ops, Mode[o] = "move",
                    ~Holds(Source[PrimaryTask[o]], PrimaryTask[o])
             PROVE  pc[BackupTask[o]] = "success" /\ Holds(final[BackupTask[o]], BackupTask[o])
  BY DEF BackupBeforeMove
<1> USE Constants
<1>1. pc[PrimaryTask[o]] = "success"
  BY OpTasks DEF ExecInv, FileInv, MoversWait, Originals, Holds, Exists
<1>2. pc[BackupTask[o]] = "success"
  BY <1>1 DEF ExecInv, BackedUp
<1> QED
  BY <1>2, OpTasks DEF ExecInv, FileInv, Delivered, HasFile, Holds, Exists

\* A batch whose copies never overwrite and whose targets are apart loses no contents,
\* whatever fails or is interrupted, and a subtitle leaves its place only once it is
\* backed up.
THEOREM SubtitlesAreSafe == SafePlan => (ExecSpec => []SubtitlesSafe)
<1> SUFFICES ASSUME SafePlan PROVE ExecSpec => []SubtitlesSafe
  OBVIOUS
<1>1. PICK own \in SUBSET FileOps : TargetsApart(own)
  BY DEF SafePlan
<1> DEFINE Inv == ExecInv /\ Owned(own)
<1>2. ExecInit => Inv
  BY <1>1, InitInv, OwnedInit
<1>3. Inv /\ [ExecNext]_vars => Inv'
  BY <1>1, NextInv, OwnedNext DEF SafePlan
<1>4. Inv => SubtitlesSafe
  BY InvBackup, InvNothingLost DEF ExecInv, SubtitlesSafe
<1> HIDE DEF Inv
<1> QED
  BY <1>2, <1>3, <1>4, PTL DEF ExecSpec

-----------------------------------------------------------------------------
(* The journal. *)

\* What ResolvedPlan says of the names that are a task's own.
JournalPlanned(own) ==
  TargetsApart(own) /\ \A o \in Ops : ~Relocates[o] => PrimaryTask[o] \in own

EntrySet ==
  [op : Ops, operation_type : {"Copied", "Moved", "Renamed"}, source : Paths,
   destination : Paths, backup_path : Paths \cup {None}, status : {"Completed"}]

\* The file is never replaced by one that was not synced.
Saved ==
  /\ entries \in Seq(EntrySet) /\ journal \in Seq(EntrySet)
  /\ durable = TRUE /\ torn = FALSE
  /\ xpc = "replace" => tmp = "synced"

\* An entry is about an operation that was applied, in the order of the batch.
GoodEntry(e) ==
  /\ Applied(e.op)
  /\ e.source = Source[PrimaryTask[e.op]]
  /\ e.destination = target[PrimaryTask[e.op]]
  /\ e.operation_type = "Copied" <=> Mode[e.op] = "copy"

Ascending ==
  /\ \A k \in 1..Len(entries) :
       /\ GoodEntry(entries[k])
       /\ entries[k].op <= op
       /\ xpc \in {"begin", "next", "backup", "plan", "primary"} => entries[k].op < op
  /\ \A k, m \in 1..Len(entries) : k < m => entries[k].op < entries[m].op

\* Every applied operation has its entry, once its task was awaited.
Complete ==
  /\ \A o \in Ops : Applied(o) =>
       (\E k \in 1..Len(entries) : entries[k].op = o) \/ (o = op /\ xpc = "primary")
  /\ xpc \in {"write", "sync", "replace", "advance"} => pc[Primary] = "success"

\* The file has the entries, but perhaps not yet the last one.
Recorded ==
  /\ Len(journal) <= Len(entries)
  /\ \A k \in 1..Len(journal) : journal[k] = entries[k]
  /\ HasJournal => \A k \in 1..Len(entries) :
       \/ k <= Len(journal)
       \/ entries[k].op = op /\ xpc \in {"write", "sync", "replace", "returned"}

\* A task that has run is one of an operation's.
Named == \A t \in Tasks : pc[t] # "idle" => \E o \in Ops : t = PrimaryTask[o] \/ t = BackupTask[o]

\* A primary task's target stays free until the task has its file there.
Landed ==
  \A o \in Ops :
    LET t == PrimaryTask[o] IN
      /\ pc[t] \in {"begin", "rename", "claim"} => dir[target[t]] = None /\ attempt[t] = 0
      /\ pc[t] = "open" /\ Kind[t] # "copyWithRename" => final[t] = target[t]
      /\ pc[t] \in {"copy", "sync", "remove", "success"} => final[t] = target[t]

JournalInv == Saved /\ Ascending /\ Complete /\ Recorded /\ Named /\ Landed

LEMMA PlanResolves == ResolvedPlan => NoOverwrite
  BY DEF ResolvedPlan, NoOverwrite

LEMMA EntryOps ==
  ASSUME Saved
  PROVE  /\ \A k \in 1..Len(entries) : entries[k].op \in Ops /\ entries[k].op \in Nat
         /\ Len(entries) \in Nat /\ Len(journal) \in Nat
<1>1. \A k \in 1..Len(entries) : entries[k] \in EntrySet
  BY DEF Saved
<1>2. \A e \in EntrySet : e.op \in Ops /\ e.op \in Nat
  BY DEF EntrySet, Ops
<1> QED
  BY <1>1, <1>2 DEF Saved

\* Applied stays applied, and its target what it was.
LEMMA GoodStays ==
  ASSUME Saved, Ascending, entries' = entries,
         \A o \in Ops : Applied(o) => Applied(o)' /\ target'[PrimaryTask[o]] = target[PrimaryTask[o]]
  PROVE  \A k \in 1..Len(entries) : GoodEntry(entries[k])'
<1> SUFFICES ASSUME NEW k \in 1..Len(entries) PROVE GoodEntry(entries[k])'
  OBVIOUS
<1>1. GoodEntry(entries[k]) /\ entries[k].op \in Ops
  BY EntryOps DEF Ascending
<1> QED
  BY <1>1 DEF GoodEntry

LEMMA JournalFileStep ==
  ASSUME ExecInv, JournalInv, NEW t \in Tasks, TaskStep(t), UNCHANGED engineVars
  PROVE  JournalInv'
<1>0. FileTypeOK
  BY DEF ExecInv, FileInv
<1>1. /\ target' = target /\ pc[t] \notin {"idle", "success", "failed"} /\ pc'[t] \in Pcs \ {"idle"}
      /\ \A u \in Tasks \ {t} : pc'[u] = pc[u] /\ attempt'[u] = attempt[u] /\ final'[u] = final[u]
  BY <1>0, TaskFrame
<1>2. /\ xpc' = xpc /\ op' = op /\ entries' = entries /\ journal' = journal
      /\ durable' = durable /\ torn' = torn /\ tmp' = tmp
  BY DEF engineVars, journalVars
<1>3. Current(t) /\ op \in Ops /\ (xpc = "backup" \/ xpc = "primary")
  BY <1>1 DEF ExecInv, OneTask, Current, EngineOK, Busy, Ops
<1>4. \A o \in Ops : t = PrimaryTask[o] => o = op /\ xpc = "primary"
  BY <1>3, OpTasks DEF Current, Primary, Backup
<1>5. \A o \in Ops : Applied(o) => Applied(o)'
  BY <1>1, OpTasks DEF Applied
<1>6. Saved' /\ Recorded'
  BY <1>2 DEF JournalInv, Saved, Recorded
<1>7. Ascending'
  <2>1. \A k \in 1..Len(entries) : GoodEntry(entries[k])'
    BY <1>1, <1>2, <1>5, GoodStays DEF JournalInv
  <2> QED
    BY <1>2, <2>1 DEF JournalInv, Ascending
<1>8. Complete'
  <2>1. ASSUME NEW o \in Ops, Applied(o)'
        PROVE  (\E k \in 1..Len(entries) : entries[k].op = o) \/ (o = op /\ xpc = "primary")
    <3>1. Applied(o) \/ t = PrimaryTask[o]
      BY <1>1, <2>1, OpTasks DEF Applied
    <3> QED
      BY <1>4, <3>1 DEF JournalInv, Complete
  <2> QED
    BY <1>2, <1>3, <2>1 DEF Complete
<1>9. Named'
  <2>1. \E o \in Ops : t = PrimaryTask[o] \/ t = BackupTask[o]
    BY <1>3 DEF Current, Primary, Backup
  <2> QED
    BY <1>1, <2>1 DEF JournalInv, Named
<1>10. Landed'
  <2> SUFFICES ASSUME NEW o \in Ops
      PROVE LET u == PrimaryTask[o] IN
            /\ pc'[u] \in {"begin", "rename", "claim"} => dir'[target'[u]] = None /\ attempt'[u] = 0
            /\ pc'[u] = "open" /\ Kind[u] # "copyWithRename" => final'[u] = target'[u]
            /\ pc'[u] \in {"copy", "sync", "remove", "success"} => final'[u] = target'[u]
    BY DEF Landed
  <2>1. CASE PrimaryTask[o] # t
    <3>1. pc[PrimaryTask[o]] \in {"idle", "success", "failed"}
      BY <1>3, <2>1, OpTasks DEF ExecInv, OneTask, Current
    <3> QED
      BY <1>1, <2>1, <3>1, OpTasks DEF JournalInv, Landed
  <2>2. CASE PrimaryTask[o] = t
    <3>1. /\ t \in FileOps /\ Kind[t] \in {"move", "copyWithRename"}
          /\ pc[t] \in {"begin", "rename", "claim"} => dir[target[t]] = None /\ attempt[t] = 0
          /\ pc[t] = "open" /\ Kind[t] # "copyWithRename" => final[t] = target[t]
          /\ pc[t] \in {"copy", "sync", "remove", "success"} => final[t] = target[t]
          /\ pc[t] = "rename" => Kind[t] = "move"
      BY <2>2, OpTasks DEF JournalInv, Landed, ExecInv, FileInv, Route
    <3>2. CASE Stub(t)
      BY <2>2, <3>1, <3>2 DEF Stub, FileOps
    <3>3. CASE Begin(t)
      BY <1>0, <2>2, <3>1, <3>3 DEF Begin, At, Goto, Exists, FileTypeOK
    <3>4. CASE Rename(t)
      BY <1>0, <2>2, <3>1, <3>4 DEF Rename, At, Goto, FileTypeOK
    <3>5. CASE RenameError(t)
      BY <1>0, <2>2, <3>1, <3>5 DEF RenameError, At, Goto, FileTypeOK
    <3>6. CASE Claim(t)
      BY <1>0, <2>2, <3>1, <3>6 DEF Claim, Candidate, At, Goto, FileTypeOK
    <3>7. CASE Taken(t)
      BY <3>1, <3>7 DEF Taken, Candidate, At, Exists
    <3>8. CASE Open(t)
      BY <1>0, <2>2, <3>1, <3>8 DEF Open, At, Goto, FileTypeOK
    <3>9. CASE Truncate(t)
      BY <1>0, <2>2, <3>1, <3>9 DEF Truncate, At, Goto, FileTypeOK
    <3>10. CASE Copy(t) \/ Sync(t) \/ IoError(t)
      BY <1>0, <2>2, <3>1, <3>10 DEF Copy, Sync, IoError, At, Goto, FileTypeOK
    <3>11. CASE RemoveSource(t)
      BY <1>0, <2>2, <3>1, <3>11 DEF RemoveSource, At, Goto, FileTypeOK
    <3> QED
      BY <3>2, <3>3, <3>4, <3>5, <3>6, <3>7, <3>8, <3>9, <3>10, <3>11 DEF TaskStep
  <2> QED
    BY <2>1, <2>2
<1> QED
  BY <1>6, <1>7, <1>8, <1>9, <1>10 DEF JournalInv

LEMMA FilesNamed ==
  ASSUME JournalInv, UNCHANGED <<dir, target, pc, attempt, final>>
  PROVE  /\ Named' /\ Landed' /\ (\A o \in Ops : Applied(o)' = Applied(o))
         /\ (entries' = entries => \A k \in 1..Len(entries) : GoodEntry(entries[k])')
  BY DEF JournalInv, Ascending, Named, Landed, Applied, GoodEntry

\* Steps that neither start a task nor write an entry.
LEMMA JournalMoves ==
  ASSUME ExecInv, JournalInv, UNCHANGED taskVars, UNCHANGED <<entries, journal, torn, durable>>,
         xpc' = "replace" => tmp' = "synced",
         \/ op' = op /\ xpc' = "returned" /\ xpc # "primary"
         \/ op' = op /\ xpc' \in {"panicked", "overflowed"} /\ xpc = "plan"
         \/ op' = op /\ xpc' = "returned" /\ xpc = "primary" /\ pc[Primary] # "success"
         \/ op' = op + 1 /\ xpc' = "next" /\ xpc \in {"backup", "advance"}
         \/ op' = op + 1 /\ xpc' = "next" /\ xpc = "primary" /\ pc[Primary] # "success"
         \/ op' = op /\ xpc = "begin" /\ xpc' = "next"
         \/ op' = op /\ xpc = "backup" /\ xpc' = "plan"
         \/ op' = op /\ xpc = "write" /\ xpc' = "sync"
         \/ op' = op /\ xpc = "sync" /\ xpc' = "replace"
  PROVE  JournalInv'
<1>1. /\ Named' /\ Landed' /\ (\A o \in Ops : Applied(o)' = Applied(o))
      /\ \A k \in 1..Len(entries) : GoodEntry(entries[k])'
  BY FilesNamed DEF taskVars
<1>2. Saved'
  BY DEF JournalInv, Saved
<1>3. op \in Nat /\ \A k \in 1..Len(entries) : entries[k].op \in Nat
  BY EntryOps DEF ExecInv, EngineOK, JournalInv
<1>4. Ascending'
  BY <1>1, <1>3 DEF JournalInv, Ascending
<1>5. Complete'
  <2>1. ASSUME NEW o \in Ops, Applied(o)
        PROVE  \E k \in 1..Len(entries) : entries[k].op = o
    BY <2>1 DEF JournalInv, Complete, Applied, Primary
  <2>2. xpc' \in {"write", "sync", "replace", "advance"} => pc'[Primary'] = "success"
    BY DEF JournalInv, Complete, Primary, taskVars
  <2> QED
    BY <1>1, <2>1, <2>2 DEF Complete
<1>6. Recorded'
  BY DEF JournalInv, Recorded
<1> QED
  BY <1>1, <1>2, <1>4, <1>5, <1>6 DEF JournalInv

LEMMA JournalNextOp ==
  ASSUME ExecInv, JournalInv, NextOp
  PROVE  JournalInv'
<1>1. /\ xpc = "next" /\ op \in Ops /\ op' = op /\ xpc' \in {"backup", "plan"}
      /\ UNCHANGED <<dir, target, attempt, final, entries, journal, torn, durable, tmp>>
      /\ pc' = pc \/ pc' = [pc EXCEPT ![Backup] = "begin"]
  BY DEF NextOp, XAt, ExecInv, EngineOK, Ops, Run, journalVars
<1>2. pc[Backup] = "idle" /\ Backup \in Tasks /\ Backup \in FileOps /\ \A o \in Ops : PrimaryTask[o] # Backup
  BY <1>1, OpTasks DEF ExecInv, Ahead, Backup
<1>3. /\ \A u \in Tasks \ {Backup} : pc'[u] = pc[u]
      /\ \A u \in Tasks : pc[u] # "idle" => pc'[u] # "idle"
  <2>1. pc \in [Tasks -> Pcs]
    BY DEF ExecInv, FileInv, FileTypeOK
  <2>2. CASE pc' = pc
    BY <2>2
  <2>3. CASE pc' = [pc EXCEPT ![Backup] = "begin"]
    BY <1>2, <2>1, <2>3
  <2> QED
    BY <1>1, <2>2, <2>3
<1>4. \A o \in Ops : pc'[PrimaryTask[o]] = pc[PrimaryTask[o]]
  BY <1>2, <1>3, OpTasks
<1>5. Saved' /\ Recorded'
  BY <1>1 DEF JournalInv, Saved, Recorded
<1>6. Ascending'
  <2>1. \A k \in 1..Len(entries) : GoodEntry(entries[k])'
    BY <1>1, <1>4, GoodStays DEF JournalInv, Applied
  <2> QED
    BY <1>1, <2>1 DEF JournalInv, Ascending
<1>7. Complete'
  BY <1>1, <1>4 DEF JournalInv, Complete, Applied
<1>8. Named'
  BY <1>1, <1>3 DEF JournalInv, Named, Backup
<1>9. Landed'
  BY <1>1, <1>4 DEF JournalInv, Landed
<1> QED
  BY <1>5, <1>6, <1>7, <1>8, <1>9 DEF JournalInv

LEMMA JournalPlan ==
  ASSUME ExecInv, JournalInv, ResolvedPlan, NEW own \in SUBSET FileOps, JournalPlanned(own), Owned(own), Plan
  PROVE  JournalInv'
<1>1. /\ xpc = "plan" /\ op \in Ops /\ op' = op
      /\ UNCHANGED <<dir, data, synced, attempt, final, in, out, crashed, entries, journal, torn, durable, tmp>>
  BY DEF Plan, XAt, ExecInv, EngineOK, Busy, Ops, journalVars
<1>2. Primary \in Tasks /\ Primary \in FileOps
  BY <1>1, OpTasks DEF Primary
<1>3. pc[Primary] = "idle" /\ attempt[Primary] = 0
  BY <1>1, <1>2 DEF ExecInv, Ahead, Fresh, Primary
<1>4. CASE xpc' \in {"panicked", "overflowed"}
  <2>1. pc' = pc /\ target' = target
    BY <1>4 DEF Plan, Unplanned, Planned
  <2> QED
    BY <1>1, <1>4, <2>1, JournalMoves DEF taskVars
<1>5. CASE xpc' = "primary"
  <2>1. PICK p \in Paths :
           /\ Conflict # "Skip" /\ Relocates[op] => dir[p] = None
           /\ p = Wanted[Primary] \/ Relocates[op]
           /\ target' = [target EXCEPT ![Primary] = p]
           /\ pc' = [pc EXCEPT ![Primary] = "begin"]
    BY <1>5, PlannedTarget, PlanResolves
  <2>2. dir[p] = None
    <3>1. CASE Relocates[op]
      BY <2>1, <3>1 DEF ResolvedPlan
    <3>2. CASE ~Relocates[op]
      <4>1. p = Wanted[Primary] /\ Primary \in own
        BY <1>1, <2>1, <3>2 DEF JournalPlanned, Primary
      <4>2. final[Primary] = None
        BY <1>2, <1>3 DEF ExecInv, FileInv, Done
      <4> QED
        BY <4>1, <4>2 DEF Owned
    <3> QED
      BY <3>1, <3>2
  <2>3. /\ pc'[Primary] = "begin" /\ target'[Primary] = p
        /\ \A u \in Tasks \ {Primary} : pc'[u] = pc[u] /\ target'[u] = target[u]
    BY <1>2, <2>1 DEF ExecInv, FileInv, FileTypeOK
  <2>4. \A o \in Ops : /\ Applied(o) <=> Applied(o)'
                       /\ Applied(o) => target'[PrimaryTask[o]] = target[PrimaryTask[o]]
    BY <1>3, <2>3, OpTasks DEF Applied
  <2>5. Saved' /\ Recorded'
    BY <1>1, <1>5 DEF JournalInv, Saved, Recorded
  <2>6. Ascending'
    <3>1. \A k \in 1..Len(entries) : GoodEntry(entries[k])'
      BY <1>1, <2>4, GoodStays DEF JournalInv
    <3> QED
      BY <1>1, <1>5, <3>1 DEF JournalInv, Ascending
  <2>7. Complete'
    BY <1>1, <1>5, <2>4 DEF JournalInv, Complete
  <2>8. Named'
    BY <1>1, <2>3 DEF JournalInv, Named, Primary
  <2>9. Landed'
    <3> SUFFICES ASSUME NEW o \in Ops
        PROVE LET u == PrimaryTask[o] IN
              /\ pc'[u] \in {"begin", "rename", "claim"} => dir'[target'[u]] = None /\ attempt'[u] = 0
              /\ pc'[u] = "open" /\ Kind[u] # "copyWithRename" => final'[u] = target'[u]
              /\ pc'[u] \in {"copy", "sync", "remove", "success"} => final'[u] = target'[u]
      BY DEF Landed
    <3>1. CASE PrimaryTask[o] = Primary
      BY <1>1, <1>3, <2>2, <2>3, <3>1
    <3>2. CASE PrimaryTask[o] # Primary
      BY <1>1, <2>3, <3>2, OpTasks DEF JournalInv, Landed
    <3> QED
      BY <3>1, <3>2
  <2> QED
    BY <2>5, <2>6, <2>7, <2>8, <2>9 DEF JournalInv
<1> QED
  BY <1>4, <1>5 DEF Plan, Planned, Unplanned

LEMMA JournalAppend ==
  ASSUME ExecInv, JournalInv, PrimaryEnds, pc[Primary] = "success"
  PROVE  JournalInv'
<1>1. /\ xpc = "primary" /\ op \in Ops /\ op' = op /\ xpc' = IF HasJournal THEN "write" ELSE "advance"
      /\ UNCHANGED taskVars /\ entries' = Append(entries, Entry)
      /\ UNCHANGED <<journal, torn, durable, tmp>>
  BY DEF PrimaryEnds, XAt, ExecInv, EngineOK, Busy, Ops, journalVars
<1>2. Entry \in EntrySet
  BY <1>1, OpTasks, TasksAssumption, ExecutorAssumption DEF Entry, JournalEntry, EntrySet, OperationType, BackupPath,
     Primary, Backup, ExecInv, FileInv, FileTypeOK
<1>3. Entry.op = op /\ GoodEntry(Entry)
  BY <1>1, OpTasks, ExecutorAssumption DEF Entry, JournalEntry, GoodEntry, OperationType, Applied, Primary
<1> DEFINE n == Len(entries)
           e == Entry
<1>5. /\ n \in Nat /\ entries' \in Seq(EntrySet) /\ Len(entries') = n + 1
      /\ entries'[n + 1] = e
      /\ \A k \in 1..n : entries'[k] = entries[k]
  BY <1>1, <1>2 DEF JournalInv, Saved
<1>6. /\ Named' /\ Landed' /\ \A o \in Ops : Applied(o)' = Applied(o)
  BY <1>1, FilesNamed DEF taskVars
<1>7. Saved'
  BY <1>1, <1>5 DEF JournalInv, Saved
<1>8. \A k \in 1..n : entries[k].op \in Nat /\ entries[k].op < op
  BY <1>1, EntryOps DEF JournalInv, Ascending
<1>9. \A k \in 1..n+1 : k \in 1..n \/ k = n + 1
  BY <1>5
<1> HIDE DEF n, e
<1>10. Ascending'
  <2>1. ASSUME NEW k \in 1..n+1
        PROVE  /\ GoodEntry(entries'[k]) /\ entries'[k].op <= op
    BY <1>1, <1>3, <1>5, <1>8, <1>9 DEF JournalInv, Ascending, n, e, Ops
  <2>2. \A x : GoodEntry(x) => (Applied(x.op)' /\ x.source = Source[PrimaryTask[x.op]]
           /\ x.destination = target'[PrimaryTask[x.op]] /\ (x.operation_type = "Copied" <=> Mode[x.op] = "copy"))
    BY <1>1 DEF GoodEntry, taskVars, Applied
  <2>3. \A k, m \in 1..n+1 : k < m => entries'[k].op < entries'[m].op
    BY <1>3, <1>5, <1>8, <1>9 DEF JournalInv, Ascending, n, e
  <2> QED
    BY <1>1, <1>5, <2>1, <2>2, <2>3 DEF Ascending, GoodEntry
<1>11. Complete'
  <2>1. ASSUME NEW o \in Ops, Applied(o)
        PROVE  \E k \in 1..n+1 : entries'[k].op = o
    <3>1. CASE o = op
      BY <1>3, <1>5, <3>1 DEF e
    <3>2. CASE o # op
      <4>1. PICK k \in 1..n : entries[k].op = o
        BY <2>1, <3>2 DEF JournalInv, Complete, n
      <4>2. k \in 1..n+1
        BY <1>5
      <4> QED
        BY <1>5, <4>1, <4>2
    <3> QED
      BY <3>1, <3>2
  <2> QED
    BY <1>1, <1>5, <1>6, <2>1 DEF Complete, Primary, taskVars
<1>12. Recorded'
  <2>1. \A k \in 1..n : HasJournal => k <= Len(journal)
    BY <1>1 DEF JournalInv, Recorded, n
  <2>2. Len(journal) \in Nat /\ Len(journal) <= n /\ \A k \in 1..Len(journal) : journal[k] = entries[k]
    BY EntryOps DEF JournalInv, Recorded, n
  <2>3. Len(journal) <= n + 1 /\ \A k \in 1..Len(journal) : k \in 1..n
    BY <1>5, <2>2
  <2>4. \A k \in 1..Len(journal) : journal[k] = entries'[k]
    BY <1>5, <2>2, <2>3
  <2>5. HasJournal => \A k \in 1..n+1 : k <= Len(journal) \/ (entries'[k].op = op /\ xpc' = "write")
    BY <1>1, <1>3, <1>5, <1>9, <2>1 DEF e
  <2> QED
    BY <1>1, <1>5, <2>3, <2>4, <2>5 DEF Recorded
<1> QED
  BY <1>6, <1>7, <1>10, <1>11, <1>12 DEF JournalInv

LEMMA JournalReplace ==
  ASSUME ExecInv, JournalInv, Replace
  PROVE  JournalInv'
<1>1. /\ xpc = "replace" /\ op' = op /\ xpc' = "advance" /\ tmp = "synced"
      /\ UNCHANGED taskVars /\ journal' = entries /\ entries' = entries
      /\ durable' = TRUE /\ torn' = torn
  BY DEF Replace, XAt, JournalInv, Saved
<1>2. /\ Named' /\ Landed' /\ (\A o \in Ops : Applied(o)' = Applied(o))
      /\ \A k \in 1..Len(entries) : GoodEntry(entries[k])'
  BY <1>1, FilesNamed DEF taskVars
<1>3. Saved' /\ Ascending' /\ Complete' /\ Recorded'
  BY <1>1, <1>2, EntryOps DEF JournalInv, Saved, Ascending, Complete, Recorded, Primary, taskVars
<1> QED
  BY <1>2, <1>3 DEF JournalInv

LEMMA JournalNext ==
  ASSUME ExecInv, JournalInv, ResolvedPlan, NEW own \in SUBSET FileOps, JournalPlanned(own), Owned(own),
         [ExecNext]_vars
  PROVE  JournalInv'
<1>1. CASE NextOp
  BY <1>1, JournalNextOp
<1>2. CASE Plan
  BY <1>2, JournalPlan
<1>3. CASE PrimaryEnds
  <2>1. CASE pc[Primary] = "success"
    BY <1>3, <2>1, JournalAppend
  <2>2. CASE pc[Primary] # "success"
    BY <1>3, <2>2, JournalMoves DEF PrimaryEnds, XAt, FailOp, Advanced, Return, journalVars
  <2> QED
    BY <2>1, <2>2
<1>4. CASE Replace
  BY <1>4, JournalReplace
<1>5. CASE BackupEnds
  BY <1>5, JournalMoves DEF BackupEnds, XAt, FailOp, Advanced, Return, journalVars
<1>6. CASE DryRun \/ Start \/ Cancel \/ Finish \/ SaveError \/ Advance
  BY <1>6, JournalMoves DEF DryRun, Start, Cancel, Finish, SaveError, Advance, XAt, Advanced, Return, journalVars
<1>7. CASE WriteTmp \/ SyncTmp
  BY <1>7, JournalMoves DEF WriteTmp, SyncTmp, XAt
<1>8. CASE FileStep
  BY <1>8, JournalFileStep DEF FileStep
<1>9. CASE Crash \/ UNCHANGED vars
  <2>1. /\ UNCHANGED <<dir, target, pc, attempt, final, xpc, op, entries, tmp, journal, durable>>
        /\ torn' = torn
    BY <1>9 DEF Crash, PowerLoss, vars, taskVars, engineVars, journalVars, JournalInv, Saved
  <2>2. /\ Named' /\ Landed' /\ (\A o \in Ops : Applied(o)' = Applied(o))
        /\ \A k \in 1..Len(entries) : GoodEntry(entries[k])'
    BY <2>1, FilesNamed
  <2> QED
    BY <2>1, <2>2 DEF JournalInv, Saved, Ascending, Complete, Recorded, Primary
<1> QED
  BY <1>1, <1>2, <1>3, <1>4, <1>5, <1>6, <1>7, <1>8, <1>9 DEF ExecNext, Engine, Stopped

LEMMA JournalInit == ExecInit => JournalInv
<1> SUFFICES ASSUME ExecInit PROVE JournalInv
  OBVIOUS
<1>1. Saved /\ Ascending /\ Recorded
  BY DEF ExecInit, Saved, Ascending, Recorded
<1>2. Complete /\ Landed
  BY OpTasks DEF ExecInit, Complete, Applied, Landed
<1>3. Named
  BY DEF ExecInit, FileInit, Named
<1> QED
  BY <1>1, <1>2, <1>3 DEF JournalInv

\* The entries found by whoever loads the journal.
LEMMA Loaded ==
  ASSUME JournalInv
  PROVE  Load.entries = journal /\ (journal # <<>> => Load.ok) /\ DOMAIN journal = 1..Len(journal)
         /\ \A k \in 1..Len(journal) : k \in 1..Len(entries) /\ journal[k] = entries[k]
<1>1. journal \in Seq(EntrySet) /\ entries \in Seq(EntrySet) /\ torn = FALSE
  BY DEF JournalInv, Saved
<1>2. Len(journal) <= Len(entries) /\ Len(journal) \in Nat /\ Len(entries) \in Nat
  BY <1>1 DEF JournalInv, Recorded
<1>3. Load.entries = journal /\ (journal # <<>> => Load.ok)
  BY <1>1 DEF Load
<1> QED
  BY <1>1, <1>2, <1>3 DEF JournalInv, Recorded

LEMMA InvConsistent == ExecInv /\ JournalInv => JournalConsistent
<1> SUFFICES ASSUME ExecInv, JournalInv, HasJournal PROVE
      /\ journal # <<>> => Load.ok
      /\ \A k \in DOMAIN journal : Applied(journal[k].op)
      /\ \A k, m \in DOMAIN journal : k < m => journal[k].op < journal[m].op
      /\ \A o, q \in Ops : o < q /\ Applied(o) /\ Applied(q) =>
           \E k \in DOMAIN journal : journal[k].op = o
  BY Loaded DEF JournalConsistent
<1>1. \A k \in DOMAIN journal : Applied(journal[k].op)
  BY Loaded DEF JournalInv, Ascending, GoodEntry
<1>2. \A k, m \in DOMAIN journal : k < m => journal[k].op < journal[m].op
  BY Loaded DEF JournalInv, Ascending
<1>3. ASSUME NEW o \in Ops, NEW q \in Ops, o < q, Applied(o), Applied(q)
      PROVE  \E k \in DOMAIN journal : journal[k].op = o
  <2>1. o \in Nat /\ q \in Nat /\ op \in Nat
    BY DEF Ops, ExecInv, EngineOK
  <2>2. q <= op
    BY <1>3, <2>1 DEF ExecInv, Ahead, Applied
  <2>3. o # op
    BY <1>3, <2>1, <2>2
  <2>4. PICK k \in 1..Len(entries) : entries[k].op = o
    BY <1>3, <2>3 DEF JournalInv, Complete
  <2>5. k <= Len(journal)
    BY <2>3, <2>4 DEF JournalInv, Recorded
  <2>6. k \in 1..Len(journal)
    BY <2>5, EntryOps DEF JournalInv
  <2> QED
    BY <2>4, <2>6, Loaded
<1> QED
  BY <1>1, <1>2, <1>3, Loaded

LEMMA InvTruthful == ResolvedPlan /\ ExecInv /\ JournalInv => JournalTruthful
<1> SUFFICES ASSUME ResolvedPlan, ExecInv, JournalInv, NEW k \in DOMAIN journal,
                    ~crashed \/ journal[k].operation_type # "Copied"
             PROVE  /\ Holds(journal[k].destination, PrimaryTask[journal[k].op])
                    /\ Exists(journal[k].source) <=> journal[k].operation_type = "Copied"
  BY Loaded DEF JournalTruthful
<1> USE Constants
<1> DEFINE o == journal[k].op
           t == PrimaryTask[o]
<1>1. GoodEntry(journal[k]) /\ o \in Ops
  BY Loaded, EntryOps DEF JournalInv, Ascending
<1> HIDE DEF o
<1>2. /\ t \in FileOps /\ t \in Tasks /\ pc[t] = "success"
      /\ journal[k].destination = target[t] /\ journal[k].source = Source[t]
      /\ journal[k].operation_type = "Copied" <=> Mode[o] = "copy"
      /\ Kind[t] = IF Mode[o] = "copy" THEN "copyWithRename" ELSE "move"
  BY <1>1, OpTasks DEF GoodEntry, Applied, o
<1>3. final[t] = target[t]
  BY <1>1, <1>2 DEF JournalInv, Landed
<1> HIDE DEF t
<1>4. Holds(final[t], t)
  BY <1>2 DEF ExecInv, FileInv, Delivered, HasFile, Originals, Holds, Exists
<1>5. CASE Mode[o] = "copy"
  <2>1. ASSUME NEW m \in FileOps, Moved(m, Source[t]) PROVE FALSE
    <3>1. PICK q \in Ops : m = PrimaryTask[q] \/ m = BackupTask[q]
      BY <2>1 DEF Moved, JournalInv, Named, FileOps
    <3>2. m = PrimaryTask[q]
      BY <2>1, <3>1, OpTasks DEF Moved
    <3>3. q = o
      BY <1>1, <2>1, <3>2 DEF Moved, ResolvedPlan, t
    <3> QED
      BY <1>2, <1>5, <2>1, <3>2, <3>3 DEF Moved, t
  <2>2. dir[Source[t]] = Source[t]
    BY <1>2, <2>1 DEF ExecInv, FileInv, Kept
  <2> QED
    BY <1>2, <1>3, <1>4, <1>5, <2>2 DEF Exists, t, o
<1>6. CASE Mode[o] # "copy"
  <2>1. dir[Source[t]] = None
    BY <1>2, <1>6 DEF ExecInv, FileInv, MoversWait
  <2> QED
    BY <1>2, <1>3, <1>4, <1>6, <2>1 DEF Exists, t, o
<1> QED
  BY <1>5, <1>6

\* Whatever fails and whenever the machine stops in such a batch, a saved journal can
\* be loaded, lists the applied operations in order but perhaps for the last one, and
\* says where each subtitle is now.
THEOREM JournalIsSound == ResolvedPlan => (ExecSpec => []JournalSound)
<1> SUFFICES ASSUME ResolvedPlan PROVE ExecSpec => []JournalSound
  OBVIOUS
<1>1. PICK own \in SUBSET FileOps : JournalPlanned(own)
  BY DEF ResolvedPlan, JournalPlanned
<1>2. TargetsApart(own)
  BY <1>1 DEF JournalPlanned
<1> DEFINE Inv == ExecInv /\ JournalInv /\ Owned(own)
<1>3. ExecInit => Inv
  BY <1>2, InitInv, JournalInit, OwnedInit
<1>4. Inv /\ [ExecNext]_vars => Inv'
  BY <1>1, <1>2, NextInv, JournalNext, OwnedNext, PlanResolves
<1>5. Inv => JournalSound
  BY InvConsistent, InvTruthful DEF JournalSound
<1> HIDE DEF Inv
<1> QED
  BY <1>3, <1>4, <1>5, PTL DEF ExecSpec

-----------------------------------------------------------------------------
(* The reports.  They need nothing of the files: the argument is about control *)
(* alone, for every plan.                                                      *)

ControlInv == pc \in [Tasks -> Pcs] /\ EngineOK /\ OneTask /\ Ahead

LEMMA ControlFileStep ==
  ASSUME ControlInv, NEW t \in Tasks, TaskStep(t), UNCHANGED engineVars
  PROVE  /\ ControlInv' /\ op \in Ops /\ xpc \in {"backup", "primary"}
         /\ \A o \in Ops : o < op => pc'[PrimaryTask[o]] = pc[PrimaryTask[o]]
<1>1. /\ pc' \in [Tasks -> Pcs] /\ pc[t] \notin {"idle", "success", "failed"}
      /\ \A u \in Tasks \ {t} : pc'[u] = pc[u]
      /\ xpc' = xpc /\ op' = op
  BY PcFrame DEF engineVars, ControlInv
<1>2. Current(t) /\ op \in Ops /\ xpc \in {"backup", "primary"} /\ op \in Nat
  BY <1>1 DEF ControlInv, OneTask, Current, EngineOK, Busy, Ops
<1>3. EngineOK' /\ OneTask'
  BY <1>1, <1>2 DEF ControlInv, EngineOK, OneTask, Current, Primary, Backup
<1>4. ASSUME NEW o \in Ops
      PROVE  /\ o # op => pc'[PrimaryTask[o]] = pc[PrimaryTask[o]] /\ pc'[BackupTask[o]] = pc[BackupTask[o]]
             /\ xpc = "backup" => pc'[PrimaryTask[o]] = pc[PrimaryTask[o]]
  BY <1>1, <1>2, OpTasks DEF Current, Primary, Backup
<1>5. Ahead'
  <2> SUFFICES ASSUME NEW o \in Ops
               PROVE  /\ o > op => pc'[PrimaryTask[o]] = "idle" /\ pc'[BackupTask[o]] = "idle"
                      /\ o = op /\ xpc = "backup" => pc'[PrimaryTask[o]] = "idle"
    BY <1>1, <1>2 DEF Ahead
  <2>1. o > op => o # op
    BY <1>2 DEF Ops
  <2> QED
    BY <1>4, <2>1 DEF ControlInv, Ahead
<1>6. \A o \in Ops : o < op => o # op
  BY <1>2 DEF Ops
<1> QED
  BY <1>1, <1>2, <1>3, <1>4, <1>5, <1>6 DEF ControlInv

LEMMA ControlMoves ==
  ASSUME ControlInv, Quiescent, pc' = pc,
         \/ op' = op /\ xpc' \in {"returned", "panicked", "overflowed"}
         \/ op' = op + 1 /\ xpc' = "next" /\ xpc \in Busy
         \/ op' = op /\ xpc = "begin" /\ xpc' = "next"
         \/ op' = op /\ xpc = "next" /\ xpc' = "plan" /\ op <= N
         \/ op' = op /\ xpc = "backup" /\ xpc' = "plan"
         \/ /\ op' = op /\ xpc \in {"primary", "write", "sync", "replace"}
            /\ xpc' \in {"write", "sync", "replace", "advance"}
  PROVE  ControlInv'
<1>1. op \in Nat /\ 1 <= op /\ N \in Nat /\ (xpc \in Busy => op <= N)
  BY ExecutorAssumption DEF ControlInv, EngineOK
<1>2. EngineOK'
  BY <1>1 DEF ControlInv, EngineOK, EnginePcs, Busy
<1>3. OneTask'
  BY DEF ControlInv, OneTask, Quiescent
<1>4. Ahead'
  <2> SUFFICES ASSUME NEW o \in Ops
               PROVE  /\ o > op' => pc[PrimaryTask[o]] = "idle" /\ pc[BackupTask[o]] = "idle"
                      /\ o = op' /\ xpc' = "next" => pc[PrimaryTask[o]] = "idle" /\ pc[BackupTask[o]] = "idle"
                      /\ o = op' /\ xpc' = "plan" => pc[PrimaryTask[o]] = "idle"
    BY DEF Ahead
  <2>1. o \in Nat
    BY DEF Ops
  <2>2. o > op' \/ (o = op' /\ op' = op + 1) => o > op
    BY <2>1, <1>1
  <2> QED
    BY <2>2 DEF ControlInv, Ahead, Busy
<1> QED
  BY <1>2, <1>3, <1>4 DEF ControlInv

\* The engine starts a task of the current operation.
LEMMA ControlStart ==
  ASSUME ControlInv, Quiescent, op' = op, op \in Ops, NEW t \in Tasks,
         \/ xpc \in {"next", "plan"} /\ xpc' = "primary" /\ t = Primary
         \/ xpc = "next" /\ xpc' = "backup" /\ t = Backup,
         pc' = [pc EXCEPT ![t] = "begin"]
  PROVE  /\ ControlInv'
         /\ \A o \in Ops : o < op => pc'[PrimaryTask[o]] = pc[PrimaryTask[o]]
<1>1. pc' \in [Tasks -> Pcs] /\ \A u \in Tasks \ {t} : pc'[u] = pc[u]
  BY DEF ControlInv, Pcs
<1>2. EngineOK' /\ op \in Nat
  BY DEF ControlInv, EngineOK, EnginePcs, Busy, Ops
<1>3. OneTask'
  BY <1>1 DEF OneTask, Quiescent, Current, Primary, Backup
<1>4. ASSUME NEW o \in Ops, o # op
      PROVE  pc'[PrimaryTask[o]] = pc[PrimaryTask[o]] /\ pc'[BackupTask[o]] = pc[BackupTask[o]]
  BY <1>1, <1>4, OpTasks DEF Primary, Backup
<1>5. xpc' = "backup" => pc'[Primary] = pc[Primary]
  BY <1>1, OpTasks DEF Primary, Backup
<1>6. Ahead'
  <2> SUFFICES ASSUME NEW o \in Ops
               PROVE  /\ o > op => pc'[PrimaryTask[o]] = "idle" /\ pc'[BackupTask[o]] = "idle"
                      /\ o = op /\ xpc' = "backup" => pc'[PrimaryTask[o]] = "idle"
    BY DEF Ahead
  <2>1. o > op => o # op
    BY <1>2 DEF Ops
  <2> QED
    BY <1>4, <1>5, <2>1 DEF ControlInv, Ahead, Primary
<1>7. \A o \in Ops : o < op => o # op
  BY <1>2 DEF Ops
<1> QED
  BY <1>1, <1>2, <1>3, <1>4, <1>6, <1>7 DEF ControlInv

EventSet ==
  [kind : {"Started", "Advanced", "Finished"}, done : Nat, total : {N}, item : Paths \cup {None}]

ReportTypeOK ==
  /\ audit \in BOOLEAN /\ dry \in BOOLEAN
  /\ outcomes \in Seq({"applied", "error", "skipped"})
  /\ stream \in Seq(EventSet)
  /\ result \in {"none", "ok", "error"}

\* One outcome for each operation before the current one, true of its task.
Told ==
  /\ \A k \in 1..Len(outcomes) : k \in Ops /\ (outcomes[k] = "applied" <=> Applied(k))
  /\ xpc # "returned" =>
       /\ Len(outcomes) = op - 1 /\ result = "none"
       /\ \A k \in 1..Len(outcomes) : outcomes[k] # "skipped"
  /\ ~audit => \A k \in 1..Len(outcomes) : outcomes[k] = "applied"
  /\ xpc = "begin" => op = 1
  /\ xpc \in {"write", "sync", "replace", "advance"} => pc[Primary] = "success"

\* What each result stands for.
Meant ==
  /\ audit /\ result = "ok" => Len(outcomes) = N
  /\ ~audit /\ result = "ok" /\ ~dry => \A o \in Ops : Applied(o)

\* The k-th event.
GoodEvent(k) ==
  /\ stream[k].kind = "Started" <=> k = 1
  /\ stream[k].kind = "Started" => stream[k].done = 0
  /\ stream[k].kind = "Finished" => k = Len(stream) /\ stream[k].done = k - 2 /\ xpc = "returned"
  /\ stream[k].kind = "Advanced" => stream[k].done = k - 1
  /\ stream[k].kind = "Advanced" /\ audit => stream[k].item = Source[PrimaryTask[k - 1]]
  /\ stream[k].done <= N

Streamed ==
  /\ \A k \in 1..Len(stream) : GoodEvent(k)
  /\ xpc = "begin" => stream = <<>>
  /\ xpc \notin {"begin", "returned"} => Len(stream) = op
  /\ xpc = "returned" /\ stream # <<>> => stream[Len(stream)].kind = "Finished"
  /\ (\E m \in 1..Len(outcomes) : outcomes[m] = "skipped") =>
       \A k \in 1..Len(stream) : stream[k].done < N

ReportInv == ReportTypeOK /\ Told /\ Meant /\ Streamed

\* Steps that report nothing.
LEMMA ReportQuiet ==
  ASSUME ControlInv, ReportInv, UNCHANGED <<audit, dry, outcomes, stream, result, op>>,
         xpc' = xpc \/ (xpc \notin {"begin", "returned"} /\ xpc' \notin {"begin", "returned"}),
         \/ \A o \in Ops : Applied(o)' = Applied(o)
         \/ xpc # "returned" /\ \A o \in Ops : o < op => Applied(o)' = Applied(o),
         xpc' \in {"write", "sync", "replace", "advance"} => pc'[Primary'] = "success"
  PROVE  ReportInv'
<1>1. op \in Nat
  BY DEF ControlInv, EngineOK
<1>2. ReportTypeOK'
  BY DEF ReportInv, ReportTypeOK
<1>3. \A k \in 1..Len(outcomes) : k \in Ops /\ Applied(k)' = Applied(k)
  <2>1. Len(outcomes) \in Nat
    BY DEF ReportInv, ReportTypeOK
  <2> QED
    BY <1>1, <2>1 DEF ReportInv, Told
<1>4. Told'
  BY <1>3 DEF ReportInv, Told
<1>5. Meant'
  <2>1. CASE \A o \in Ops : Applied(o)' = Applied(o)
    BY <2>1 DEF ReportInv, Meant
  <2>2. CASE xpc # "returned"
    BY <2>2 DEF ReportInv, Told, Meant
  <2> QED
    BY <2>1, <2>2
<1>6. Streamed'
  BY DEF ReportInv, Streamed, GoodEvent
<1> QED
  BY <1>2, <1>4, <1>5, <1>6 DEF ReportInv

\* An event is appended.
LEMMA Reported ==
  ASSUME ReportTypeOK, NEW kind \in {"Started", "Advanced", "Finished"}, NEW done \in Nat,
         NEW item \in Paths \cup {None}, Report(kind, done, item)
  PROVE  /\ stream' \in Seq(EventSet) /\ Len(stream') = Len(stream) + 1 /\ Len(stream) \in Nat
         /\ stream'[Len(stream) + 1].kind = kind /\ stream'[Len(stream) + 1].done = done
         /\ stream'[Len(stream) + 1].item = item
         /\ \A k \in 1..Len(stream) : stream'[k] = stream[k]
         /\ \A k \in 1..Len(stream) + 1 : k \in 1..Len(stream) \/ k = Len(stream) + 1
<1>1. Event(kind, done, item) \in EventSet
  BY DEF Event, EventSet
<1>2. stream' = Append(stream, Event(kind, done, item)) /\ stream \in Seq(EventSet)
  BY DEF Report, ReportTypeOK
<1>3. /\ stream' \in Seq(EventSet) /\ Len(stream') = Len(stream) + 1 /\ Len(stream) \in Nat
      /\ stream'[Len(stream) + 1] = Event(kind, done, item)
      /\ \A k \in 1..Len(stream) : stream'[k] = stream[k]
  BY <1>1, <1>2
<1>4. \A k \in 1..Len(stream) + 1 : k \in 1..Len(stream) \/ k = Len(stream) + 1
  BY <1>3
<1> QED
  BY <1>3, <1>4 DEF Event

\* Started.
LEMMA ReportStart ==
  ASSUME ControlInv, ReportInv, Start
  PROVE  ReportInv'
<1>1. /\ xpc = "begin" /\ xpc' = "next" /\ stream = <<>> /\ Report("Started", 0, None)
      /\ UNCHANGED <<pc, audit, dry, outcomes, result, op>>
  BY DEF Start, XAt, taskVars, ReportInv, Streamed
<1>2. /\ stream' \in Seq(EventSet) /\ Len(stream') = 1
      /\ stream'[1].kind = "Started" /\ stream'[1].done = 0
  BY <1>1, Reported DEF ReportInv
<1>3. op = 1 /\ N \in Nat
  BY <1>1, ExecutorAssumption DEF ReportInv, Told
<1> QED
  BY <1>1, <1>2, <1>3 DEF ReportInv, ReportTypeOK, Told, Meant, Applied, Streamed, GoodEvent

\* Advanced, with the outcome of the current operation.
LEMMA ReportAdvanced ==
  ASSUME ControlInv, ReportInv, NEW outcome \in {"applied", "error"}, Advanced(outcome),
         xpc \in {"backup", "primary", "advance"}, pc' = pc, UNCHANGED <<audit, dry, result>>,
         outcome = "applied" <=> pc[Primary] = "success", audit \/ outcome = "applied"
  PROVE  ReportInv'
<1>1. op \in Ops /\ op \in Nat /\ N \in Nat /\ op <= N /\ Len(outcomes) = op - 1 /\ Len(stream) = op /\ result = "none"
  BY ExecutorAssumption DEF ControlInv, EngineOK, Busy, Ops, ReportInv, Told, Streamed
<1> DEFINE item == IF audit THEN Source[Primary] ELSE None
<1>2. item \in Paths \cup {None}
  BY <1>1, OpTasks, TasksAssumption DEF Primary
<1>3. /\ outcomes' = Append(outcomes, outcome) /\ Report("Advanced", op, item)
      /\ op' = op + 1 /\ xpc' = "next"
  BY <1>1 DEF Advanced
<1>4. /\ outcomes' \in Seq({"applied", "error", "skipped"}) /\ Len(outcomes') = op
      /\ outcomes'[op] = outcome /\ \A k \in 1..op - 1 : outcomes'[k] = outcomes[k]
      /\ \A k \in 1..op : k \in 1..op - 1 \/ k = op
  BY <1>1, <1>3 DEF ReportInv, ReportTypeOK
<1> HIDE DEF item
<1>5. /\ stream' \in Seq(EventSet) /\ Len(stream') = op + 1
      /\ stream'[op + 1].kind = "Advanced" /\ stream'[op + 1].done = op /\ stream'[op + 1].item = item
      /\ \A k \in 1..op : stream'[k] = stream[k]
      /\ \A k \in 1..op + 1 : k \in 1..op \/ k = op + 1
  BY <1>1, <1>2, <1>3, Reported DEF ReportInv
<1>6. ReportTypeOK' /\ Meant'
  BY <1>1, <1>4, <1>5 DEF ReportInv, ReportTypeOK, Meant
<1>7. Told'
  <2>1. ASSUME NEW k \in 1..op
        PROVE  /\ k \in Ops /\ (outcomes'[k] = "applied" <=> Applied(k)) /\ outcomes'[k] # "skipped"
               /\ ~audit => outcomes'[k] = "applied"
    <3>1. CASE k = op
      BY <1>1, <1>4, <3>1 DEF Applied, Primary
    <3>2. CASE k \in 1..op - 1
      BY <1>1, <1>4, <3>2 DEF ReportInv, Told
    <3> QED
      BY <1>4, <3>1, <3>2
  <2>2. op = (op + 1) - 1
    BY <1>1
  <2> QED
    BY <1>1, <1>3, <1>4, <2>1, <2>2 DEF Told, Applied
<1>8. Streamed'
  <2>1. ASSUME NEW k \in 1..op + 1 PROVE GoodEvent(k)'
    <3>1. CASE k = op + 1
      <4>1. k - 1 = op /\ k # 1 /\ op <= N
        BY <1>1, <3>1
      <4> QED
        BY <1>3, <1>5, <3>1, <4>1 DEF GoodEvent, item, Primary
    <3>2. CASE k \in 1..op
      <4>1. GoodEvent(k) /\ stream[k].kind # "Finished"
        BY <1>1, <3>2 DEF ReportInv, Streamed, GoodEvent
      <4> QED
        BY <1>3, <1>5, <3>2, <4>1 DEF GoodEvent
    <3> QED
      BY <1>5, <3>1, <3>2
  <2>2. \A m \in 1..op : outcomes'[m] # "skipped"
    BY <1>4, <1>1 DEF ReportInv, Told
  <2> QED
    BY <1>3, <1>4, <1>5, <2>1, <2>2 DEF Streamed
<1> QED
  BY <1>6, <1>7, <1>8 DEF ReportInv

\* skipped is what an operation that was not done is reported as.
LEMMA PaddedFacts ==
  ASSUME outcomes \in Seq({"applied", "error", "skipped"}), Len(outcomes) <= N
  PROVE  /\ Padded \in Seq({"applied", "error", "skipped"}) /\ Len(Padded) = N
         /\ \A k \in 1..N : Padded[k] = IF k <= Len(outcomes) THEN outcomes[k] ELSE "skipped"
<1> DEFINE S == {"applied", "error", "skipped"}
           m == N - Len(outcomes)
           rest == [k \in 1..m |-> "skipped"]
<1>1. N \in Nat /\ Len(outcomes) \in Nat /\ m \in Nat /\ Len(outcomes) + m = N
  BY ExecutorAssumption
<1>2. rest \in Seq(S) /\ Len(rest) = m
  BY <1>1, IsASeq
<1>3. \A k \in 1..m : rest[k] = "skipped"
  OBVIOUS
<1> HIDE DEF rest, m
<1>4. /\ outcomes \o rest \in Seq(S) /\ Len(outcomes \o rest) = N
      /\ \A k \in 1..N : (outcomes \o rest)[k] = IF k <= Len(outcomes) THEN outcomes[k] ELSE rest[k - Len(outcomes)]
  BY <1>1, <1>2, ConcatProperties
<1>5. ASSUME NEW k \in 1..N, k > Len(outcomes) PROVE rest[k - Len(outcomes)] = "skipped"
  BY <1>1, <1>3, <1>5
<1>6. Padded = outcomes \o rest
  BY DEF Padded, rest, m
<1> QED
  BY <1>1, <1>4, <1>5, <1>6

\* Finished; the outcomes are those of the operations done, padded if cancelled.
LEMMA ReportReturn ==
  ASSUME ControlInv, ReportInv, xpc \notin {"begin", "returned"}, pc' = pc, UNCHANGED <<audit, dry, op>>,
         NEW res \in {"ok", "error"}, Return(Len(outcomes), res),
         \/ outcomes' = outcomes /\ (res = "ok" => op > N)
         \/ outcomes' = Padded /\ audit /\ xpc = "next" /\ op <= N
  PROVE  ReportInv'
<1>1. /\ op \in Nat /\ N \in Nat /\ op <= N + 1 /\ 1 <= op /\ Len(outcomes) = op - 1 /\ Len(stream) = op
      /\ outcomes \in Seq({"applied", "error", "skipped"}) /\ Len(outcomes) \in Nat
  BY ExecutorAssumption DEF ControlInv, EngineOK, ReportInv, ReportTypeOK, Told, Streamed
<1>2. /\ stream' \in Seq(EventSet) /\ Len(stream') = op + 1
      /\ stream'[op + 1].kind = "Finished" /\ stream'[op + 1].done = op - 1
      /\ \A k \in 1..op : stream'[k] = stream[k]
      /\ \A k \in 1..op + 1 : k \in 1..op \/ k = op + 1
      /\ xpc' = "returned" /\ result' = res
  BY <1>1, Reported DEF ReportInv, Return
<1>3. \A k \in 1..op + 1 : GoodEvent(k)'
  <2> SUFFICES ASSUME NEW k \in 1..op + 1 PROVE GoodEvent(k)'
    OBVIOUS
  <2>1. CASE k = op + 1
    <3>1. k - 2 = op - 1 /\ k # 1 /\ op - 1 <= N
      BY <1>1, <2>1
    <3> QED
      BY <1>2, <2>1, <3>1 DEF GoodEvent
  <2>2. CASE k \in 1..op
    <3>1. GoodEvent(k) /\ stream[k].kind # "Finished"
      BY <1>1, <2>2 DEF ReportInv, Streamed, GoodEvent
    <3> QED
      BY <1>2, <2>2, <3>1 DEF GoodEvent
  <2> QED
    BY <1>2, <2>1, <2>2
<1>4. stream' # <<>>
  BY <1>1, <1>2
<1>5. CASE outcomes' = outcomes /\ (res = "ok" => op > N)
  <2>1. ReportTypeOK' /\ Told'
    BY <1>2, <1>5 DEF ReportInv, ReportTypeOK, Told, Applied
  <2>2. Meant'
    <3>1. res = "ok" => Len(outcomes) = N
      BY <1>1, <1>5
    <3>2. ~audit /\ res = "ok" => \A o \in Ops : Applied(o)
      BY <1>1, <3>1 DEF ReportInv, Told, Ops
    <3> QED
      BY <1>2, <1>5, <3>1, <3>2 DEF Meant, Applied
  <2>3. Streamed'
    BY <1>1, <1>2, <1>3, <1>4, <1>5 DEF ReportInv, Told, Streamed
  <2> QED
    BY <2>1, <2>2, <2>3 DEF ReportInv
<1>6. CASE outcomes' = Padded /\ audit /\ xpc = "next" /\ op <= N
  <2>1. /\ outcomes' \in Seq({"applied", "error", "skipped"}) /\ Len(outcomes') = N
        /\ \A k \in 1..N : outcomes'[k] = IF k <= op - 1 THEN outcomes[k] ELSE "skipped"
    BY <1>1, <1>6, PaddedFacts
  <2>2. ASSUME NEW k \in 1..N PROVE k \in Ops /\ (outcomes'[k] = "applied" <=> Applied(k))
    <3>1. CASE k <= op - 1
      BY <1>1, <2>1, <3>1 DEF ReportInv, Told, Ops
    <3>2. CASE k > op - 1
      <4>1. pc[PrimaryTask[k]] = "idle"
        BY <1>1, <1>6, <3>2 DEF ControlInv, Ahead, Ops
      <4> QED
        BY <1>1, <2>1, <3>2, <4>1 DEF Applied, Ops
    <3> QED
      BY <1>1, <3>1, <3>2
  <2>3. ReportTypeOK' /\ Told' /\ Meant'
    BY <1>2, <1>6, <2>1, <2>2 DEF ReportInv, ReportTypeOK, Told, Meant, Applied
  <2>4. ASSUME NEW k \in 1..op + 1 PROVE stream'[k].done < N
    <3>1. CASE k = op + 1
      BY <1>1, <1>2, <1>6, <3>1
    <3>2. CASE k \in 1..op
      <4>1. GoodEvent(k) /\ stream[k].kind \in {"Started", "Advanced"}
        <5>1. stream[k] \in EventSet
          BY <1>1, <3>2 DEF ReportInv, ReportTypeOK
        <5> QED
          BY <1>1, <1>6, <3>2, <5>1 DEF ReportInv, Streamed, GoodEvent, EventSet
      <4>2. stream[k].done = 0 \/ stream[k].done = k - 1
        BY <4>1 DEF GoodEvent
      <4> QED
        BY <1>1, <1>2, <1>6, <3>2, <4>2
    <3> QED
      BY <1>2, <3>1, <3>2
  <2>5. Streamed'
    BY <1>2, <1>3, <1>4, <2>4 DEF Streamed
  <2> QED
    BY <2>3, <2>5 DEF ReportInv
<1> QED
  BY <1>5, <1>6

LEMMA ReportDryRun ==
  ASSUME ControlInv, ReportInv, DryRun
  PROVE  ReportInv'
<1>1. /\ xpc = "begin" /\ dry /\ xpc' = "returned" /\ result' = "ok" /\ stream = <<>>
      /\ outcomes' = IF audit THEN Padded ELSE outcomes
      /\ UNCHANGED <<pc, audit, dry, op, stream>>
  BY DEF DryRun, XAt, taskVars, ReportInv, Streamed
<1>2. op = 1 /\ Len(outcomes) = 0 /\ N \in Nat /\ outcomes \in Seq({"applied", "error", "skipped"})
  BY <1>1, ExecutorAssumption DEF ReportInv, ReportTypeOK, Told
<1>3. audit => /\ outcomes' \in Seq({"applied", "error", "skipped"}) /\ Len(outcomes') = N
               /\ \A k \in 1..N : outcomes'[k] = "skipped"
  BY <1>1, <1>2, PaddedFacts
<1>4. \A k \in 1..N : k \in Ops /\ ~Applied(k)
  <2>1. ASSUME NEW k \in 1..N PROVE pc[PrimaryTask[k]] = "idle"
    BY <1>1, <1>2 DEF ControlInv, Ahead, Ops
  <2> QED
    BY <2>1 DEF Applied, Ops
<1>5. CASE audit
  BY <1>1, <1>2, <1>3, <1>4, <1>5 DEF ReportInv, ReportTypeOK, Told, Meant, Streamed, Applied
<1>6. CASE ~audit
  BY <1>1, <1>2, <1>6 DEF ReportInv, ReportTypeOK, Told, Meant, Streamed, Applied
<1> QED
  BY <1>5, <1>6

LEMMA ControlAwaited ==
  ASSUME ControlInv, xpc = "backup" => pc[Backup] \in Ended, xpc = "primary" => pc[Primary] \in Ended
  PROVE  Quiescent
  BY DEF ControlInv, OneTask, Current, Quiescent, Ended

\* A failed task: the audited loop goes on, the other returns.
LEMMA ReportFailOp ==
  ASSUME ControlInv, ReportInv, FailOp, xpc \in {"backup", "primary"}, pc[Primary] # "success",
         UNCHANGED <<pc, audit, dry>>
  PROVE  ReportInv'
<1>1. CASE audit
  <2>1. Advanced("error") /\ result' = result
    BY <1>1 DEF FailOp
  <2> QED
    BY <1>1, <2>1, ReportAdvanced
<1>2. CASE ~audit
  <2>1. Return(Len(outcomes), "error") /\ outcomes' = outcomes /\ op' = op
    BY <1>2 DEF FailOp
  <2> QED
    BY <2>1, ReportReturn
<1> QED
  BY <1>1, <1>2

LEMMA ReportEngine ==
  ASSUME ControlInv, ReportInv, Engine
  PROVE  ControlInv' /\ ReportInv'
<1>0. xpc \in Busy => op \in Ops
  BY DEF ControlInv, EngineOK, Ops
<1>1. CASE NextOp
  <2>1. /\ xpc = "next" /\ op \in Ops /\ op' = op /\ UNCHANGED <<audit, dry, outcomes, stream, result>>
    BY <1>1 DEF NextOp, XAt, ControlInv, EngineOK, Ops
  <2>2. Quiescent
    BY <2>1, ControlAwaited
  <2>3. CASE Mode[op] = "move" /\ Backups
    <3>1. pc' = [pc EXCEPT ![Backup] = "begin"] /\ xpc' = "backup" /\ Backup \in Tasks
      BY <1>1, <2>1, <2>3, OpTasks DEF NextOp, Run, Backup
    <3>2. ControlInv' /\ \A o \in Ops : o < op => pc'[PrimaryTask[o]] = pc[PrimaryTask[o]]
      BY <2>1, <2>2, <3>1, ControlStart
    <3>3. \A o \in Ops : o < op => Applied(o)' = Applied(o)
      BY <3>2 DEF Applied
    <3>4. ReportInv'
      BY <2>1, <3>1, <3>3, ReportQuiet
    <3> QED
      BY <3>2, <3>4
  <2>4. CASE ~(Mode[op] = "move" /\ Backups)
    <3>1. pc' = pc /\ xpc' = "plan"
      BY <1>1, <2>4 DEF NextOp
    <3>2. ControlInv'
      BY <2>1, <2>2, <3>1, ControlMoves DEF Ops
    <3>3. ReportInv'
      BY <2>1, <3>1, ReportQuiet DEF Applied
    <3> QED
      BY <3>2, <3>3
  <2> QED
    BY <2>3, <2>4
<1>2. CASE Plan
  <2>1. /\ xpc = "plan" /\ op \in Ops /\ op' = op /\ UNCHANGED <<audit, dry, outcomes, stream, result>>
    BY <1>0, <1>2 DEF Plan, XAt, Busy
  <2>2. Quiescent
    BY <2>1, ControlAwaited
  <2>3. CASE xpc' \in {"panicked", "overflowed"}
    <3>1. pc' = pc
      BY <1>2, <2>3 DEF Plan, Unplanned, Planned
    <3>2. ControlInv'
      BY <2>1, <2>2, <2>3, <3>1, ControlMoves
    <3>3. ReportInv'
      BY <2>1, <2>3, <3>1, ReportQuiet DEF Applied
    <3> QED
      BY <3>2, <3>3
  <2>4. CASE xpc' = "primary"
    <3>1. pc' = [pc EXCEPT ![Primary] = "begin"] /\ Primary \in Tasks
      BY <1>2, <2>1, <2>4, OpTasks DEF Plan, Unplanned, Planned, Run, Primary
    <3>2. ControlInv' /\ \A o \in Ops : o < op => pc'[PrimaryTask[o]] = pc[PrimaryTask[o]]
      BY <2>1, <2>2, <2>4, <3>1, ControlStart
    <3>3. \A o \in Ops : o < op => Applied(o)' = Applied(o)
      BY <3>2 DEF Applied
    <3>4. ReportInv'
      BY <2>1, <2>4, <3>3, ReportQuiet
    <3> QED
      BY <3>2, <3>4
  <2> QED
    BY <1>2, <2>3, <2>4 DEF Plan, Planned, Unplanned
<1>3. CASE BackupEnds
  <2>1. xpc = "backup" /\ pc[Backup] \in Ended /\ pc' = pc /\ UNCHANGED <<audit, dry>>
    BY <1>3 DEF BackupEnds, XAt, taskVars
  <2>2. Quiescent /\ pc[Primary] = "idle"
    BY <1>0, <2>1, ControlAwaited DEF ControlInv, Ahead, Busy, Primary
  <2>3. ControlInv'
    BY <1>3, <2>1, <2>2, ControlMoves DEF BackupEnds, FailOp, Advanced, Return, Busy
  <2>4. CASE pc[Backup] = "success"
    <3>1. xpc' = "plan" /\ UNCHANGED <<op, outcomes, stream, result>>
      BY <1>3, <2>4 DEF BackupEnds
    <3> QED
      BY <2>1, <2>3, <3>1, ReportQuiet DEF Applied
  <2>5. CASE pc[Backup] # "success"
    BY <1>3, <2>1, <2>2, <2>3, <2>5, ReportFailOp DEF BackupEnds
  <2> QED
    BY <2>4, <2>5
<1>4. CASE PrimaryEnds
  <2>1. xpc = "primary" /\ pc[Primary] \in Ended /\ pc' = pc /\ UNCHANGED <<audit, dry>>
    BY <1>4 DEF PrimaryEnds, XAt, taskVars
  <2>2. Quiescent
    BY <2>1, ControlAwaited
  <2>3. ControlInv'
    BY <1>4, <2>1, <2>2, ControlMoves DEF PrimaryEnds, FailOp, Advanced, Return, Busy
  <2>4. CASE pc[Primary] = "success"
    <3>1. xpc' \in {"write", "advance"} /\ UNCHANGED <<op, outcomes, stream, result>>
      BY <1>4, <2>4 DEF PrimaryEnds
    <3> QED
      BY <2>1, <2>3, <2>4, <3>1, ReportQuiet DEF Applied, Primary
  <2>5. CASE pc[Primary] # "success"
    BY <1>4, <2>1, <2>3, <2>5, ReportFailOp DEF PrimaryEnds
  <2> QED
    BY <2>4, <2>5
<1>5. ASSUME DryRun \/ Start \/ Cancel \/ Finish \/ WriteTmp \/ SyncTmp \/ Replace \/ SaveError \/ Advance
      PROVE  ControlInv' /\ pc' = pc
  <2>1. xpc \notin {"backup", "primary"} /\ pc' = pc
    BY <1>5 DEF DryRun, Start, Cancel, Finish, WriteTmp, SyncTmp, Replace, SaveError, Advance, XAt, taskVars
  <2>2. Quiescent
    BY <2>1, ControlAwaited
  <2> QED
    BY <1>5, <2>1, <2>2, ControlMoves DEF DryRun, Start, Cancel, Finish, WriteTmp, SyncTmp, Replace, SaveError,
       Advance, XAt, Advanced, Return, Busy
<1>6. CASE DryRun \/ Start
  BY <1>5, <1>6, ReportDryRun, ReportStart
<1>7. CASE Cancel
  <2>1. /\ xpc = "next" /\ op <= N /\ audit /\ outcomes' = Padded /\ Return(Len(outcomes), "ok")
        /\ UNCHANGED <<audit, dry, op>>
    BY <1>7 DEF Cancel, XAt
  <2> QED
    BY <1>5, <1>7, <2>1, ReportReturn
<1>8. CASE Finish
  <2>1. /\ xpc = "next" /\ op > N /\ outcomes' = outcomes /\ Return(Len(outcomes), "ok")
        /\ UNCHANGED <<audit, dry, op>>
    BY <1>8 DEF Finish, XAt
  <2> QED
    BY <1>5, <1>8, <2>1, ReportReturn
<1>9. CASE SaveError
  <2>1. /\ xpc \in {"write", "sync", "replace"} /\ outcomes' = outcomes /\ Return(Len(outcomes), "error")
        /\ UNCHANGED <<audit, dry, op>>
    BY <1>9 DEF SaveError
  <2> QED
    BY <1>5, <1>9, <2>1, ReportReturn
<1>10. CASE Advance
  <2>1. xpc = "advance" /\ Advanced("applied") /\ UNCHANGED <<audit, dry, result>>
    BY <1>10 DEF Advance, XAt
  <2>2. pc[Primary] = "success"
    BY <2>1 DEF ReportInv, Told
  <2> QED
    BY <1>5, <1>10, <2>1, <2>2, ReportAdvanced
<1>11. CASE WriteTmp \/ SyncTmp \/ Replace
  <2>1. /\ xpc \in {"write", "sync", "replace"} /\ xpc' \in {"sync", "replace", "advance"}
        /\ UNCHANGED <<audit, dry, op, outcomes, stream, result>>
    BY <1>11 DEF WriteTmp, SyncTmp, Replace, XAt
  <2>2. pc[Primary] = "success" /\ pc' = pc /\ Primary' = Primary
    BY <1>5, <1>11, <2>1 DEF ReportInv, Told, Primary
  <2> QED
    BY <1>5, <1>11, <2>1, <2>2, ReportQuiet DEF Applied
<1> QED
  BY <1>1, <1>2, <1>3, <1>4, <1>6, <1>7, <1>8, <1>9, <1>10, <1>11 DEF Engine

LEMMA ReportNext ==
  ASSUME ControlInv, ReportInv, [ExecNext]_vars
  PROVE  ControlInv' /\ ReportInv'
<1>1. CASE Engine
  BY <1>1, ReportEngine
<1>2. CASE FileStep
  <2>1. PICK t \in Tasks : TaskStep(t)
    BY <1>2 DEF FileStep
  <2>2. UNCHANGED engineVars /\ UNCHANGED <<audit, dry, xpc, op, outcomes, stream, result>>
    BY <1>2 DEF FileStep, engineVars
  <2>3. /\ ControlInv' /\ op \in Ops /\ xpc \in {"backup", "primary"}
        /\ \A o \in Ops : o < op => pc'[PrimaryTask[o]] = pc[PrimaryTask[o]]
    BY <2>1, <2>2, ControlFileStep
  <2>4. \A o \in Ops : o < op => Applied(o)' = Applied(o)
    BY <2>3 DEF Applied
  <2>5. ReportInv'
    BY <2>2, <2>3, <2>4, ReportQuiet
  <2> QED
    BY <2>3, <2>5
<1>3. CASE Crash \/ UNCHANGED vars
  <2>1. UNCHANGED <<pc, audit, dry, xpc, op, outcomes, stream, result>>
    BY <1>3 DEF Crash, PowerLoss, vars, taskVars, engineVars
  <2>2. ControlInv'
    BY <2>1 DEF ControlInv, EngineOK, OneTask, Current, Primary, Backup, Ahead
  <2>3. ReportInv'
    BY <2>1 DEF ReportInv, ReportTypeOK, Told, Meant, Streamed, GoodEvent, Applied, Primary
  <2> QED
    BY <2>2, <2>3
<1> QED
  BY <1>1, <1>2, <1>3 DEF ExecNext, Stopped

LEMMA ReportInit == ExecInit => ControlInv /\ ReportInv
<1> SUFFICES ASSUME ExecInit PROVE ControlInv /\ ReportInv
  OBVIOUS
<1>1. ControlInv
  BY OpTasks, ExecutorAssumption DEF ExecInit, ControlInv, Pcs, EngineOK, EnginePcs, Busy, OneTask, Ahead
<1>2. ReportInv
  BY ExecutorAssumption DEF ExecInit, ReportInv, ReportTypeOK, Told, Meant, Streamed
<1> QED
  BY <1>1, <1>2

LEMMA InvReports == ReportInv => ReportsTruthful
<1> SUFFICES ASSUME ReportInv PROVE ReportsTruthful
  OBVIOUS
<1>0. \A e \in EventSet : e.done \in Nat
  BY DEF EventSet
<1>1. /\ DOMAIN outcomes = 1..Len(outcomes) /\ DOMAIN stream = 1..Len(stream)
      /\ \A k \in DOMAIN stream : stream[k].done \in Nat
  BY <1>0 DEF ReportInv, ReportTypeOK
<1>2. OutcomesTruthful
  BY <1>1 DEF ReportInv, Told, Meant, OutcomesTruthful
<1>3. \A k \in DOMAIN stream : stream[k].done = N => \A m \in DOMAIN outcomes : outcomes[m] # "skipped"
  BY <1>1, ExecutorAssumption DEF ReportInv, Streamed
<1>4. StreamClosed
  BY <1>1, <1>3 DEF ReportInv, Streamed, GoodEvent, StreamClosed
<1> QED
  BY <1>2, <1>4 DEF ReportsTruthful

\* Whatever the plan, and whatever fails, is cancelled or interrupted: the outcomes
\* name exactly the operations that were applied, and the progress stream is opened
\* once, counts one operation at a time, and is closed before the call returns.
THEOREM ReportsAreTruthful == ExecSpec => []ReportsTruthful
<1>1. ControlInv /\ ReportInv /\ [ExecNext]_vars => ControlInv' /\ ReportInv'
  BY ReportNext
<1> QED
  BY <1>1, ReportInit, InvReports, PTL DEF ExecSpec
=============================================================================
