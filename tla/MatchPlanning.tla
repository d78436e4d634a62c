---------------------------- MODULE MatchPlanning ----------------------------
(***************************************************************************)
(* Planning a match run and reusing its plan: media discovery              *)
(* (src/src/core/matcher/discovery.rs), match_file_list_with_audit and the *)
(* match cache (engine.rs, cache.rs), under the lock that commands take    *)
(* before they touch the cache (src/src/core/lock.rs).  UniqueTargets      *)
(* models the allocation of target names and MatchExecutor the execution   *)
(* of a plan; here each is one step that keeps what those modules promise. *)
(*                                                                         *)
(* A path is [dir, stem, tag, num, ext]; a version of a file is its size,  *)
(* the second it was modified in and the fraction of that second.  The AI  *)
(* names the files it means; it sees and returns only their identifiers.   *)
(***************************************************************************)
EXTENDS Integers, Sequences, FiniteSets, SequencesExt, TLC, Discovery, Language

CONSTANTS
  Procs,       \* processes that run a command
  Inputs,      \* the file list a command is given, a sequence of paths
  Versions,    \* versions a file may have
  Fresh,       \* the version every file has at first
  MaxBytes,    \* max_subtitle_bytes
  Configs,     \* the configurations commands run under
  Answers,     \* what the AI may say: sequences of matches
  Shown,       \* subtitle path -> the labels its directories and its name show
  MaxRuns,     \* commands run in a behaviour
  MaxEdits     \* changes of files by others

\* MatchConfig: what of it bears on planning
MatchConfigs ==
  [mode : {"None", "Copy", "Move"}, backup : BOOLEAN, threshold : Nat, analysis : BOOLEAN]

ASSUME ConfigsAssumption == Configs \subseteq MatchConfigs

\* The list of files, an answer and what a path shows are sequences.
ASSUME SequencesAssumption ==
  /\ Inputs \in Seq(Range(Inputs))
  /\ \A a \in Answers : a \in Seq(Range(a))
  /\ \A p \in Range(Inputs) : FileType(p) = "Subtitle" =>
       Shown[p].dirs \in Seq(Range(Shown[p].dirs))

VARIABLES
  disk,     \* existing path -> version
  cache,    \* match_cache.json: NoCache, Torn or its CacheData
  holder,   \* the process that holds subx.lock, or Nobody
  waiting,  \* the processes polling for it
  run,      \* the command of the holder
  runs, edits

vars == <<disk, cache, holder, waiting, run, runs, edits>>

NoCache == [state |-> "none"]
Torn    == [state |-> "torn"]
Nobody  == "nobody"
Idle    == [pc |-> "idle"]
Exists(p) == p \in DOMAIN disk

-----------------------------------------------------------------------------
\* Discovery

\* scan_file_list: the existing media files of the list in its order, each with
\* an identifier greater than the one before it, duplicates included, and its bare
\* name for a relative path.
ScanFileList ==
  Classified(Picked(Inputs, {i \in DOMAIN Inputs : Exists(Inputs[i])}), [p \in Range(Inputs) |-> [p EXCEPT !.dir = 0]])

\* The identifier a file has in a request; 0 stands for one the AI made up.
IdOf(media, p) ==
  IF \E i \in DOMAIN media : media[i].path = p
  THEN media[CHOOSE i \in DOMAIN media : media[i].path = p].id ELSE 0

\* Mutant of Find: files are told apart by their relative path.
FindByName(media, id) ==
  {media[i].path : i \in {i \in DOMAIN media :
     \E j \in DOMAIN media :
       /\ media[j].id = id /\ media[i].relative_path = media[j].relative_path
       /\ \A k \in 1..(i - 1) : media[k].relative_path # media[j].relative_path}}

\* find_media_file_by_id_or_path, which is never given a path to fall back on:
\* the set of the file found, or of none
Find(media, id) == {media[i].path : i \in {i \in DOMAIN media : media[i].id = id}}

-----------------------------------------------------------------------------
\* Names

\* generate_subtitle_name: the video's name with the tag and the subtitle's extension
Named(v, s, m, n) == [dir  |-> 0, stem |-> v.stem, tag |-> SubtitleTag(m.suffix, m.language, Shown[s]), num |-> n, ext |-> s.ext]

\* final_target: beside the video if the subtitle is to be relocated there
Target(mode, v, s, name) ==
  [name EXCEPT !.dir = IF mode # "None" /\ s.dir # v.dir THEN v.dir ELSE s.dir]

TargetOf(mode, op) == Target(mode, op.v, op.s, op.name)

\* What apply_unique_target_paths returns (UniqueTargets): targets are distinct,
\* exist only as the operation's own source, and a name nobody contests is kept.
Allocated(mode, ops) ==
  { o \in [DOMAIN ops -> {[op EXCEPT !.name.num = n] : op \in Range(ops), n \in {0, 2, 3}}] :
      /\ \A i \in DOMAIN ops : [o[i] EXCEPT !.name.num = 0] = ops[i]
      /\ \A i \in DOMAIN ops : LET t == TargetOf(mode, o[i]) IN
           /\ Exists(t) => t = o[i].s
           /\ \A j \in DOMAIN ops : i # j => t # TargetOf(mode, o[j])
           /\ \/ o[i].name.num = 0
              \/ LET c == TargetOf(mode, ops[i]) IN
                   \/ Exists(c) /\ c # ops[i].s
                   \/ \E j \in DOMAIN ops \ {i} : TargetOf(mode, ops[j]) = c }

-----------------------------------------------------------------------------
\* The cache

\* calculate_config_hash: the confidence threshold and the model are left out.
ConfigHash(c) == <<c.mode, c.backup>>

\* Mutant of Key: the paths alone.
KeyOfPaths(c) ==
  [files |-> {<<p, Fresh>> : p \in {p \in Range(Inputs) : Exists(p)}}, config |-> ConfigHash(c)]

\* calculate_file_list_cache_key: the existing inputs with size and exact time
Key(c) ==
  [files  |-> {<<p, disk[p]>> : p \in {p \in Range(Inputs) : Exists(p)}},
   config |-> ConfigHash(c)]

Seconds(ver) == [size |-> ver.size, sec |-> ver.sec]

\* The snapshot save_file_list_cache takes: the files of the operations as they
\* are when the plan is saved, with the time in seconds.
Snapshot(ops) ==
  {<<p, Seconds(disk[p])>> : p \in {q \in UNION {{op.v, op.s} : op \in Range(ops)} : Exists(q)}}

CacheData(r, ops) ==
  [state |-> "data", version |-> "2.0", directory |-> r.key, file_snapshot |-> Snapshot(ops),
   match_operations |-> ops, original_relocation_mode |-> r.config.mode,
   asked |-> [files |-> r.key.files, config |-> r.config, meant |-> r.meant,
              quiet |-> \A p \in UNION {{op.v, op.s} : op \in Range(ops)} :
                          Exists(p) /\ <<p, disk[p]>> \in r.key.files]]

\* Rebuilding operations, for a cache hit and for a replay: those whose two files
\* still exist, their targets computed again.
Rebuilt(ops) == Picked(ops, {i \in DOMAIN ops : Exists(ops[i].v) /\ Exists(ops[i].s)})

\* validate_snapshot returns nothing
SnapshotClean == \A e \in cache.file_snapshot : Exists(e[1]) /\ Seconds(disk[e[1]]) = e[2]

\* Mutant of TargetsClean: targets are looked for beside the subtitle.
TargetsCleanInPlace ==
  \A op \in Range(cache.match_operations) :
    LET t == [op.name EXCEPT !.dir = op.s.dir] IN Exists(t) => t = op.s

\* validate_target_paths returns nothing
TargetsClean ==
  LET relocates == cache.original_relocation_mode # "None" IN
  \A op \in Range(cache.match_operations) :
    LET t == [op.name EXCEPT !.dir = IF relocates THEN op.v.dir ELSE op.s.dir]
    IN Exists(t) => t = op.s

-----------------------------------------------------------------------------
\* The lock

\* open and try_lock, again every 100 ms
Lock(p) ==
  /\ runs + Cardinality(waiting) < MaxRuns
  /\ p \notin waiting /\ p # holder
  /\ waiting' = waiting \cup {p}
  /\ UNCHANGED <<disk, cache, holder, run, runs, edits>>

Acquire(p, c) ==
  /\ p \in waiting /\ holder = Nobody
  /\ holder' = p
  /\ waiting' = waiting \ {p}
  /\ run' = [pc |-> "locked", config |-> c]
  /\ runs' = runs + 1
  /\ UNCHANGED <<disk, cache, edits>>

\* After two seconds: "Another SubX operation is in progress".
Deadline(p) ==
  /\ p \in waiting /\ holder # Nobody
  /\ waiting' = waiting \ {p}
  /\ UNCHANGED <<disk, cache, holder, run, runs, edits>>

\* The guard is dropped, or the process dies and the system drops the lock.
Unlock ==
  /\ holder' = Nobody
  /\ run' = Idle
  /\ UNCHANGED waiting

-----------------------------------------------------------------------------
\* match_file_list_with_audit

Plan(ops, rejected, from) ==
  run' = [pc |-> "planned", config |-> run.config, ops |-> ops, rejected |-> rejected,
          from |-> from, seen |-> disk,
          asked |-> IF from = "ai" THEN [meant |-> run.meant] ELSE cache.asked]

\* scan_file_list; a list without a video or without a subtitle ends the run.
Scan ==
  /\ run.pc = "locked"
  /\ IF \E type \in {"Video", "Subtitle"} : OfType(ScanFileList, type) = <<>>
     THEN Unlock
     ELSE run' = [pc |-> "scanned", config |-> run.config, media |-> ScanFileList]
          /\ UNCHANGED <<holder, waiting>>
  /\ UNCHANGED <<disk, cache, runs, edits>>

\* check_file_list_cache: an unreadable file, another version or another key is
\* a miss.
Hit(key) == cache.state = "data" /\ cache.version = "2.0" /\ cache.directory = key

LookUp ==
  /\ run.pc = "scanned"
  /\ IF Hit(Key(run.config))
     THEN Plan(Rebuilt(cache.match_operations), <<>>, "cache")
     ELSE run' = [pc |-> "missed", config |-> run.config, media |-> run.media, key |-> Key(run.config)]
  /\ UNCHANGED <<disk, cache, holder, waiting, runs, edits>>

\* extract_content_samples: a subtitle that is gone or too large, or (by the
\* model's choice) one that is not UTF-8 or is cut inside a character, ends the run.
Readable ==
  \A i \in DOMAIN run.media :
    LET p == run.media[i].path IN FileType(p) = "Subtitle" => Exists(p) /\ disk[p].size <= MaxBytes

Sample ==
  /\ run.pc = "missed"
  /\ IF run.config.analysis
     THEN \/ Readable /\ run' = [run EXCEPT !.pc = "asking"] /\ UNCHANGED <<holder, waiting>>
          \/ Unlock
     ELSE run' = [run EXCEPT !.pc = "asking"] /\ UNCHANGED <<holder, waiting>>
  /\ UNCHANGED <<disk, cache, runs, edits>>

\* The identifiers the AI returns for the files a match of its answer means
Returned(m) == [v |-> IdOf(run.media, m.v), s |-> IdOf(run.media, m.s)]

\* Step 6: the matches that become operations
Accepted(m) ==
  LET r == Returned(m) IN
  /\ m.confidence >= run.config.threshold
  /\ Find(OfType(run.media, "Video"), r.v) # {}
  /\ Find(OfType(run.media, "Subtitle"), r.s) # {}

\* The operation of a match, between the files found for its identifiers
Operation(m) ==
  LET r == Returned(m)
      v == CHOOSE f \in Find(OfType(run.media, "Video"), r.v) : TRUE
      s == CHOOSE f \in Find(OfType(run.media, "Subtitle"), r.s) : TRUE
  IN [v |-> v, s |-> s, name |-> Named(v, s, m, 0), confidence |-> m.confidence]

\* analyze_content returns, or fails and ends the run.
Analyze ==
  /\ run.pc = "asking"
  /\ \/ \E answer \in Answers :
          LET taken == Picked(answer, {i \in DOMAIN answer : Accepted(answer[i])})
              ops   == [i \in DOMAIN taken |-> Operation(taken[i])]
          IN \E o \in Allocated(run.config.mode, ops) :
               run' = [pc |-> "saving", config |-> run.config, key |-> run.key, ops |-> o,
                       meant |-> taken,
                       rejected |-> Picked(answer, {i \in DOMAIN answer : ~Accepted(answer[i])})]
        /\ UNCHANGED <<holder, waiting>>
     \/ Unlock
  /\ UNCHANGED <<disk, cache, runs, edits>>

\* fs::write truncates and then writes; it is not atomic and not synced.
SaveOpens ==
  /\ run.pc = "saving"
  /\ cache' = Torn
  /\ run' = [run EXCEPT !.pc = "writing"]
  /\ UNCHANGED <<disk, holder, waiting, runs, edits>>

SaveWrites ==
  /\ run.pc = "writing"
  /\ cache' = CacheData(run, run.ops)
  /\ Plan(run.ops, run.rejected, "ai")
  /\ UNCHANGED <<disk, holder, waiting, runs, edits>>

\* The directory or the file cannot be written: the plan is lost with the error.
SaveError ==
  /\ run.pc \in {"saving", "writing"}
  /\ Unlock
  /\ UNCHANGED <<disk, cache, runs, edits>>

-----------------------------------------------------------------------------
\* Using a plan

\* cache apply: a caller that found the snapshot and the targets clean and took
\* over the recorded relocation mode has the operations rebuilt.
Replay ==
  /\ run.pc = "locked"
  /\ cache.state = "data"
  /\ run.config.mode = cache.original_relocation_mode
  /\ SnapshotClean /\ TargetsClean
  /\ Plan(Rebuilt(cache.match_operations), <<>>, "replay")
  /\ UNCHANGED <<disk, cache, holder, waiting, runs, edits>>

\* The first n operations are executed (MatchExecutor): the target of each gets
\* the subtitle's contents unless it exists, and only a copy keeps the source.
Executed(n) ==
  LET mode == run.config.mode
      done == {run.ops[i] : i \in {i \in 1..n :
                 Exists(run.ops[i].s) /\ ~Exists(TargetOf(mode, run.ops[i]))}}
      kept == {p \in DOMAIN disk : ~\E op \in done :
                 p = op.s /\ (mode # "Copy" \/ op.s.dir = op.v.dir)}
      from(t) == (CHOOSE op \in done : TargetOf(mode, op) = t).s
  IN [p \in kept \cup {TargetOf(mode, op) : op \in done} |->
        IF p \in kept THEN disk[p] ELSE disk[from(p)]]

\* A dry run executes none, an interrupted run some.
Execute ==
  /\ run.pc = "planned"
  /\ \E n \in 0..Len(run.ops) : disk' = Executed(n)
  /\ Unlock
  /\ UNCHANGED <<cache, runs, edits>>

\* The process dies.
Crash ==
  /\ run.pc # "idle"
  /\ Unlock
  /\ UNCHANGED <<disk, cache, runs, edits>>

\* Someone else rewrites, deletes or restores a file, in any version.
Edit ==
  /\ edits < MaxEdits
  /\ edits' = edits + 1
  /\ \E p \in Range(Inputs) :
       \/ \E ver \in Versions : disk' = [q \in DOMAIN disk \cup {p} |-> IF q = p THEN ver ELSE disk[q]]
       \/ Exists(p) /\ disk' = [q \in DOMAIN disk \ {p} |-> disk[q]]
  /\ UNCHANGED <<cache, holder, waiting, run, runs>>

-----------------------------------------------------------------------------
Init ==
  /\ disk = [p \in Range(Inputs) |-> Fresh]
  /\ cache = NoCache
  /\ holder = Nobody /\ waiting = {} /\ run = Idle
  /\ runs = 0 /\ edits = 0

Next ==
  \/ \E p \in Procs : Lock(p) \/ Deadline(p) \/ \E c \in Configs : Acquire(p, c)
  \/ Scan \/ LookUp \/ Sample \/ Analyze \/ SaveOpens \/ SaveWrites \/ SaveError
  \/ Replay \/ Execute \/ Crash \/ Edit

Spec == Init /\ [][Next]_vars

-----------------------------------------------------------------------------
\* A match run returns operations between exactly the files the AI meant, in the
\* order of its answer, although it saw only identifiers of one scan, names repeat
\* between directories, and the plan may come from a run of another process: then
\* less the operations of a file that went missing between that run's scan and its
\* key, which no later key can tell.  Whatever the AI calls a language, the names hold
\* a short tag that is safe in a file name.
PlanIsWhatWasMeant ==
  run.pc = "planned" /\ run.from # "replay" =>
    LET there(m) == run.from = "ai" \/ {m.v, m.s} \subseteq DOMAIN run.seen
        meant    == Picked(run.asked.meant,
                           {i \in DOMAIN run.asked.meant : there(run.asked.meant[i])})
    IN /\ Len(run.ops) = Len(meant)
       /\ \A i \in DOMAIN run.ops :
            /\ run.ops[i].v = meant[i].v /\ run.ops[i].s = meant[i].s
            /\ LET tag == run.ops[i].name.tag IN
                 tag.kind \in {"lower", "upper"} /\ Len(tag.word) <= 16

\* A plan from the cache was made for the very versions of the very files that
\* exist now and for this relocation mode and backup setting.
CacheHitIsCurrent ==
  run.pc = "planned" /\ run.from = "cache" =>
    /\ run.asked.files = {<<p, run.seen[p]>> : p \in Range(Inputs) \cap DOMAIN run.seen}
    /\ ConfigHash(run.asked.config) = ConfigHash(run.config)

\* A replay the two validations let through overwrites nothing and gives no two
\* operations one target; each file is one the plan was made for, unless it changed
\* while the AI was asked or within the second of the snapshot.
ReplayIsSafe ==
  run.pc = "planned" /\ run.from = "replay" =>
    /\ \A i \in DOMAIN run.ops : LET op == run.ops[i]  t == TargetOf(run.config.mode, op) IN
         /\ t \in DOMAIN run.seen => t = op.s
         /\ \A j \in DOMAIN run.ops \ {i} : TargetOf(run.config.mode, run.ops[j]) # t
         /\ {op.v, op.s} \subseteq DOMAIN run.seen
         /\ run.asked.quiet => \E e \in run.asked.files :
              e[1] = op.s /\ Seconds(e[2]) = Seconds(run.seen[op.s])

Symmetry == Permutations(Procs)
=============================================================================
