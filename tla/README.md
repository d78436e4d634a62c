# A TLA+ development for subx-core

subx-core is the library behind the SubX subtitle tool: it matches subtitles to
videos with the help of an AI service, renames or relocates them, converts and
translates them and aligns them with audio. This directory holds TLA+ models of
its parts, TLC configurations that check them on small instances and TLAPS
proofs of their main invariants. Paths below are relative to the repository.

## 1. Inventory

| Component | State it keeps | Operations | What is hard |
|---|---|---|---|
| Task scheduler (`src/core/parallel/scheduler.rs`) | bounded queue, `active_tasks`, semaphore, handle of the loop | `submit_task_with_priority`, `submit_batch_tasks`, loop, worker, `ActiveTaskGuard` | several mutexes taken one after the other, a loop that retires and is restarted, five overflow strategies, cancelled futures, panicking tasks |
| File tasks (`src/core/parallel/task.rs`, `fs_util.rs`) | the file system | copy, move, rename, copy with rename, backup | test-then-act on names, fallback from rename to copy and delete, partial failure, power loss |
| Worker pool (`worker.rs`), file manager (`file_manager.rs`) | table of workers; list of operations | `execute`, `shutdown`; record, remove, rollback | check and insertion under separate locks, late insertions, partial rollback |
| Match executor and journal (`src/core/matcher/engine.rs`, `journal.rs`) | journal in memory and on disk, outcomes, progress stream | `execute_operations`, `execute_operations_audit`, `JournalData::save` | failures between file, journal and report; cancellation; crash consistency |
| Target allocator (`engine.rs`) | `reserved`, `claimed`, the operations' targets | `apply_unique_target_paths`, `apply_archive_origin_relocation` | two passes with a rewrite in between, names that already carry numbers |
| Match planning and cache (`engine.rs`, `cache.rs`, `discovery.rs`, `lock.rs`, `language.rs`) | cache file, lock file | scan, lookup, analysis, save, replay | stale entries, what the key leaves out, files that change meanwhile, torn cache files |
| Translation engine (`src/core/translation/`, `translation_prompts.rs`) | batches, translated cues, terms | `translate_subtitle` and its two retries | missing and unknown ids, placeholders, nested retries |
| AI clients (`src/services/ai/`) | answer cache | `analyze_content`, `verify_match`, `chat_completion`, each with retries | four retry rules, expiry, hints and texts of errors, escaping in prompts |
| Configuration service (`src/config/`) | cached configuration, file, environment | get, set, save, reload, reset, repair | layering, cache against file, two validators, torn writes |
| Input and archives (`src/core/input`, `src/core/archive`) | collected files, extraction directories | collect, extract | limits, failures at any entry, life of temporary directories |
| Formats and encodings (`src/core/formats/`) | none of their own; files | detect, parse, print, convert a file or a batch | concurrent batches on one directory, rounding of times, wrong guesses |
| Synchronisation and audio (`src/core/sync`, `src/services/vad`) | none | load audio, detect speech, choose a method, shift | clamping, channel inference, cues out of order |
| Reporting (`src/core/report`) | none | progress, messages, cancellation | contract of the progress stream |

How they interact. A command collects its input files (archives are extracted
into temporary directories it owns) under a configuration of three layers. A
match command takes the process lock and plans a batch with the match engine:
files are discovered and given identifiers, the AI client answers which belong
together, the allocator makes the target paths unique, and the plan is cached.
The executor then runs one `FileProcessingTask` after another, keeps the journal
and reports progress. The scheduler and the worker pool run
`FileProcessingTask`s (and any other `Task`) concurrently for callers that want
that. The translation engine sends batches of cues through the same AI clients.
Converter and sync engine read and write subtitle files through the format
manager. The scheduler's processes share mutex-protected state and oneshot
channels; threads share the configuration's cache; processes share the match
cache and the lock; everybody shares the file system.

What makes each part correct:

- scheduler: every submission returns exactly its own task's result; no job is
  lost, run twice or run in excess of the limit; permits and status entries are
  exact; the loop is there whenever work is;
- file tasks and worker pool: no existing file is overwritten or lost, whatever
  runs concurrently, fails or crashes; `shutdown` waits for all it took;
- executor: the journal agrees with the file system after every crash,
  outcomes and progress are truthful, a backup precedes a move;
- allocator: targets are distinct, free, stable and never stolen;
- match planning: operations connect the files the AI meant; a cached plan is
  for the files and the configuration of today; a replay overwrites nothing;
- translation: every cue gets the text answered for it or, after two omissions,
  none; retries are bounded and counted; placeholders and the user's terms
  survive;
- AI calls: prompts read back as what they were built from; cached answers are
  about the same files and not expired; errors hint where they should and show
  no query of an URL;
- configuration: only valid configurations are kept, the environment stays out
  of the file, the cache follows the file;
- input: every argument contributes what it would alone; a temporary directory
  lives exactly as long as its files are in use;
- conversion and synchronisation: a conversion that reports success lost no
  cue; one file's fate does not depend on its neighbours; edits keep the order of
  cues; a detected offset brings the subtitle closer to the speech.

## 2. Modules

| Module | Models | Proofs |
|---|---|---|
| `JobPool` | abstract specification of the scheduler: a job waits, runs at most once within the limit, or is discarded while waiting | |
| `TaskScheduler` | the scheduler; implements `JobPool` | `TaskSchedulerProofs` |
| `FileTasks` | the five file operations over a file system | `MatchExecutorProofs` |
| `WorkerPool` | the pool that runs them and the file manager that undoes them; extends `FileTasks` | `MatchExecutorProofs` |
| `MatchExecutor` | the executor and the journal; extends `FileTasks` | `MatchExecutorProofs` |
| `UniqueTargets` | planning of target paths | `MatchPlanningProofs` |
| `Discovery`, `Language` | classification of files; language tags | |
| `MatchPlanning` | planning, match cache, replay and the process lock; extends both | `MatchPlanningProofs` |
| `AIClient` | one call of an AI provider, with its retries | |
| `TranslationPrompts` | placeholders, glossary, terminology and prompts | |
| `Translation` | the translation engine; extends `AIClient` and `TranslationPrompts` | `AIServicesProofs` |
| `Prompts` | the prompts of an analysis and the reading of its answer | |
| `AnalysisCalls` | factory, four providers, answer cache and errors; extends `Prompts`, instantiates `AIClient` for each caller | `AIServicesProofs` |
| `ConfigFields` | sections, defaults, validators, dotted keys | |
| `ConfigService` | layers, cache and file; extends `ConfigFields` | `ConfigServiceProofs` |
| `Selection` | the elements of a sequence that pass a test, told by their positions | `SelectionProofs` |
| `InputCollection` | arguments, directories, archives | `SubtitleFilesProofs` |
| `SubtitleFormats` | the four formats: detection, parsing, printing, transformation | `ConversionProofs` |
| `TextEncoding` | choice of a charset, decoding | `ConversionProofs` |
| `AudioSync` | from a media file to an offset | `SubtitleFilesProofs` |
| `Subtitles` | batches of conversions and a host that loads, synchronises and saves; extends the last three and `Discovery` | `SubtitleFilesProofs`, `ConversionProofs` |
| `MC...` | instances for TLC | |

A definition called a mutant in its comment is a faulty variant of the
definition after it; replacing one by the other shows that the property named in
`PROJECT.json` notices the fault.

### TaskScheduler

`queue`, `active`, `permits`, `handle` are `task_queue`, `active_tasks`, the
semaphore and `scheduler_handle`. Each client, loop and worker is a process with
a control state (`cpc`, `loopPc`, `work`); one action is one critical section or
one channel or semaphore operation. `chan` is each job's oneshot channel. The
queue check, the registration, the eviction, the insertion, the check of the
handle, the start of a loop and the storing of its handle take their locks
separately in the code and are separate actions here. A loop started by a
submission bears the name of that submission's job, so the number of loops is
bounded by the number of jobs and not by a constant. Timeouts: the task timeout
is one way to end with "failed"; the idle timeout may elapse in any round that
follows an idle round (the 10 ms poll is far shorter than the timeout). Dropping
a future is `Cancel`, possible where the code awaits: a batch that has an answer
for each of its receivers has no await left to be dropped at.

### FileTasks and WorkerPool

`dir` maps names to inodes and `data` inodes to contents, identified by the
original file they come from; a name can be replaced while a handle stays open.
`synced` holds the inodes whose contents survive a power loss; creating,
renaming and removing names is atomic and reaches the disk in order. Every
call of the code is an action: `create_dir_all` with `target.exists()`
(`Begin`), `fs::rename`, `O_EXCL` creation, opening the source, truncating the
target, copying, `sync_all`, removing the source; each may fail (`IoError`),
leaving what was done. `Suffixed` stands for the 999 numbered names.

In `WorkerPool` a task starts between the capacity check and the insertion of
its worker, each of which holds the lock separately. `Shutdown` takes the whole
map and `Join` waits for one worker; an execution that inserts afterwards is not
waited for. When everything the owner knows of has ended it may record and
remove the copies that were made and roll back. `rollback` drains its list and
ends with the first file it cannot remove.

### MatchExecutor

One control state `xpc` for both execution loops; `audit` chooses between them.
A file task runs between two engine steps. `journal` is the file's content,
`tmp` its temporary file, `durable` whether it was synced. `stream` is the
sequence of progress events the reporter sees. `Load` reads the journal back as
whoever undoes the batch would. `Plan` contains the engine's own conflict resolution, with the
panics of its `unwrap` calls and the endless recursion of `Prompt`.

### UniqueTargets

A path is `[dir, base, tail]`, `tail` the number of a trailing `.<digits>`.
`AllocInit` ranges over all batches: sources, names, relocation setting, files
already there. Each operation visited is one step (`Keep`, `Suffix` or
`GiveUp`), so that other programs may create files in between (`Appear`).
`Width` is the range of the u32 counter, `MaxCounter` its limit 9999. Leading
zeros of a number are not represented.

### MatchPlanning, Discovery, Language

`disk` maps paths to versions (size, second, fraction of a second: the cache
key and the snapshot do not look equally closely), `cache` is the cache file,
absent, torn or whole, `holder` has the lock, `run` is the holder's command. A
run scans the list, looks into the cache, samples contents, asks the AI, makes
operations, has their names allocated and saves the plan; the file is truncated
and written in two steps. The AI means files but sees and returns identifiers.
Allocation and execution are single steps here that keep what `UniqueTargets` and
`MatchExecutor` promise. `Edit` is anybody else changing a file, `Crash` the death
of the process, which drops the lock. `Language` has the tables of codes, the
order in which directory, name and AI are believed, and what may stay in a tag.

### AIClient, TranslationPrompts, Translation

`AIClient` is one `chat_completion`: a request is sent, fails or is answered, and
is sent again under the rule of its provider (`Retries`). The four loops differ:
OpenAI's counts requests and repeats on every error status, the others count
retries; OpenRouter and the local client repeat on 5xx, Azure on no status.

`TranslationPrompts` has texts as sequences of tokens: what is taken for
formatting becomes a numbered placeholder of its cue, a glossary line is split at
`->` or `=`, and the user's terms override generated ones.

`Translation` is `translate_subtitle`. A step is what the code does between two
awaits; it conjoins the consumption of one answer with the issue of the next
request. Answers range over all sequences of entries up to a bound, with blank,
repeated, foreign and invented ids. A text names the cue it was written for, so
that it is told from the others', and keeps that cue's placeholders or loses one; for
a cue without placeholders it may be empty, which the code accepts and puts back
(`Blank`, `blanked`). `Verdict` is what the parser makes of an answer, and
`ParseResults` collects the verdicts. Errors that
quote a response's body may contain the text by which the engine recognises an
unknown id; that too is a possible outcome of a failed request. `requests` and
`omitted` are history.

### Prompts, AnalysisCalls

Names and previews are sequences of the characters that mean something to XML or
JSON. `Prompts` escapes them, splits CDATA sections and cuts the JSON of an answer
out; `AnalysisCalls` lets two callers look into the answer cache, send with the
client's retries inside `retry_with_backoff`, parse and store. The factory builds
the client or refuses the configuration. Time passes in ticks, and the system
clock may be set back. An error has a class, the hint toward the local provider
and a text: the URL without its query and the body, cut to its limit.

### ConfigFields, ConfigService

A configuration is a record of provider, key and URL, and of the other fields that
differ from their defaults, the model and the API version among them, each with the
bounds of the field validator and of the section validators (they are not the same). In
`ConfigService` threads get, set, reload, save and reset: one access to the cache
or the file is one step, the file is truncated and written in two, a write may
fail or be torn, the process may die. `Overlay` applies the dozen environment
variables of the `ai` section in the code's order; `Repairable` is the tolerant load `config set`
begins with.

### InputCollection

A path is a sequence of components. Each argument is a file, a directory (flat
or recursive, links not followed) or an archive, which is extracted entry by entry
into a directory of its own; each step may fail. The four formats differ in what
they count against the limits, what they skip and what they refuse: a link may be
marked as Unix archivers do it (`"symlink"`) or by an attribute of Windows
(`"reparse"`), and no extractor but those of ZIP and tar knows the former. What an
entry of RAR becomes that is neither file nor directory is the library's choice. `temps` are
the live temporary directories, `origins` the archive each came from; dropping
the collection removes them.

### SubtitleFormats, TextEncoding, AudioSync, Subtitles

A document is a sequence of lines, a line its kind, two numbers and a text of
tokens (words, tags, line breaks, the bar of SUB, the words by which a document is
taken for ASS). Times keep
the digits, the truncation and the frames of each format. Bytes matter only to
detection: `TextEncoding` scans them as the code does, per charset, with exact
fractions for confidences; of the charsets above 0.1 the stable sort makes the first
of the most confident ones the choice (`Best`). A media file has tracks and packets; sound is a
sequence of blocks in which somebody speaks or not; the length arithmetic of
resampling, chunks, padding and segments is the code's.

`Subtitles` composes them: the tasks of `convert_batch` hold permits, read, parse,
transform, truncate and write, concurrently with a host that loads a
file in two reads, detects an offset, shifts, sorts and saves. A shift stops with an
error at the first cue that would lie beyond `Duration::MAX` (`Longest`); the cues
before it stay shifted, and the host keeps them.

## 3. Runs

Passing runs:

- `scheduler_submissions`: a single submission and a batch of two on a queue of
  one and one permit, under all five overflow strategies and with priorities.
  This is the least instance in which the queue overflows in every way, a batch
  overtakes itself or not, and one submitter evicts another's job. The idle exit
  is off, so submissions return and the scheduler implements the fair `JobPool`
  (with it on that is false: next list).
- `scheduler_restart`: permits and statuses while loops retire and restart, tasks
  panic, a submission is cancelled; two submitters suffice for two loops at once.
  Deadlock is not checked here: a submission stranded by the lost wake-up below
  really stops.
- `file_tasks`: two moves, a backup copy and a sync task, submitted by two callers
  to a pool of two workers, which they can fill and overrun; two of the tasks want
  a name that is taken and has one suffix left (so a task can run out of names),
  with failing renames, failing I/O, power loss, shutdown and rollback at any
  point. No two tasks rename to one free name: for those see the further
  disagreements.
- `executor`: both loops of the executor on a batch of three: a move to a taken
  name with a backup, a copy to the same name and a renaming in place, so that a
  failure has something before and after it; with failing I/O, failing saves,
  cancellation, power loss and the dry run.
- `allocator`: every batch of three over colliding names; three operations are
  the least that can steal a name or exhaust the numbers.
- `matching`: three commands of two processes over two videos of one name, two
  subtitles of one name and a file that is no media; three commands are the least
  in which a plan is made, used and used again after an execution; one edit is
  the least that makes a plan stale. The configurations differ in relocation mode,
  threshold and analysis. A process may end at any point, so deadlock is not
  checked.
- `translation`: up to three cues in batches of two (one full batch and one short
  one, so that an id of the other batch can be answered), answers of up to three
  entries, all four providers with two attempts, a glossary with lines of every
  kind.
- `analysis`: two callers, two requests, fourteen configurations (private and
  public hosts on both sides of each boundary, configurations the factory
  refuses), one client retry inside two attempts, a cache lifetime of one tick.
  The callers stop when they have their answer.
- `config`: two threads, three operations in all (an edit between a load and its
  store, and a third that sees the result), six files and four environments.
- `input`: lists of three arguments out of thirteen, archives at and over the
  limits of three entries and four units of size.
- `subtitles`: twenty documents, alone and in pairs that share directories and
  stems, every target format; the host makes three calls (load, detect or shift,
  save). One of the two manual offsets is negative and reaches below zero, the other is
  too large for some of the cues.

`scheduler_lost_wakeup` ends in a counterexample, a disagreement between the code
and a comment of its own, quoted in `PROJECT.json`: a submission that arrives
while the loop retires does not restart it and waits for ever.

Further disagreements between the code and its documents or comments, and
surprises worth knowing, seen in the models by changing constants or while
translating; no run is kept for them.

Scheduler, file tasks, worker pool:

- A batch larger than the queue, submitted after the loop retired, waits for
  room before it reaches `ensure_scheduler_running` (`scheduler.rs:455`;
  `openspec/specs/parallel-processing/spec.md:40`). A batch refused under
  `Reject` returns without restarting the loop, so what it enqueued stays
  (`scheduler.rs:481`; comment at `scheduler.rs:382`).
- Under `Drop` a batch returns fewer results than tasks and leaves the status
  entries of the skipped ones behind (`scheduler.rs:485`; `spec.md:34`, `:88`).
- With priorities the front of the queue is the most urgent job, and
  `DropOldest` discards it (`scheduler.rs:332`; `spec.md:54`).
- Two submissions of one file operation share a task id and so a status entry
  (`scheduler.rs:294`; comment at `task.rs:71`). `StatusTruthful` is about
  distinct ids.
- A rename replaces a file that appeared between `target.exists()` and
  `fs::rename` (`task.rs:553`; `openspec/specs/file-operation-safety/spec.md:20`).
- The worker pool removes no worker before `shutdown`, so after `max_workers`
  tasks it refuses every further one; concurrent callers exceed its capacity; a
  worker inserted late is not waited for.
- The file manager's documentation promises backups and an exact restoration;
  a removed file is only warned about, the first error ends the rollback and the
  rest of the list is gone, and what is removed is whatever has the recorded name
  by then.

Executor and allocator:

- The journal of an in-place rename names a file other than the one written
  when the name was taken (`engine.rs:1886`; comment at `journal.rs:43`); it
  records the backup name chosen before the backup was made, which an older
  backup may have (`engine.rs:1860`; comment at `journal.rs:45`); an entry is
  synced although the copy it declares completed is not (`fs_util.rs:22`; comment
  at `engine.rs:1765`), which is why `JournalTruthful` says nothing of copies after
  a power loss.
- The conflict setting `Skip` overwrites (`engine.rs:2223`; comment at
  `engine.rs:345`); `Prompt` recurses without end (`engine.rs:2267`;
  `openspec/specs/file-organization/spec.md:25`); in `Copy` mode a subtitle that
  already lies beside its video makes the task builder panic after `Started`
  (`engine.rs:2276`; comment at `engine.rs:1954`); an operation onto its own
  source renames the file to a suffixed name (`task.rs:553`; comment at
  `engine.rs:228`).
- A name that ends in a number above 9999 leaves the allocator a single probe
  (`engine.rs:249`; `openspec/specs/subtitle-matching/spec.md:76`).

Match planning:

- The key leaves out the confidence threshold and the AI model; operations from
  the cache skip the allocator; the snapshot is taken when the plan is saved, not
  when the files were read; the preview of a subtitle is cut at a byte offset and
  panics inside a character (`engine.rs:1711`); `und` falls through to the
  language the file name shows.

Configuration:

- After `set_config_value` the cache is the file alone, without the environment
  (`service.rs:866`; `openspec/specs/configuration-management/spec.md:88`), and the
  late store of a concurrent `get_config` can put an older configuration back
  (`service.rs:795`): `CacheFollowsFile` speaks of operations that do not overlap.
- A truncated file loads as defaults and is refused by the tolerant load of
  `config set`; a value that the section validators accept and the field
  validator does not makes `config set` unusable; two invalid sections cannot be
  repaired one key at a time; `ai.api_version` can be set and not read.
- `max_workers` defaults to the number of CPUs, and the validator refuses more
  than 64: on a larger machine the defaults are invalid, `get_config` without a file
  fails, and `reset_to_defaults` writes what no load accepts
  (`DefaultIsStrict`; `OnlyValidIsKept` excepts that reset).

Translation and AI calls:

- An answer that swaps two placeholders is accepted. Line breaks are flattened
  in prompts.
- `parse_match_result_base` panics when the last closing brace precedes the first
  opening one (`prompts.rs:188`), where `extract_json_object` returns nothing. The
  answer cache's key omits the samples; the statistics, eviction and clearing its
  documentation names do not exist. OpenAI's error statuses at private hosts carry
  the hint, OpenRouter's and Azure's do not. Azure reports usage before it looks
  for content.

Input, formats, synchronisation:

- All extraction operations are said to reject symbolic and hard links
  (`src/core/archive/mod.rs:32`); the RAR extractor passes over directories only
  (`rar.rs:42`). Of 7z archives symbolic links shall be rejected
  (`openspec/specs/archive-extraction/spec.md:69`); the extractor looks for the
  Windows attribute of a reparse point (`sevenz.rs:30`), so a link stored by a Unix
  archiver is counted, and extracted as a file. `CollectionIsPerArgument` therefore
  lets such an entry contribute or not.
- An entry of a 7z archive with an escaping path shall be skipped and the extraction
  go on (`spec.md:80`); the library refuses the archive (`sevenz.rs:183`, a test).
- Two entries of one name in an archive have one default output path.
- A cue with an empty text makes the SRT parser lose the next cue; any document
  that contains `Dialogue:` or `[Script Info]` is taken for ASS; three-digit hours are not read back
  (`ConversionKeepsCues` leaves these texts out). `preserve_styling` has no effect
  from ASS to SRT because tags are stripped first. Batch outputs of files with one
  stem collide (`BatchIsolated` speaks of undisturbed files). Latin-1 is decoded
  as ISO-8859-2; a UTF-16 mark is detected and then refused; the 8192-byte sample
  of `load_subtitle` may end inside a character and make another charset win.
- The offset is aligned on the first entry of the file, which need not be the
  earliest; the channels of a track that does not tell them are inferred from the
  start of its last packet and may be none; the size limit is a constant and not
  the configured one; `SyncEngine::new` fails if voice detection is disabled, even
  for manual offsets. The error of an offset that overflows leaves the earlier cues
  shifted (`src/core/sync/mod.rs:369`; `EditsKeepCues` says exactly which).

Fairness. The tokio runtime polls every task that is ready, timers fire, and a
task's execution is cut off by `task_timeout`: weak fairness of each client,
loop and worker. The blocking pool runs every closure, and the runtime every
caller of the worker pool: weak fairness of file tasks, `execute` and the draining
of the pool; nothing makes a caller undo its batch. The executor is one future,
polled until it ends. Failures, cancellation, power loss and the idle timeout are
never assumed to happen. A request to the AI service ends by
`ai.request_timeout_seconds`: weak fairness of the translation. The other models
state safety only.

## 4. Proofs

Each theorem holds for every value of the constants that the named `ASSUME`s
allow; the runs evaluate those assumptions, and TLC checked each inductive
invariant below on the run's instance before it was proved. Where a theorem has a
hypothesis of its own it is stated as a definition, and the run's constants
satisfy it.

### Scheduler

`TaskSchedulerProofs` proves for every set of clients and jobs, every plan,
queue size and job limit that the scheduler keeps its types, keeps each job in
one place, conserves permits, never exceeds the job limit and never loses a job a
submission waits for. None of these is inductive by itself. The invariant adds:
a job not yet submitted is nowhere (`FreshJobs`), a loop not yet started is
unborn (`FreshLoops`), a loop holds a job exactly between taking and spawning it
(`HeldIffMark`), a worker about to answer has a result (`SendingHasResult`).
Jobs are submitted once, which is what makes a loop's name and a job's place
unambiguous. Permits are counted as cardinalities of the sets of loops and
workers that hold one; each step moves at most one member. The module begins with
the facts about inserting into and removing from sequences.

The second half is about what clients see.

- `QueueIsSound`: the queue stays sorted, and exceeds its limit by less than one
  job for each submission past its check, which is counted as if its job were in
  the queue already.
- `AnswersAreAlwaysOwn`: the k-th answer of a submission is about its k-th job and
  true of it. The invariant accounts for answers and receivers together
  (`Accounts`): a single submission has an answer for each job before the current
  one; of a batch, as long as no job was skipped (`NoneSkipped`), answers followed
  by receivers are the plan in its order. What is in a channel agrees with the
  worker (`Channels`), and what a client was told stays true (`Told`).
- `StatusesAreTruthful`, under `DistinctIds`: `active_tasks` tells the state of
  every job that is waited for and has forgotten those of returned submissions. The
  invariant adds that a registered job is pending until it is enqueued, that an
  eviction removes the entry of a job already answered, and that a batch has
  forgotten what it has answers for. With equal ids the statement is false
  (section 3).
- `SchedulerIsAJobPool`: `Spec => ImplementsJobPool`, the safety half of the
  refinement. `JobState` maps queue, loops, workers and channels to the pool's
  states; every step moves one job along one of the pool's actions or none, and
  the job limit of the pool follows from the permit the marking loop holds.

### File tasks, worker pool, executor

The three are in `MatchExecutorProofs`, which begins with the lemmas both
compositions use: what a step of one task
does to the files of all tasks. `FileInv` says that the files that were there
keep their contents (`Originals`), that a source is in its place until the task
that moves it has succeeded (`MoversWait`), that what an unguarded task is about
to create is not there (`TargetsFree`) and what each task has done at each control
state (`Done`, `Delivered`). It is preserved under two conditions that the
compositions discharge: no task may create a file under the name of a source
(`Apart`), and no step creates what an unguarded task would then replace
(`NoRace`). Neither holds of every batch, so both are hypotheses of the theorems and
not assumptions on the constants. `TargetsApart(own)` names the tasks whose wanted
name is free and nobody else's: the other names that tasks write, numbered ones
included, are no sources, and a task of `own` may want a name that differs from a
source only by its number, as the allocator permits. The executor runs one task at a
time; for the pool `NoRenameRace` also excludes the race of the further
disagreements, two tasks of which one renames onto a name that is free when it
looks.

For the pool it proves that no running worker is out of sight, that `shutdown`
has waited for all it took, and that callers overrun the capacity by one less
than their number (`PoolIsSound`): tasks between check and insertion inject into
callers, and workers and rows of the statistics are in bijection. `PoolLosesNothing`
and `PoolDelivers` say that no contents are lost and that a task that reported
success has delivered: `FileInv` holds until the file manager is used (`Early`);
after that everything has ended (`Still`) and an undo reaches only copies
(`Aftermath`, `Recorded`).

For the executor:

- `SubtitlesAreSafe`, under `SafePlan`: no contents are lost, and a subtitle
  leaves its place only once its backup is complete. `ExecInv` adds to `FileInv`
  that at most the awaited task runs, that later operations have not begun
  (`Ahead`) and that a move starts on a successful backup (`BackedUp`). The
  hypothesis asks for targets apart (above) and excludes the conflict setting `Skip`
  for copies, which overwrites.
- `JournalIsSound`, under `ResolvedPlan`: after any failure or crash the journal
  can be loaded, lists the applied operations in order but perhaps for the last
  one, and says where each subtitle is. `JournalInv` relates the entries in memory,
  the temporary file and the journal (`Saved`, `Ascending`, `Complete`,
  `Recorded`) and says that a task's target stays free until its file is there
  (`Named`, `Landed`). The hypothesis asks that each subtitle is in one operation,
  that a target which needs no relocation is free and nobody else's, and that
  conflicts are not skipped. The allocator gives out free and distinct names but does
  not provide all of this: it leaves an operation whose target is its own source, or
  whose number is exhausted, where it is, and nothing keeps a file from appearing
  later. In such a batch an entry may name a file other than the one written
  (section 3), and the theorem says nothing of it.
- `ReportsAreTruthful`, for every plan: outcomes name exactly the operations
  applied, and the progress stream is opened once, advances by one and is closed
  before the call returns. The argument is about control alone (`ControlInv`,
  `ReportInv`).

### Match planning and allocator

`MatchPlanningProofs` proves, for every list of files, every configuration, every
answer of the AI and whatever others do to the files: a run returns operations
between exactly the files the AI meant, under names with a safe tag
(`PlansAreWhatWasMeant`); a plan from the cache was made for the versions of the
files that exist now and for this run's modes (`CacheHitsAreCurrent`); a replay
overwrites nothing and touches only files of the plan, up to changes during the AI
call or within the second of the snapshot (`ReplaysAreSafe`). The three are
inductive only together with what the command in progress knows at each of its steps
(`RunKnows`: the files it scanned, the key it computed before it asked) and with what
a whole cache file tells (`CacheTells`: its key is that of the files and the settings
asked about, its operations are the ones meant, with distinct targets, and its
snapshot has the files that kept quiet). `ShortCodes`, the lengths of the literals of
`LanguageCodes`, is what bounds a tag.

For the allocator, every batch and every directory content: targets are unique
unless the numbers run out, nobody's own candidate is stolen, no existing file is a
target, and a second pass is idempotent. The invariant says that `claimed` is
exactly what was given out and that what was given out was the operation's own
candidate or nobody's.

### Translation

The first half of `AIServicesProofs` proves, for every provider, retry limit, batch size and
number of cues:

- `batch_count` is the number of requests sent and bounded, one unknown id per
  request is forgiven (together `RequestsAreAccounted`), and a transport failure
  surfaces only after the configured number of requests (`GlitchesAreMasked`). The
  invariant says that the requests sent are those counted, the one in hand and
  the one discarded before it, that the batches before number `chunk` took at most
  two each, and that the client is idle whenever the engine is not waiting.
- `CuesAreFaithful`: every request has one line for each of its cues, with each
  placeholder once, and the user's terms; a cue comes back with its own text, or
  blank exactly if it was left out twice or, having no placeholders, was answered an
  empty text; a text that lost a placeholder is not put back. `CueInv` says
  that the cues of the batches behind are translated or were left out once and the
  others neither (`Collected`), and that the prompt in hand is that of the cues
  requested (`Asking`). That the batches cover the cues is arithmetic
  (`BatchesCover`); that each placeholder stands in the prompt once is a counting
  argument (`MarkersNumbered`): the numbers of the markers are an injection into as
  many numbers, hence a bijection. To make both provable a text's markers are the
  set of their positions, and the number of a marker is how many precede it.
- `ProgressIsTruthful`, an action property: the progress shown never decreases and
  ends at the number of cues, since what was collected is never dropped.

### Configuration

`ConfigServiceProofs` proves, for any threads, files, environments and edits:

- `OnlyValidIsAlwaysKept`: what is cached or about to be written passed
  `validate_config`. What a thread loaded, edited or took from the defaults is
  valid as long as it is in hand (`ValidInHand`). The defaults are valid on machines of
  up to 64 CPUs and on no others (`DefaultIsStrict`, field by field); a reset writes
  them either way and is excepted.
- `EnvironmentIsContained`: `Contained` follows the environment's values through
  the hands of the threads; only `save_config` brings them to a write. Keys,
  URLs, models and API versions are followed. Of the order of the layers only the part
  that matters to a local provider is a theorem; which hosted variable wins over which is
  in the model and in no property.
  `OverlayIsPrivate` goes through the layers and shows that no hosted variable is
  read once the provider is local, whichever layer or alias made it so.
- `CacheAlwaysFollowsFile`: without overlap one thread at most is in an operation
  (`Alone`), and `InStep` says at each of its steps how file, cache and hand stand to
  each other.

`SourcesAssumption` says that the variables' values can be told from those of
files and edits, and the hosted providers' from the others: that is how the model
recognises where a value came from.

### Analysis calls

The second half of `AIServicesProofs` is about the callers of the match analysis, for
every configuration, request, answer and number of callers.

- `CachedResultsAreCurrent`: a result from the answer cache is about the files asked
  for and younger than the lifetime, unless the clock was set back. `CallsInv` adds
  that the age of an entry is that of its stamp (`CacheAges`) and that a call in
  progress has a client.
- `CallErrorsAreSound`: the error that reaches the user shows no query of an URL and
  carries the local hint exactly when it should. `sanitize_url_in_error` reads the
  text once, so the argument follows its scan: what was put out so far is clean, and
  the state tells whether an URL's query is being skipped (`Clean`, `Scanned`). It
  holds for the text after the truncation, which may cut an URL anywhere.
- `PromptsReadBack`: whatever names and previews contain, the prompt reads back as its
  files and samples. `Run` relates the states of a reader before and after a text;
  runs compose, so that the proof goes from a character's escape over an attribute, a
  CDATA section (where a `]]>` of the text is cut in two and the section reopened) and
  an element to the whole prompt, and `PromptsBuilt` keeps the prompt of a call in
  progress.

### Input collection

The first third of `SubtitleFilesProofs`.

- `DirectoriesAreOwned`: a path out of an archive lies in a live directory with one
  origin, its output goes beside the archive, and a collection that failed or was
  dropped holds no directory. `InputInv` says how far the collection is (`Progress`),
  that each root with an origin was made for an archive that was given
  (`OriginsOK`), that the directory of the extraction in progress has no origin yet
  (`JobOK`) and that every file collected so far is accounted for (`FilesOK`).
- `ArgumentsContributeAlone`: what is collected is the concatenation of what the
  arguments contribute alone; an archive contributes all of its wanted files, with
  some of the links that may pass (section 3), in their order and within both limits,
  or nothing. `PerInv` compares the counters and
  files of the extraction with those of the entries it passed (`JobFaithful`) and the
  arguments done with what they offer (`LogFaithful`).

### Conversion and synchronisation

The rest of `SubtitleFilesProofs`, for every set of files and every text in them:

- `BatchesAreIsolated`. Of a task that shares no file (`Own`) `BatchInv` says that its
  input is what it was in the beginning until it is read, that its result is the
  conversion of that, and that its output is kept once it is written; what the host
  saves bears the mark of a synchronised file and is nobody's input or output.
- `EditsNeverLoseCues`, an action property: the cues loaded are kept in their order
  with their texts, shifted up to the first one too late for the offset
  (`StoppedAt`), or sorted stably, each once. It needs that what was parsed are cues with
  natural times (`CuesInv`); that sorting is a permutation follows from the ranks of
  the cues, an injection of their positions into as many numbers (`Ranks`).
- `DetectedOffsetsHelp`: an offset is within the maximum, never takes the first cue
  further from the speech, and to it unless it warns. `HostInv` says which cues and
  which media file the offset in hand stems from. That only the first channel of the
  first audio track counts is shown by resampling and segmenting the packets of a
  track of several channels and the single channel side by side (`EveryFlatten`,
  `SameSpeech`).

`ConversionProofs` proves `ConversionsKeepCues`: a conversion reported as a success is
read back with the same cues, words and times up to the precision of the target
format. It goes through the whole pipeline.

1. A text of valid UTF-8 is taken for UTF-8 (`Utf8Detected`): its share of valid
   characters is one, the other charsets come after it in the list, and no byte order
   mark but that of UTF-8 is valid UTF-8 (`ScanFacts`).
2. A mark that stays in the text changes nothing if the text was recognised
   (`MarkIsIgnored`).
3. A transformation keeps the times and the words, whichever tags it replaces or
   strips (`TransformedCues`).
4. What a serializer writes is taken for its format and parsed into the same cues
   (`WrittenIsReadBack`), one lemma for each format. A printed document is a
   concatenation of parts, each ending with its only blank line; `BlocksLaid` shows
   that the parser's blocks are these parts, `JoinedLines` that a text's lines are
   joined to the text again, and `ClockTimes`, `AssTimes`, `FrameTimes` that times
   survive within the grain.
5. `BatchInv` leads from the files of the beginning to the output on the disk.

The property excludes what section 3 lists among the disagreements (empty lines in a
text, the words `Dialogue:` and `[Script Info]`, times beyond the format's digits) and speaks of input in
valid UTF-8.

### Recursions

The scans, parsers, sums and concatenations are recursive functions or folds. That a
recursive function exists and satisfies its equations, and each fact about all
positions of a sequence, is proved by the least counterexample: the set of numbers
for which it fails has a least element (`Least`), and the equation carries the fact
there from the one before. No induction theorem with an operator parameter is used.
`Selection` exists for the same reason: filtered sequences are described by the
positions that are kept, so that facts about them need no induction at all.

### Assumptions

Apart from types: finite sets of clients, jobs, callers and files; positive limits;
each job submitted once; batches of a scheduler have the default priority; the files
of a batch of tasks exist and no file is moved by two of them (`BatchAssumption`);
each operation has tasks of its own (`PlanAssumption`); tasks of a pool are submitted
once (`PoolAssumption`); at least one CPU (`CpusAssumption`); as many texts as cues; numbers of more than two values in the
allocator; temporary directories are new and there is a name for each argument
(`InputAssumption`); lists, answers, prompts' parts and error bodies are sequences
(`SequencesAssumption`, `RequestsAssumption`, `BodiesAssumption`); the files of a
directory have lines and bytes (`FilesAssumption`); decoded packets consist of whole
frames if their track tells its channels, and no recording is longer than a duration
can be (`AudioAssumption`); what a serializer writes
outside ASCII is valid UTF-8 and begins with no byte order mark (`WritingAssumption`).
`NamesAssumption` and `ShortCodes` state facts about string literals that the provers
lack; TLC evaluates them like the others.

### Only model-checked

Everything under fairness (`EverySubmissionReturns`, `ImplementsFairJobPool`,
`PoolSettles`, `BatchEnds`, `Terminates`): liveness is outside what the prover
handles. The lost wake-up is a counterexample and needs none. Every invariant and
every action property of the passing runs is a theorem.

## 5. Plan

Still to model:

1. Task timeouts over file tasks: a blocking closure that outlives its timeout,
   a composition of `TaskScheduler` and `FileTasks`.
2. Two processes that save one journal (`journal.rs:84`), once a caller takes the
   lock of `lock.rs` around a batch.
3. A longer composition: `InputCollection`, `MatchPlanning`, `UniqueTargets` and
   `MatchExecutor` over one file system; it is far beyond exhaustive checking, so
   each module assumes what the one before it promises.

Proofs to follow: the fairness half of the scheduler's refinement and the other
liveness properties, once the prover supports `ENABLED`.

Not modelled, and why:

- the load balancer (kept by the scheduler and never asked), the struct `Worker`,
  `matcher::FileInfo`, the encoding analyzer, the style and metadata helpers of
  `formats/types.rs`, `auto_detect_sync_offset` and `MethodSelectionStrategy`: no
  core path uses them;
- the test configuration service, its builder and macros: helpers for tests;
- the speech probability of a chunk of sound, HTTP, TLS, the decoding of archives
  and of audio: libraries, represented by the outcomes they may have;
- wording of prompts, messages, warnings and error texts; masking of values for
  display; the warning about insecure URLs; estimated durations: no state and no
  effect on it;
- the character level of regular expressions and of parsers: texts are sequences
  of the tokens the code tells apart.
