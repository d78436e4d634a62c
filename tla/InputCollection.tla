--------------------------- MODULE InputCollection ---------------------------
(***************************************************************************)
(* Collecting the input files of a command                                 *)
(* (src/src/core/input/mod.rs) and extracting the archives among them      *)
(* (src/src/core/archive/): every argument is a file, a directory or an    *)
(* archive; an archive goes, entry by entry, into a temporary directory of *)
(* its own that lives as long as the collection does.                      *)
(*                                                                         *)
(* A path is a sequence of components [stem, ext]; Temp(k) is the root of  *)
(* the k-th temporary directory.                                           *)
(***************************************************************************)
EXTENDS Integers, Sequences, FiniteSets, SequencesExt, Selection

CONSTANTS
  Tree,        \* path -> "file", "dir" or "symlink": the files of the system
  TempNames,   \* the names of the temporary directories, as they are made
  Entries,     \* archive path -> its entries, a sequence
  Arguments,   \* the argument lists a command may get
  Extensions,  \* the extension filters a command may set, {} for no filter
  MaxEntries,  \* MAX_ENTRY_COUNT
  MaxSize,     \* MAX_EXPANDED_SIZE
  RarBuilt     \* the feature archive-rar

VARIABLES
  handler,   \* InputPathHandler: paths, recursive, file_extensions, no_extract
  pc,        \* "new", "collect", "extract", "list", "done", "failed" or "dropped"
  at,        \* the argument being collected
  files,     \* the paths collected so far
  temps,     \* live temporary directory -> the files in it with their origin
  origins,   \* archive_origins
  made,      \* temporary directories created so far
  job,       \* the archive being extracted
  gone,      \* arguments that somebody deleted
  log        \* history: what each finished argument contributed

inputVars == <<handler, pc, at, files, temps, origins, made, job, gone, log>>

Temp(k) == <<[stem |-> "tmp", ext |-> ""], [stem |-> TempNames[k], ext |-> ""]>>
There(p) == p \in DOMAIN Tree /\ p \notin gone
IsFile(p) == There(p) /\ Tree[p] = "file"
IsDir(p) == There(p) /\ Tree[p] = "dir"
NoJob == [archive |-> <<>>]
Arg == handler.paths[at]

-----------------------------------------------------------------------------
\* detect_format: by extension alone
Format(p) ==
  CASE Last(p).ext = "zip" -> "Zip" [] Last(p).ext = "rar" -> "Rar"
    [] Last(p).ext = "7z" -> "SevenZip" [] Last(p).ext \in {"tar.gz", "tgz"} -> "TarGz"
    [] OTHER -> "none"

Components == [stem : STRING, ext : STRING]

\* A link is marked as Unix archivers do it or, in 7z, by an attribute of Windows.
EntryRecords ==
  [kind : {"file", "dir", "symlink", "reparse"}, path : Seq(Components) \ {<<>>}, size : Nat, escapes : BOOLEAN]

\* A list of arguments has a member (merge_paths_from_multiple_sources refuses an
\* empty one); temporary directories are new, each under a name of its own.
ASSUME InputAssumption ==
  /\ IsFiniteSet(DOMAIN Tree)
  /\ \A p \in DOMAIN Tree : p \in Seq(Components) /\ p # <<>>
  /\ \A a \in Arguments : a \in Seq(Seq(Components)) /\ Len(a) \in 1..Len(TempNames)
  /\ TempNames \in Seq(STRING) /\ IsInjective(TempNames)
  /\ \A p \in DOMAIN Tree, k \in DOMAIN TempNames : ~IsPrefix(Temp(k), p)
  /\ \A a \in DOMAIN Entries : Entries[a] \in Seq(EntryRecords)
  /\ \A a \in DOMAIN Tree : Tree[a] = "file" /\ Format(a) # "none" => a \in DOMAIN Entries
  /\ MaxEntries \in Nat /\ MaxSize \in Nat

\* A fact about string literals that the provers lack
ASSUME NamesAssumption == \A name \in {"tmp", "", "vtt"} : name \in STRING

\* matches_extension
Matches(p) == handler.file_extensions = {} \/ Last(p).ext \in handler.file_extensions

\* scan_directory_flat and scan_directory_recursive: regular files with a wanted
\* extension, in the order of the directory; symbolic links are neither returned
\* nor followed, and archives are files like any other.
Scanned(dir) ==
  {p \in DOMAIN Tree : /\ IsFile(p) /\ Matches(p)
                       /\ IF handler.recursive THEN IsStrictPrefix(dir, p) ELSE Front(p) = dir}

\* get_directories
Directories ==
  {p \in Range(handler.paths) : IsDir(p)} \cup {Front(p) : p \in {q \in Range(handler.paths) : IsFile(q)}}

-----------------------------------------------------------------------------
\* from_args: every path must exist when the handler is made.
InputInit ==
  /\ handler \in [paths : Arguments, recursive : BOOLEAN, file_extensions : Extensions,
                  no_extract : BOOLEAN]
  /\ pc = "new" /\ at = 1
  /\ files = <<>> /\ temps = <<>> /\ origins = <<>> /\ made = 0
  /\ job = NoJob /\ gone = {} /\ log = <<>>

Validate ==
  /\ pc = "new"
  /\ pc' = IF \A p \in Range(handler.paths) : There(p) THEN "collect" ELSE "failed"
  /\ UNCHANGED <<handler, at, files, temps, origins, made, job, gone, log>>

\* An argument is deleted by somebody else after it was validated.
Delete ==
  /\ pc \in {"collect", "extract"}
  /\ gone = {}
  /\ \E p \in Range(handler.paths) : gone' = {p}
  /\ UNCHANGED <<handler, pc, at, files, temps, origins, made, job, log>>

\* The argument contributes found; the next one is due.
Contribute(found) ==
  /\ files' = files \o found
  /\ log' = Append(log, found)
  /\ at' = at + 1
  /\ pc' = IF at = Len(handler.paths) THEN "done" ELSE "collect"

\* The ? operator: the handles collected so far are dropped with their directories.
Abort ==
  /\ pc' = "failed"
  /\ files' = <<>> /\ temps' = <<>> /\ origins' = <<>>
  /\ UNCHANGED <<at, log>>

CollectFile ==
  /\ pc = "collect" /\ IsFile(Arg)
  /\ handler.no_extract \/ Format(Arg) = "none"
  /\ Contribute(IF Matches(Arg) THEN <<Arg>> ELSE <<>>)
  /\ UNCHANGED <<handler, temps, origins, made, job, gone>>

\* A directory on the way that cannot be read fails the whole collection.
CollectDirectory ==
  /\ pc = "collect" /\ IsDir(Arg)
  /\ \/ Contribute(SetToSeq(Scanned(Arg))) /\ UNCHANGED <<temps, origins>>
     \/ Abort
  /\ UNCHANGED <<handler, made, job, gone>>

\* Neither a file nor a directory any more
CollectNothing ==
  /\ pc = "collect" /\ ~IsFile(Arg) /\ ~IsDir(Arg)
  /\ Abort
  /\ UNCHANGED <<handler, made, job, gone>>

-----------------------------------------------------------------------------
\* Extraction

\* extract_and_collect makes the temporary directory; an archive of a format that
\* is not built in, and one that cannot be opened, is refused by Refuse.
OpenArchive ==
  /\ pc = "collect" /\ IsFile(Arg)
  /\ ~handler.no_extract /\ Format(Arg) # "none"
  /\ made' = made + 1
  /\ temps' = [r \in DOMAIN temps \cup {Temp(made + 1)} |->
                IF r = Temp(made + 1) THEN {} ELSE temps[r]]
  /\ job' = [archive |-> Arg, root |-> Temp(made + 1), next |-> 1, entries |-> 0, size |-> 0,
             out |-> <<>>]
  /\ pc' = "extract"
  /\ UNCHANGED <<handler, at, files, origins, gone, log>>

Current == Entries[job.archive][job.next]

\* What an extractor passes over without counting it: a directory always; a link
\* if the extractor knows it for one. The extractor of 7z archives only asks for
\* the attribute of Windows, that of RAR archives only for directories.
Ignored(e) ==
  \/ e.kind = "dir"
  \/ e.kind = "symlink" /\ Format(job.archive) \in {"Zip", "TarGz"}
  \/ e.kind = "reparse" /\ Format(job.archive) # "Rar"

\* Mutant of WithinLimits: the limit is checked before the entry is counted.
LateLimits(e) == job.entries <= MaxEntries /\ job.size <= MaxSize

\* check_entry: the entry is counted, and both sums must stay within the limits.
WithinLimits(e) == job.entries + 1 <= MaxEntries /\ job.size + e.size <= MaxSize

\* Without the feature archive-rar the extractor of RAR archives is a stub that
\* fails.
Built(p) == Format(p) = "Rar" => RarBuilt

\* The RAR extractor lists the archive and checks all of it before it extracts.
RarAccepted ==
  LET es == Entries[job.archive] IN
  Format(job.archive) = "Rar" =>
    LET counted == {i \in DOMAIN es : es[i].kind # "dir"} IN
    /\ Cardinality(counted) <= MaxEntries
    /\ FoldLeft(LAMBDA a, i : IF i \in counted THEN a + es[i].size ELSE a, 0,
                [i \in DOMAIN es |-> i]) <= MaxSize

\* validate_entry_path and enclosed_name: absolute paths, parent components and
\* paths that resolve outside of the root are skipped with a warning. The library
\* below the 7z extractor does not let them get that far: it refuses the archive.
Enclosed(e) == ~e.escapes

\* Only what passes is extracted. The RAR extractor reads the archive a second time,
\* after it was checked, and takes the entries whose name the first pass listed.
Passes(e) ==
  IF Format(job.archive) # "Rar" THEN Enclosed(e)
  ELSE LET es == Entries[job.archive]
           entries_to_extract == {i \in DOMAIN es : es[i].kind # "dir" /\ Enclosed(es[i])}
       IN \E i \in entries_to_extract : es[i].path = e.path /\ es[i].escapes = e.escapes

EntryTarget(e) == job.root \o e.path

\* An entry whose path runs through a file, or is the directory of another, cannot
\* be created; one of a path seen before replaces that file.
Creatable(e) ==
  \A f \in temps[job.root] : ~IsStrictPrefix(f, EntryTarget(e)) /\ ~IsStrictPrefix(EntryTarget(e), f)

Skip ==
  /\ pc = "extract" /\ job.next <= Len(Entries[job.archive])
  /\ Built(job.archive) /\ RarAccepted
  /\ \/ Ignored(Current) /\ job' = [job EXCEPT !.next = @ + 1]
     \/ /\ ~Ignored(Current) /\ WithinLimits(Current) /\ ~Passes(Current)
        /\ Format(job.archive) # "SevenZip"
        /\ job' = [job EXCEPT !.next = @ + 1, !.entries = @ + 1, !.size = @ + Current.size]
  /\ UNCHANGED <<handler, pc, at, files, temps, origins, made, gone, log>>

ExtractEntry ==
  /\ pc = "extract" /\ job.next <= Len(Entries[job.archive])
  /\ Built(job.archive) /\ RarAccepted
  /\ ~Ignored(Current) /\ WithinLimits(Current) /\ Passes(Current) /\ Creatable(Current)
  /\ temps' = [temps EXCEPT ![job.root] = @ \cup {EntryTarget(Current)}]
  /\ job' = [job EXCEPT !.next = @ + 1, !.entries = @ + 1, !.size = @ + Current.size,
                        !.out = Append(@, EntryTarget(Current))]
  /\ UNCHANGED <<handler, pc, at, files, origins, made, gone, log>>

\* Mutant of Extracted: the handle is dropped at the end of extract_and_collect.
ExtractedUnowned ==
  /\ pc = "extract" /\ job.next > Len(Entries[job.archive])
  /\ Built(job.archive) /\ RarAccepted
  /\ origins' = [r \in DOMAIN origins \cup {job.root} |->
                  IF r = job.root THEN job.archive ELSE origins[r]]
  /\ Contribute(Picked(job.out, {i \in DOMAIN job.out : Matches(job.out[i])}))
  /\ temps' = [r \in DOMAIN temps \ {job.root} |-> temps[r]]
  /\ job' = NoJob
  /\ UNCHANGED <<handler, made, gone>>

\* All entries are out: the wanted ones are collected, the directory is kept.
Extracted ==
  /\ pc = "extract" /\ job.next > Len(Entries[job.archive])
  /\ Built(job.archive) /\ RarAccepted
  /\ origins' = [r \in DOMAIN origins \cup {job.root} |->
                  IF r = job.root THEN job.archive ELSE origins[r]]
  /\ Contribute(Picked(job.out, {i \in DOMAIN job.out : Matches(job.out[i])}))
  /\ job' = NoJob
  /\ UNCHANGED <<handler, temps, made, gone>>

\* Over a limit, leading out of a 7z archive, not creatable, not built in, or
\* unreadable, corrupt or protected by a password at any entry: the archive is
\* skipped as a whole, its directory removed, and the collection goes on.
Refuse ==
  /\ pc = "extract"
  /\ Contribute(<<>>)
  /\ temps' = [r \in DOMAIN temps \ {job.root} |-> temps[r]]
  /\ job' = NoJob
  /\ UNCHANGED <<handler, origins, made, gone>>

-----------------------------------------------------------------------------
\* The caller is done with the CollectedFiles (or takes its paths with into_paths):
\* the directories are removed.
Drop ==
  /\ pc = "done"
  /\ pc' = "dropped"
  /\ temps' = <<>> /\ origins' = <<>> /\ files' = <<>>
  /\ UNCHANGED <<handler, at, made, job, gone, log>>

\* archive_origin: the archive whose root the path starts with
ArchiveOrigin(p) == {origins[r] : r \in {r \in DOMAIN origins : IsPrefix(r, p)}}

\* default_output_dir: beside the archive the file came out of, otherwise beside
\* the file
OutputDir(p) ==
  IF ArchiveOrigin(p) # {} THEN Front(CHOOSE a \in ArchiveOrigin(p) : TRUE) ELSE Front(p)

\* default_output_path: the stem with the new extension beside the archive, and
\* otherwise the path with its extension replaced, which is where it was
OutputPath(p, extension) ==
  LET name == [Last(p) EXCEPT !.ext = extension] IN
  IF ArchiveOrigin(p) # {} THEN Append(Front(CHOOSE a \in ArchiveOrigin(p) : TRUE), name)
  ELSE [p EXCEPT ![Len(p)] = name]

InputNext ==
  \/ Validate \/ Delete \/ CollectFile \/ CollectDirectory \/ CollectNothing
  \/ OpenArchive \/ Skip \/ ExtractEntry \/ Extracted \/ Refuse \/ Drop
  \/ pc \in {"failed", "dropped"} /\ UNCHANGED inputVars

InputSpec == InputInit /\ [][InputNext]_inputVars

-----------------------------------------------------------------------------
\* While a collection is in use, every path that came out of an archive is a file
\* of a directory that still exists, that directory has exactly one origin, and the
\* result of processing the file goes to where its archive is, never to a directory
\* that is about to disappear.
ExtractedFilesUsable ==
  pc \in {"collect", "extract", "done"} =>
    \A i \in DOMAIN files :
      /\ \A r \in {Temp(k) : k \in 1..made} : IsPrefix(r, files[i]) =>
           r \in DOMAIN temps /\ files[i] \in temps[r] /\ Cardinality(ArchiveOrigin(files[i])) = 1
      /\ gone = {} => \E d \in Directories :
           IsPrefix(d, OutputDir(files[i])) /\ IsPrefix(d, OutputPath(files[i], "vtt"))

\* A finished or failed collection holds no temporary directory, and one in progress
\* holds those of its archives and of the archive being extracted.
NoDirectoryLeaks ==
  /\ pc \in {"failed", "dropped"} => temps = <<>>
  /\ pc \in {"collect", "done"} => DOMAIN temps = DOMAIN origins
  /\ pc = "extract" => DOMAIN temps = DOMAIN origins \cup {job.root}

\* A temporary directory lives exactly as long as somebody may use what is in it:
\* the paths a collection hands out never outlive it, and it outlives no collection.
DirectoriesOwned == ExtractedFilesUsable /\ NoDirectoryLeaks

\* The sizes at the positions of I, summed up to each position
Totals(es, I) ==
  LET total[k \in 0..Len(es)] ==
        IF k = 0 THEN 0 ELSE total[k - 1] + (IF k \in I THEN es[k].size ELSE 0)
  IN total

\* "Symlink and hardlink rejection" binds two of the four extractors; the other two
\* may let such links out.
LinkMayPass(a, e) == Format(a) = "Rar" \/ (Format(a) = "SevenZip" /\ e.kind = "symlink")

\* What an archive contributes by itself: all of its wanted files, and besides them
\* at most links that may pass, in their order and below one root, if all that is
\* extracted fits, and otherwise nothing.
Whole(a, found) ==
  LET es    == Entries[a]
      Kind(kinds) == {i \in DOMAIN es : es[i].kind \in kinds /\ ~es[i].escapes}
      links == {i \in Kind({"symlink", "reparse"}) : LinkMayPass(a, es[i])}
  IN \E passed \in SUBSET links :
       LET out    == Kind({"file"}) \cup passed
           wanted == {i \in out : Matches(es[i].path)}
       IN /\ Cardinality(out) <= MaxEntries
          /\ Totals(es, out)[Len(es)] <= MaxSize
          /\ \E k \in 1..made :
               found = [i \in 1..Cardinality(wanted) |-> Temp(k) \o es[Nth(wanted, i)].path]

\* An argument contributes what it would contribute alone, in the order of the
\* arguments: an archive that fails, wherever it fails, contributes nothing and
\* takes nothing from the others.
CollectionIsPerArgument ==
  /\ pc = "done" => files = FlattenSeq(log) /\ Len(log) = Len(handler.paths)
  /\ \A i \in DOMAIN log : LET a == handler.paths[i] IN
       (~handler.no_extract /\ Tree[a] = "file" /\ Format(a) # "none" /\ log[i] # <<>>)
         => Whole(a, log[i])
=============================================================================
