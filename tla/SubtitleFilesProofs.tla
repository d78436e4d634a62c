-------------------------- MODULE SubtitleFilesProofs --------------------------
(***************************************************************************)
(* TLAPS proofs about the files a command reads and writes.                *)
(*                                                                         *)
(* InputCollection, for every tree, every list of arguments and every      *)
(* content of the archives: temporary directories live exactly as long as  *)
(* somebody may use what is in them, and arguments contribute alone.       *)
(*                                                                         *)
(* Subtitles, for every set of files and every content of them: a batch    *)
(* writes what its inputs held when it began and a failing task changes    *)
(* nothing else, edits neither lose nor reorder cues, and a detected       *)
(* offset brings the cues to the speech of the first channel.              *)
(***************************************************************************)
EXTENDS InputCollection, Subtitles, SelectionProofs

-----------------------------------------------------------------------------
(* Paths.                                                                    *)

LEMMA PrefixFacts ==
  ASSUME NEW S, NEW s \in Seq(S), NEW t \in Seq(S)
  PROVE  IsPrefix(s, t) <=> Len(s) <= Len(t) /\ \A i \in 1..Len(s) : s[i] = t[i]
<1> DEFINE n == Len(s)
<1>1. n \in Nat /\ Len(t) \in Nat
  OBVIOUS
<1>2. SubSeq(s, 1, n) = s
  OBVIOUS
<1>3. CASE n <= Len(t)
  <2> DEFINE u == SubSeq(t, 1, n)
  <2>1. u \in Seq(S) /\ Len(u) = n /\ \A i \in 1..n : u[i] = t[i]
    BY <1>1, <1>3
  <2>2. IsPrefix(s, t) <=> s = u
    BY <1>2, <1>3 DEF IsPrefix
  <2> HIDE DEF u
  <2>3. s = u <=> \A i \in 1..n : s[i] = u[i]
    BY <2>1
  <2> QED
    BY <1>3, <2>1, <2>2, <2>3
<1>4. CASE ~(n <= Len(t))
  BY <1>4 DEF IsPrefix
<1> QED
  BY <1>3, <1>4

LEMMA FrontFacts ==
  ASSUME NEW S, NEW s \in Seq(S), s # <<>>
  PROVE  /\ Front(s) \in Seq(S) /\ Len(Front(s)) = Len(s) - 1
         /\ \A i \in 1..(Len(s) - 1) : Front(s)[i] = s[i]
<1> DEFINE n == Len(s) - 1
           u == SubSeq(s, 1, n)
<1>1. Len(s) \in Nat /\ n \in Nat /\ n <= Len(s)
  OBVIOUS
<1> HIDE DEF n
<1>2. u \in Seq(S) /\ Len(u) = n /\ \A i \in 1..n : u[i] = s[i]
  BY <1>1, SubSeqProperties
<1> HIDE DEF u
<1> QED
  BY <1>2 DEF u, n, Front

\* What is strictly below a directory has its parent in or below it.
LEMMA StrictlyBelow ==
  ASSUME NEW S, NEW s \in Seq(S), NEW t \in Seq(S), IsStrictPrefix(s, t)
  PROVE  IsPrefix(s, Front(t))
<1>1. Len(s) <= Len(t) /\ (\A i \in 1..Len(s) : s[i] = t[i]) /\ s # t
  BY PrefixFacts DEF IsStrictPrefix
<1>2. Len(s) # Len(t)
  BY <1>1
<1>3. Len(s) <= Len(t) - 1 /\ t # <<>> /\ Len(s) \in Nat /\ Len(t) \in Nat
  BY <1>1, <1>2
<1>4. /\ Front(t) \in Seq(S) /\ Len(Front(t)) = Len(t) - 1
      /\ \A i \in 1..(Len(t) - 1) : Front(t)[i] = t[i]
  BY <1>3, FrontFacts
<1>5. \A i \in 1..Len(s) : s[i] = Front(t)[i]
  BY <1>1, <1>3, <1>4
<1> QED
  BY <1>3, <1>4, <1>5, PrefixFacts

\* A directory that holds the parent of a path holds the path under any name.
LEMMA Renamed ==
  ASSUME NEW S, NEW d \in Seq(S), NEW p \in Seq(S), p # <<>>, IsPrefix(d, Front(p)), NEW n \in S
  PROVE  IsPrefix(d, [p EXCEPT ![Len(p)] = n])
<1> DEFINE q == [p EXCEPT ![Len(p)] = n]
<1>1. /\ Front(p) \in Seq(S) /\ Len(Front(p)) = Len(p) - 1
      /\ \A i \in 1..(Len(p) - 1) : Front(p)[i] = p[i]
  BY FrontFacts
<1>2. Len(d) <= Len(p) - 1 /\ \A i \in 1..Len(d) : d[i] = Front(p)[i]
  BY <1>1, PrefixFacts
<1>3. q \in Seq(S) /\ Len(q) = Len(p) /\ \A i \in 1..(Len(p) - 1) : q[i] = p[i]
  OBVIOUS
<1> HIDE DEF q
<1>4. Len(d) <= Len(q) /\ \A i \in 1..Len(d) : d[i] = q[i]
  BY SMTT(40), <1>1, <1>2, <1>3
<1>5. IsPrefix(d, q)
  BY <1>3, <1>4, PrefixFacts
<1> QED
  BY <1>5 DEF q

LEMMA Concatenated ==
  ASSUME NEW S, NEW s \in Seq(S), NEW t \in Seq(S)
  PROVE  s \o t \in Seq(S) /\ IsPrefix(s, s \o t)
<1>1. s \o t \in Seq(S) /\ Len(s) <= Len(s \o t) /\ \A i \in 1..Len(s) : s[i] = (s \o t)[i]
  OBVIOUS
<1> QED
  BY <1>1, PrefixFacts

LEMMA RootFacts ==
  ASSUME NEW k \in DOMAIN TempNames
  PROVE  Temp(k) \in Seq(Components) /\ Len(Temp(k)) = 2 /\ Temp(k)[2].stem = TempNames[k]
<1> DEFINE a == [stem |-> "tmp", ext |-> ""]
           b == [stem |-> TempNames[k], ext |-> ""]
<1>1. TempNames[k] \in STRING
  BY InputAssumption
<1>0. "tmp" \in STRING /\ "" \in STRING
  BY NamesAssumption
<1>2. a \in [stem : STRING, ext : STRING]
  BY <1>0, Zenon
<1>3. b \in [stem : STRING, ext : STRING]
  BY <1>0, <1>1, Zenon
<1>4. a \in Components /\ b \in Components /\ b.stem = TempNames[k]
  BY <1>2, <1>3 DEF Components
<1>5. Temp(k) = <<a, b>>
  BY DEF Temp
<1> HIDE DEF a, b
<1> QED
  BY <1>4, <1>5

\* No path is in two temporary directories.
LEMMA RootsApart ==
  ASSUME NEW j \in DOMAIN TempNames, NEW k \in DOMAIN TempNames, NEW p \in Seq(Components),
         IsPrefix(Temp(j), p), IsPrefix(Temp(k), p)
  PROVE  j = k
<1> DEFINE s == Temp(j)
           t == Temp(k)
<1>1. /\ s \in Seq(Components) /\ Len(s) = 2 /\ s[2].stem = TempNames[j]
      /\ t \in Seq(Components) /\ Len(t) = 2 /\ t[2].stem = TempNames[k]
      /\ IsPrefix(s, p) /\ IsPrefix(t, p)
  BY RootFacts
<1> HIDE DEF s, t
<1>2. IsPrefix(s, p) <=> Len(s) <= Len(p) /\ \A i \in 1..Len(s) : s[i] = p[i]
  BY <1>1, PrefixFacts
<1>3. IsPrefix(t, p) <=> Len(t) <= Len(p) /\ \A i \in 1..Len(t) : t[i] = p[i]
  BY <1>1, PrefixFacts
<1>4. TempNames[j] = TempNames[k]
  BY <1>1, <1>2, <1>3
<1> QED
  BY <1>4, InputAssumption DEF IsInjective

-----------------------------------------------------------------------------
(* The inductive invariant.                                                  *)

\* A path that was given or found below a directory that was given
Direct(p) ==
  /\ p \in DOMAIN Tree
  /\ \E a \in Range(handler.paths) \cap DOMAIN Tree :
       \/ Tree[a] = "file" /\ p = a
       \/ Tree[a] = "dir" /\ IsPrefix(a, Front(p))

\* A file of a directory that is kept for an archive
FromArchive(p) == \E r \in DOMAIN origins : p \in temps[r] /\ IsPrefix(r, p)

Accounted(p) == Direct(p) \/ FromArchive(p)

Roots == {Temp(k) : k \in 1..made}

\* Where the collection is
Progress ==
  /\ handler.paths \in Arguments
  /\ pc \in {"new", "collect", "extract", "done", "failed", "dropped"}
  /\ at \in 1..(Len(handler.paths) + 1) /\ made \in 0..Len(TempNames)
  /\ pc = "new" => at = 1 /\ made = 0
  /\ pc \in {"new", "collect"} => at <= Len(handler.paths) /\ made < at
  /\ pc = "extract" => at <= Len(handler.paths) /\ made \in 1..at

\* Every root that has an origin was made for an archive that was given.
OriginsOK ==
  /\ DOMAIN origins \subseteq Roots
  /\ \A r \in DOMAIN origins :
       /\ origins[r] \in Range(handler.paths) \cap DOMAIN Tree
       /\ Tree[origins[r]] = "file"
  /\ pc \in {"new", "failed", "dropped"} => DOMAIN origins = {} /\ DOMAIN temps = {}

JobOK ==
  pc = "extract" =>
    /\ DOMAIN job = {"archive", "root", "next", "entries", "size", "out"}
    /\ job.root = Temp(made) /\ job.root \notin DOMAIN origins
    /\ job.archive = Arg /\ Arg \in DOMAIN Tree /\ Tree[Arg] = "file" /\ Format(Arg) # "none"
    /\ job.next \in Nat \ {0}
    /\ job.out \in Seq(Seq(Components))
    /\ \A j \in DOMAIN job.out : job.out[j] \in temps[job.root] /\ IsPrefix(job.root, job.out[j])

FilesOK ==
  /\ files \in Seq(Seq(Components))
  /\ pc \in {"new", "failed", "dropped"} => files = <<>>
  /\ \A p \in Range(files) : Accounted(p)

InputInv == Progress /\ OriginsOK /\ JobOK /\ FilesOK /\ NoDirectoryLeaks


\* A command gets arguments, and as many directories as it needs have names.
LEMMA ArgumentFacts ==
  ASSUME Progress
  PROVE  /\ handler.paths \in Seq(Seq(Components)) /\ Len(handler.paths) \in Nat
         /\ DOMAIN handler.paths = 1..Len(handler.paths)
         /\ Len(handler.paths) <= Len(TempNames) /\ Len(TempNames) \in Nat
         /\ DOMAIN TempNames = 1..Len(TempNames)
         /\ at \in Nat /\ made \in Nat /\ made <= Len(TempNames)
         /\ at <= Len(handler.paths) => Arg \in Range(handler.paths) /\ Arg \in Seq(Components)
<1>1. handler.paths \in Seq(Seq(Components)) /\ Len(handler.paths) \in 1..Len(TempNames)
  BY InputAssumption DEF Progress
<1>2. TempNames \in Seq(STRING)
  BY InputAssumption
<1> DEFINE paths == handler.paths
<1>3. paths \in Seq(Seq(Components)) /\ Len(paths) \in 1..Len(TempNames)
      /\ at \in 1..(Len(paths) + 1) /\ made \in 0..Len(TempNames)
  BY <1>1 DEF Progress
<1> HIDE DEF paths
<1>4. Len(TempNames) \in Nat /\ DOMAIN TempNames = 1..Len(TempNames)
  BY <1>2
<1>5. Len(paths) \in Nat /\ DOMAIN paths = 1..Len(paths) /\ at \in Nat
  BY <1>3, <1>4
<1>6. at <= Len(paths) => at \in DOMAIN paths /\ paths[at] \in Seq(Components)
  BY <1>3, <1>5
<1>7. at <= Len(paths) => paths[at] \in Range(paths) /\ paths[at] \in Seq(Components)
  BY <1>6 DEF Range
<1> QED
  BY <1>3, <1>4, <1>5, <1>7 DEF paths, Arg

\* A file of the tree is in no temporary directory.
LEMMA TreeApart ==
  ASSUME Progress, NEW p \in DOMAIN Tree, NEW r \in Roots
  PROVE  ~IsPrefix(r, p)
<1>1. PICK k \in 1..made : r = Temp(k)
  BY DEF Roots
<1>2. k \in DOMAIN TempNames
  BY <1>1, ArgumentFacts
<1> QED
  BY <1>1, <1>2, InputAssumption

LEMMA SameRoot ==
  ASSUME Progress, NEW q \in Roots, NEW r \in Roots, NEW p \in Seq(Components),
         IsPrefix(q, p), IsPrefix(r, p)
  PROVE  q = r
<1>1. PICK j \in 1..made : q = Temp(j)
  BY DEF Roots
<1>2. PICK k \in 1..made : r = Temp(k)
  BY DEF Roots
<1>3. j \in DOMAIN TempNames /\ k \in DOMAIN TempNames
  BY <1>1, <1>2, ArgumentFacts
<1>4. j = k
  BY <1>1, <1>2, <1>3, RootsApart
<1> QED
  BY <1>1, <1>2, <1>4

-----------------------------------------------------------------------------
(* The invariant makes what is collected usable.                             *)

LEMMA NameFacts ==
  ASSUME NEW p \in Seq(Components), p # <<>>
  PROVE  [Last(p) EXCEPT !.ext = "vtt"] \in Components
<1>1. Last(p) \in Components
  <2>1. Len(p) \in 1..Len(p)
    OBVIOUS
  <2> QED
    BY <2>1 DEF Last
<1>2. "vtt" \in STRING
  BY NamesAssumption
<1> QED
  BY <1>1, <1>2 DEF Components

\* A file given or found: its directory was given, or is below one that was.
LEMMA DirectUsable ==
  ASSUME InputInv, NEW p, Direct(p)
  PROVE  /\ \A r \in Roots : ~IsPrefix(r, p)
         /\ gone = {} => \E d \in Directories :
              IsPrefix(d, OutputDir(p)) /\ IsPrefix(d, OutputPath(p, "vtt"))
<1>1. p \in DOMAIN Tree /\ p \in Seq(Components) /\ p # <<>>
  BY InputAssumption DEF Direct
<1>2. \A r \in Roots : ~IsPrefix(r, p)
  BY <1>1, TreeApart DEF InputInv
<1>3. ArchiveOrigin(p) = {}
  BY <1>2 DEF ArchiveOrigin, InputInv, OriginsOK
<1> DEFINE name == [Last(p) EXCEPT !.ext = "vtt"]
<1>4. OutputDir(p) = Front(p) /\ OutputPath(p, "vtt") = [p EXCEPT ![Len(p)] = name]
  BY <1>3 DEF OutputDir, OutputPath
<1>5. name \in Components
  BY <1>1, NameFacts
<1> HIDE DEF name
<1>6. ASSUME gone = {}
      PROVE  \E d \in Directories : IsPrefix(d, OutputDir(p)) /\ IsPrefix(d, OutputPath(p, "vtt"))
  <2>1. ASSUME NEW d \in Seq(Components), IsPrefix(d, Front(p))
        PROVE  IsPrefix(d, OutputDir(p)) /\ IsPrefix(d, OutputPath(p, "vtt"))
    BY <1>1, <1>4, <1>5, <2>1, Renamed
  <2>2. PICK a \in Range(handler.paths) \cap DOMAIN Tree :
           \/ Tree[a] = "file" /\ p = a
           \/ Tree[a] = "dir" /\ IsPrefix(a, Front(p))
    BY DEF Direct
  <2>3. There(a) /\ a \in Seq(Components)
    BY <1>6, InputAssumption DEF There
  <2>4. CASE Tree[a] = "file" /\ p = a
    <3>1. Front(p) \in Directories
      BY <2>2, <2>3, <2>4 DEF Directories, IsFile
    <3>2. Front(p) \in Seq(Components)
      BY <1>1, FrontFacts
    <3>3. IsPrefix(Front(p), Front(p))
      <4> DEFINE f == Front(p)
      <4> HIDE DEF f
      <4>1. f \in Seq(Components) => IsPrefix(f, f)
        BY PrefixFacts
      <4> QED
        BY <3>2, <4>1 DEF f
    <3> QED
      BY <2>1, <3>1, <3>2, <3>3
  <2>5. CASE Tree[a] = "dir" /\ IsPrefix(a, Front(p))
    <3>1. a \in Directories
      BY <2>2, <2>3, <2>5 DEF Directories, IsDir
    <3> QED
      BY <2>1, <2>3, <2>5, <3>1
  <2> QED
    BY <2>2, <2>4, <2>5
<1> QED
  BY <1>2, <1>6

\* A file out of an archive: its directory is kept, has the one origin, and what is
\* made of the file goes beside the archive.
LEMMA ArchivedUsable ==
  ASSUME InputInv, pc \in {"collect", "extract", "done"}, NEW p \in Seq(Components), FromArchive(p)
  PROVE  /\ \A r \in Roots : IsPrefix(r, p) =>
              r \in DOMAIN temps /\ p \in temps[r] /\ Cardinality(ArchiveOrigin(p)) = 1
         /\ gone = {} => \E d \in Directories :
              IsPrefix(d, OutputDir(p)) /\ IsPrefix(d, OutputPath(p, "vtt"))
<1>1. PICK r \in DOMAIN origins : p \in temps[r] /\ IsPrefix(r, p)
  BY DEF FromArchive
<1>2. r \in Roots /\ r \in DOMAIN temps
  BY DEF InputInv, OriginsOK, NoDirectoryLeaks
<1>3. \A q \in Roots : IsPrefix(q, p) => q = r
  BY <1>1, <1>2, SameRoot DEF InputInv
<1> DEFINE a == origins[r]
<1>4. ArchiveOrigin(p) = {a}
  BY <1>1, <1>3 DEF ArchiveOrigin, InputInv, OriginsOK
<1>5. a \in Range(handler.paths) /\ a \in DOMAIN Tree /\ Tree[a] = "file"
  BY DEF InputInv, OriginsOK
<1> HIDE DEF a
<1>6. Cardinality(ArchiveOrigin(p)) = 1
  BY <1>4, FS_Singleton
<1> DEFINE name == [Last(p) EXCEPT !.ext = "vtt"]
           d == Front(a)
<1>7. (CHOOSE b \in ArchiveOrigin(p) : TRUE) = a /\ ArchiveOrigin(p) # {}
  BY <1>4
<1>8. OutputDir(p) = d /\ OutputPath(p, "vtt") = Append(d, name)
  BY <1>7 DEF OutputDir, OutputPath
<1>9. p # <<>>
  <2>1. PICK k \in 1..made : r = Temp(k)
    BY <1>2 DEF Roots
  <2>2. k \in DOMAIN TempNames
    BY ArgumentFacts DEF InputInv
  <2>3. r \in Seq(Components) /\ Len(r) = 2
    BY <2>1, <2>2, RootFacts
  <2>4. Len(r) <= Len(p)
    BY <1>1, <2>3, PrefixFacts
  <2> QED
    BY <2>3, <2>4
<1>10. name \in Components
  BY <1>9, NameFacts
<1>11. a \in Seq(Components) /\ a # <<>>
  BY <1>5, InputAssumption
<1>12. d \in Seq(Components)
  BY <1>11, FrontFacts
<1> HIDE DEF name, d
<1>13. IsPrefix(d, d) /\ IsPrefix(d, Append(d, name))
  <2>1. Append(d, name) \in Seq(Components)
    BY <1>10, <1>12
  <2>2. Len(d) <= Len(Append(d, name)) /\ \A i \in 1..Len(d) : d[i] = Append(d, name)[i]
    BY <1>10, <1>12
  <2>3. IsPrefix(d, d)
    BY <1>12, PrefixFacts
  <2> DEFINE e == Append(d, name)
  <2> HIDE DEF e
  <2>4. e \in Seq(Components) /\ Len(d) <= Len(e) /\ \A i \in 1..Len(d) : d[i] = e[i]
    BY <2>1, <2>2 DEF e
  <2>5. IsPrefix(d, e)
    BY <1>12, <2>4, PrefixFacts
  <2> QED
    BY <2>3, <2>5 DEF e
<1>14. gone = {} => d \in Directories
  BY <1>5 DEF Directories, IsFile, There, d
<1> QED
  BY <1>1, <1>2, <1>3, <1>6, <1>8, <1>13, <1>14

LEMMA InvUsable ==
  ASSUME InputInv
  PROVE  DirectoriesOwned
<1>1. ASSUME pc \in {"collect", "extract", "done"}, NEW i \in DOMAIN files
      PROVE  /\ \A r \in Roots : IsPrefix(r, files[i]) =>
                  r \in DOMAIN temps /\ files[i] \in temps[r] /\ Cardinality(ArchiveOrigin(files[i])) = 1
             /\ gone = {} => \E d \in Directories :
                  IsPrefix(d, OutputDir(files[i])) /\ IsPrefix(d, OutputPath(files[i], "vtt"))
  <2> DEFINE p == files[i]
  <2>1. p \in Seq(Components) /\ (Direct(p) \/ FromArchive(p))
    BY <1>1 DEF InputInv, FilesOK, Accounted, Range
  <2> HIDE DEF p
  <2>2. CASE Direct(p)
    BY <2>2, DirectUsable DEF p
  <2>3. CASE FromArchive(p)
    BY <1>1, <2>1, <2>3, ArchivedUsable DEF p
  <2> QED
    BY <2>1, <2>2, <2>3
<1>2. ExtractedFilesUsable
  BY <1>1 DEF ExtractedFilesUsable, Roots
<1> QED
  BY <1>2 DEF DirectoriesOwned, InputInv

-----------------------------------------------------------------------------
(* The invariant is inductive: what several steps have in common.            *)

LEMMA InitInv ==
  InputInit => InputInv
<1> SUFFICES ASSUME InputInit PROVE InputInv
  OBVIOUS
<1>1. handler.paths \in Arguments
  BY DEF InputInit
<1>2. Len(handler.paths) \in 1..Len(TempNames) /\ Len(TempNames) \in Nat
  BY <1>1, InputAssumption
<1>3. Progress
  BY <1>1, <1>2 DEF InputInit, Progress
<1>4. OriginsOK /\ JobOK
  BY DEF InputInit, OriginsOK, JobOK
<1>5. FilesOK /\ NoDirectoryLeaks
  BY DEF InputInit, FilesOK, NoDirectoryLeaks, Range
<1> QED
  BY <1>3, <1>4, <1>5 DEF InputInv

\* What is accounted for stays so while the directories that are kept keep their
\* files.
LEMMA StaysAccounted ==
  ASSUME handler' = handler, DOMAIN origins \subseteq DOMAIN origins',
         \A r \in DOMAIN origins : temps[r] \subseteq temps'[r],
         NEW p, Accounted(p)
  PROVE  Accounted(p)'
<1>1. Direct(p) => Direct(p)'
  BY DEF Direct
<1>2. FromArchive(p) => FromArchive(p)'
  BY DEF FromArchive
<1> QED
  BY <1>1, <1>2 DEF Accounted

\* Files are added and the next argument is due.
LEMMA Contributed ==
  ASSUME InputInv, pc \in {"collect", "extract"}, handler' = handler, made' = made,
         NEW found \in Seq(Seq(Components)), Contribute(found),
         \A p \in Range(found) : Accounted(p)',
         \A p : Accounted(p) => Accounted(p)'
  PROVE  Progress' /\ FilesOK' /\ pc' \in {"collect", "done"}
<1>1. Progress'
  <2>1. /\ at \in Nat /\ made \in Nat /\ Len(handler.paths) \in Nat /\ Len(TempNames) \in Nat
        /\ Len(handler.paths) <= Len(TempNames)
    BY ArgumentFacts DEF InputInv
  <2>2. at \in 1..Len(handler.paths) /\ made <= at /\ handler.paths \in Arguments
        /\ made \in 0..Len(TempNames)
    BY <2>1 DEF InputInv, Progress
  <2>3. at' = at + 1 /\ pc' = IF at = Len(handler.paths) THEN "done" ELSE "collect"
    BY DEF Contribute
  <2> DEFINE n == Len(handler.paths)
  <2>4. n' = n
    OBVIOUS
  <2>5. at' \in 1..(n + 1) /\ made < at'
    BY <2>1, <2>2, <2>3
  <2>6. pc' = "collect" => at' <= n
    BY <2>1, <2>2, <2>3
  <2> QED
    BY <2>2, <2>3, <2>4, <2>5, <2>6 DEF Progress
<1>2. files' \in Seq(Seq(Components)) /\ \A p \in Range(files') : Accounted(p)'
  <2>1. files \in Seq(Seq(Components)) /\ \A p \in Range(files) : Accounted(p)'
    BY DEF InputInv, FilesOK
  <2>2. files' = files \o found
    BY DEF Contribute
  <2>3. ASSUME NEW p \in Range(files')
        PROVE  Accounted(p)'
    <3>1. PICK i \in DOMAIN files' : p = files'[i]
      BY DEF Range
    <3>2. \/ i \in DOMAIN files /\ p = files[i]
          \/ \E k \in DOMAIN found : p = found[k]
      BY <2>1, <2>2, <3>1
    <3>3. p \in Range(files) \/ p \in Range(found)
      BY <3>2 DEF Range
    <3> QED
      BY <2>1, <3>3
  <2>4. files' \in Seq(Seq(Components))
    BY <2>1, <2>2
  <2> QED
    BY <2>3, <2>4
<1>3. FilesOK'
  BY <1>2 DEF FilesOK, Contribute
<1>4. pc' \in {"collect", "done"}
  BY DEF Contribute
<1> QED
  BY <1>1, <1>3, <1>4

\* The collection fails with nothing left behind.
LEMMA Aborted ==
  ASSUME InputInv, pc = "collect", handler' = handler, made' = made, Abort
  PROVE  InputInv'
<1>1. pc' = "failed" /\ files' = <<>> /\ temps' = <<>> /\ origins' = <<>> /\ at' = at
  BY DEF Abort
<1>2. Progress'
  BY <1>1 DEF InputInv, Progress
<1>3. OriginsOK' /\ JobOK'
  BY <1>1 DEF OriginsOK, JobOK
<1>4. FilesOK' /\ NoDirectoryLeaks'
  BY <1>1 DEF FilesOK, NoDirectoryLeaks, Range
<1> QED
  BY <1>2, <1>3, <1>4 DEF InputInv

\* A step that leaves the directories alone and hands out files of the tree
LEMMA FoundInTree ==
  ASSUME InputInv, pc = "collect", UNCHANGED <<handler, made, temps, origins>>,
         NEW found \in Seq(Seq(Components)), Contribute(found), \A p \in Range(found) : Direct(p)
  PROVE  InputInv'
<1>1. \A p : Accounted(p) => Accounted(p)'
  BY StaysAccounted
<1>2. \A p \in Range(found) : Accounted(p)'
  BY <1>1 DEF Accounted
<1>3. Progress' /\ FilesOK' /\ pc' \in {"collect", "done"}
  BY <1>1, <1>2, Contributed
<1>4. OriginsOK' /\ JobOK' /\ NoDirectoryLeaks'
  BY <1>3 DEF InputInv, OriginsOK, Roots, JobOK, NoDirectoryLeaks
<1> QED
  BY <1>3, <1>4 DEF InputInv

-----------------------------------------------------------------------------
(* One lemma per step.                                                       *)

LEMMA ValidateInv ==
  ASSUME InputInv, Validate
  PROVE  InputInv'
<1>0. pc = "new" /\ pc' \in {"collect", "failed"}
      /\ UNCHANGED <<handler, at, files, temps, origins, made, job, gone, log>>
  BY DEF Validate
<1>1. Progress'
  BY <1>0 DEF InputInv, Progress
<1>2. OriginsOK' /\ JobOK'
  BY <1>0 DEF InputInv, OriginsOK, Roots, JobOK
<1>3. FilesOK'
  BY <1>0 DEF InputInv, FilesOK, Range
<1>4. NoDirectoryLeaks'
  BY <1>0 DEF InputInv, NoDirectoryLeaks, OriginsOK
<1> QED
  BY <1>1, <1>2, <1>3, <1>4 DEF InputInv

LEMMA DeleteInv ==
  ASSUME InputInv, Delete
  PROVE  InputInv'
<1>0. UNCHANGED <<handler, pc, at, files, temps, origins, made, job, log>>
  BY DEF Delete
<1>1. Progress' /\ OriginsOK' /\ JobOK' /\ NoDirectoryLeaks'
  BY <1>0 DEF InputInv, Progress, OriginsOK, Roots, JobOK, Arg, NoDirectoryLeaks
<1>2. \A p : Accounted(p) => Accounted(p)'
  BY <1>0, StaysAccounted
<1>3. FilesOK'
  BY <1>0, <1>2 DEF InputInv, FilesOK
<1> QED
  BY <1>1, <1>3 DEF InputInv

LEMMA CollectFileInv ==
  ASSUME InputInv, CollectFile
  PROVE  InputInv'
<1> PICK a : a = Arg
  OBVIOUS
<1>1. a \in Range(handler.paths) /\ a \in Seq(Components)
  BY ArgumentFacts DEF CollectFile, InputInv, Progress
<1>2. a \in DOMAIN Tree /\ Tree[a] = "file"
  BY DEF CollectFile, IsFile, There
<1>3. Direct(a)
  BY <1>1, <1>2 DEF Direct
<1>4. PICK found : found = IF Matches(a) THEN <<a>> ELSE <<>>
  OBVIOUS
<1>5. found \in Seq(Seq(Components)) /\ \A p \in Range(found) : p = a
  BY <1>1, <1>4 DEF Range
<1>6. Contribute(found) /\ pc = "collect" /\ UNCHANGED <<handler, temps, origins, made>>
  BY <1>4 DEF CollectFile
<1> QED
  BY <1>3, <1>5, <1>6, FoundInTree

LEMMA CollectDirectoryInv ==
  ASSUME InputInv, CollectDirectory
  PROVE  InputInv'
<1> PICK a : a = Arg
  OBVIOUS
<1>0. pc = "collect" /\ UNCHANGED <<handler, made>>
  BY DEF CollectDirectory
<1>1. a \in Range(handler.paths) /\ a \in Seq(Components)
  BY ArgumentFacts DEF CollectDirectory, InputInv, Progress
<1>2. a \in DOMAIN Tree /\ Tree[a] = "dir"
  BY DEF CollectDirectory, IsDir, There
<1>3. CASE Abort
  BY <1>0, <1>3, Aborted
<1>4. CASE Contribute(SetToSeq(Scanned(a))) /\ UNCHANGED <<temps, origins>>
  <2> PICK S : S = Scanned(a)
    OBVIOUS
  <2>1. ASSUME NEW p \in S
        PROVE  p \in Seq(Components) /\ Direct(p)
    <3>1. p \in DOMAIN Tree /\ p \in Seq(Components) /\ p # <<>>
      BY InputAssumption DEF Scanned
    <3>2. IsStrictPrefix(a, p) \/ Front(p) = a
      BY DEF Scanned
    <3>3. IsPrefix(a, a)
      BY <1>1, PrefixFacts
    <3>4. IsPrefix(a, Front(p))
      BY <1>1, <3>1, <3>2, <3>3, StrictlyBelow
    <3> QED
      BY <1>1, <1>2, <3>1, <3>4 DEF Direct
  <2>2. IsFiniteSet(S)
    <3>1. S \in SUBSET DOMAIN Tree
      BY DEF Scanned
    <3> QED
      BY <3>1, InputAssumption, FS_Subset
  <2>3. PICK found : found = SetToSeq(S)
    OBVIOUS
  <2>4. found \in Seq(S)
    BY <2>2, <2>3, SetToSeqFacts
  <2>5. found \in Seq(Seq(Components)) /\ \A p \in Range(found) : Direct(p)
    <3>1. DOMAIN found = 1..Len(found) /\ Len(found) \in Nat /\ \A i \in DOMAIN found : found[i] \in S
      BY <2>4
    <3>2. \A i \in 1..Len(found) : found[i] \in Seq(Components)
      BY <2>1, <3>1
    <3>3. found \in [1..Len(found) -> Seq(Components)]
      BY <2>4, <3>1, <3>2
    <3>4. found \in Seq(Seq(Components))
      BY <3>1, <3>3
    <3> QED
      BY <2>1, <3>1, <3>4 DEF Range
  <2>6. Contribute(found) /\ UNCHANGED <<handler, temps, origins, made>>
    BY <1>0, <1>4, <2>3
  <2> QED
    BY <1>0, <2>5, <2>6, FoundInTree
<1> QED
  BY <1>3, <1>4 DEF CollectDirectory

LEMMA CollectNothingInv ==
  ASSUME InputInv, CollectNothing
  PROVE  InputInv'
BY Aborted DEF CollectNothing

\* The new directory is none of those that are kept.
LEMMA OpenArchiveInv ==
  ASSUME InputInv, OpenArchive
  PROVE  InputInv'
<1> PICK a : a = Arg
  OBVIOUS
<1> PICK k : k = made + 1
  OBVIOUS
<1> PICK root : root = Temp(k)
  OBVIOUS
<1>0. /\ pc = "collect" /\ pc' = "extract" /\ made' = k
      /\ temps' = [r \in DOMAIN temps \cup {root} |-> IF r = root THEN {} ELSE temps[r]]
      /\ job' = [archive |-> a, root |-> root, next |-> 1, entries |-> 0, size |-> 0, out |-> <<>>]
      /\ UNCHANGED <<handler, at, files, origins, gone, log>>
  BY DEF OpenArchive
<1>1. a \in DOMAIN Tree /\ Tree[a] = "file" /\ Format(a) # "none"
  BY DEF OpenArchive, IsFile, There
<1>2. made \in Nat /\ k \in Nat /\ at \in Nat /\ Len(TempNames) \in Nat /\ k <= at
      /\ at <= Len(handler.paths) /\ Len(handler.paths) <= Len(TempNames) /\ Len(handler.paths) \in Nat
      /\ k \in DOMAIN TempNames /\ \A j \in 1..made : j \in DOMAIN TempNames
  <2>1. /\ Len(handler.paths) \in Nat /\ Len(handler.paths) <= Len(TempNames) /\ Len(TempNames) \in Nat
        /\ DOMAIN TempNames = 1..Len(TempNames) /\ at \in Nat /\ made \in Nat
    BY ArgumentFacts DEF InputInv
  <2>2. at <= Len(handler.paths) /\ made < at
    BY <1>0 DEF InputInv, Progress
  <2> QED
    BY <2>1, <2>2
<1>3. Progress'
  <2>1. handler'.paths = handler.paths
    BY <1>0
  <2> QED
    BY <1>0, <1>2, <2>1 DEF InputInv, Progress
<1>4. root \notin DOMAIN origins
  <2>1. ASSUME NEW j \in 1..made PROVE Temp(j) # root
    <3>1. j # k /\ j \in DOMAIN TempNames
      BY <1>2
    <3>2. Temp(j)[2].stem = TempNames[j] /\ root[2].stem = TempNames[k]
      BY <1>2, <3>1, RootFacts
    <3>3. TempNames[j] # TempNames[k]
      BY <1>2, <3>1, InputAssumption DEF IsInjective
    <3> QED
      BY <3>2, <3>3
  <2> QED
    BY <2>1 DEF InputInv, OriginsOK, Roots
<1>5. OriginsOK'
  <2>1. Roots \subseteq Roots'
    <3>1. \A j \in 1..made : j \in 1..made'
      BY <1>0, <1>2
    <3> QED
      BY <3>1 DEF Roots
  <2> QED
    BY <1>0, <2>1 DEF InputInv, OriginsOK
<1>6. JobOK'
  <2>1. Arg' = a
    BY <1>0 DEF Arg
  <2>2. /\ job'.archive = a /\ job'.root = root /\ job'.next = 1 /\ job'.out = <<>>
        /\ job'.entries = 0 /\ job'.size = 0
    BY <1>0
  <2>3. root = Temp(made')
    BY <1>0
  <2>4. DOMAIN job' = {"archive", "root", "next", "entries", "size", "out"}
    BY <1>0
  <2>5. <<>> \in Seq(Seq(Components)) /\ DOMAIN <<>> = {}
    OBVIOUS
  <2> QED
    BY <1>0, <1>1, <1>4, <2>1, <2>2, <2>3, <2>4, <2>5 DEF JobOK
<1>7. NoDirectoryLeaks'
  BY <1>0 DEF InputInv, NoDirectoryLeaks
<1>8. FilesOK'
  <2>1. \A r \in DOMAIN origins : temps[r] \subseteq temps'[r]
    BY <1>0, <1>4 DEF InputInv, NoDirectoryLeaks
  <2>2. \A p : Accounted(p) => Accounted(p)'
    BY <1>0, <2>1, StaysAccounted
  <2> QED
    BY <1>0, <2>2 DEF InputInv, FilesOK
<1> QED
  BY <1>3, <1>5, <1>6, <1>7, <1>8 DEF InputInv

\* The entry that is due
LEMMA EntryFacts ==
  ASSUME InputInv, pc = "extract"
  PROVE  /\ Entries[job.archive] \in Seq(EntryRecords)
         /\ job.next <= Len(Entries[job.archive]) => Current \in EntryRecords
         /\ job.root \in Seq(Components)
<1>1. job.archive \in DOMAIN Entries
  BY InputAssumption DEF InputInv, JobOK
<1>2. Entries[job.archive] \in Seq(EntryRecords)
  BY <1>1, InputAssumption
<1> DEFINE es == Entries[job.archive]
           n == job.next
<1>3. es \in Seq(EntryRecords) /\ n \in Nat \ {0}
  BY <1>2 DEF InputInv, JobOK
<1> HIDE DEF es, n
<1>4. n <= Len(es) => es[n] \in EntryRecords
  BY <1>3
<1>5. job.root = Temp(made) /\ made \in DOMAIN TempNames
  <2>1. job.root = Temp(made)
    BY DEF InputInv, JobOK
  <2>2. /\ made \in Nat /\ made <= Len(TempNames) /\ DOMAIN TempNames = 1..Len(TempNames)
        /\ Len(TempNames) \in Nat
    BY ArgumentFacts DEF InputInv
  <2>3. made # 0
    BY <2>2 DEF InputInv, Progress
  <2> QED
    BY <2>1, <2>2, <2>3
<1>6. job.root \in Seq(Components)
  BY <1>5, RootFacts
<1> QED
  BY <1>2, <1>4, <1>6 DEF es, n, Current

LEMMA SkipInv ==
  ASSUME InputInv, Skip
  PROVE  InputInv'
<1>0. pc = "extract" /\ UNCHANGED <<handler, pc, at, files, temps, origins, made, gone, log>>
  BY DEF Skip
<1>1. /\ job'.archive = job.archive /\ job'.root = job.root /\ job'.next = job.next + 1
      /\ job'.out = job.out /\ DOMAIN job' = DOMAIN job
  <2>1. DOMAIN job = {"archive", "root", "next", "entries", "size", "out"}
    BY <1>0 DEF InputInv, JobOK
  <2>2. CASE job' = [job EXCEPT !.next = @ + 1]
    BY <2>1, <2>2
  <2>3. CASE job' = [job EXCEPT !.next = @ + 1, !.entries = @ + 1, !.size = @ + Current.size]
    BY <2>1, <2>3
  <2> QED
    BY <2>2, <2>3 DEF Skip
<1>2. JobOK'
  <2>1. job'.next \in Nat \ {0}
    BY <1>0, <1>1 DEF InputInv, JobOK
  <2>2. Arg' = Arg
    BY <1>0 DEF Arg
  <2> QED
    BY <1>0, <1>1, <2>1, <2>2 DEF InputInv, JobOK
<1>3. Progress' /\ OriginsOK'
  BY <1>0 DEF InputInv, Progress, OriginsOK, Roots
<1>4. NoDirectoryLeaks'
  <2>1. job'.root = job.root
    BY <1>1
  <2> QED
    BY <1>0, <2>1 DEF InputInv, NoDirectoryLeaks
<1>5. FilesOK'
  <2>1. \A p : Accounted(p) => Accounted(p)'
    BY <1>0, StaysAccounted
  <2> QED
    BY <1>0, <2>1 DEF InputInv, FilesOK
<1> QED
  BY <1>2, <1>3, <1>4, <1>5 DEF InputInv

\* The file is written below the root of the archive.
LEMMA ExtractEntryInv ==
  ASSUME InputInv, ExtractEntry
  PROVE  InputInv'
<1> PICK t : t = EntryTarget(Current)
  OBVIOUS
<1> PICK root : root = job.root
  OBVIOUS
<1> PICK out : out = job.out
  OBVIOUS
<1>0. /\ pc = "extract" /\ job.next <= Len(Entries[job.archive])
      /\ temps' = [temps EXCEPT ![root] = @ \cup {t}]
      /\ job' = [job EXCEPT !.next = @ + 1, !.entries = @ + 1, !.size = @ + Current.size,
                            !.out = Append(@, t)]
      /\ UNCHANGED <<handler, pc, at, files, origins, made, gone, log>>
  BY DEF ExtractEntry
<1>1. t \in Seq(Components) /\ IsPrefix(root, t)
  <2>1. root \in Seq(Components) /\ Current.path \in Seq(Components)
    BY <1>0, EntryFacts DEF EntryRecords
  <2>2. t = root \o Current.path
    BY DEF EntryTarget
  <2> QED
    BY <2>1, <2>2, Concatenated
<1>2. /\ DOMAIN job = {"archive", "root", "next", "entries", "size", "out"}
      /\ job.next \in Nat \ {0} /\ root \notin DOMAIN origins
      /\ out \in Seq(Seq(Components))
      /\ \A j \in DOMAIN out : out[j] \in temps[root] /\ IsPrefix(root, out[j])
  BY <1>0 DEF InputInv, JobOK
<1>3. root \in DOMAIN temps /\ DOMAIN temps' = DOMAIN temps
  BY <1>0 DEF InputInv, NoDirectoryLeaks
<1>4. temps'[root] = temps[root] \cup {t} /\ \A r \in DOMAIN temps : temps[r] \subseteq temps'[r]
  BY <1>0, <1>3
<1>5. /\ job'.archive = job.archive /\ job'.root = root /\ job'.next = job.next + 1
      /\ job'.out = Append(out, t) /\ DOMAIN job' = DOMAIN job
  BY <1>0, <1>2
<1>6. JobOK'
  <2>1. root = Temp(made)
    BY <1>0 DEF InputInv, JobOK
  <2>2. job'.next \in Nat \ {0}
    BY <1>2, <1>5
  <2>3. Arg' = Arg
    BY <1>0 DEF Arg
  <2>4. PICK more : more = Append(out, t)
    OBVIOUS
  <2>5. /\ more \in Seq(Seq(Components))
        /\ \A j \in DOMAIN more : more[j] = t \/ \E k \in DOMAIN out : more[j] = out[k]
    BY <1>1, <1>2, <2>4
  <2>6. \A j \in DOMAIN more : more[j] \in temps'[root] /\ IsPrefix(root, more[j])
    BY <1>1, <1>2, <1>4, <2>5
  <2> QED
    BY <1>0, <1>2, <1>5, <2>1, <2>2, <2>3, <2>4, <2>5, <2>6 DEF InputInv, JobOK
<1>7. Progress' /\ OriginsOK'
  BY <1>0, <1>3 DEF InputInv, Progress, OriginsOK, Roots
<1>8. NoDirectoryLeaks'
  BY <1>0, <1>3, <1>5 DEF InputInv, NoDirectoryLeaks
<1>9. FilesOK'
  <2>1. \A r \in DOMAIN origins : temps[r] \subseteq temps'[r]
    BY <1>0, <1>4 DEF InputInv, NoDirectoryLeaks
  <2>2. \A p : Accounted(p) => Accounted(p)'
    BY <1>0, <2>1, StaysAccounted
  <2> QED
    BY <1>0, <2>2 DEF InputInv, FilesOK
<1> QED
  BY <1>6, <1>7, <1>8, <1>9 DEF InputInv

\* The directory gets its origin, and what is handed out is in it.
LEMMA ExtractedInv ==
  ASSUME InputInv, Extracted
  PROVE  InputInv'
<1> PICK root : root = job.root
  OBVIOUS
<1> PICK a : a = job.archive
  OBVIOUS
<1> PICK out : out = job.out
  OBVIOUS
<1> PICK I : I = {i \in DOMAIN out : Matches(out[i])}
  OBVIOUS
<1> PICK found : found = Picked(out, I)
  OBVIOUS
<1>0. /\ pc = "extract"
      /\ origins' = [r \in DOMAIN origins \cup {root} |-> IF r = root THEN a ELSE origins[r]]
      /\ Contribute(found)
      /\ UNCHANGED <<handler, temps, made, gone>>
  BY DEF Extracted
<1>1. /\ root = Temp(made) /\ root \notin DOMAIN origins
      /\ a = Arg /\ a \in DOMAIN Tree /\ Tree[a] = "file"
      /\ out \in Seq(Seq(Components))
      /\ \A j \in DOMAIN out : out[j] \in temps[root] /\ IsPrefix(root, out[j])
  BY <1>0 DEF InputInv, JobOK
<1>2. a \in Range(handler.paths)
  BY <1>0, <1>1, ArgumentFacts DEF InputInv, Progress
<1>3. root \in Roots
  <2>1. made \in Nat /\ made # 0
    BY <1>0, ArgumentFacts DEF InputInv, Progress
  <2>2. made \in 1..made
    BY <2>1
  <2> QED
    BY <1>1, <2>2 DEF Roots
<1>4. /\ DOMAIN origins' = DOMAIN origins \cup {root} /\ origins'[root] = a
      /\ \A r \in DOMAIN origins : origins'[r] = origins[r]
  BY <1>0, <1>1
<1>5. \A p : Accounted(p) => Accounted(p)'
  BY <1>0, <1>4, StaysAccounted
<1>6. found \in Seq(Seq(Components)) /\ \A p \in Range(found) : \E j \in DOMAIN out : p = out[j]
  <2>1. I \subseteq DOMAIN out
    OBVIOUS
  <2>2. found \in Seq(Seq(Components)) /\ Range(found) \subseteq Range(out)
    BY <1>1, <2>1, PickedType
  <2>3. \A p \in Range(out) : \E j \in DOMAIN out : p = out[j]
    BY DEF Range
  <2> QED
    BY <2>2, <2>3
<1>7. \A p \in Range(found) : Accounted(p)'
  <2>1. ASSUME NEW p \in Range(found)
        PROVE  FromArchive(p)'
    <3>1. p \in temps[root] /\ IsPrefix(root, p)
      BY <1>1, <1>6
    <3> QED
      BY <1>0, <1>4, <3>1 DEF FromArchive
  <2> QED
    BY <2>1 DEF Accounted
<1>8. Progress' /\ FilesOK' /\ pc' \in {"collect", "done"}
  BY <1>0, <1>5, <1>6, <1>7, Contributed
<1>9. OriginsOK'
  BY <1>0, <1>1, <1>2, <1>3, <1>4, <1>8 DEF InputInv, OriginsOK, Roots
<1>10. JobOK'
  BY <1>8 DEF JobOK
<1>11. NoDirectoryLeaks'
  BY <1>0, <1>4, <1>8 DEF InputInv, NoDirectoryLeaks
<1> QED
  BY <1>8, <1>9, <1>10, <1>11 DEF InputInv

\* Only the directory of the refused archive is removed.
LEMMA RefuseInv ==
  ASSUME InputInv, Refuse
  PROVE  InputInv'
<1> PICK root : root = job.root
  OBVIOUS
<1>0. /\ pc = "extract" /\ Contribute(<<>>)
      /\ temps' = [r \in DOMAIN temps \ {root} |-> temps[r]]
      /\ UNCHANGED <<handler, origins, made, gone>>
  BY DEF Refuse
<1>1. DOMAIN temps = DOMAIN origins \cup {root} /\ root \notin DOMAIN origins
  BY <1>0 DEF InputInv, JobOK, NoDirectoryLeaks
<1>2. DOMAIN temps' = DOMAIN origins /\ \A r \in DOMAIN origins : temps'[r] = temps[r]
  BY <1>0, <1>1
<1>3. \A p : Accounted(p) => Accounted(p)'
  BY <1>0, <1>2, StaysAccounted
<1>4. <<>> \in Seq(Seq(Components)) /\ Range(<<>>) = {}
  BY DEF Range
<1>5. Progress' /\ FilesOK' /\ pc' \in {"collect", "done"}
  BY <1>0, <1>3, <1>4, Contributed
<1>6. OriginsOK' /\ JobOK'
  BY <1>0, <1>5 DEF InputInv, OriginsOK, Roots, JobOK
<1>7. NoDirectoryLeaks'
  BY <1>0, <1>2, <1>5 DEF NoDirectoryLeaks
<1> QED
  BY <1>5, <1>6, <1>7 DEF InputInv

LEMMA DropInv ==
  ASSUME InputInv, Drop
  PROVE  InputInv'
<1>0. /\ pc' = "dropped" /\ files' = <<>> /\ temps' = <<>> /\ origins' = <<>>
      /\ UNCHANGED <<handler, at, made, job, gone, log>>
  BY DEF Drop
<1>1. Progress'
  BY <1>0 DEF InputInv, Progress
<1>2. OriginsOK' /\ JobOK'
  BY <1>0 DEF OriginsOK, JobOK
<1>3. FilesOK' /\ NoDirectoryLeaks'
  BY <1>0 DEF FilesOK, NoDirectoryLeaks, Range
<1> QED
  BY <1>1, <1>2, <1>3 DEF InputInv

LEMMA StutterInv ==
  ASSUME InputInv, UNCHANGED inputVars
  PROVE  InputInv'
<1>0. UNCHANGED <<handler, pc, at, files, temps, origins, made, job, log>>
  BY DEF inputVars
<1>1. Progress' /\ OriginsOK' /\ JobOK' /\ NoDirectoryLeaks'
  BY <1>0 DEF InputInv, Progress, OriginsOK, Roots, JobOK, Arg, NoDirectoryLeaks
<1>2. \A p : Accounted(p) => Accounted(p)'
  BY <1>0, StaysAccounted
<1>3. FilesOK'
  BY <1>0, <1>2 DEF InputInv, FilesOK
<1> QED
  BY <1>1, <1>3 DEF InputInv

LEMMA StepInv ==
  InputInv /\ [InputNext]_inputVars => InputInv'
<1> SUFFICES ASSUME InputInv, [InputNext]_inputVars PROVE InputInv'
  OBVIOUS
<1>1. CASE InputNext
  BY <1>1, ValidateInv, DeleteInv, CollectFileInv, CollectDirectoryInv, CollectNothingInv,
     OpenArchiveInv, SkipInv, ExtractEntryInv, ExtractedInv, RefuseInv, DropInv, StutterInv
     DEF InputNext
<1>2. CASE UNCHANGED inputVars
  BY <1>2, StutterInv
<1> QED
  BY <1>1, <1>2

THEOREM CollectionInvariant == InputSpec => []InputInv
<1> QED
  BY InitInv, StepInv, PTL DEF InputSpec

\* Whatever the arguments are, whatever the archives hold and whatever fails: a path
\* that came out of an archive is a file of a directory that still exists and has
\* one origin, its output goes beside its archive, and a collection that failed or
\* was dropped has no directory left.
THEOREM DirectoriesAreOwned == InputSpec => []DirectoriesOwned
<1>1. InputInv => DirectoriesOwned
  BY InvUsable
<1> QED
  BY <1>1, CollectionInvariant, PTL

-----------------------------------------------------------------------------
(* Sums along a sequence.                                                    *)

\* Running sums exist, so Totals is what its equations say.
LEMMA TotalsFacts ==
  ASSUME NEW es \in Seq(EntryRecords), NEW I
  PROVE  /\ Totals(es, I)[0] = 0
         /\ \A k \in 1..Len(es) :
              Totals(es, I)[k] = Totals(es, I)[k - 1] + (IF k \in I THEN es[k].size ELSE 0)
<1> DEFINE w(k) == IF k \in I THEN es[k].size ELSE 0
           n == Len(es)
           Sums(m, f) == /\ DOMAIN f = 0..m /\ f[0] = 0
                         /\ \A k \in 1..m : f[k] = f[k - 1] + w(k)
           T == {m \in 0..n : ~\E f : Sums(m, f)}
<1>1. n \in Nat
  OBVIOUS
<1> HIDE DEF w, n
<1>2. T = {}
  <2> SUFFICES ASSUME T # {} PROVE FALSE
    OBVIOUS
  <2>1. T \subseteq Nat
    BY <1>1
  <2>2. PICK m \in T : \A k \in T : m <= k
    BY <2>1, Least
  <2>3. m \in 0..n /\ ~\E f : Sums(m, f)
    OBVIOUS
  <2>4. CASE m = 0
    <3> DEFINE f == [k \in 0..0 |-> 0]
    <3>1. DOMAIN f = 0..0 /\ f[0] = 0
      OBVIOUS
    <3>2. Sums(0, f)
      BY <3>1
    <3> QED
      BY <2>3, <2>4, <3>2
  <2>5. CASE m # 0
    <3>1. m - 1 \in 0..n /\ m - 1 \notin T /\ m \in Nat
      BY <1>1, <2>2, <2>3, <2>5
    <3>2. PICK f : Sums(m - 1, f)
      BY <3>1
    <3> DEFINE g == [k \in 0..m |-> IF k = m THEN f[m - 1] + w(m) ELSE f[k]]
    <3>3. DOMAIN g = 0..m /\ g[m] = f[m - 1] + w(m) /\ \A k \in 0..(m - 1) : g[k] = f[k]
      BY <3>1
    <3> HIDE DEF g
    <3>4. \A k \in 1..m : g[k] = g[k - 1] + w(k)
      <4> SUFFICES ASSUME NEW k \in 1..m PROVE g[k] = g[k - 1] + w(k)
        OBVIOUS
      <4>1. k - 1 \in 0..(m - 1) /\ (k # m => k \in 1..(m - 1) /\ k \in 0..(m - 1))
        BY <3>1
      <4>2. g[k - 1] = f[k - 1]
        BY <3>3, <4>1
      <4>3. CASE k = m
        BY <3>3, <4>2, <4>3
      <4>4. CASE k # m
        BY <3>2, <3>3, <4>1, <4>2, <4>4
      <4> QED
        BY <4>3, <4>4
    <3>5. g[0] = 0
      BY <2>5, <3>1, <3>2, <3>3
    <3>6. Sums(m, g)
      BY <3>3, <3>4, <3>5
    <3> QED
      BY <2>3, <3>6
  <2> QED
    BY <2>4, <2>5
<1>3. PICK f : Sums(n, f)
  BY <1>1, <1>2
<1>4. \E g : g = [k \in 0..n |-> IF k = 0 THEN 0 ELSE g[k - 1] + w(k)]
  <2> DEFINE g == [k \in 0..n |-> f[k]]
  <2>1. DOMAIN g = 0..n /\ \A k \in 0..n : g[k] = f[k]
    OBVIOUS
  <2>2. \A k \in 0..n : g[k] = IF k = 0 THEN 0 ELSE g[k - 1] + w(k)
    <3> HIDE DEF g
    <3> SUFFICES ASSUME NEW k \in 0..n PROVE g[k] = IF k = 0 THEN 0 ELSE g[k - 1] + w(k)
      OBVIOUS
    <3>1. CASE k = 0
      BY <1>3, <2>1, <3>1
    <3>2. CASE k # 0
      <4>1. k \in 1..n /\ k - 1 \in 0..n
        BY <1>1, <3>2
      <4> QED
        BY <1>3, <2>1, <3>2, <4>1
    <3> QED
      BY <3>1, <3>2
  <2>3. g = [k \in 0..n |-> g[k]]
    OBVIOUS
  <2> HIDE DEF g
  <2>4. g = [k \in 0..n |-> IF k = 0 THEN 0 ELSE g[k - 1] + w(k)]
    BY <2>2, <2>3
  <2> QED
    BY <2>4
<1> DEFINE t == Totals(es, I)
<1>5. t = [k \in 0..n |-> IF k = 0 THEN 0 ELSE t[k - 1] + w(k)]
  BY <1>4 DEF Totals, w, n
<1> HIDE DEF t
<1>6. t[0] = 0
  BY <1>1, <1>5
<1>7. \A k \in 1..n : t[k] = t[k - 1] + w(k)
  BY <1>1, <1>5
<1> QED
  BY <1>6, <1>7 DEF t, w, n

LEMMA TotalsType ==
  ASSUME NEW es \in Seq(EntryRecords), NEW I, I \subseteq 1..Len(es)
  PROVE  \A k \in 0..Len(es) : Totals(es, I)[k] \in Nat
<1> DEFINE n == Len(es)
           t == Totals(es, I)
           T == {k \in 0..n : t[k] \notin Nat}
<1>1. n \in Nat /\ t[0] = 0
      /\ \A k \in 1..n : t[k] = t[k - 1] + (IF k \in I THEN es[k].size ELSE 0)
  BY TotalsFacts
<1>2. \A k \in 1..n : es[k].size \in Nat
  <2> SUFFICES ASSUME NEW k \in 1..n PROVE es[k].size \in Nat
    OBVIOUS
  <2>1. es[k] \in EntryRecords
    OBVIOUS
  <2> QED
    BY <2>1 DEF EntryRecords
<1> HIDE DEF n, t
<1>3. T = {}
  <2> SUFFICES ASSUME T # {} PROVE FALSE
    OBVIOUS
  <2>1. T \subseteq Nat
    BY <1>1
  <2>2. PICK k \in T : \A j \in T : k <= j
    BY <2>1, Least
  <2>3. k \in 0..n /\ t[k] \notin Nat
    OBVIOUS
  <2>4. k \in 1..n
    BY <1>1, <2>3
  <2>5. k - 1 \in 0..n /\ ~(k <= k - 1)
    BY <1>1, <2>4
  <2>6. t[k - 1] \in Nat
    BY <2>2, <2>5
  <2> QED
    <3> PICK w : w = IF k \in I THEN es[k].size ELSE 0
      OBVIOUS
    <3>1. w \in Nat
      BY <1>2, <2>4
    <3>2. t[k] = t[k - 1] + w
      BY <1>1, <2>4
    <3> QED
      BY <2>3, <2>6, <3>1, <3>2
<1> QED
  BY <1>3 DEF n, t

-----------------------------------------------------------------------------
(* What an extraction has done when it comes to an entry, told from the       *)
(* archive alone.                                                             *)

\* The positions of the entries that an archive is charged for
Counted(a) ==
  {i \in DOMAIN Entries[a] : LET e == Entries[a][i] IN
     \/ e.kind = "file"
     \/ e.kind = "symlink" /\ Format(a) \notin {"Zip", "TarGz"}
     \/ e.kind = "reparse" /\ Format(a) = "Rar"}

\* The entries before position n that count, and those of them that are written
Before(a, n) == {i \in Counted(a) : i < n}
WrittenOut(a, n) == {i \in Before(a, n) : ~Entries[a][i].escapes}

\* The paths of the files written, for the temporary directory r
Outs(a, r, n) ==
  [k \in 1..Cardinality(WrittenOut(a, n)) |-> r \o Entries[a][Nth(WrittenOut(a, n), k)].path]

LEMMA CountedFacts ==
  ASSUME NEW a, Entries[a] \in Seq(EntryRecords)
  PROVE  /\ IsFiniteSet(Counted(a)) /\ Counted(a) \subseteq 1..Len(Entries[a])
         /\ Len(Entries[a]) \in Nat /\ Counted(a) \subseteq Nat
         /\ \A n : /\ IsFiniteSet(Before(a, n)) /\ Before(a, n) \subseteq Nat
                   /\ IsFiniteSet(WrittenOut(a, n)) /\ WrittenOut(a, n) \subseteq Nat
                   /\ WrittenOut(a, n) \subseteq Before(a, n) /\ Before(a, n) \subseteq Counted(a)
<1> DEFINE m == Len(Entries[a])
<1>1. m \in Nat /\ DOMAIN Entries[a] = 1..m
  OBVIOUS
<1>2. Counted(a) \in SUBSET (1..m)
  BY <1>1 DEF Counted
<1> HIDE DEF m
<1>3. IsFiniteSet(1..m)
  BY <1>1, FS_Interval
<1>4. IsFiniteSet(Counted(a)) /\ Counted(a) \subseteq Nat
  BY <1>1, <1>2, <1>3, FS_Subset
<1>5. ASSUME NEW n
      PROVE  /\ IsFiniteSet(Before(a, n)) /\ Before(a, n) \subseteq Nat
             /\ IsFiniteSet(WrittenOut(a, n)) /\ WrittenOut(a, n) \subseteq Nat
             /\ WrittenOut(a, n) \subseteq Before(a, n) /\ Before(a, n) \subseteq Counted(a)
  <2>1. Before(a, n) \in SUBSET Counted(a)
    BY DEF Before
  <2>2. WrittenOut(a, n) \in SUBSET Before(a, n)
    BY DEF WrittenOut
  <2>3. IsFiniteSet(Before(a, n))
    BY <1>4, <2>1, FS_Subset
  <2>4. IsFiniteSet(WrittenOut(a, n))
    BY <2>2, <2>3, FS_Subset
  <2> QED
    BY <1>4, <2>1, <2>2, <2>3, <2>4
<1> QED
  BY <1>1, <1>2, <1>4, <1>5 DEF m

LEMMA BeforeNext ==
  ASSUME NEW a, Entries[a] \in Seq(EntryRecords), NEW n \in Nat
  PROVE  /\ n \notin Counted(a) => Before(a, n + 1) = Before(a, n)
         /\ n \in Counted(a) =>
              /\ Before(a, n + 1) = Before(a, n) \cup {n}
              /\ Cardinality(Before(a, n + 1)) = Cardinality(Before(a, n)) + 1
<1>1. Counted(a) \subseteq Nat /\ IsFiniteSet(Before(a, n))
  BY CountedFacts
<1>2. \A i \in Counted(a) : i < n + 1 <=> i < n \/ i = n
  BY <1>1
<1>3. n \notin Counted(a) => Before(a, n + 1) = Before(a, n)
  BY <1>2 DEF Before
<1>4. ASSUME n \in Counted(a)
      PROVE  /\ Before(a, n + 1) = Before(a, n) \cup {n}
             /\ Cardinality(Before(a, n + 1)) = Cardinality(Before(a, n)) + 1
  <2>1. Before(a, n + 1) = Before(a, n) \cup {n}
    BY <1>2, <1>4 DEF Before
  <2>2. n \notin Before(a, n)
    BY DEF Before
  <2> QED
    BY <1>1, <2>1, <2>2, FS_AddElement
<1> QED
  BY <1>3, <1>4

LEMMA OutsNext ==
  ASSUME NEW a, Entries[a] \in Seq(EntryRecords), NEW n \in Nat, NEW r
  PROVE  /\ n \notin Counted(a) \/ Entries[a][n].escapes => Outs(a, r, n + 1) = Outs(a, r, n)
         /\ n \in Counted(a) /\ ~Entries[a][n].escapes =>
              Outs(a, r, n + 1) = Append(Outs(a, r, n), r \o Entries[a][n].path)
<1> DEFINE X == WrittenOut(a, n)
           Y == WrittenOut(a, n + 1)
           es == Entries[a]
<1>1. IsFiniteSet(X) /\ X \subseteq Nat
  BY CountedFacts
<1>2. \A i \in X : i < n
  BY DEF WrittenOut, Before
<1>3. CASE n \notin Counted(a) \/ Entries[a][n].escapes
  <2>1. Y = X
    <3>1. Before(a, n + 1) = Before(a, n) \/ Before(a, n + 1) = Before(a, n) \cup {n}
      BY BeforeNext
    <3>2. n \in Before(a, n + 1) => Entries[a][n].escapes
      BY <1>3 DEF Before
    <3> QED
      BY <3>1, <3>2 DEF WrittenOut
  <2> QED
    BY <1>3, <2>1 DEF Outs
<1>4. CASE n \in Counted(a) /\ ~Entries[a][n].escapes
  <2>1. Y = X \cup {n}
    <3>1. Before(a, n + 1) = Before(a, n) \cup {n}
      BY <1>4, BeforeNext
    <3> QED
      BY <1>4, <3>1 DEF WrittenOut
  <2> HIDE DEF X, Y, es
  <2>2. /\ Cardinality(X) \in Nat /\ Cardinality(Y) = Cardinality(X) + 1
        /\ \A k \in 1..Cardinality(X) : Nth(Y, k) = Nth(X, k)
        /\ Nth(Y, Cardinality(X) + 1) = n
    BY <1>1, <1>2, <2>1, NthExtend
  <2> DEFINE c == Cardinality(X)
             p(i) == r \o es[i].path
             s == [k \in 1..c |-> p(Nth(X, k))]
             t == [k \in 1..(c + 1) |-> p(Nth(Y, k))]
  <2>3. c \in Nat /\ Cardinality(Y) = c + 1
        /\ (\A k \in 1..c : Nth(Y, k) = Nth(X, k)) /\ Nth(Y, c + 1) = n
    BY <2>2
  <2> HIDE DEF c, p
  <2>4. t = Append(s, p(n))
    <3> DEFINE S == {p(Nth(X, k)) : k \in 1..c} \cup {p(n)}
               q == Append(s, p(n))
    <3>1. s \in Seq(S) /\ Len(s) = c /\ p(n) \in S
      BY <2>3
    <3> HIDE DEF s, S
    <3>2. q = [k \in 1..(c + 1) |-> IF k = c + 1 THEN p(n) ELSE s[k]]
      <4>1. q \in Seq(S) /\ Len(q) = c + 1 /\ q[c + 1] = p(n) /\ \A k \in 1..c : q[k] = s[k]
        BY <2>3, <3>1, AppendProperties
      <4> HIDE DEF q
      <4>2. q = [k \in 1..(c + 1) |-> q[k]]
        BY <2>3, <4>1
      <4>3. \A k \in 1..(c + 1) : k # c + 1 => k \in 1..c
        BY <2>3
      <4>4. \A k \in 1..(c + 1) : q[k] = IF k = c + 1 THEN p(n) ELSE s[k]
        BY <4>1, <4>3
      <4> QED
        BY <4>2, <4>4
    <3> USE DEF s
    <3>3. \A k \in 1..(c + 1) : p(Nth(Y, k)) = IF k = c + 1 THEN p(n) ELSE s[k]
      <4> SUFFICES ASSUME NEW k \in 1..(c + 1)
                   PROVE  p(Nth(Y, k)) = IF k = c + 1 THEN p(n) ELSE s[k]
        OBVIOUS
      <4>1. CASE k = c + 1
        BY <2>3, <4>1
      <4>2. CASE k # c + 1
        <5>1. k \in 1..c
          BY <2>3, <4>2
        <5> QED
          BY <2>3, <4>2, <5>1
      <4> QED
        BY <4>1, <4>2
    <3> QED
      BY <3>2, <3>3
  <2>5. Outs(a, r, n) = s
    BY DEF Outs, X, c, p, es
  <2>6. Outs(a, r, n + 1) = t
    BY <2>3 DEF Outs, Y, p, es
  <2> QED
    BY <1>4, <2>4, <2>5, <2>6 DEF p, es
<1> QED
  BY <1>3, <1>4

\* The extension of a file is that of its entry.
LEMMA MatchesBelow ==
  ASSUME NEW r \in Seq(Components), NEW p \in Seq(Components), p # <<>>
  PROVE  Matches(r \o p) <=> Matches(p)
<1>1. Last(r \o p) = Last(p)
  <2> DEFINE q == r \o p
             m == Len(r)
             n == Len(p)
  <2>1. m \in Nat /\ n \in Nat /\ n # 0 /\ Len(q) = m + n /\ \A i \in 1..n : q[m + i] = p[i]
    BY ConcatProperties
  <2>2. q[m + n] = p[n]
    BY <2>1
  <2> HIDE DEF q, m, n
  <2> QED
    BY <2>1, <2>2 DEF Last, q, n
<1> QED
  BY <1>1 DEF Matches

\* What an archive has to offer to the collection
Offered(a) == {i \in Counted(a) : ~Entries[a][i].escapes /\ Matches(Entries[a][i].path)}

\* What it contributes from the directory r, and what is kept of the files written
Contribution(a, r) ==
  [k \in 1..Cardinality(Offered(a)) |-> r \o Entries[a][Nth(Offered(a), k)].path]
Kept(out) == Picked(out, {i \in DOMAIN out : Matches(out[i])})

LEMMA OutsWanted ==
  ASSUME NEW a, Entries[a] \in Seq(EntryRecords), NEW r \in Seq(Components), NEW n,
         n = Len(Entries[a]) + 1, NEW out, out = Outs(a, r, n)
  PROVE  Kept(out) = Contribution(a, r)
<1> DEFINE X == WrittenOut(a, n)
           O == Offered(a)
           c == Cardinality(X)
           es == Entries[a]
           J == {i \in DOMAIN out : Matches(out[i])}
<1>1. IsFiniteSet(X) /\ X \subseteq Nat /\ X \subseteq Counted(a) /\ Counted(a) \subseteq 1..Len(es)
      /\ Len(es) \in Nat
  BY CountedFacts
<1>2. X = {i \in Counted(a) : ~es[i].escapes}
  <2>1. \A i \in Counted(a) : i < n
    BY <1>1
  <2> QED
    BY <2>1 DEF WrittenOut, Before
<1>3. O = {i \in X : Matches(es[i].path)} /\ O \subseteq X
  BY <1>2 DEF Offered
<1>4. c \in Nat /\ \A k \in 1..c : Nth(X, k) \in X
  BY <1>1, NthFacts
<1>5. \A i \in X : es[i].path \in Seq(Components) /\ es[i].path # <<>>
  <2> SUFFICES ASSUME NEW i \in X PROVE es[i].path \in Seq(Components) /\ es[i].path # <<>>
    OBVIOUS
  <2>1. i \in 1..Len(es)
    BY <1>1
  <2>2. es[i] \in EntryRecords
    BY <2>1
  <2> QED
    BY <2>2 DEF EntryRecords
<1>6. DOMAIN out = 1..c /\ \A k \in 1..c : out[k] = r \o es[Nth(X, k)].path
  BY DEF Outs
<1> HIDE DEF X, O, c, es
<1>7. J = {k \in 1..c : Nth(X, k) \in O}
  <2>1. ASSUME NEW k \in 1..c PROVE Matches(out[k]) <=> Nth(X, k) \in O
    <3> DEFINE p == es[Nth(X, k)].path
    <3>1. p \in Seq(Components) /\ p # <<>> /\ out[k] = r \o p
      BY <1>4, <1>5, <1>6
    <3>2. Nth(X, k) \in O <=> Matches(p)
      BY <1>3, <1>4
    <3> HIDE DEF p
    <3>3. Matches(r \o p) <=> Matches(p)
      BY <3>1, MatchesBelow
    <3> QED
      BY <3>1, <3>2, <3>3
  <2> QED
    BY <1>6, <2>1
<1> HIDE DEF J
<1>8. /\ Cardinality(J) = Cardinality(O) /\ Cardinality(O) \in Nat
      /\ \A k \in 1..Cardinality(O) : Nth(J, k) \in J /\ Nth(X, Nth(J, k)) = Nth(O, k)
  <2>1. Selects(J, X, O)
    BY <1>7 DEF c, Selects
  <2>2. IsFiniteSet(X) /\ X \subseteq Nat /\ O \subseteq X
    BY <1>1, <1>3
  <2>3. Composes(J, X, O)
    BY <2>1, <2>2, NthCompose
  <2> QED
    BY <2>3 DEF Composes
<1>9. \A k \in 1..Cardinality(O) : out[Nth(J, k)] = r \o es[Nth(O, k)].path
  <2> SUFFICES ASSUME NEW k \in 1..Cardinality(O) PROVE out[Nth(J, k)] = r \o es[Nth(O, k)].path
    OBVIOUS
  <2> PICK m : m = Nth(J, k)
    OBVIOUS
  <2>1. m \in 1..c /\ Nth(X, m) = Nth(O, k)
    BY <1>7, <1>8
  <2> QED
    BY <1>6, <2>1
<1>10. Picked(out, J) = [k \in 1..Cardinality(O) |-> out[Nth(J, k)]]
  BY <1>8 DEF Picked
<1>11. Picked(out, J) = [k \in 1..Cardinality(O) |-> r \o es[Nth(O, k)].path]
  BY <1>9, <1>10
<1> QED
  BY <1>11 DEF J, O, es, Kept, Contribution

-----------------------------------------------------------------------------
(* The invariant behind CollectionIsPerArgument.                              *)

\* All that an archive charges for and that does not lead out of it, if all that is
\* charged for fits.
Exactly(a, found) ==
  LET es  == Entries[a]
      out == {i \in Counted(a) : ~es[i].escapes /\ Matches(es[i].path)}
  IN /\ es \in Seq(EntryRecords)
     /\ Cardinality(Counted(a)) <= MaxEntries
     /\ Totals(es, Counted(a))[Len(es)] <= MaxSize
     /\ \E k \in 1..made :
          found = [i \in 1..Cardinality(out) |-> Temp(k) \o es[Nth(out, i)].path]

ArchiveGiven(i) ==
  LET a == handler.paths[i] IN ~handler.no_extract /\ Tree[a] = "file" /\ Format(a) # "none"

\* The counters and the files of an extraction are those of the entries it passed.
JobFaithful ==
  pc = "extract" =>
    /\ job.next <= Len(Entries[job.archive]) + 1
    /\ job.entries = Cardinality(Before(job.archive, job.next)) /\ job.entries <= MaxEntries
    /\ job.size = Totals(Entries[job.archive], Counted(job.archive))[job.next - 1]
    /\ job.size <= MaxSize
    /\ job.out = Outs(job.archive, job.root, job.next)

\* What was collected is what the arguments contributed, one after the other.
LogFaithful ==
  /\ log \in Seq(Seq(Seq(Components))) /\ Len(log) = at - 1
  /\ pc \in {"new", "collect", "extract", "done"} => files = FlattenSeq(log)
  /\ pc = "done" => at = Len(handler.paths) + 1
  /\ \A i \in DOMAIN log : ArchiveGiven(i) /\ log[i] # <<>> => Exactly(handler.paths[i], log[i])

PerInv == JobFaithful /\ LogFaithful

\* More entries, no smaller a sum.
LEMMA TotalsGrow ==
  ASSUME NEW es \in Seq(EntryRecords), NEW I, NEW J, I \subseteq J, J \subseteq 1..Len(es)
  PROVE  Totals(es, I)[Len(es)] <= Totals(es, J)[Len(es)]
<1> DEFINE n == Len(es)
           t == Totals(es, I)
           u == Totals(es, J)
           T == {k \in 0..n : ~(t[k] <= u[k])}
<1>1. /\ n \in Nat /\ t[0] = 0 /\ u[0] = 0
      /\ \A k \in 1..n : t[k] = t[k - 1] + (IF k \in I THEN es[k].size ELSE 0)
      /\ \A k \in 1..n : u[k] = u[k - 1] + (IF k \in J THEN es[k].size ELSE 0)
  BY TotalsFacts
<1>2. \A k \in 1..n : es[k].size \in Nat
  <2> SUFFICES ASSUME NEW k \in 1..n PROVE es[k].size \in Nat
    OBVIOUS
  <2>1. es[k] \in EntryRecords
    OBVIOUS
  <2> QED
    BY <2>1 DEF EntryRecords
<1>3. \A k \in 0..n : t[k] \in Nat /\ u[k] \in Nat
  BY TotalsType
<1> HIDE DEF n, t, u
<1>4. T = {}
  <2> SUFFICES ASSUME T # {} PROVE FALSE
    OBVIOUS
  <2>1. T \subseteq Nat
    BY <1>1
  <2>2. PICK k \in T : \A j \in T : k <= j
    BY <2>1, Least
  <2>3. k \in 0..n /\ ~(t[k] <= u[k])
    OBVIOUS
  <2>4. k \in 1..n
    BY <1>1, <2>3
  <2>5. k - 1 \in 0..n /\ ~(k <= k - 1)
    BY <1>1, <2>4
  <2>6. t[k - 1] <= u[k - 1] /\ t[k - 1] \in Nat /\ u[k - 1] \in Nat
    BY <1>3, <2>2, <2>5
  <2> PICK v : v = IF k \in I THEN es[k].size ELSE 0
    OBVIOUS
  <2> PICK w : w = IF k \in J THEN es[k].size ELSE 0
    OBVIOUS
  <2>7. v \in Nat /\ w \in Nat /\ v <= w
    BY <1>2, <2>4
  <2>8. t[k] = t[k - 1] + v /\ u[k] = u[k - 1] + w
    BY <1>1, <2>4
  <2> QED
    BY <2>3, <2>6, <2>7, <2>8
<1>5. n \in 0..n
  BY <1>1
<1> QED
  BY <1>4, <1>5 DEF n, t, u

\* What comes out is the files and links that may pass.
LEMMA ExactlyIsWhole ==
  ASSUME NEW a, NEW found, Exactly(a, found), Format(a) # "none"
  PROVE  Whole(a, found)
<1> DEFINE es == Entries[a]
           plain == {i \in DOMAIN es : es[i].kind \in {"file"} /\ ~es[i].escapes}
           marked == {i \in DOMAIN es : es[i].kind \in {"symlink", "reparse"} /\ ~es[i].escapes}
           links == {i \in marked : LinkMayPass(a, es[i])}
           out == {i \in Counted(a) : ~es[i].escapes}
           passed == out \ plain
           wanted == {i \in out : Matches(es[i].path)}
<1>1. /\ es \in Seq(EntryRecords) /\ Cardinality(Counted(a)) <= MaxEntries
      /\ Totals(es, Counted(a))[Len(es)] <= MaxSize
  BY DEF Exactly
<1>2. Format(a) \in {"Zip", "Rar", "SevenZip", "TarGz", "none"}
  BY Zenon DEF Format
<1>3. passed \in SUBSET links /\ out = plain \cup passed
  BY <1>2 DEF Counted, LinkMayPass
<1>4. IsFiniteSet(Counted(a)) /\ Counted(a) \subseteq 1..Len(es) /\ out \subseteq Counted(a)
  BY <1>1, CountedFacts
<1>5. Cardinality(out) <= Cardinality(Counted(a)) /\ Cardinality(out) \in Nat /\ Cardinality(Counted(a)) \in Nat
  BY <1>4, FS_Subset, FS_CardinalityType
<1>6. Cardinality(out) <= MaxEntries
  BY <1>1, <1>5, InputAssumption
<1>7. Totals(es, out)[Len(es)] <= MaxSize
  <2>1. Totals(es, out)[Len(es)] <= Totals(es, Counted(a))[Len(es)]
    BY <1>1, <1>4, TotalsGrow
  <2>2. out \subseteq 1..Len(es) /\ Len(es) \in 0..Len(es)
    BY <1>1, <1>4
  <2>3. Totals(es, out)[Len(es)] \in Nat /\ Totals(es, Counted(a))[Len(es)] \in Nat
    BY <1>1, <1>4, <2>2, TotalsType
  <2> QED
    BY <1>1, <2>1, <2>3, InputAssumption
<1>8. \E k \in 1..made :
        found = [i \in 1..Cardinality(wanted) |-> Temp(k) \o es[Nth(wanted, i)].path]
  <2>1. wanted = {i \in Counted(a) : ~es[i].escapes /\ Matches(es[i].path)}
    OBVIOUS
  <2> HIDE DEF wanted, out
  <2> QED
    BY <2>1 DEF Exactly
<1>9. LET all  == plain \cup passed
          some == {i \in all : Matches(es[i].path)}
      IN /\ Cardinality(all) <= MaxEntries
         /\ Totals(es, all)[Len(es)] <= MaxSize
         /\ \E k \in 1..made :
              found = [i \in 1..Cardinality(some) |-> Temp(k) \o es[Nth(some, i)].path]
  <2>1. plain \cup passed = out
    BY <1>3
  <2> HIDE DEF passed, plain, links, out
  <2> QED
    BY <1>6, <1>7, <1>8, <2>1
<1> HIDE DEF passed
<1> QED
  BY <1>3, <1>9 DEF Whole

LEMMA PerProperty ==
  ASSUME InputInv, PerInv
  PROVE  CollectionIsPerArgument
<1>1. pc = "done" => files = FlattenSeq(log) /\ Len(log) = Len(handler.paths)
  <2>1. Len(handler.paths) \in Nat
    BY ArgumentFacts DEF InputInv
  <2> QED
    BY <2>1 DEF PerInv, LogFaithful
<1>2. ASSUME NEW i \in DOMAIN log, ArchiveGiven(i), log[i] # <<>>
      PROVE  Whole(handler.paths[i], log[i])
  <2>1. Exactly(handler.paths[i], log[i])
    BY <1>2 DEF PerInv, LogFaithful
  <2> QED
    BY <1>2, <2>1, ExactlyIsWhole DEF ArchiveGiven
<1> QED
  BY <1>1, <1>2 DEF CollectionIsPerArgument, ArchiveGiven

LEMMA PerInit ==
  InputInit => PerInv
<1> SUFFICES ASSUME InputInit PROVE PerInv
  OBVIOUS
<1>1. FlattenSeq(<<>>) = <<>>
  BY DEF FlattenSeq
<1>2. LogFaithful
  BY <1>1 DEF InputInit, LogFaithful
<1> QED
  BY <1>2 DEF InputInit, PerInv, JobFaithful

\* More directories change nothing about an archive that is done.
LEMMA ExactlyStays ==
  ASSUME handler' = handler, made \in Nat, made' \in Nat, made <= made',
         NEW a, NEW found, Exactly(a, found)
  PROVE  Exactly(a, found)'
<1>1. \A k \in 1..made : k \in 1..made'
  OBVIOUS
<1>2. \A p : Matches(p)' <=> Matches(p)
  BY DEF Matches
<1> DEFINE out == {i \in Counted(a) : ~Entries[a][i].escapes /\ Matches(Entries[a][i].path)}
<1>3. out' = out
  BY <1>2
<1> HIDE DEF out
<1>4. PICK k \in 1..made :
        found = [i \in 1..Cardinality(out) |-> Temp(k) \o Entries[a][Nth(out, i)].path]
  BY DEF Exactly, out
<1>5. \E j \in 1..made' :
        found = [i \in 1..Cardinality(out') |-> Temp(j) \o Entries[a][Nth(out', i)].path]
  BY <1>1, <1>3, <1>4
<1> QED
  BY <1>5 DEF Exactly, out

LEMMA LogContributed ==
  ASSUME InputInv, PerInv, pc \in {"collect", "extract"}, handler' = handler, made' = made,
         NEW found \in Seq(Seq(Components)), Contribute(found),
         ArchiveGiven(at) /\ found # <<>> => Exactly(Arg, found)
  PROVE  PerInv'
<1>1. /\ log' = Append(log, found) /\ files' = files \o found /\ at' = at + 1
      /\ pc' = IF at = Len(handler.paths) THEN "done" ELSE "collect"
  BY DEF Contribute
<1>2. /\ log \in Seq(Seq(Seq(Components))) /\ Len(log) = at - 1 /\ files = FlattenSeq(log)
      /\ \A i \in DOMAIN log : ArchiveGiven(i) /\ log[i] # <<>> => Exactly(handler.paths[i], log[i])
  BY DEF PerInv, LogFaithful
<1>3. at \in Nat /\ made \in Nat
  BY ArgumentFacts DEF InputInv
<1>4. files' = FlattenSeq(log')
  BY <1>1, <1>2, FlattenAppend
<1> PICK more : more = Append(log, found)
  OBVIOUS
<1>5. more \in Seq(Seq(Seq(Components))) /\ Len(more) = at /\ DOMAIN more = 1..at
      /\ \A i \in DOMAIN more : \/ i \in DOMAIN log /\ more[i] = log[i]
                                \/ i = at /\ more[i] = found
  BY <1>2, <1>3
<1>6. ASSUME NEW i \in DOMAIN more, ArchiveGiven(i), more[i] # <<>>
      PROVE  Exactly(handler.paths[i], more[i])
  <2>1. CASE i \in DOMAIN log /\ more[i] = log[i]
    BY <1>2, <1>6, <2>1
  <2>2. CASE i = at /\ more[i] = found
    BY <1>6, <2>2 DEF Arg
  <2> QED
    BY <1>5, <2>1, <2>2
<1>7. \A i \in DOMAIN more : ArchiveGiven(i)' /\ more[i] # <<>> => Exactly(handler.paths[i], more[i])'
  <2> SUFFICES ASSUME NEW i \in DOMAIN more, ArchiveGiven(i)', more[i] # <<>>
               PROVE  Exactly(handler.paths[i], more[i])'
    OBVIOUS
  <2>1. ArchiveGiven(i)
    BY DEF ArchiveGiven
  <2>2. PICK a : a = handler.paths[i]
    OBVIOUS
  <2>3. PICK f : f = more[i]
    OBVIOUS
  <2>4. Exactly(a, f)
    BY <1>6, <2>1, <2>2, <2>3
  <2>5. Exactly(a, f)'
    BY <1>3, <2>4, ExactlyStays
  <2>6. handler'.paths[i] = a
    BY <2>2
  <2> QED
    BY <2>3, <2>5, <2>6
<1>8. LogFaithful'
  <2>1. log' = more /\ Len(log') = at' - 1
    BY <1>1, <1>3, <1>5
  <2>2. pc' = "done" => at' = Len(handler'.paths) + 1
    BY <1>1
  <2> QED
    BY <1>4, <1>5, <1>7, <2>1, <2>2 DEF LogFaithful
<1>9. JobFaithful'
  BY <1>1 DEF JobFaithful
<1> QED
  BY <1>8, <1>9 DEF PerInv

\* A step that finishes no argument
LEMMA LogKept ==
  ASSUME InputInv, PerInv, UNCHANGED <<handler, at, log>>, made' \in Nat, made <= made',
         pc' \in {"new", "collect", "extract", "done"} =>
           pc \in {"new", "collect", "extract", "done"} /\ files' = files,
         pc' = "done" => pc = "done"
  PROVE  LogFaithful'
<1>1. /\ log \in Seq(Seq(Seq(Components))) /\ Len(log) = at - 1
      /\ pc \in {"new", "collect", "extract", "done"} => files = FlattenSeq(log)
      /\ pc = "done" => at = Len(handler.paths) + 1
      /\ \A i \in DOMAIN log : ArchiveGiven(i) /\ log[i] # <<>> => Exactly(handler.paths[i], log[i])
  BY DEF PerInv, LogFaithful
<1>2. made \in Nat
  BY ArgumentFacts DEF InputInv
<1> PICK l : l = log
  OBVIOUS
<1>3. \A i \in DOMAIN l : ArchiveGiven(i)' /\ l[i] # <<>> => Exactly(handler.paths[i], l[i])'
  <2> SUFFICES ASSUME NEW i \in DOMAIN l, ArchiveGiven(i)', l[i] # <<>>
               PROVE  Exactly(handler.paths[i], l[i])'
    OBVIOUS
  <2>1. ArchiveGiven(i)
    BY DEF ArchiveGiven
  <2>2. PICK a : a = handler.paths[i]
    OBVIOUS
  <2>3. PICK f : f = l[i]
    OBVIOUS
  <2>4. Exactly(a, f)
    BY <1>1, <2>1, <2>2, <2>3
  <2>5. Exactly(a, f)'
    BY <1>2, <2>4, ExactlyStays
  <2>6. handler'.paths[i] = a
    BY <2>2
  <2> QED
    BY <2>3, <2>5, <2>6
<1> QED
  BY <1>1, <1>3 DEF LogFaithful

\* Every step that is not one of an extraction
LEMMA PerQuiet ==
  ASSUME InputInv, PerInv, Validate \/ Delete \/ Drop \/ UNCHANGED inputVars
  PROVE  PerInv'
<1>1. UNCHANGED <<handler, at, log, made, job>>
  BY DEF Validate, Delete, Drop, inputVars
<1>2. made' \in Nat /\ made <= made'
  BY <1>1, ArgumentFacts DEF InputInv
<1>3. /\ pc' \in {"new", "collect", "extract", "done"} =>
           pc \in {"new", "collect", "extract", "done"} /\ files' = files
      /\ pc' = "done" => pc = "done"
      /\ pc' = "extract" => pc = "extract"
  BY DEF Validate, Delete, Drop, inputVars
<1>4. LogFaithful'
  BY <1>1, <1>2, <1>3, LogKept
<1>5. JobFaithful'
  BY <1>1, <1>3 DEF PerInv, JobFaithful
<1> QED
  BY <1>4, <1>5 DEF PerInv

LEMMA PerAbort ==
  ASSUME InputInv, PerInv, pc = "collect", handler' = handler, made' = made, Abort
  PROVE  PerInv'
<1>1. pc' = "failed" /\ UNCHANGED <<handler, at, log, made>>
  BY DEF Abort
<1>2. made' \in Nat /\ made <= made'
  BY <1>1, ArgumentFacts DEF InputInv
<1>3. LogFaithful'
  BY <1>1, <1>2, LogKept
<1> QED
  BY <1>1, <1>3 DEF PerInv, JobFaithful

LEMMA PerCollectFile ==
  ASSUME InputInv, PerInv, CollectFile
  PROVE  PerInv'
<1> PICK a : a = Arg
  OBVIOUS
<1>1. a \in Seq(Components)
  BY ArgumentFacts DEF CollectFile, InputInv, Progress
<1>2. PICK found : found = IF Matches(a) THEN <<a>> ELSE <<>>
  OBVIOUS
<1>3. found \in Seq(Seq(Components))
  BY <1>1, <1>2
<1>4. Contribute(found) /\ pc = "collect" /\ UNCHANGED <<handler, made>>
  BY <1>2 DEF CollectFile
<1>5. ~ArchiveGiven(at)
  BY DEF CollectFile, ArchiveGiven, Arg
<1> QED
  BY <1>3, <1>4, <1>5, LogContributed

LEMMA PerCollectDirectory ==
  ASSUME InputInv, PerInv, CollectDirectory
  PROVE  PerInv'
<1>1. pc = "collect" /\ UNCHANGED <<handler, made>>
  BY DEF CollectDirectory
<1>2. ~ArchiveGiven(at)
  BY DEF CollectDirectory, IsDir, ArchiveGiven, Arg
<1>3. CASE Abort
  BY <1>1, <1>3, PerAbort
<1>4. CASE Contribute(SetToSeq(Scanned(Arg)))
  <2> PICK S : S = Scanned(Arg)
    OBVIOUS
  <2>1. S \in SUBSET DOMAIN Tree /\ \A p \in S : p \in Seq(Components)
    BY InputAssumption DEF Scanned
  <2>2. PICK found : found = SetToSeq(S)
    OBVIOUS
  <2>3. IsFiniteSet(S)
    BY <2>1, InputAssumption, FS_Subset
  <2>4. found \in Seq(S)
    BY <2>2, <2>3, SetToSeqFacts
  <2>5. found \in Seq(Seq(Components))
    <3>1. Len(found) \in Nat /\ found \in [1..Len(found) -> S]
      BY <2>4
    <3>2. found \in [1..Len(found) -> Seq(Components)]
      BY <2>1, <3>1
    <3> QED
      BY <3>1, <3>2
  <2>6. Contribute(found)
    BY <1>4, <2>2
  <2> QED
    BY <1>1, <1>2, <2>5, <2>6, LogContributed
<1> QED
  BY <1>3, <1>4 DEF CollectDirectory

LEMMA PerRefuse ==
  ASSUME InputInv, PerInv, Refuse
  PROVE  PerInv'
<1>1. pc = "extract" /\ Contribute(<<>>) /\ UNCHANGED <<handler, made>>
  BY DEF Refuse
<1>2. <<>> \in Seq(Seq(Components))
  OBVIOUS
<1> QED
  BY <1>1, <1>2, LogContributed

LEMMA PerOpenArchive ==
  ASSUME InputInv, PerInv, OpenArchive
  PROVE  PerInv'
<1> PICK a : a = Arg
  OBVIOUS
<1> PICK r : r = Temp(made + 1)
  OBVIOUS
<1>1. /\ pc = "collect" /\ pc' = "extract" /\ made' = made + 1
      /\ job' = [archive |-> a, root |-> r, next |-> 1, entries |-> 0, size |-> 0, out |-> <<>>]
      /\ UNCHANGED <<handler, at, files, log>>
  BY DEF OpenArchive
<1>2. made \in Nat
  BY ArgumentFacts DEF InputInv
<1>3. LogFaithful'
  BY <1>1, <1>2, LogKept
<1>4. Entries[a] \in Seq(EntryRecords)
  BY InputAssumption DEF OpenArchive, IsFile, There
<1>5. Before(a, 1) = {} /\ WrittenOut(a, 1) = {}
  <2>1. \A i \in Counted(a) : i \in Nat /\ i # 0
    BY <1>4, CountedFacts
  <2>2. \A i \in Counted(a) : ~(i < 1)
    BY <2>1
  <2> QED
    BY <2>2 DEF Before, WrittenOut
<1>6. Cardinality({}) = 0
  BY FS_EmptySet
<1>7. Outs(a, r, 1) = <<>>
  <2> DEFINE F(k) == r \o Entries[a][Nth({}, k)].path
             f == [k \in 1..0 |-> F(k)]
  <2>1. Outs(a, r, 1) = f
    BY <1>5, <1>6 DEF Outs
  <2> HIDE DEF F
  <2>2. f \in Seq({F(k) : k \in 1..0}) /\ Len(f) = 0
    OBVIOUS
  <2> HIDE DEF f
  <2>3. f = <<>>
    BY <2>2
  <2> QED
    BY <2>1, <2>3
<1>8. Totals(Entries[a], Counted(a))[0] = 0
  BY <1>4, TotalsFacts
<1>9. 1 <= Len(Entries[a]) + 1
  BY <1>4
<1>10. /\ job'.archive = a /\ job'.root = r /\ job'.next = 1 /\ job'.entries = 0 /\ job'.size = 0
       /\ job'.out = <<>>
  BY <1>1
<1>11. JobFaithful'
  <2>1. 0 <= MaxEntries /\ 0 <= MaxSize /\ job'.next - 1 = 0
    BY <1>10, InputAssumption
  <2> QED
    BY <1>5, <1>6, <1>7, <1>8, <1>9, <1>10, <2>1 DEF JobFaithful
<1> QED
  BY <1>3, <1>11 DEF PerInv

\* The entry that is due: what the extractor ignores does not count, and what it
\* extracts is what does not lead out of the archive.
LEMMA DueFacts ==
  ASSUME InputInv, pc = "extract", job.next <= Len(Entries[job.archive])
  PROVE  /\ Entries[job.archive] \in Seq(EntryRecords) /\ Current \in EntryRecords
         /\ job.next \in 1..Len(Entries[job.archive]) /\ Current = Entries[job.archive][job.next]
         /\ Ignored(Current) <=> job.next \notin Counted(job.archive)
         /\ ~Ignored(Current) => (Passes(Current) <=> ~Current.escapes)
<1> PICK a : a = job.archive
  OBVIOUS
<1> PICK n : n = job.next
  OBVIOUS
<1> PICK es : es = Entries[a]
  OBVIOUS
<1> PICK e : e = es[n]
  OBVIOUS
<1>1. es \in Seq(EntryRecords) /\ Current = e /\ n \in 1..Len(es)
  <2>1. es \in Seq(EntryRecords) /\ Current = e
    BY EntryFacts DEF Current
  <2>2. n \in Nat \ {0}
    BY DEF InputInv, JobOK
  <2> QED
    BY <2>1, <2>2
<1>2. e \in EntryRecords /\ n \in DOMAIN es
  BY <1>1
<1>3. e.kind \in {"file", "dir", "symlink", "reparse"} /\ e.escapes \in BOOLEAN
  BY <1>2 DEF EntryRecords
<1>4. Ignored(e) <=> n \notin Counted(a)
  <2>1. Format(a) \in {"Zip", "Rar", "SevenZip", "TarGz"}
    <3>1. Format(a) # "none"
      BY DEF InputInv, JobOK
    <3> QED
      BY <3>1, Zenon DEF Format
  <2> QED
    BY <1>2, <1>3, <2>1 DEF Ignored, Counted
<1>5. ASSUME ~Ignored(e)
      PROVE  Passes(e) <=> ~e.escapes
  <2>1. e.kind # "dir"
    BY <1>5 DEF Ignored
  <2>2. CASE Format(a) # "Rar"
    BY <2>2 DEF Passes, Enclosed
  <2>3. CASE Format(a) = "Rar"
    <3> DEFINE I == {i \in DOMAIN es : es[i].kind # "dir" /\ ~es[i].escapes}
    <3>1. Passes(e) <=> \E i \in I : es[i].path = e.path /\ es[i].escapes = e.escapes
      BY <2>3 DEF Passes, Enclosed
    <3>2. ~e.escapes => n \in I
      BY <1>2, <2>1
    <3> QED
      BY <3>1, <3>2
  <2> QED
    BY <2>2, <2>3
<1> QED
  BY <1>1, <1>2, <1>4, <1>5

LEMMA PerSkip ==
  ASSUME InputInv, PerInv, Skip
  PROVE  PerInv'
<1> PICK a : a = job.archive
  OBVIOUS
<1> PICK n : n = job.next
  OBVIOUS
<1> PICK r : r = job.root
  OBVIOUS
<1> PICK es : es = Entries[a]
  OBVIOUS
<1> PICK e : e = Current
  OBVIOUS
<1>1. /\ pc = "extract" /\ UNCHANGED <<handler, pc, at, files, made, log>>
      /\ n <= Len(es)
      /\ \/ Ignored(e) /\ job' = [job EXCEPT !.next = @ + 1]
         \/ /\ ~Ignored(e) /\ WithinLimits(e) /\ ~Passes(e)
            /\ job' = [job EXCEPT !.next = @ + 1, !.entries = @ + 1, !.size = @ + e.size]
  BY DEF Skip
<1>2. /\ es \in Seq(EntryRecords) /\ e \in EntryRecords /\ n \in 1..Len(es) /\ e = es[n]
      /\ Ignored(e) <=> n \notin Counted(a)
      /\ ~Ignored(e) => (Passes(e) <=> ~e.escapes)
  BY <1>1, DueFacts
<1>3. LogFaithful'
  BY <1>1, ArgumentFacts, LogKept DEF InputInv
<1>4. /\ DOMAIN job = {"archive", "root", "next", "entries", "size", "out"}
      /\ job.entries = Cardinality(Before(a, n)) /\ job.entries <= MaxEntries
      /\ job.size = Totals(es, Counted(a))[n - 1] /\ job.size <= MaxSize
      /\ job.out = Outs(a, r, n)
  BY <1>1 DEF InputInv, JobOK, PerInv, JobFaithful
<1>5. /\ job'.archive = a /\ job'.next = n + 1 /\ job'.root = r /\ job'.out = job.out
  BY <1>1, <1>4
<1>6. n \in Nat /\ Len(es) \in Nat /\ n + 1 <= Len(es) + 1 /\ n + 1 - 1 = n
  BY <1>2
<1>7. Outs(a, r, n + 1) = Outs(a, r, n)
  BY <1>1, <1>2, <1>6, OutsNext
<1>8. Totals(es, Counted(a))[n] = Totals(es, Counted(a))[n - 1] + (IF n \in Counted(a) THEN e.size ELSE 0)
  BY <1>2, TotalsFacts
<1>9. /\ job'.entries = Cardinality(Before(a, n + 1)) /\ job'.entries <= MaxEntries
      /\ job'.size = Totals(es, Counted(a))[n] /\ job'.size <= MaxSize
  <2>1. CASE Ignored(e) /\ job' = [job EXCEPT !.next = @ + 1]
    <3>1. job'.entries = job.entries /\ job'.size = job.size
      BY <1>4, <2>1
    <3>2. Before(a, n + 1) = Before(a, n)
      BY <1>2, <1>6, <2>1, BeforeNext
    <3>3. Totals(es, Counted(a))[n] = job.size
      <4> PICK t : t = Totals(es, Counted(a))[n - 1]
        OBVIOUS
      <4>1. t \in Nat
        BY <1>2, <1>6, TotalsType, CountedFacts
      <4>2. Totals(es, Counted(a))[n] = t + 0
        BY <1>2, <1>8, <2>1
      <4> QED
        BY <1>4, <4>1, <4>2
    <3> QED
      BY <1>4, <3>1, <3>2, <3>3
  <2>2. CASE /\ ~Ignored(e) /\ WithinLimits(e)
             /\ job' = [job EXCEPT !.next = @ + 1, !.entries = @ + 1, !.size = @ + e.size]
    <3>1. job'.entries = job.entries + 1 /\ job'.size = job.size + e.size
      BY <1>4, <2>2
    <3>2. Cardinality(Before(a, n + 1)) = job.entries + 1
      BY <1>2, <1>4, <1>6, <2>2, BeforeNext
    <3>3. Totals(es, Counted(a))[n] = job.size + e.size
      BY <1>2, <1>4, <1>8, <2>2
    <3> QED
      BY <2>2, <3>1, <3>2, <3>3 DEF WithinLimits
  <2> QED
    BY <1>1, <2>1, <2>2
<1>10. JobFaithful'
  BY <1>4, <1>5, <1>6, <1>7, <1>9 DEF JobFaithful
<1> QED
  BY <1>3, <1>10 DEF PerInv

LEMMA PerExtractEntry ==
  ASSUME InputInv, PerInv, ExtractEntry
  PROVE  PerInv'
<1> PICK a : a = job.archive
  OBVIOUS
<1> PICK n : n = job.next
  OBVIOUS
<1> PICK r : r = job.root
  OBVIOUS
<1> PICK es : es = Entries[a]
  OBVIOUS
<1> PICK e : e = Current
  OBVIOUS
<1> PICK t : t = EntryTarget(e)
  OBVIOUS
<1>1. /\ pc = "extract" /\ UNCHANGED <<handler, pc, at, files, made, log>>
      /\ n <= Len(es) /\ ~Ignored(e) /\ WithinLimits(e) /\ Passes(e)
      /\ job' = [job EXCEPT !.next = @ + 1, !.entries = @ + 1, !.size = @ + e.size,
                            !.out = Append(@, t)]
  BY DEF ExtractEntry
<1>2. /\ es \in Seq(EntryRecords) /\ e \in EntryRecords /\ n \in 1..Len(es) /\ e = es[n]
      /\ n \in Counted(a) /\ ~e.escapes
  BY <1>1, DueFacts
<1>3. LogFaithful'
  BY <1>1, ArgumentFacts, LogKept DEF InputInv
<1>4. /\ DOMAIN job = {"archive", "root", "next", "entries", "size", "out"}
      /\ job.entries = Cardinality(Before(a, n)) /\ job.size = Totals(es, Counted(a))[n - 1]
      /\ job.out = Outs(a, r, n)
  BY <1>1 DEF InputInv, JobOK, PerInv, JobFaithful
<1>5. /\ job'.archive = a /\ job'.next = n + 1 /\ job'.root = r /\ job'.out = Append(job.out, t)
      /\ job'.entries = job.entries + 1 /\ job'.size = job.size + e.size
  BY <1>1, <1>4
<1>6. n \in Nat /\ Len(es) \in Nat /\ n + 1 <= Len(es) + 1 /\ n + 1 - 1 = n
  BY <1>2
<1>7. t = r \o es[n].path
  BY <1>2 DEF EntryTarget
<1>8. Outs(a, r, n + 1) = Append(Outs(a, r, n), t)
  <2>1. Entries[a] \in Seq(EntryRecords) /\ n \in Counted(a) /\ ~Entries[a][n].escapes
    BY <1>2
  <2>2. Outs(a, r, n + 1) = Append(Outs(a, r, n), r \o Entries[a][n].path)
    BY <1>6, <2>1, OutsNext
  <2> QED
    BY <1>7, <2>2
<1>9. Totals(es, Counted(a))[n] = Totals(es, Counted(a))[n - 1] + e.size
  BY <1>2, TotalsFacts
<1>10. Cardinality(Before(a, n + 1)) = Cardinality(Before(a, n)) + 1
  BY <1>2, <1>6, BeforeNext
<1>11. JobFaithful'
  BY <1>1, <1>4, <1>5, <1>6, <1>8, <1>9, <1>10 DEF JobFaithful, WithinLimits
<1> QED
  BY <1>3, <1>11 DEF PerInv

\* The archive was read to its end, so all of it is within the limits.
LEMMA PerExtracted ==
  ASSUME InputInv, PerInv, Extracted
  PROVE  PerInv'
<1> PICK a : a = job.archive
  OBVIOUS
<1> PICK n : n = job.next
  OBVIOUS
<1> PICK r : r = job.root
  OBVIOUS
<1> PICK es : es = Entries[a]
  OBVIOUS
<1> PICK out : out = job.out
  OBVIOUS
<1> PICK found : found = Picked(out, {i \in DOMAIN out : Matches(out[i])})
  OBVIOUS
<1>1. /\ pc = "extract" /\ n > Len(es) /\ Contribute(found) /\ UNCHANGED <<handler, made>>
  BY DEF Extracted
<1>2. /\ a = Arg /\ r = Temp(made) /\ n \in Nat \ {0} /\ out \in Seq(Seq(Components))
  BY <1>1 DEF InputInv, JobOK
<1>3. es \in Seq(EntryRecords) /\ r \in Seq(Components)
  BY <1>1, EntryFacts
<1>4. /\ n <= Len(es) + 1 /\ out = Outs(a, r, n)
      /\ Cardinality(Before(a, n)) <= MaxEntries /\ Totals(es, Counted(a))[n - 1] <= MaxSize
  BY <1>1 DEF PerInv, JobFaithful
<1>5. n = Len(es) + 1 /\ n - 1 = Len(es)
  BY <1>1, <1>2, <1>3, <1>4
<1>6. Before(a, n) = Counted(a)
  <2>1. Counted(a) \subseteq 1..Len(es) /\ Len(es) \in Nat
    BY <1>3, CountedFacts
  <2>2. \A i \in Counted(a) : i < n
    BY <1>5, <2>1
  <2> QED
    BY <2>2 DEF Before
<1>7. found = [k \in 1..Cardinality(Offered(a)) |-> r \o es[Nth(Offered(a), k)].path]
  <2>1. Entries[a] \in Seq(EntryRecords) /\ n = Len(Entries[a]) + 1
    BY <1>3, <1>5
  <2>2. Kept(out) = Contribution(a, r)
    BY <1>3, <1>4, <2>1, OutsWanted
  <2> QED
    BY <2>2 DEF Kept, Contribution
<1>8. Exactly(a, found)
  <2>1. made \in 1..made
    <3>1. made \in Nat
      BY ArgumentFacts DEF InputInv
    <3>2. made # 0
      BY <1>1, <3>1 DEF InputInv, Progress
    <3> QED
      BY <3>1, <3>2
  <2>2. \E k \in 1..made :
          found = [i \in 1..Cardinality(Offered(a)) |-> Temp(k) \o es[Nth(Offered(a), i)].path]
    BY <1>2, <1>7, <2>1
  <2> QED
    BY <1>3, <1>4, <1>5, <1>6, <2>2 DEF Exactly, Offered
<1>9. found \in Seq(Seq(Components))
  <2>1. {i \in DOMAIN out : Matches(out[i])} \subseteq DOMAIN out
    OBVIOUS
  <2> QED
    BY <1>2, <2>1, PickedType
<1> QED
  BY <1>1, <1>2, <1>8, <1>9, LogContributed

LEMMA PerStep ==
  InputInv /\ PerInv /\ [InputNext]_inputVars => PerInv'
<1> SUFFICES ASSUME InputInv, PerInv, [InputNext]_inputVars PROVE PerInv'
  OBVIOUS
<1>1. CASE CollectNothing
  BY <1>1, PerAbort DEF CollectNothing
<1> QED
  BY <1>1, PerQuiet, PerCollectFile, PerCollectDirectory, PerRefuse, PerOpenArchive, PerSkip,
     PerExtractEntry, PerExtracted DEF InputNext

\* Whatever the archives hold and wherever one fails, what is collected is what the
\* arguments contribute one by one: an archive all of its wanted files, and at most
\* links that may pass besides, in their order and in one directory, within both
\* limits, or nothing.
THEOREM ArgumentsContributeAlone == InputSpec => []CollectionIsPerArgument
<1>1. InputInit => PerInv
  BY PerInit
<1>2. InputInv /\ PerInv /\ [InputNext]_inputVars => PerInv'
  BY PerStep
<1>3. InputInv /\ PerInv => CollectionIsPerArgument
  BY PerProperty
<1> QED
  BY <1>1, <1>2, <1>3, CollectionInvariant, PTL DEF InputSpec

-----------------------------------------------------------------------------
(* Documents and cues.                                                       *)

IsLine(l) == l = [k |-> l.k, a |-> l.a, b |-> l.b, t |-> l.t] /\ IsSeq(l.t)
IsDocument(lines) == IsSeq(lines) /\ \A i \in DOMAIN lines : IsLine(lines[i])

IsCue(e) ==
  /\ e = [index |-> e.index, start |-> e.start, end |-> e.end, text |-> e.text]
  /\ e.start \in Nat /\ e.end \in Nat /\ IsSeq(e.text)
AreCues(entries) == IsSeq(entries) /\ \A i \in DOMAIN entries : IsCue(entries[i])

LEMMA SeqOfAny ==
  ASSUME NEW S, NEW s \in Seq(S)
  PROVE  IsSeq(s) /\ \A i \in DOMAIN s : s[i] \in S
BY DEF IsSeq, Range

LEMMA SeqFacts ==
  ASSUME NEW s, IsSeq(s)
  PROVE  /\ Len(s) \in Nat /\ DOMAIN s = 1..Len(s) /\ s = [i \in 1..Len(s) |-> s[i]]
         /\ \A S : (\A i \in DOMAIN s : s[i] \in S) => s \in Seq(S)
BY DEF IsSeq

\* What is indexed from 1 on is a sequence.
LEMMA SeqByIndex ==
  ASSUME NEW n \in Nat, NEW s, DOMAIN s = 1..n, s = [i \in 1..n |-> s[i]]
  PROVE  IsSeq(s) /\ Len(s) = n
<1>1. \A i \in 1..n : s[i] \in Range(s)
  BY DEF Range
<1>2. s \in [1..n -> Range(s)]
  BY <1>1
<1> QED
  BY <1>2 DEF IsSeq

LEMMA EmptySeqs == IsSeq(<<>>) /\ Len(<<>>) = 0 /\ DOMAIN <<>> = {}
<1>1. <<>> \in Seq(Range(<<>>))
  OBVIOUS
<1> QED
  BY <1>1 DEF IsSeq

LEMMA SubSeqFacts ==
  ASSUME NEW s, IsSeq(s), NEW m \in 1..(Len(s) + 1), NEW n \in 0..Len(s)
  PROVE  /\ IsSeq(SubSeq(s, m, n))
         /\ Len(SubSeq(s, m, n)) = IF m <= n THEN n - m + 1 ELSE 0
         /\ \A i \in DOMAIN SubSeq(s, m, n) :
              m + i - 1 \in DOMAIN s /\ SubSeq(s, m, n)[i] = s[m + i - 1]
<1> DEFINE u == SubSeq(s, m, n)
<1>1. Len(s) \in Nat /\ DOMAIN s = 1..Len(s)
  BY SeqFacts
<1>2. \A i \in m..n : s[i] \in Range(s)
  BY <1>1 DEF Range
<1>3. /\ u \in Seq(Range(s))
      /\ Len(u) = IF m <= n THEN n - m + 1 ELSE 0
      /\ \A i \in 1..(n - m + 1) : u[i] = s[m + i - 1]
  BY <1>1, <1>2, SubSeqProperties
<1> HIDE DEF u
<1>4. IsSeq(u)
  BY <1>3 DEF IsSeq, Range
<1>5. \A i \in DOMAIN u : i \in 1..(n - m + 1) /\ m + i - 1 \in 1..Len(s)
  BY <1>1, <1>3
<1> QED
  BY <1>1, <1>3, <1>4, <1>5 DEF u

LEMMA ConcatFacts ==
  ASSUME NEW s, IsSeq(s), NEW t, IsSeq(t)
  PROVE  /\ IsSeq(s \o t) /\ Len(s \o t) = Len(s) + Len(t)
         /\ \A i \in DOMAIN (s \o t) :
              \/ i \in DOMAIN s /\ (s \o t)[i] = s[i]
              \/ i - Len(s) \in DOMAIN t /\ (s \o t)[i] = t[i - Len(s)]
<1> DEFINE S == Range(s) \cup Range(t)
           u == s \o t
<1>1. s \in Seq(S) /\ t \in Seq(S)
  BY SeqFacts DEF Range
<1>2. Len(s) \in Nat /\ DOMAIN s = 1..Len(s) /\ Len(t) \in Nat /\ DOMAIN t = 1..Len(t)
  BY SeqFacts
<1>3. u \in Seq(S) /\ Len(u) = Len(s) + Len(t)
      /\ \A i \in 1..(Len(s) + Len(t)) : u[i] = IF i <= Len(s) THEN s[i] ELSE t[i - Len(s)]
  BY <1>1, ConcatProperties
<1> HIDE DEF u
<1>4. IsSeq(u) /\ DOMAIN u = 1..(Len(s) + Len(t))
  <2>1. IsSeq(u)
    BY <1>3, SeqOfAny
  <2> QED
    BY <1>3, <2>1, SeqFacts
<1>5. \A i \in DOMAIN u :
        \/ i \in DOMAIN s /\ u[i] = s[i]
        \/ i - Len(s) \in DOMAIN t /\ u[i] = t[i - Len(s)]
  BY <1>2, <1>3, <1>4
<1> QED
  BY <1>3, <1>4, <1>5 DEF u

LEMMA CommonElements ==
  ASSUME NEW s, IsSeq(s), \A i \in DOMAIN s : IsSeq(s[i])
  PROVE  s \in Seq(Seq(UNION {Range(s[i]) : i \in DOMAIN s}))
<1> DEFINE S == UNION {Range(s[i]) : i \in DOMAIN s}
<1>1. \A i \in DOMAIN s : s[i] \in Seq(S)
  <2> SUFFICES ASSUME NEW i \in DOMAIN s PROVE s[i] \in Seq(S)
    OBVIOUS
  <2>1. \A j \in DOMAIN s[i] : s[i][j] \in S
    BY DEF Range
  <2> HIDE DEF S
  <2> QED
    BY <2>1, SeqFacts
<1> HIDE DEF S
<1>2. s \in Seq(Seq(S))
  BY <1>1, SeqFacts
<1> QED
  BY <1>2 DEF S

\* A concatenation of sequences has nothing but their elements, and something if
\* the last one has.
LEMMA FlattenElements ==
  ASSUME NEW s, IsSeq(s), \A i \in DOMAIN s : IsSeq(s[i])
  PROVE  /\ IsSeq(FlattenSeq(s))
         /\ \A k \in DOMAIN FlattenSeq(s) :
              \E i \in DOMAIN s : \E j \in DOMAIN s[i] : FlattenSeq(s)[k] = s[i][j]
         /\ s # <<>> /\ Len(s[Len(s)]) # 0 => FlattenSeq(s) # <<>>
<1> DEFINE S == UNION {Range(s[i]) : i \in DOMAIN s}
           u == FlattenSeq(s)
           n == Len(s)
<1>1. s \in Seq(Seq(S)) /\ n \in Nat
  BY CommonElements, SeqFacts
<1>0. \A x \in S : \E i \in DOMAIN s : \E j \in DOMAIN s[i] : x = s[i][j]
  BY DEF Range
<1> HIDE DEF S
<1>2. CASE s = <<>>
  BY <1>2, EmptySeqs DEF FlattenSeq
<1>3. CASE s # <<>>
  <2>1. PICK f \in [1..n -> Seq(S)] :
          f[1] = s[1] /\ (\A k \in 2..n : f[k] = f[k - 1] \o s[k]) /\ u = f[n]
    BY <1>1, <1>3, FlattenFacts
  <2>2. n \in 1..n /\ s[n] \in Seq(S)
    BY <1>1, <1>3
  <2> HIDE DEF u, n
  <2>3. u \in Seq(S)
    BY <2>1, <2>2
  <2>4. IsSeq(u) /\ \A k \in DOMAIN u : u[k] \in S
    BY <2>3, SeqOfAny
  <2>5. Len(s[n]) # 0 => u # <<>>
    <3>1. CASE n = 1
      BY <2>1, <2>2, <3>1
    <3>2. CASE n # 1
      <4>1. n \in 2..n /\ n - 1 \in 1..n
        BY <1>1, <2>2, <3>2
      <4> PICK x : x = f[n - 1]
        OBVIOUS
      <4>2. u = x \o s[n] /\ x \in Seq(S)
        BY <2>1, <4>1
      <4> PICK y : y = s[n]
        OBVIOUS
      <4>3. Len(u) = Len(x) + Len(y) /\ Len(x) \in Nat /\ Len(y) \in Nat
        BY <2>2, <4>2, ConcatProperties
      <4>4. u = <<>> => Len(u) = 0
        BY EmptySeqs
      <4>5. \A a, b \in Nat : a + b = 0 => b = 0
        OBVIOUS
      <4>6. u = <<>> => Len(y) = 0
        BY <4>3, <4>4, <4>5, Zenon
      <4> QED
        BY <4>6
    <3> QED
      BY <3>1, <3>2
  <2> QED
    BY <1>0, <2>4, <2>5 DEF u, n
<1> QED
  BY <1>2, <1>3

LEMMA PiecesFacts ==
  ASSUME NEW s, IsSeq(s), NEW I, I \subseteq DOMAIN s
  PROVE  /\ IsSeq(Pieces(s, I))
         /\ \A k \in DOMAIN Pieces(s, I) :
              /\ IsSeq(Pieces(s, I)[k])
              /\ \A j \in DOMAIN Pieces(s, I)[k] : \E i \in DOMAIN s : Pieces(s, I)[k][j] = s[i]
<1> DEFINE n == Len(s)
           c == Cardinality(I)
           from(k) == IF k = 1 THEN 1 ELSE Nth(I, k - 1) + 1
           to(k) == IF k = c + 1 THEN n ELSE Nth(I, k) - 1
           piece(k) == SubSeq(s, from(k), to(k))
           u == Pieces(s, I)
<1>1. n \in Nat /\ DOMAIN s = 1..n
  BY SeqFacts
<1>2. IsFiniteSet(I) /\ I \subseteq Nat
  <2>1. IsFiniteSet(1..n)
    BY <1>1, FS_Interval
  <2> QED
    BY <1>1, <2>1, FS_Subset
<1>3. c \in Nat /\ \A k \in 1..c : Nth(I, k) \in 1..n
  BY <1>1, <1>2, NthFacts
<1> HIDE DEF n, c
<1>4. ASSUME NEW k \in 1..(c + 1)
      PROVE  from(k) \in 1..(n + 1) /\ to(k) \in 0..n
  <2>1. k # 1 => k - 1 \in 1..c
    BY <1>3
  <2>2. k # c + 1 => k \in 1..c
    BY <1>3
  <2> QED
    BY <1>1, <1>3, <2>1, <2>2
<1>5. u = [k \in 1..(c + 1) |-> piece(k)]
  BY DEF Pieces, n, c
<1> HIDE DEF from, to, u, piece
<1>6. IsSeq(u) /\ DOMAIN u = 1..(c + 1)
  <2>1. DOMAIN u = 1..(c + 1) /\ u = [k \in 1..(c + 1) |-> u[k]] /\ c + 1 \in Nat
    <3>1. DOMAIN u = 1..(c + 1) /\ \A k \in 1..(c + 1) : u[k] = piece(k)
      BY <1>5
    <3>2. u = [k \in 1..(c + 1) |-> u[k]]
      BY <1>5, <3>1
    <3> QED
      BY <1>3, <3>1, <3>2
  <2> QED
    BY <2>1, SeqByIndex
<1>7. ASSUME NEW k \in DOMAIN u
      PROVE  IsSeq(u[k]) /\ \A j \in DOMAIN u[k] : \E i \in DOMAIN s : u[k][j] = s[i]
  <2>1. u[k] = SubSeq(s, from(k), to(k)) /\ from(k) \in 1..(Len(s) + 1) /\ to(k) \in 0..Len(s)
    BY <1>4, <1>5, <1>6 DEF n, piece
  <2> QED
    BY <2>1, SubSeqFacts
<1> QED
  BY <1>6, <1>7 DEF u

LEMMA SameLength ==
  ASSUME NEW s, IsSeq(s), NEW u, DOMAIN u = DOMAIN s, u = [i \in DOMAIN s |-> u[i]]
  PROVE  IsSeq(u) /\ Len(u) = Len(s)
BY SeqFacts, SeqByIndex

LEMMA LineFacts ==
  ASSUME NEW k, NEW a, NEW b, NEW t, IsSeq(t)
  PROVE  IsLine(Line(k, a, b, t))
BY DEF Line, IsLine

LEMMA TextLineFacts ==
  /\ \A t : IsSeq(t) => IsLine(TextLine(t))
  /\ IsLine(Blank) /\ \A k : IsLine(Mark(k))
BY LineFacts, EmptySeqs DEF TextLine, Blank, Mark

LEMMA CueFacts ==
  ASSUME NEW i, NEW start \in Nat, NEW end \in Nat, NEW t, IsSeq(t)
  PROVE  IsCue(Entry(i, start, end, t))
BY DEF Entry, IsCue

LEMMA ReplaceFacts ==
  ASSUME NEW t, IsSeq(t), NEW a, NEW b
  PROVE  IsSeq(Replace(t, a, b))
<1> DEFINE u == Replace(t, a, b)
<1>1. DOMAIN u = DOMAIN t /\ u = [i \in DOMAIN t |-> u[i]]
  BY DEF Replace
<1> HIDE DEF u
<1>2. IsSeq(u)
  BY <1>1, SameLength
<1> QED
  BY <1>2 DEF u

LEMMA StripFacts ==
  ASSUME NEW t, IsSeq(t), NEW tags
  PROVE  IsSeq(Strip(t, tags))
<1>1. {i \in DOMAIN t : t[i] \notin tags} \subseteq DOMAIN t
  OBVIOUS
<1> QED
  BY <1>1, PickedFacts DEF Strip

LEMMA TextLinesFacts ==
  ASSUME NEW t, IsSeq(t)
  PROVE  IsDocument(TextLines(t))
<1> DEFINE I == {i \in DOMAIN t : t[i] = "nl"}
           pieces == Pieces(t, I)
           u == TextLines(t)
<1>1. IsSeq(pieces) /\ \A k \in DOMAIN pieces : IsSeq(pieces[k])
  <2>1. I \subseteq DOMAIN t
    OBVIOUS
  <2> HIDE DEF I
  <2> QED
    BY <2>1, PiecesFacts
<1>2. u = [k \in DOMAIN pieces |-> TextLine(pieces[k])]
  BY DEF TextLines
<1> HIDE DEF u, pieces
<1>3. DOMAIN u = DOMAIN pieces /\ \A k \in DOMAIN pieces : u[k] = TextLine(pieces[k])
  BY <1>2
<1>4. u = [k \in DOMAIN pieces |-> u[k]]
  BY <1>2, <1>3
<1>5. IsSeq(u)
  BY <1>1, <1>3, <1>4, SameLength
<1>6. \A k \in DOMAIN u : IsLine(u[k])
  BY <1>1, <1>3, TextLineFacts
<1> QED
  BY <1>5, <1>6 DEF IsDocument, u

LEMMA FlattenLines ==
  ASSUME NEW s, IsSeq(s), \A i \in DOMAIN s : IsDocument(s[i])
  PROVE  IsDocument(FlattenSeq(s))
BY FlattenElements DEF IsDocument

LEMMA FlattenCues ==
  ASSUME NEW s, IsSeq(s), \A i \in DOMAIN s : AreCues(s[i])
  PROVE  AreCues(FlattenSeq(s))
BY FlattenElements DEF AreCues

LEMMA ConcatLines ==
  ASSUME NEW s, IsDocument(s), NEW t, IsDocument(t)
  PROVE  IsDocument(s \o t)
<1>1. IsSeq(s) /\ IsSeq(t)
  BY DEF IsDocument
<1>2. /\ IsSeq(s \o t)
      /\ \A i \in DOMAIN (s \o t) :
              \/ i \in DOMAIN s /\ (s \o t)[i] = s[i]
              \/ i - Len(s) \in DOMAIN t /\ (s \o t)[i] = t[i - Len(s)]
  BY <1>1, ConcatFacts
<1>3. \A i \in DOMAIN (s \o t) : IsLine((s \o t)[i])
  BY <1>2 DEF IsDocument
<1> QED
  BY <1>2, <1>3 DEF IsDocument

LEMMA FewLines ==
  ASSUME NEW a, IsLine(a), NEW b, IsLine(b)
  PROVE  IsDocument(<<>>) /\ IsDocument(<<a>>) /\ IsDocument(<<a, b>>)
<1>1. IsSeq(<<>>) /\ DOMAIN <<>> = {}
  BY EmptySeqs
<1>2. <<a>> \in Seq({a}) /\ <<a, b>> \in Seq({a, b})
  OBVIOUS
<1>3. /\ IsSeq(<<a>>) /\ \A i \in DOMAIN <<a>> : <<a>>[i] \in {a}
      /\ IsSeq(<<a, b>>) /\ \A i \in DOMAIN <<a, b>> : <<a, b>>[i] \in {a, b}
  BY <1>2, SeqOfAny
<1> QED
  BY <1>1, <1>3 DEF IsDocument

LEMMA PartLines ==
  ASSUME NEW s, IsDocument(s), NEW m \in 1..(Len(s) + 1), NEW n \in 0..Len(s)
  PROVE  IsDocument(SubSeq(s, m, n))
BY SubSeqFacts DEF IsDocument

LEMMA JoinLinesFacts ==
  ASSUME NEW lines, IsDocument(lines), lines # <<>>
  PROVE  IsSeq(JoinLines(lines))
<1> DEFINE s == [i \in DOMAIN lines |-> <<"nl">> \o lines[i].t]
           u == FlattenSeq(s)
<1>1. IsSeq(lines) /\ \A i \in DOMAIN lines : IsSeq(lines[i].t)
  BY DEF IsDocument, IsLine
<1>2. IsSeq(s) /\ Len(s) = Len(lines)
  <2>1. DOMAIN s = DOMAIN lines /\ s = [i \in DOMAIN lines |-> s[i]]
    OBVIOUS
  <2> HIDE DEF s
  <2> QED
    BY <1>1, <2>1, SameLength
<1>3. \A i \in DOMAIN s : IsSeq(s[i]) /\ Len(s[i]) # 0
  <2> SUFFICES ASSUME NEW i \in DOMAIN lines
               PROVE  IsSeq(<<"nl">> \o lines[i].t) /\ Len(<<"nl">> \o lines[i].t) # 0
    OBVIOUS
  <2>1. IsSeq(<<"nl">>) /\ Len(<<"nl">>) = 1
    <3>1. \A x : <<x>> \in Seq({x}) /\ Len(<<x>>) = 1
      OBVIOUS
    <3> QED
      BY <3>1, SeqOfAny
  <2>2. IsSeq(lines[i].t) /\ Len(lines[i].t) \in Nat
    BY <1>1, SeqFacts
  <2> QED
    BY <2>1, <2>2, ConcatFacts
<1> HIDE DEF s
<1>4. IsSeq(u)
  BY <1>2, <1>3, FlattenElements
<1>5. u # <<>>
  <2>1. s # <<>> /\ Len(s) \in DOMAIN s
    BY <1>1, <1>2, SeqFacts
  <2> QED
    BY <1>2, <1>3, <2>1, FlattenElements
<1>6. IsSeq(Tail(u))
  <2>1. u \in Seq(Range(u))
    BY <1>4 DEF IsSeq
  <2>2. Tail(u) \in Seq(Range(u))
    BY <1>5, <2>1, HeadTailProperties
  <2> QED
    BY <2>2, SeqOfAny
<1> QED
  BY <1>6 DEF JoinLines, u, s

-----------------------------------------------------------------------------
(* What the parsers return is a sequence of cues.                            *)

LEMMA Times ==
  /\ \A d \in Nat : /\ ParseTime(d) \in Nat /\ ParseVttTime(d) \in Nat
                    /\ ParseAssTime(d) \in Nat /\ d % TwoDigitHours \in Nat
  /\ 0..(TwoDigitHours - 1) \subseteq Nat
<1>1. ASSUME NEW d \in Nat
      PROVE  /\ ParseTime(d) \in Nat /\ ParseVttTime(d) \in Nat /\ ParseAssTime(d) \in Nat
             /\ d % TwoDigitHours \in Nat
  BY SMT DEF ParseTime, ParseVttTime, ParseAssTime, TwoDigitHours
<1>2. 0..(TwoDigitHours - 1) \subseteq Nat
  <2>1. TwoDigitHours \in Nat
    BY SMT DEF TwoDigitHours
  <2>2. \A n \in Nat : 0..(n - 1) \subseteq Nat
    OBVIOUS
  <2> QED
    BY <2>1, <2>2
<1> QED
  BY <1>1, <1>2

LEMMA IndexedCues ==
  ASSUME NEW entries, AreCues(entries)
  PROVE  AreCues(Indexed(entries)) /\ Len(Indexed(entries)) = Len(entries)
<1> DEFINE u == Indexed(entries)
<1>1. IsSeq(entries) /\ \A i \in DOMAIN entries : IsCue(entries[i])
  BY DEF AreCues
<1>2. /\ DOMAIN u = DOMAIN entries /\ u = [i \in DOMAIN entries |-> u[i]]
      /\ \A i \in DOMAIN u : u[i] = [entries[i] EXCEPT !.index = i]
  BY DEF Indexed
<1> HIDE DEF u
<1>3. IsSeq(u) /\ Len(u) = Len(entries)
  BY <1>1, <1>2, SameLength
<1>4. \A i \in DOMAIN u : IsCue(u[i])
  BY <1>1, <1>2 DEF IsCue
<1> QED
  BY <1>3, <1>4 DEF AreCues, u

LEMMA SrtEntryCues ==
  ASSUME NEW block, IsDocument(block)
  PROVE  AreCues(SrtEntry(block))
<1>1. IsSeq(block) /\ Len(block) \in Nat
  BY SeqFacts DEF IsDocument
<1>2. CASE SrtEntry(block) = <<>>
  BY <1>2, EmptySeqs DEF AreCues
<1>3. CASE SrtEntry(block) # <<>>
  <2> DEFINE a == ParseTime(block[2].a % TwoDigitHours)
             b == ParseTime(block[2].b)
             t == JoinLines(SubSeq(block, 3, Len(block)))
             e == Entry(block[1].a, a, b, t)
  <2>1. /\ Len(block) >= 3 /\ block[2].a \in Nat /\ block[2].b \in 0..(TwoDigitHours - 1)
        /\ SrtEntry(block) = <<e>>
    BY <1>3 DEF SrtEntry
  <2>2. a \in Nat /\ b \in Nat
    <3>1. block[2].b \in Nat
      BY <2>1, Times
    <3> QED
      BY <2>1, <3>1, Times
  <2>3. IsSeq(t)
    <3>1. IsDocument(SubSeq(block, 3, Len(block)))
      <4>1. 3 \in 1..(Len(block) + 1) /\ Len(block) \in 0..Len(block)
        BY <1>1, <2>1
      <4> QED
        BY <4>1, PartLines
    <3>2. Len(SubSeq(block, 3, Len(block))) # 0
      <4>1. 3 \in 1..(Len(block) + 1) /\ Len(block) \in 0..Len(block)
        BY <1>1, <2>1
      <4> DEFINE m == Len(SubSeq(block, 3, Len(block)))
      <4>2. m = Len(block) - 3 + 1
        BY <1>1, <2>1, <4>1, SubSeqFacts
      <4> HIDE DEF m
      <4>3. m # 0
        BY <1>1, <2>1, <4>2
      <4> QED
        BY <4>3 DEF m
    <3>3. SubSeq(block, 3, Len(block)) # <<>>
      BY <3>2, EmptySeqs
    <3> QED
      BY <3>1, <3>3, JoinLinesFacts
  <2> HIDE DEF a, b, t
  <2>4. IsCue(e)
    BY <2>2, <2>3, CueFacts
  <2> HIDE DEF e
  <2>5. <<e>> \in Seq({e})
    OBVIOUS
  <2>6. IsSeq(<<e>>) /\ \A i \in DOMAIN <<e>> : <<e>>[i] \in {e}
    BY <2>5, SeqOfAny
  <2> QED
    BY <2>1, <2>4, <2>6 DEF AreCues
<1> QED
  BY <1>2, <1>3

\* The blocks are parts of the document.
LEMMA BlocksFacts ==
  ASSUME NEW lines, IsDocument(lines)
  PROVE  IsSeq(Blocks(lines)) /\ \A k \in DOMAIN Blocks(lines) : IsDocument(Blocks(lines)[k])
<1>1. IsSeq(lines)
  BY DEF IsDocument
<1>2. PICK I : I \subseteq DOMAIN lines /\ Blocks(lines) = Pieces(lines, I)
  BY SMTT(40) DEF Blocks
<1>3. /\ IsSeq(Pieces(lines, I))
      /\ \A k \in DOMAIN Pieces(lines, I) :
           /\ IsSeq(Pieces(lines, I)[k])
           /\ \A j \in DOMAIN Pieces(lines, I)[k] :
                \E i \in DOMAIN lines : Pieces(lines, I)[k][j] = lines[i]
  BY <1>1, <1>2, PiecesFacts
<1> QED
  BY <1>2, <1>3 DEF IsDocument

\* One block after the other contributes its cue.
LEMMA PerBlock ==
  ASSUME NEW s, IsSeq(s), NEW f, f = [i \in DOMAIN s |-> f[i]], \A i \in DOMAIN s : AreCues(f[i])
  PROVE  AreCues(FlattenSeq(f))
<1>1. DOMAIN f = DOMAIN s
  OBVIOUS
<1>2. IsSeq(f)
  BY <1>1, SameLength
<1> QED
  BY <1>1, <1>2, FlattenCues

IsSubtitle(s) == s = [ok |-> s.ok, format |-> s.format, entries |-> s.entries] /\ AreCues(s.entries)

LEMMA Errors ==
  /\ IsSubtitle(ParseError) /\ ~ParseError.ok
  /\ \A format, entries : /\ AreCues(entries) => IsSubtitle(Subtitle(format, entries))
                          /\ Subtitle(format, entries).entries = entries
                          /\ Subtitle(format, entries).format = format
                          /\ Subtitle(format, entries).ok
<1>1. IsSubtitle(ParseError) /\ ~ParseError.ok
  BY EmptySeqs DEF ParseError, IsSubtitle, AreCues
<1>2. \A format, entries : /\ AreCues(entries) => IsSubtitle(Subtitle(format, entries))
                           /\ Subtitle(format, entries).entries = entries
                           /\ Subtitle(format, entries).format = format
                           /\ Subtitle(format, entries).ok
  BY DEF IsSubtitle, Subtitle
<1> QED
  BY <1>1, <1>2

\* A parser fails or returns cues under its own format.
Parsed(sub, format) == IsSubtitle(sub) /\ (sub.ok => sub.format = format)

LEMMA SrtParsed ==
  ASSUME NEW lines, IsDocument(lines)
  PROVE  Parsed(ParseSrt(lines), "srt")
<1> DEFINE blocks == Blocks(lines)
           f == [i \in DOMAIN blocks |-> SrtEntry(blocks[i])]
<1>1. IsSeq(blocks) /\ \A i \in DOMAIN blocks : AreCues(SrtEntry(blocks[i]))
  BY BlocksFacts, SrtEntryCues
<1>2. f = [i \in DOMAIN blocks |-> f[i]] /\ \A i \in DOMAIN blocks : AreCues(f[i])
  BY <1>1
<1>3. ParseSrt(lines) = ParseError \/ ParseSrt(lines) = Subtitle("srt", FlattenSeq(f))
  BY DEF ParseSrt
<1> HIDE DEF f, blocks
<1>4. AreCues(FlattenSeq(f))
  BY <1>1, <1>2, PerBlock
<1> QED
  BY <1>3, <1>4, Errors DEF Parsed

-----------------------------------------------------------------------------
(* A batch and its files.                                                    *)

IsPath(p) == p = [dir |-> p.dir, stem |-> p.stem, ext |-> p.ext, synced |-> p.synced]
IsTask(t) ==
  t = [pc |-> t.pc, result |-> t.result, data |-> t.data, torn |-> t.torn, success |-> t.success]
HostKnown == IsPath(host.path) /\ {"pc", "path", "sub"} \subseteq DOMAIN host

\* Apart from what is saved beside them, nothing touches the files before there is
\* a batch, and then nothing touches those of other formats.
FilesKept ==
  /\ IsFiniteSet(DOMAIN fs)
  /\ \A p \in DOMAIN fs : IsPath(p)
  /\ task = <<>> => \A p \in DOMAIN fs : p.synced \/ p \in DOMAIN origin
  /\ \A p \in DOMAIN origin :
       ~p.synced /\ (task = <<>> \/ p.ext # target) => p \in DOMAIN fs /\ fs[p] = origin[p]

\* Where a task that shares no file is, and what it has of its input and its output.
TaskSound(p) ==
  LET alone == Converted(origin[p]) IN
  /\ task[p].pc \in {"queued", "reading"} => p \in DOMAIN fs /\ fs[p] = origin[p]
  /\ task[p].pc \in {"converted", "truncated", "ok"} => alone.ok /\ task[p].result = alone
  /\ task[p].pc = "ok" =>
       /\ Output(p) \in DOMAIN fs
       /\ fs[Output(p)] = Written(task[p].data, Serialize(target, alone.entries))
  /\ task[p].pc = "err" => ~alone.ok \/ task[p].torn

BatchInv ==
  /\ HostKnown
  /\ FilesKept
  /\ \A p \in DOMAIN task : IsPath(p) /\ IsTask(task[p])
  /\ \A p \in Own : TaskSound(p)

LEMMA PathFacts ==
  ASSUME NEW p, IsPath(p)
  PROVE  /\ IsPath(Output(p)) /\ Output(p).synced = p.synced /\ Output(p).ext = target
         /\ IsPath(SyncedPath(p)) /\ SyncedPath(p).synced
<1>1. "ext" \in DOMAIN p /\ "synced" \in DOMAIN p /\ DOMAIN p = {"dir", "stem", "ext", "synced"}
  BY DEF IsPath
<1>2. IsPath(Output(p)) /\ Output(p).synced = p.synced /\ Output(p).ext = target
  BY <1>1, SMT DEF IsPath, Output
<1>3. IsPath(SyncedPath(p)) /\ SyncedPath(p).synced
  <2>1. DOMAIN SyncedPath(p) = DOMAIN p /\ SyncedPath(p).synced
    BY <1>1, Zenon DEF SyncedPath
  <2>2. SyncedPath(p) = [i \in DOMAIN p |-> SyncedPath(p)[i]]
    BY <1>1 DEF SyncedPath
  <2>3. IsPath(SyncedPath(p))
    BY <1>1, <2>1, <2>2 DEF IsPath
  <2> QED
    BY <2>1, <2>3
<1> QED
  BY <1>2, <1>3

\* Who writes the file of another task is of its directory and stem.
LEMMA WritersShare ==
  ASSUME NEW p, IsPath(p), NEW q, IsPath(q), Output(q) = p \/ Output(q) = Output(p)
  PROVE  [q EXCEPT !.ext = p.ext] = p
BY SMT DEF IsPath, Output

LEMMA OwnFiles ==
  ASSUME \A p \in DOMAIN task : IsPath(p), NEW p \in Own, NEW q \in DOMAIN task, q # p
  PROVE  Output(q) # p /\ Output(q) # Output(p)
<1>1. p \in DOMAIN task /\ [q EXCEPT !.ext = p.ext] # p
  BY DEF Own, Shared
<1> QED
  BY <1>1, WritersShare

LEMMA StoreFacts ==
  ASSUME NEW x, NEW file, Store(x, file)
  PROVE  /\ DOMAIN fs' = DOMAIN fs \cup {x} /\ fs'[x] = file
         /\ \A q \in DOMAIN fs : q # x => fs'[q] = fs[q]
         /\ IsFiniteSet(DOMAIN fs) => IsFiniteSet(DOMAIN fs')
<1>1. /\ DOMAIN fs' = DOMAIN fs \cup {x} /\ fs'[x] = file
      /\ \A q \in DOMAIN fs : q # x => fs'[q] = fs[q]
  BY DEF Store
<1> QED
  BY <1>1, FS_AddElement

\* The inputs of a batch are files of the directory.
LEMMA ScannedFiles ==
  ASSUME IsFiniteSet(DOMAIN fs), NEW root, NEW recursive
  PROVE  {m.path : m \in Range(OfType(ScanDirectory(root, recursive), "Subtitle"))} \subseteq DOMAIN fs
<1> DEFINE found == {p \in DOMAIN fs : p.dir = root \/ (recursive /\ p.dir \in Within[root])}
           s == SetToSeq(found)
           I == {i \in DOMAIN s : FileType(s[i]) # "none"}
           media == Picked(s, I)
           relative == [p \in found |-> [p EXCEPT !.dir = <<root, @>>]]
           c == [i \in DOMAIN media |-> MediaFile(i, media[i], relative[media[i]])]
           J == {i \in DOMAIN c : c[i].file_type = "Subtitle"}
           o == Picked(c, J)
<1>1. found \subseteq DOMAIN fs /\ s \in Seq(found)
  <2>1. IsFiniteSet(found)
    BY FS_Subset
  <2> HIDE DEF found
  <2> QED
    BY <2>1, SetToSeqFacts DEF found
<1> HIDE DEF found
<1>2. media \in Seq(found)
  <2>1. I \subseteq DOMAIN s
    OBVIOUS
  <2> HIDE DEF I, s
  <2> QED
    BY <1>1, <2>1, PickedType
<1> HIDE DEF media, relative
<1>3. IsSeq(c) /\ \A i \in DOMAIN c : c[i].path \in found
  <2>1. DOMAIN c = DOMAIN media /\ c = [i \in DOMAIN media |-> c[i]]
    OBVIOUS
  <2>2. \A i \in DOMAIN c : c[i].path = media[i]
    BY DEF MediaFile
  <2>3. IsSeq(media) /\ \A i \in DOMAIN media : media[i] \in found
    BY <1>2, SeqOfAny
  <2> HIDE DEF c
  <2> QED
    BY <2>1, <2>2, <2>3, SameLength
<1>4. OfType(ScanDirectory(root, recursive), "Subtitle") = o
  BY DEF OfType, ScanDirectory, Classified, media, relative, found
<1> HIDE DEF c
<1>5. \A k \in DOMAIN o : \E j \in DOMAIN c : o[k] = c[j]
  <2>1. J \subseteq DOMAIN c
    OBVIOUS
  <2> HIDE DEF J
  <2> QED
    BY <1>3, <2>1, PickedFacts
<1> HIDE DEF o
<1>6. \A m \in Range(o) : m.path \in found
  BY <1>3, <1>5 DEF Range
<1> QED
  BY <1>1, <1>4, <1>6

LEMMA HostOnly ==
  ASSUME BatchInv, UNCHANGED <<fs, origin, target, preserve, task>>, HostKnown'
  PROVE  BatchInv'
<1>1. FilesKept'
  BY DEF BatchInv, FilesKept
<1>2. \A p \in DOMAIN task' : IsPath(p) /\ IsTask(task'[p])
  BY DEF BatchInv
<1>3. Own' = Own /\ \A p : TaskSound(p)' = TaskSound(p)
  BY DEF Own, Shared, TaskSound, Converted, Output
<1> QED
  BY <1>1, <1>2, <1>3 DEF BatchInv

\* What is saved is saved beside the files of a batch.
LEMMA SavedAside ==
  ASSUME BatchInv, NEW x, IsPath(x), x.synced, NEW file, Store(x, file),
         UNCHANGED <<origin, target, preserve, task>>, HostKnown'
  PROVE  BatchInv'
<1>1. /\ DOMAIN fs' = DOMAIN fs \cup {x} /\ fs'[x] = file
      /\ \A q \in DOMAIN fs : q # x => fs'[q] = fs[q]
      /\ IsFiniteSet(DOMAIN fs')
  BY StoreFacts DEF BatchInv, FilesKept
<1>2. FilesKept'
  <2>1. \A p \in DOMAIN fs' : IsPath(p)
    BY <1>1 DEF BatchInv, FilesKept
  <2>2. task' = <<>> => \A p \in DOMAIN fs' : p.synced \/ p \in DOMAIN origin'
    BY <1>1 DEF BatchInv, FilesKept
  <2>3. \A p \in DOMAIN origin' :
          ~p.synced /\ (task' = <<>> \/ p.ext # target') => p \in DOMAIN fs' /\ fs'[p] = origin'[p]
    BY <1>1, Zenon DEF BatchInv, FilesKept
  <2> QED
    BY <1>1, <2>1, <2>2, <2>3 DEF FilesKept
<1>3. \A p \in DOMAIN task' : IsPath(p) /\ IsTask(task'[p])
  BY DEF BatchInv
<1>4. Own' = Own
  BY DEF Own, Shared
<1>5. ASSUME NEW p \in Own PROVE TaskSound(p)'
  <2>1. p \in DOMAIN task /\ IsPath(p) /\ ~p.synced /\ TaskSound(p)
    BY DEF Own, BatchInv
  <2>2. p # x /\ Output(p) # x /\ Output(p)' = Output(p)
    <3>1. ~Output(p).synced
      BY <2>1, PathFacts, Zenon
    <3> QED
      BY <2>1, <3>1 DEF Output
  <2>3. Converted(origin[p])' = Converted(origin[p])
    BY DEF Converted
  <2> QED
    BY <1>1, <2>1, <2>2, <2>3 DEF TaskSound
<1> QED
  BY <1>2, <1>3, <1>4, <1>5 DEF BatchInv

\* A step of one conversion, which writes nothing but its output.
LEMMA ConversionStep ==
  ASSUME BatchInv, NEW p \in DOMAIN task, DOMAIN task' = DOMAIN task, IsTask(task'[p]),
         \A q \in DOMAIN task : q # p => task'[q] = task[q],
         fs' = fs \/ \E file : Store(Output(p), file),
         UNCHANGED <<origin, target, preserve, host>>,
         p \in Own => TaskSound(p)'
  PROVE  BatchInv'
<1>0. DOMAIN task # {} /\ task # <<>> /\ task' # <<>>
  BY EmptySeqs
<1>1. /\ DOMAIN fs' = DOMAIN fs \/ DOMAIN fs' = DOMAIN fs \cup {Output(p)}
      /\ \A q \in DOMAIN fs : q # Output(p) => fs'[q] = fs[q]
      /\ IsFiniteSet(DOMAIN fs')
  <2>1. CASE fs' = fs
    BY <2>1 DEF BatchInv, FilesKept
  <2>2. CASE \E file : Store(Output(p), file)
    <3>1. PICK file : Store(Output(p), file)
      BY <2>2
    <3> QED
      BY <3>1, StoreFacts DEF BatchInv, FilesKept
  <2> QED
    BY <2>1, <2>2
<1>2. IsPath(p) /\ IsPath(Output(p)) /\ Output(p).ext = target
  BY PathFacts DEF BatchInv
<1>3. FilesKept'
  <2>1. \A q \in DOMAIN fs' : IsPath(q)
    BY <1>1, <1>2 DEF BatchInv, FilesKept
  <2>2. ASSUME NEW q \in DOMAIN origin, ~q.synced, q.ext # target
        PROVE  q \in DOMAIN fs' /\ fs'[q] = origin[q]
    <3>1. q \in DOMAIN fs /\ fs[q] = origin[q]
      BY <2>2 DEF BatchInv, FilesKept
    <3> QED
      BY <1>1, <1>2, <2>2, <3>1
  <2> QED
    BY <1>0, <1>1, <2>1, <2>2 DEF FilesKept
<1>4. \A q \in DOMAIN task' : IsPath(q) /\ IsTask(task'[q])
  BY DEF BatchInv
<1>5. Own' = Own
  BY DEF Own, Shared
<1>6. ASSUME NEW q \in Own, q # p PROVE TaskSound(q)'
  <2>1. q \in DOMAIN task /\ TaskSound(q) /\ task'[q] = task[q]
    BY <1>6 DEF Own, BatchInv
  <2>2. q # Output(p) /\ Output(q) # Output(p) /\ Output(q)' = Output(q)
    <3>1. \A r \in DOMAIN task : IsPath(r)
      BY DEF BatchInv
    <3>2. Output(p) # q /\ Output(p) # Output(q)
      BY <1>6, <3>1, OwnFiles
    <3> QED
      BY <3>2 DEF Output
  <2>3. Converted(origin[q])' = Converted(origin[q])
    BY DEF Converted
  <2>4. Serialize(target, Converted(origin[q]).entries)' = Serialize(target, Converted(origin[q]).entries)
    BY <2>3
  <2> QED
    BY <1>1, <2>1, <2>2, <2>3, <2>4 DEF TaskSound
<1>7. HostKnown'
  BY DEF BatchInv, HostKnown
<1> QED
  BY <1>3, <1>4, <1>5, <1>6, <1>7 DEF BatchInv

LEMMA BatchInit == Init => BatchInv
<1> SUFFICES ASSUME Init PROVE BatchInv
  OBVIOUS
<1>1. DOMAIN task = {}
  BY EmptySeqs DEF Init
<1>2. HostKnown
  <2>1. host = Idle
    BY DEF Init
  <2>2. IsPath(Idle.path) /\ {"pc", "path", "sub"} \subseteq DOMAIN Idle
    BY Zenon DEF Idle, IsPath
  <2> QED
    BY <2>1, <2>2 DEF HostKnown
<1>3. FilesKept
  <2>1. fs \in InitialFiles /\ origin = fs
    BY DEF Init
  <2>2. IsFiniteSet(DOMAIN fs) /\ DOMAIN fs \subseteq Paths
    BY <2>1, FilesAssumption
  <2>3. \A p \in DOMAIN fs : IsPath(p)
    BY <2>2 DEF Paths, IsPath
  <2> QED
    BY <2>1, <2>2, <2>3 DEF FilesKept
<1> QED
  BY <1>1, <1>2, <1>3 DEF BatchInv, Own

LEMMA StartBatchInv ==
  ASSUME BatchInv, NEW root, NEW recursive, StartBatch(root, recursive)
  PROVE  BatchInv'
<1> DEFINE D == {m.path : m \in Range(OfType(ScanDirectory(root, recursive), "Subtitle"))}
           t == [pc |-> "queued", result |-> ParseError, data |-> <<>>, torn |-> FALSE,
                 success |-> FALSE]
<1>1. /\ task = <<>> /\ task' = [p \in D |-> t] /\ task' # <<>>
      /\ UNCHANGED <<fs, origin, host>>
  BY DEF StartBatch
<1>2. D \subseteq DOMAIN fs
  BY ScannedFiles DEF BatchInv, FilesKept
<1>3. IsTask(t) /\ t.pc = "queued"
  BY DEF IsTask
<1> HIDE DEF D, t
<1>4. FilesKept'
  BY <1>1 DEF BatchInv, FilesKept
<1>5. \A p \in DOMAIN task' : IsPath(p) /\ IsTask(task'[p]) /\ task'[p].pc = "queued"
  BY <1>1, <1>2, <1>3 DEF BatchInv, FilesKept
<1>6. ASSUME NEW p \in Own' PROVE TaskSound(p)'
  <2>1. p \in DOMAIN fs /\ ~p.synced /\ task'[p].pc = "queued"
    BY <1>1, <1>2, <1>5 DEF Own
  <2>2. fs[p] = origin[p]
    BY <1>1, <2>1 DEF BatchInv, FilesKept
  <2> QED
    BY <1>1, <2>1, <2>2 DEF TaskSound
<1>7. HostKnown'
  BY <1>1 DEF BatchInv, HostKnown
<1> QED
  BY <1>4, <1>5, <1>6, <1>7 DEF BatchInv

LEMMA AcquireInv ==
  ASSUME BatchInv, NEW p \in DOMAIN task, Acquire(p)
  PROVE  BatchInv'
<1>1. /\ task' = [task EXCEPT ![p].pc = "reading"] /\ task[p].pc = "queued"
      /\ UNCHANGED <<fs, origin, target, preserve, host>>
  BY DEF Acquire
<1>2. IsTask(task[p])
  BY DEF BatchInv
<1>3. /\ DOMAIN task' = DOMAIN task /\ IsTask(task'[p]) /\ task'[p].pc = "reading"
      /\ \A q \in DOMAIN task : q # p => task'[q] = task[q]
  BY <1>1, <1>2 DEF IsTask
<1>4. p \in Own => TaskSound(p)'
  BY <1>1, <1>3 DEF BatchInv, TaskSound
<1> QED
  BY <1>1, <1>3, <1>4, ConversionStep

LEMMA ReadInputInv ==
  ASSUME BatchInv, NEW p \in DOMAIN task, ReadInput(p)
  PROVE  BatchInv'
<1> DEFINE result == Converted(fs[p])
           t == [pc |-> IF result.ok THEN "converted" ELSE "err", result |-> result,
                 data |-> fs[p].data, torn |-> FALSE,
                 success |-> result.ok /\ Validated(ParseDecoded(ReadForConversion(fs[p])), result)]
<1>1. /\ task' = [task EXCEPT ![p] = t] /\ task[p].pc = "reading"
      /\ UNCHANGED <<fs, origin, target, preserve, host>>
  BY DEF ReadInput, Converted
<1> HIDE DEF result
<1>2. IsTask(t) /\ t.result = result /\ t.pc = IF result.ok THEN "converted" ELSE "err"
  BY DEF IsTask
<1> HIDE DEF t
<1>3. /\ DOMAIN task' = DOMAIN task /\ IsTask(task'[p]) /\ task'[p] = t
      /\ \A q \in DOMAIN task : q # p => task'[q] = task[q]
  BY <1>1, <1>2
<1>4. p \in Own => TaskSound(p)'
  <2> HAVE p \in Own
  <2>1. fs[p] = origin[p]
    BY <1>1 DEF BatchInv, TaskSound
  <2>2. Converted(origin[p])' = result
    BY <1>1, <2>1 DEF Converted, result
  <2> QED
    BY <1>2, <1>3, <2>2 DEF TaskSound
<1> QED
  BY <1>1, <1>3, <1>4, ConversionStep

LEMMA TruncateOutputInv ==
  ASSUME BatchInv, NEW p \in DOMAIN task, TruncateOutput(p)
  PROVE  BatchInv'
<1>1. /\ task' = [task EXCEPT ![p].pc = "truncated"] /\ task[p].pc = "converted"
      /\ Store(Output(p), Truncated)
      /\ UNCHANGED <<origin, target, preserve, host>>
  BY DEF TruncateOutput
<1>2. IsTask(task[p])
  BY DEF BatchInv
<1>3. /\ DOMAIN task' = DOMAIN task /\ IsTask(task'[p]) /\ task'[p].pc = "truncated"
      /\ task'[p].result = task[p].result
      /\ \A q \in DOMAIN task : q # p => task'[q] = task[q]
  BY <1>1, <1>2 DEF IsTask
<1>4. p \in Own => TaskSound(p)'
  <2> HAVE p \in Own
  <2>1. Converted(origin[p])' = Converted(origin[p])
    BY <1>1 DEF Converted
  <2> QED
    BY <1>1, <1>3, <2>1 DEF BatchInv, TaskSound
<1> QED
  BY <1>1, <1>3, <1>4, ConversionStep

LEMMA WriteOutputInv ==
  ASSUME BatchInv, NEW p \in DOMAIN task, WriteOutput(p)
  PROVE  BatchInv'
<1> DEFINE file == Written(task[p].data, Serialize(target, task[p].result.entries))
<1>1. /\ task' = [task EXCEPT ![p].pc = "ok"] /\ task[p].pc = "truncated"
      /\ Store(Output(p), file)
      /\ UNCHANGED <<origin, target, preserve, host>>
  BY DEF WriteOutput
<1>2. IsTask(task[p])
  BY DEF BatchInv
<1>3. /\ DOMAIN task' = DOMAIN task /\ IsTask(task'[p]) /\ task'[p].pc = "ok"
      /\ task'[p].result = task[p].result /\ task'[p].data = task[p].data
      /\ \A q \in DOMAIN task : q # p => task'[q] = task[q]
  BY <1>1, <1>2 DEF IsTask
<1>4. p \in Own => TaskSound(p)'
  <2> HAVE p \in Own
  <2>1. Converted(origin[p])' = Converted(origin[p]) /\ Output(p)' = Output(p)
    BY <1>1 DEF Converted, Output
  <2>2. Converted(origin[p]).ok /\ task[p].result = Converted(origin[p])
    BY <1>1 DEF BatchInv, TaskSound
  <2>3. file = Written(task'[p].data, Serialize(target, task[p].result.entries))
    BY <1>3
  <2> HIDE DEF file
  <2>4. Output(p) \in DOMAIN fs' /\ fs'[Output(p)] = file
    BY ZenonT(40), <1>1, StoreFacts
  <2>5. fs'[Output(p)] = Written(task'[p].data, Serialize(target, Converted(origin[p]).entries))
    BY <2>2, <2>3, <2>4
  <2>6. Serialize(target, Converted(origin[p]).entries)' = Serialize(target, Converted(origin[p]).entries)
    BY <1>1, <2>1
  <2> QED
    BY <1>3, <2>1, <2>2, <2>4, <2>5, <2>6 DEF TaskSound
<1> QED
  BY <1>1, <1>3, <1>4, ConversionStep

LEMMA WriteFailsInv ==
  ASSUME BatchInv, NEW p \in DOMAIN task, WriteFails(p)
  PROVE  BatchInv'
<1>1. /\ task' = [task EXCEPT ![p].pc = "err", ![p].torn = TRUE]
      /\ UNCHANGED <<fs, origin, target, preserve, host>>
  BY DEF WriteFails
<1>2. IsTask(task[p])
  BY DEF BatchInv
<1>3. /\ DOMAIN task' = DOMAIN task /\ IsTask(task'[p]) /\ task'[p].pc = "err" /\ task'[p].torn
      /\ \A q \in DOMAIN task : q # p => task'[q] = task[q]
  BY <1>1, <1>2 DEF IsTask
<1>4. p \in Own => TaskSound(p)'
  BY <1>3, Zenon DEF TaskSound
<1> QED
  BY <1>1, <1>3, <1>4, ConversionStep

\* The host's calls.
LEMMA HostSteps ==
  ASSUME BatchInv,
         \/ \E req \in Requests : LoadSample(req)
         \/ LoadContent
         \/ \E heard \in {Heard(media) : media \in Audio}, method \in Methods :
              DetectOffset(heard, method) \/ DetectFails(heard, method)
         \/ \E off \in Offsets : ShiftTiming(off)
         \/ sync.found /\ ApplyManualOffset(sync.off)
         \/ SortCues
  PROVE  BatchInv'
<1>1. UNCHANGED <<fs, origin, target, preserve, task>>
  BY DEF LoadSample, LoadContent, DetectOffset, DetectFails, ShiftTiming, ApplyManualOffset, SortCues
<1>2. HostKnown'
  <2>1. CASE \E req \in Requests : LoadSample(req)
    <3>1. PICK req \in Requests : LoadSample(req)
      BY <2>1
    <3> DEFINE pairing == ResolvePairing(req)
               p == pairing.subtitle[1]
               charset == DetectEncoding(Sample(fs[p].data))
    <3>2. /\ p \in DOMAIN fs
          /\ host' = [Idle EXCEPT !.pc = "sampled", !.path = p, !.video = pairing.video,
                        !.engine = Engine(req.vad), !.charset = charset]
      BY <3>1 DEF LoadSample
    <3>3. IsPath(p)
      BY <3>2 DEF BatchInv, FilesKept
    <3> HIDE DEF p, pairing, charset
    <3>4. DOMAIN host' = DOMAIN Idle /\ host'.path = p
      BY <3>2, Zenon DEF Idle
    <3>5. {"pc", "path", "sub"} \subseteq DOMAIN Idle
      BY Zenon DEF Idle
    <3> QED
      BY <3>3, <3>4, <3>5 DEF HostKnown
  <2>2. CASE host' = host
    BY <2>2 DEF BatchInv, HostKnown
  <2>3. CASE LoadContent
    <3>1. PICK stage, sub, data : host' = [host EXCEPT !.pc = stage, !.sub = sub, !.data = data]
      BY <2>3 DEF LoadContent
    <3>2. DOMAIN host' = DOMAIN host /\ host'.path = host.path
      BY <3>1 DEF BatchInv, HostKnown
    <3> QED
      BY <3>2 DEF BatchInv, HostKnown
  <2>4. CASE \E entries : host' = [host EXCEPT !.sub.entries = entries]
    <3>1. PICK entries : host' = [host EXCEPT !.sub.entries = entries]
      BY <2>4
    <3>2. DOMAIN host' = DOMAIN host /\ host'.path = host.path
      BY <3>1 DEF BatchInv, HostKnown
    <3> QED
      BY <3>2 DEF BatchInv, HostKnown
  <2>5. ASSUME NEW off, ShiftTiming(off)
        PROVE  \E entries : host' = [host EXCEPT !.sub.entries = entries]
    BY <2>5 DEF ShiftTiming
  <2>6. SortCues => \E entries : host' = [host EXCEPT !.sub.entries = entries]
    BY DEF SortCues
  <2>7. ASSUME NEW heard, NEW method, DetectOffset(heard, method) \/ DetectFails(heard, method)
        PROVE  host' = host
    BY <2>7 DEF DetectOffset, DetectFails
  <2>8. \A off : ApplyManualOffset(off) => ShiftTiming(off)
    BY DEF ApplyManualOffset
  <2> QED
    BY <2>1, <2>2, <2>3, <2>4, <2>5, <2>6, <2>7, <2>8
<1> QED
  BY <1>1, <1>2, HostOnly

LEMMA SaveInv ==
  ASSUME BatchInv, SaveTruncate \/ SaveWrite
  PROVE  BatchInv'
<1> DEFINE x == SyncedPath(host.path)
<1>1. IsPath(x) /\ x.synced
  BY PathFacts DEF BatchInv, HostKnown
<1>2. \E file : Store(x, file)
  BY DEF SaveTruncate, SaveWrite
<1>3. UNCHANGED <<origin, target, preserve, task>>
  BY DEF SaveTruncate, SaveWrite
<1>4. HostKnown'
  <2>1. PICK stage : host' = [host EXCEPT !.pc = stage]
    BY DEF SaveTruncate, SaveWrite
  <2>2. DOMAIN host' = DOMAIN host /\ host'.path = host.path
    BY <2>1 DEF BatchInv, HostKnown
  <2> QED
    BY <2>2 DEF BatchInv, HostKnown
<1> HIDE DEF x
<1> QED
  BY <1>1, <1>2, <1>3, <1>4, SavedAside

LEMMA BatchNext ==
  ASSUME BatchInv, [Next]_vars
  PROVE  BatchInv'
<1>1. CASE \E root \in DOMAIN Within, recursive \in BOOLEAN : StartBatch(root, recursive)
  BY <1>1, StartBatchInv
<1>2. CASE \E p \in DOMAIN task :
             \/ Acquire(p) \/ ReadInput(p) \/ TruncateOutput(p) \/ WriteOutput(p) \/ WriteFails(p)
  BY <1>2, AcquireInv, ReadInputInv, TruncateOutputInv, WriteOutputInv, WriteFailsInv
<1>3. CASE \/ \E req \in Requests : LoadSample(req)
           \/ LoadContent
           \/ \E heard \in {Heard(media) : media \in Audio}, method \in Methods :
                DetectOffset(heard, method) \/ DetectFails(heard, method)
           \/ \E off \in Offsets : ShiftTiming(off)
           \/ sync.found /\ ApplyManualOffset(sync.off)
           \/ SortCues
  BY <1>3, HostSteps
<1>4. CASE SaveTruncate \/ SaveWrite
  BY <1>4, SaveInv
<1>5. CASE UNCHANGED vars
  <2>1. HostKnown' /\ UNCHANGED <<fs, origin, target, preserve, task>>
    BY <1>5 DEF vars, BatchInv, HostKnown
  <2> QED
    BY <2>1, HostOnly
<1> QED
  BY <1>1, <1>2, <1>3, <1>4, <1>5 DEF Next

\* A batch and the host's calls keep their files apart: the inductive invariant.
THEOREM BatchInvariant == Spec => []BatchInv
<1>1. BatchInv /\ [Next]_vars => BatchInv'
  BY BatchNext
<1> QED
  BY <1>1, BatchInit, PTL DEF Spec

\* A conversion that shares neither its input nor its output with another ends as if
\* it had run alone, whatever the host loads and saves meanwhile, and the files of
\* other formats than the target are what they were (FormatConverter::convert_batch).
THEOREM BatchesAreIsolated == Spec => []BatchIsolated
<1>1. BatchInv => BatchIsolated
  <2> SUFFICES ASSUME BatchInv PROVE BatchIsolated
    OBVIOUS
  <2>1. ASSUME NEW p \in Own
        PROVE  LET alone == Converted(origin[p]) IN
               /\ task[p].pc = "ok" =>
                    alone.ok /\ fs[Output(p)].lines = Serialize(target, alone.entries)
               /\ task[p].pc = "err" => ~alone.ok \/ task[p].torn
    <3>1. \A data, lines : Written(data, lines).lines = lines
      BY Zenon DEF Written
    <3> QED
      BY <3>1 DEF BatchInv, TaskSound
  <2>2. ASSUME NEW p \in DOMAIN origin, p.ext # target, ~p.synced
        PROVE  fs[p] = origin[p]
    BY <2>2 DEF BatchInv, FilesKept
  <2> QED
    BY <2>1, <2>2 DEF BatchIsolated
<1> QED
  BY <1>1, BatchInvariant, PTL

-----------------------------------------------------------------------------
(* Sorting and shifting.                                                     *)

Earlier(e, i, j) == e[i].start < e[j].start \/ (e[i].start = e[j].start /\ i < j)
Below(e, i) == {j \in DOMAIN e : Earlier(e, j, i)}
Rank(e, i) == Cardinality(Below(e, i))
Ranked(e, m) == CHOOSE i \in DOMAIN e : Rank(e, i) = m - 1

\* The cues have the ranks from 0 on, each one once, in the order of their starts.
LEMMA Ranks ==
  ASSUME NEW e, AreCues(e)
  PROVE  /\ \A i \in DOMAIN e : Rank(e, i) + 1 \in DOMAIN e
         /\ \A i, j \in DOMAIN e : Rank(e, i) = Rank(e, j) => i = j
         /\ \A i, j \in DOMAIN e : Rank(e, i) <= Rank(e, j) => e[i].start <= e[j].start
         /\ \A i, j \in DOMAIN e : Earlier(e, i, j) => Rank(e, i) < Rank(e, j)
         /\ \A m \in DOMAIN e : Ranked(e, m) \in DOMAIN e /\ Rank(e, Ranked(e, m)) = m - 1
<1> DEFINE n == Len(e)
           D == 1..n
<1>1. n \in Nat /\ DOMAIN e = D /\ \A i \in D : i \in Int /\ e[i].start \in Nat
  BY SeqFacts DEF AreCues, IsCue
<1>2. IsFiniteSet(D) /\ Cardinality(D) = n
  <2>1. IsFiniteSet(1..n) /\ Cardinality(1..n) = IF 1 > n THEN 0 ELSE n - 1 + 1
    BY <1>1, FS_Interval
  <2> QED
    BY <1>1, <2>1
<1> HIDE DEF n
<1>3. ASSUME NEW i \in D PROVE IsFiniteSet(Below(e, i)) /\ Rank(e, i) \in 0..(n - 1)
  <2>1. Below(e, i) \subseteq D /\ i \notin Below(e, i)
    BY <1>1 DEF Below, Earlier
  <2>2. IsFiniteSet(Below(e, i)) /\ Cardinality(Below(e, i)) \in Nat
        /\ Cardinality(Below(e, i)) <= n /\ (n = Cardinality(Below(e, i)) => D = Below(e, i))
    <3> HIDE DEF D
    <3>1. Below(e, i) \in SUBSET D
      BY <2>1
    <3> QED
      BY <1>2, <3>1, FS_Subset, FS_CardinalityType
  <2> HIDE DEF D
  <2>3. Cardinality(Below(e, i)) # n
    BY <2>1, <2>2
  <2> QED
    BY <1>1, <2>2, <2>3 DEF Rank
<1>4. ASSUME NEW i \in D, NEW j \in D, Earlier(e, i, j) PROVE Rank(e, i) < Rank(e, j)
  <2>1. /\ Below(e, i) \cup {i} \subseteq Below(e, j) /\ i \notin Below(e, i)
    BY <1>1, <1>4 DEF Below, Earlier
  <2>2. IsFiniteSet(Below(e, i)) /\ IsFiniteSet(Below(e, j))
        /\ Rank(e, i) \in Nat /\ Rank(e, j) \in Nat
    BY <1>3
  <2>3. Cardinality(Below(e, i) \cup {i}) = Rank(e, i) + 1
    BY <2>1, <2>2, FS_AddElement DEF Rank
  <2>4. Cardinality(Below(e, i) \cup {i}) <= Rank(e, j)
    <3>1. Below(e, i) \cup {i} \in SUBSET Below(e, j)
      BY <2>1
    <3> QED
      BY <2>2, <3>1, FS_Subset DEF Rank
  <2> QED
    BY <2>2, <2>3, <2>4
<1>5. \A i, j \in D : i = j \/ Earlier(e, i, j) \/ Earlier(e, j, i)
  BY <1>1 DEF Earlier
<1>6. \A i, j \in D : Rank(e, i) = Rank(e, j) => i = j
  <2> SUFFICES ASSUME NEW i \in D, NEW j \in D, Rank(e, i) = Rank(e, j), i # j
               PROVE  FALSE
    OBVIOUS
  <2>1. Rank(e, i) \in Nat /\ Rank(e, j) \in Nat
    BY <1>3
  <2>2. Rank(e, i) < Rank(e, j) \/ Rank(e, j) < Rank(e, i)
    BY <1>4, <1>5
  <2> QED
    BY <2>1, <2>2
<1>7. \A i, j \in D : Rank(e, i) <= Rank(e, j) => e[i].start <= e[j].start
  <2> SUFFICES ASSUME NEW i \in D, NEW j \in D, Rank(e, i) <= Rank(e, j), ~(e[i].start <= e[j].start)
               PROVE  FALSE
    OBVIOUS
  <2>1. Rank(e, i) \in Nat /\ Rank(e, j) \in Nat
    BY <1>3
  <2>2. Earlier(e, j, i)
    BY <1>1 DEF Earlier
  <2>3. Rank(e, j) < Rank(e, i)
    BY <1>4, <2>2
  <2> QED
    BY <2>1, <2>3
<1>8. \A m \in D : \E i \in D : Rank(e, i) = m - 1
  <2> DEFINE f == [i \in D |-> Rank(e, i)]
             T == 0..(n - 1)
  <2>1. f \in Injection(D, T)
    <3>1. f \in [D -> T]
      BY <1>3
    <3>2. IsInjective(f)
      BY <1>6 DEF IsInjective
    <3> QED
      BY <3>1, <3>2 DEF Injection
  <2>2. IsFiniteSet(T) /\ Cardinality(T) = n
    <3>1. 0 \in Int /\ n - 1 \in Int /\ (n - 1) - 0 + 1 = n /\ (0 > n - 1 => n = 0)
      BY <1>1
    <3>2. IsFiniteSet(0..(n - 1)) /\ Cardinality(0..(n - 1)) = IF 0 > n - 1 THEN 0 ELSE (n - 1) - 0 + 1
      BY <3>1, FS_Interval
    <3> QED
      BY <3>1, <3>2
  <2> HIDE DEF T, D
  <2>3. f \in Surjection(D, T)
    <3> HIDE DEF f
    <3> QED
      BY <1>2, <2>1, <2>2, FS_Injection
  <2>4. \A r \in T : \E i \in D : f[i] = r
    BY <2>3 DEF Surjection
  <2>5. \A m \in D : m - 1 \in T
    BY <1>1 DEF D, T
  <2> QED
    BY <2>4, <2>5
<1>9. \A m \in D : Ranked(e, m) \in D /\ Rank(e, Ranked(e, m)) = m - 1
  <2> HIDE DEF D
  <2> QED
    BY <1>1, <1>8 DEF Ranked
<1>10. \A i \in D : Rank(e, i) + 1 \in D
  <2> SUFFICES ASSUME NEW i \in D PROVE Rank(e, i) + 1 \in D
    OBVIOUS
  <2>1. Rank(e, i) \in 0..(n - 1)
    BY <1>3
  <2> QED
    BY <1>1, <2>1
<1> QED
  BY <1>1, <1>4, <1>6, <1>7, <1>9, <1>10

LEMMA SortedCues ==
  ASSUME NEW e, AreCues(e)
  PROVE  AreCues(SortEntries(e)) /\ SortedOf(e, SortEntries(e))
<1> DEFINE n == Len(e)
           D == 1..n
           s == [m \in DOMAIN e |-> e[Ranked(e, m)]]
           u == SortEntries(e)
<1>1. n \in Nat /\ DOMAIN e = D /\ (\A i \in D : IsCue(e[i])) /\ IsSeq(e)
  BY SeqFacts DEF AreCues
<1>2. u = Indexed(s)
  BY DEF SortEntries, Earlier, Below, Rank, Ranked
<1>3. /\ \A i \in D : Rank(e, i) + 1 \in D
      /\ \A i, j \in D : Rank(e, i) = Rank(e, j) => i = j
      /\ \A i, j \in D : Rank(e, i) <= Rank(e, j) => e[i].start <= e[j].start
      /\ \A i, j \in D : Earlier(e, i, j) => Rank(e, i) < Rank(e, j)
      /\ \A m \in D : Ranked(e, m) \in D /\ Rank(e, Ranked(e, m)) = m - 1
  BY <1>1, Ranks
<1>4. AreCues(s) /\ DOMAIN s = D /\ \A m \in D : s[m] = e[Ranked(e, m)]
  <2>1. DOMAIN s = DOMAIN e /\ s = [i \in DOMAIN e |-> s[i]]
    OBVIOUS
  <2>2. \A m \in D : s[m] = e[Ranked(e, m)]
    BY <1>1
  <2> HIDE DEF s
  <2>3. IsSeq(s)
    BY <1>1, <2>1, SameLength
  <2> QED
    BY <1>1, <1>3, <2>1, <2>2, <2>3 DEF AreCues
<1> HIDE DEF s, u
<1>5. AreCues(u) /\ DOMAIN u = D /\ \A m \in D : u[m] = [s[m] EXCEPT !.index = m]
  BY <1>2, <1>4, IndexedCues DEF Indexed
<1> HIDE DEF n
<1>6. \A m \in D : /\ u[m] = [e[Ranked(e, m)] EXCEPT !.index = m] /\ u[m].index = m
                   /\ u[m].start = e[Ranked(e, m)].start
                   /\ u[m].start \in Nat /\ u[m].end \in Nat
  <2> SUFFICES ASSUME NEW m \in D
               PROVE  /\ u[m] = [e[Ranked(e, m)] EXCEPT !.index = m] /\ u[m].index = m
                      /\ u[m].start = e[Ranked(e, m)].start
                      /\ u[m].start \in Nat /\ u[m].end \in Nat
    OBVIOUS
  <2>1. u[m] = [e[Ranked(e, m)] EXCEPT !.index = m] /\ IsCue(e[Ranked(e, m)])
    BY <1>1, <1>3, <1>4, <1>5
  <2> QED
    BY <2>1 DEF IsCue
<1>7. ASSUME NEW j \in D, NEW k \in D, j <= k PROVE u[j].start <= u[k].start
  <2>1. Ranked(e, j) \in D /\ Ranked(e, k) \in D /\ Rank(e, Ranked(e, j)) <= Rank(e, Ranked(e, k))
    BY <1>1, <1>3, <1>7
  <2>2. e[Ranked(e, j)].start <= e[Ranked(e, k)].start
    BY <1>3, <2>1
  <2>3. u[j].start = e[Ranked(e, j)].start /\ u[k].start = e[Ranked(e, k)].start
    BY <1>6
  <2> QED
    BY <2>2, <2>3
<1> DEFINE place == [i \in D |-> Rank(e, i) + 1]
<1>p. place \in [D -> D] /\ \A i \in D : place[i] = Rank(e, i) + 1 /\ Rank(e, i) \in Nat
  <2>1. ASSUME NEW i \in D PROVE Rank(e, i) \in Nat
    <3>1. i \in DOMAIN e /\ IsFiniteSet(DOMAIN e)
      BY <1>1, FS_Interval
    <3>2. Below(e, i) \in SUBSET DOMAIN e
      BY DEF Below
    <3> QED
      BY <3>1, <3>2, FS_Subset, FS_CardinalityType DEF Rank
  <2> HIDE DEF D
  <2> QED
    BY <1>3, <2>1
<1>8. ASSUME NEW i \in D PROVE e[i] = [u[place[i]] EXCEPT !.index = e[i].index]
  <2> DEFINE j == Rank(e, i) + 1
  <2>1. j \in D
    BY <1>3
  <2>2. Ranked(e, j) = i
    <3>1. Rank(e, Ranked(e, j)) = j - 1 /\ Ranked(e, j) \in D
      BY <1>3, <2>1
    <3>2. Rank(e, Ranked(e, j)) = Rank(e, i)
      <4>1. \A r : r + 1 \in D => (r + 1) - 1 = r \/ r \notin Nat
        OBVIOUS
      <4>2. Rank(e, i) \in Nat
        BY <1>p
      <4> QED
        BY <3>1, <4>2
    <3> QED
      BY <1>3, <3>1, <3>2
  <2>3. u[j] = [e[i] EXCEPT !.index = j] /\ IsCue(e[i])
    BY <1>1, <1>6, <2>1, <2>2
  <2>4. e[i] = [u[j] EXCEPT !.index = e[i].index]
    BY <2>3 DEF IsCue
  <2>5. place[i] = j
    BY <1>p
  <2> QED
    BY <2>4, <2>5
<1>s. ASSUME NEW i \in D, NEW j \in D, i < j
      PROVE  place[i] # place[j] /\ (e[i].start = e[j].start => place[i] < place[j])
  <2>1. /\ place[i] = Rank(e, i) + 1 /\ Rank(e, i) \in Nat
        /\ place[j] = Rank(e, j) + 1 /\ Rank(e, j) \in Nat
    BY <1>p
  <2>2. Rank(e, i) # Rank(e, j)
    BY <1>1, <1>3, <1>s
  <2>3. e[i].start = e[j].start => Rank(e, i) < Rank(e, j)
    BY <1>3, <1>s DEF Earlier
  <2> HIDE DEF place
  <2> QED
    BY <2>1, <2>2, <2>3
<1>l. Len(u) = n
  <2>1. IsSeq(u)
    BY <1>5 DEF AreCues
  <2>2. Len(u) \in Nat /\ DOMAIN u = 1..Len(u)
    BY <2>1, SeqFacts
  <2> QED
    BY <1>1, <1>5, <2>2
<1>9. ASSUME NEW i \in D, NEW j \in D, i < j, OverlapsWith(u[i], u[j]) PROVE HasOverlaps(u)
  <2>1. i + 1 \in D /\ i + 1 \in 2..n /\ (i + 1) - 1 = i /\ i + 1 <= j
    BY <1>1, <1>9
  <2>2. u[i + 1].start <= u[j].start /\ u[j].start < u[i].end
    BY <1>7, <1>9, <2>1 DEF OverlapsWith
  <2>3. u[i + 1].start < u[i].end
    <3>1. u[i + 1].start \in Nat /\ u[j].start \in Nat /\ u[i].end \in Nat
      BY <1>6, <2>1
    <3> QED
      BY <2>2, <3>1
  <2> QED
    BY <1>l, <2>1, <2>3 DEF HasOverlaps
<1>10. (\E i, j \in D : i # j /\ OverlapsWith(u[i], u[j])) => HasOverlaps(u)
  <2> SUFFICES ASSUME NEW i \in D, NEW j \in D, i # j, OverlapsWith(u[i], u[j]) PROVE HasOverlaps(u)
    OBVIOUS
  <2>1. OverlapsWith(u[j], u[i])
    BY DEF OverlapsWith
  <2>2. i < j \/ j < i
    BY <1>1
  <2> QED
    BY <1>9, <2>1, <2>2
<1>11. \A j \in D : u[j].index = j /\ (j > 1 => u[j - 1].start <= u[j].start)
  <2> SUFFICES ASSUME NEW j \in D, j > 1 PROVE u[j - 1].start <= u[j].start
    BY <1>6
  <2>1. j - 1 \in D /\ j - 1 <= j
    BY <1>1
  <2> QED
    BY <1>7, <2>1
<1> HIDE DEF D
<1>12. SortedOf(e, u)
  <2> HIDE DEF place
  <2>1. place \in [DOMAIN e -> DOMAIN u] /\ DOMAIN e = D /\ DOMAIN u = D /\ Len(u) = Len(e)
    BY <1>1, <1>5, <1>l, <1>p DEF n
  <2>2. \A i, j \in DOMAIN e :
          /\ e[i] = [u[place[i]] EXCEPT !.index = e[i].index]
          /\ i < j => place[i] # place[j] /\ (e[i].start = e[j].start => place[i] < place[j])
    BY <1>8, <1>s, <2>1
  <2> QED
    BY <1>10, <1>11, <2>1, <2>2 DEF SortedOf
<1> QED
  BY <1>5, <1>12 DEF u

\* The error of an offset at cue k.
StoppedAt(e, u, off, k) ==
  /\ Late(e[k], off)
  /\ u[k] \in {e[k], [e[k] EXCEPT !.start = @ + off]}
  /\ \A i \in 1..(k - 1) : u[i] = [e[i] EXCEPT !.start = @ + off, !.end = @ + off]
  /\ \A i \in (k + 1)..Len(e) : u[i] = e[i]

LEMMA ShiftedCues ==
  ASSUME NEW e, AreCues(e), NEW off \in Int
  PROVE  /\ AreCues(Shift(e, off)) /\ Len(Shift(e, off)) = Len(e)
         /\ \/ OrderKept(e, Shift(e, off))
            \/ \E k \in DOMAIN e : StoppedAt(e, Shift(e, off), off, k)
         /\ 1 \in DOMAIN e /\ (off = 0 \/ Fits(e[1].start, off)) =>
              Shift(e, off)[1].start = IF e[1].start + off > 0 THEN e[1].start + off ELSE 0
<1> DEFINE moved(t) == IF t + off > 0 THEN t + off ELSE 0
           reached(i) == \A j \in 1..(i - 1) : ~Late(e[j], off)
           start(i) == IF reached(i) /\ Fits(e[i].start, off) THEN moved(e[i].start) ELSE e[i].start
           end(i) == IF reached(i) /\ ~Late(e[i], off) THEN moved(e[i].end) ELSE e[i].end
           u == Shift(e, off)
<1>1. /\ IsSeq(e) /\ (\A i \in DOMAIN e : IsCue(e[i])) /\ Len(e) \in Nat /\ DOMAIN e = 1..Len(e)
      /\ Longest \in Nat
  BY SeqFacts, FilesAssumption DEF AreCues
<1>2. u = [i \in DOMAIN e |-> [e[i] EXCEPT !.start = start(i), !.end = end(i)]]
  BY DEF Shift
<1>3. /\ DOMAIN u = DOMAIN e
      /\ \A i \in DOMAIN e : u[i] = [e[i] EXCEPT !.start = start(i), !.end = end(i)]
      /\ u = [i \in DOMAIN e |-> u[i]]
  BY <1>2
<1> HIDE DEF u
<1>4. \A t \in Nat : moved(t) \in Nat
  OBVIOUS
<1>5. \A t, v \in Nat : t <= v => moved(t) <= moved(v)
  OBVIOUS
<1>6. \A t \in Nat : off >= 0 => moved(t) = t + off
  OBVIOUS
<1> HIDE DEF moved, reached
<1>7. ASSUME NEW i \in DOMAIN e
      PROVE  /\ IsCue(u[i]) /\ u[i].text = e[i].text
             /\ u[i].start = start(i) /\ u[i].end = end(i)
             /\ e[i].start \in Nat /\ e[i].end \in Nat
  <2>1. IsCue(e[i]) /\ u[i] = [e[i] EXCEPT !.start = start(i), !.end = end(i)]
    BY <1>1, <1>3
  <2>2. start(i) \in Nat /\ end(i) \in Nat
    BY <1>4, <2>1 DEF IsCue
  <2> HIDE DEF start, end
  <2> QED
    BY <2>1, <2>2 DEF IsCue
<1>8. IsSeq(u) /\ Len(u) = Len(e)
  BY <1>1, <1>3, SameLength
<1>9. AreCues(u)
  BY <1>3, <1>7, <1>8 DEF AreCues
<1>10. ASSUME \A j \in DOMAIN e : ~Late(e[j], off) PROVE OrderKept(e, u)
  <2>1. ASSUME NEW i \in DOMAIN e
        PROVE  u[i].start = moved(e[i].start) /\ u[i].end = moved(e[i].end)
    <3>1. reached(i) /\ ~Late(e[i], off) /\ Fits(e[i].start, off)
      BY <1>1, <1>10 DEF reached, Late
    <3> QED
      BY <1>7, <3>1
  <2> HIDE DEF start, end
  <2>2. \A i, j \in DOMAIN e :
          /\ e[i].start <= e[j].start => u[i].start <= u[j].start
          /\ e[i].end <= e[j].start => u[i].end <= u[j].start
    BY <1>5, <1>7, <2>1
  <2>3. ASSUME NEW i \in DOMAIN e
        PROVE  /\ e[i].start <= e[i].end => u[i].start <= u[i].end
               /\ u[i].text = e[i].text /\ u[i].start >= 0
    <3>1. u[i].start \in Nat
      BY <1>7 DEF IsCue
    <3> QED
      BY <1>5, <1>7, <2>1, <3>1
  <2> QED
    BY <1>8, <2>2, <2>3 DEF OrderKept
<1>11. ASSUME NEW l \in DOMAIN e, Late(e[l], off) PROVE \E k \in DOMAIN e : StoppedAt(e, u, off, k)
  <2> DEFINE S == {j \in DOMAIN e : Late(e[j], off)}
  <2>1. PICK k \in S : \A j \in S : k <= j
    <3>1. S \subseteq Nat /\ l \in S
      BY <1>1, <1>11
    <3> HIDE DEF S
    <3> QED
      BY <3>1, Least
  <2>2. k \in DOMAIN e /\ Late(e[k], off) /\ k \in Nat
    BY <1>1, <2>1
  <2>3. \A j \in 1..(k - 1) : j \in DOMAIN e /\ ~Late(e[j], off)
    <3> SUFFICES ASSUME NEW j \in 1..(k - 1) PROVE j \in DOMAIN e /\ ~Late(e[j], off)
      OBVIOUS
    <3>1. j \in DOMAIN e /\ ~(k <= j)
      BY <1>1, <2>2
    <3> QED
      BY <2>1, <3>1
  <2>4. off >= 0
    BY <2>2 DEF Late, Fits
  <2>5. ASSUME NEW i \in 1..(k - 1)
        PROVE  u[i] = [e[i] EXCEPT !.start = @ + off, !.end = @ + off]
    <3>1. i \in DOMAIN e /\ ~Late(e[i], off) /\ Fits(e[i].start, off)
      BY <2>3 DEF Late
    <3>2. reached(i)
      BY <2>2, <2>3 DEF reached
    <3>3. e[i].start \in Nat /\ e[i].end \in Nat
      BY <1>7, <3>1
    <3>4. start(i) = e[i].start + off /\ end(i) = e[i].end + off
      BY <1>6, <2>4, <3>1, <3>2, <3>3
    <3> HIDE DEF start, end
    <3> QED
      BY <1>3, <3>1, <3>4
  <2>6. ASSUME NEW i \in (k + 1)..Len(e) PROVE u[i] = e[i]
    <3>1. i \in DOMAIN e /\ k \in 1..(i - 1)
      BY <1>1, <2>2
    <3>2. ~reached(i)
      BY <2>2, <3>1 DEF reached
    <3>3. start(i) = e[i].start /\ end(i) = e[i].end
      BY <3>2
    <3> HIDE DEF start, end
    <3>4. IsCue(e[i]) /\ u[i] = [e[i] EXCEPT !.start = e[i].start, !.end = e[i].end]
      BY <1>1, <1>3, <3>1, <3>3
    <3> QED
      BY <3>4 DEF IsCue
  <2>7. u[k] \in {e[k], [e[k] EXCEPT !.start = @ + off]}
    <3>1. end(k) = e[k].end /\ e[k].start \in Nat
      BY <1>7, <2>2
    <3>2. start(k) \in {e[k].start, e[k].start + off}
      BY <1>6, <2>4, <3>1
    <3> HIDE DEF start, end
    <3>3. IsCue(e[k]) /\ u[k] = [e[k] EXCEPT !.start = start(k), !.end = e[k].end]
      BY <1>1, <1>3, <2>2, <3>1
    <3> QED
      BY <3>2, <3>3 DEF IsCue
  <2> QED
    BY <2>2, <2>5, <2>6, <2>7 DEF StoppedAt
<1>12. ASSUME 1 \in DOMAIN e, off = 0 \/ Fits(e[1].start, off)
       PROVE  u[1].start = moved(e[1].start)
  <2>1. reached(1)
    BY DEF reached
  <2>2. off = 0 => moved(e[1].start) = e[1].start
    BY <1>6, <1>7, <1>12
  <2> QED
    BY <1>7, <1>12, <2>1, <2>2
<1> QED
  BY <1>8, <1>9, <1>10, <1>11, <1>12 DEF u, moved

-----------------------------------------------------------------------------
(* The other parsers.                                                        *)

LEMMA Greatest ==
  ASSUME NEW n \in Nat, NEW T, T \subseteq 0..n, T # {}
  PROVE  \E k \in T : \A m \in T : m <= k
<1> DEFINE U == {n - k : k \in T}
<1>1. U \subseteq Nat /\ U # {}
  <2>1. \A k \in T : n - k \in Nat
    OBVIOUS
  <2>2. U \subseteq Nat
    BY <2>1
  <2>3. U # {}
    OBVIOUS
  <2> QED
    BY <2>2, <2>3
<1>2. PICK u \in U : \A v \in U : u <= v
  <2> HIDE DEF U
  <2> QED
    BY <1>1, Least
<1>3. PICK k \in T : u = n - k
  OBVIOUS
<1>4. ASSUME NEW m \in T PROVE m <= k
  <2>1. u <= n - m
    BY <1>2
  <2>2. m \in 0..n /\ k \in 0..n
    OBVIOUS
  <2> QED
    BY <1>3, <2>1, <2>2
<1> QED
  BY <1>4

LEMMA TrimLines ==
  ASSUME NEW block, IsDocument(block)
  PROVE  IsDocument(Trim(block))
<1> DEFINE n == Len(block)
           full == {i \in DOMAIN block : ~IsBlank(block[i])}
           first == CHOOSE i \in full : \A j \in full : i <= j
           last == CHOOSE i \in full : \A j \in full : j <= i
<1>1. n \in Nat /\ DOMAIN block = 1..n
  BY SeqFacts DEF IsDocument
<1>2. Trim(block) = IF full = {} THEN <<>> ELSE SubSeq(block, first, last)
  BY DEF Trim
<1> HIDE DEF full, n
<1>3. CASE full = {}
  BY <1>2, <1>3, EmptySeqs DEF IsDocument
<1>4. CASE full # {}
  <2>1. full \subseteq 1..n
    BY <1>1 DEF full
  <2>2. \E i \in full : \A j \in full : i <= j
    <3>1. full \subseteq Nat
      BY <2>1
    <3> QED
      BY <1>4, <3>1, Least
  <2>3. \E i \in full : \A j \in full : j <= i
    <3>1. full \subseteq 0..n
      BY <1>1, <2>1
    <3> QED
      BY <1>1, <1>4, <3>1, Greatest
  <2>4. first \in full /\ last \in full
    BY <2>2, <2>3
  <2> HIDE DEF first, last
  <2>5. first \in 1..(n + 1) /\ last \in 0..n
    BY <1>1, <2>1, <2>4
  <2> QED
    BY <1>2, <1>4, <2>5, PartLines DEF n
<1> QED
  BY <1>3, <1>4

LEMMA OneCue ==
  ASSUME NEW e, IsCue(e)
  PROVE  AreCues(<<e>>)
<1>1. <<e>> \in Seq({e})
  OBVIOUS
<1>2. IsSeq(<<e>>) /\ \A i \in DOMAIN <<e>> : <<e>>[i] \in {e}
  BY <1>1, SeqOfAny
<1> QED
  BY <1>2 DEF AreCues

\* The lines that follow the time of a cue.
LEMMA RestLines ==
  ASSUME NEW block, IsDocument(block), NEW m \in Nat, 1 <= m, m <= Len(block)
  PROVE  IsSeq(JoinLines(SubSeq(block, m, Len(block))))
<1> DEFINE u == SubSeq(block, m, Len(block))
<1>1. IsSeq(block) /\ Len(block) \in Nat
  BY SeqFacts DEF IsDocument
<1>2. m \in 1..(Len(block) + 1) /\ Len(block) \in 0..Len(block)
  BY <1>1
<1>3. IsDocument(u) /\ Len(u) = Len(block) - m + 1
  BY <1>1, <1>2, PartLines, SubSeqFacts
<1> HIDE DEF u
<1>4. Len(u) # 0
  BY <1>1, <1>3
<1>5. u # <<>>
  BY <1>4, EmptySeqs
<1> QED
  BY <1>3, <1>5, JoinLinesFacts DEF u

LEMMA VttEntryCues ==
  ASSUME NEW raw, IsDocument(raw)
  PROVE  AreCues(VttEntry(raw))
<1> DEFINE block == Trim(raw)
           first == IF NoCue(block) \/ IsVttTime(block[1]) THEN 1 ELSE 2
           t == IF first = Len(block) THEN <<>> ELSE JoinLines(SubSeq(block, first + 1, Len(block)))
           e == Entry(0, ParseVttTime(block[first].a), ParseVttTime(block[first].b), t)
           ok == ~NoCue(block) /\ first <= Len(block) /\ IsVttTime(block[first])
<1>1. VttEntry(raw) = IF ok THEN <<e>> ELSE <<>>
  BY DEF VttEntry
<1>2. IsDocument(block) /\ Len(block) \in Nat
  <2>1. IsDocument(block)
    BY TrimLines
  <2> QED
    BY <2>1, SeqFacts DEF IsDocument
<1>3. first \in {1, 2}
  OBVIOUS
<1> HIDE DEF block, first
<1>4. CASE ~ok
  BY <1>1, <1>4, EmptySeqs DEF AreCues
<1>5. CASE ok
  <2>1. IsSeq(t)
    <3>1. CASE first = Len(block)
      BY <3>1, EmptySeqs
    <3>2. CASE first # Len(block)
      <4>1. first + 1 \in Nat /\ 1 <= first + 1 /\ first + 1 <= Len(block)
        BY <1>2, <1>3, <1>5, <3>2
      <4>2. IsSeq(JoinLines(SubSeq(block, first + 1, Len(block))))
        BY <1>2, <4>1, RestLines
      <4> QED
        BY <3>2, <4>2
    <3> QED
      BY <3>1, <3>2
  <2> HIDE DEF t
  <2>2. block[first].a \in Nat /\ block[first].b \in Nat
    BY <1>5, Times DEF IsVttTime
  <2>3. ParseVttTime(block[first].a) \in Nat /\ ParseVttTime(block[first].b) \in Nat
    BY <2>2, Times
  <2>4. IsCue(e)
    BY <2>1, <2>3, CueFacts
  <2> HIDE DEF e
  <2> QED
    BY <1>1, <1>5, <2>4, OneCue
<1> QED
  BY <1>4, <1>5

LEMMA VttParsed ==
  ASSUME NEW lines, IsDocument(lines)
  PROVE  Parsed(ParseVtt(lines), "vtt")
<1> DEFINE blocks == Blocks(lines)
           f == [i \in DOMAIN blocks |-> VttEntry(blocks[i])]
<1>1. IsSeq(blocks) /\ \A i \in DOMAIN blocks : AreCues(VttEntry(blocks[i]))
  BY BlocksFacts, VttEntryCues
<1>2. f = [i \in DOMAIN blocks |-> f[i]] /\ \A i \in DOMAIN blocks : AreCues(f[i])
  BY <1>1
<1>3. ParseVtt(lines) = ParseError \/ ParseVtt(lines) = Subtitle("vtt", Indexed(FlattenSeq(f)))
  BY DEF ParseVtt
<1> HIDE DEF f, blocks
<1>4. AreCues(Indexed(FlattenSeq(f)))
  BY <1>1, <1>2, PerBlock, IndexedCues
<1> QED
  BY <1>3, <1>4, Errors DEF Parsed

LEMMA AssParsed ==
  ASSUME NEW lines, IsDocument(lines)
  PROVE  Parsed(ParseAss(lines), "ass")
<1> DEFINE rows == {i \in DOMAIN lines : IsRow(lines, i)}
           I == {i \in rows : ~Skipped(lines[i])}
           kept == Picked(lines, I)
           c == [n \in DOMAIN kept |->
                   Entry(n, ParseAssTime(kept[n].a), ParseAssTime(kept[n].b),
                         Replace(kept[n].t, "\\N", "nl"))]
<1>1. ParseAss(lines) = ParseError \/ ParseAss(lines) = Subtitle("ass", c)
  BY DEF ParseAss
<1>2. IsSeq(kept) /\ \A n \in DOMAIN kept : \E i \in DOMAIN lines : kept[n] = lines[i] /\ ~Skipped(lines[i])
  <2>1. IsSeq(lines) /\ I \subseteq DOMAIN lines /\ \A i \in I : ~Skipped(lines[i])
    BY DEF IsDocument
  <2> HIDE DEF I
  <2>2. /\ IsSeq(kept) /\ DOMAIN kept = 1..Cardinality(I)
        /\ \A k \in 1..Cardinality(I) : Nth(I, k) \in I /\ kept[k] = lines[Nth(I, k)]
    BY <2>1, PickedFacts
  <2> QED
    BY <2>1, <2>2
<1> HIDE DEF kept
<1>3. ASSUME NEW n \in DOMAIN kept
      PROVE  IsCue(Entry(n, ParseAssTime(kept[n].a), ParseAssTime(kept[n].b),
                         Replace(kept[n].t, "\\N", "nl")))
  <2>1. kept[n].a \in Nat /\ kept[n].b \in Nat /\ IsSeq(kept[n].t)
    BY <1>2 DEF IsDocument, IsLine, Skipped
  <2>2. ParseAssTime(kept[n].a) \in Nat /\ ParseAssTime(kept[n].b) \in Nat
    BY <2>1, Times
  <2>3. IsSeq(Replace(kept[n].t, "\\N", "nl"))
    BY <2>1, ReplaceFacts
  <2> QED
    BY <2>2, <2>3, CueFacts
<1>4. AreCues(c)
  <2>1. DOMAIN c = DOMAIN kept /\ c = [n \in DOMAIN kept |-> c[n]]
    OBVIOUS
  <2>2. \A n \in DOMAIN kept : IsCue(c[n])
    BY <1>3
  <2> HIDE DEF c
  <2>3. IsSeq(c)
    BY <1>2, <2>1, SameLength
  <2> QED
    BY <2>1, <2>2, <2>3 DEF AreCues
<1> HIDE DEF c
<1> QED
  BY <1>1, <1>4, Errors DEF Parsed

LEMMA SubParsed ==
  ASSUME NEW lines, IsDocument(lines)
  PROVE  Parsed(ParseSub(lines), "sub")
<1> DEFINE f == [i \in DOMAIN lines |-> SubEntry(lines[i])]
<1>1. ASSUME NEW i \in DOMAIN lines PROVE AreCues(SubEntry(lines[i]))
  <2> DEFINE l == lines[i]
             e == Entry(0, FromFrame(l.a), FromFrame(l.b), Replace(l.t, "|", "nl"))
             ok == l.k = "sub" /\ {FromFrame(l.a), FromFrame(l.b)} \subseteq 0..MaxSubMs
  <2>1. SubEntry(l) = IF ok THEN <<e>> ELSE <<>>
    BY DEF SubEntry
  <2>2. CASE ~ok
    BY <2>1, <2>2, EmptySeqs DEF AreCues
  <2>3. CASE ok
    <3>1. FromFrame(l.a) \in 0..MaxSubMs /\ FromFrame(l.b) \in 0..MaxSubMs
      BY <2>3
    <3>2. MaxSubMs \in Nat
      BY SMT DEF MaxSubMs
    <3>3. FromFrame(l.a) \in Nat /\ FromFrame(l.b) \in Nat
      BY <3>1, <3>2
    <3>4. IsSeq(Replace(l.t, "|", "nl"))
      <4>1. IsSeq(l.t)
        BY DEF IsDocument, IsLine
      <4> QED
        BY <4>1, ReplaceFacts
    <3>5. IsCue(e)
      BY <3>3, <3>4, CueFacts
    <3> HIDE DEF e
    <3> QED
      BY <2>1, <2>3, <3>5, OneCue
  <2> QED
    BY <2>2, <2>3
<1>2. f = [i \in DOMAIN lines |-> f[i]] /\ \A i \in DOMAIN lines : AreCues(f[i])
  BY <1>1
<1>3. ParseSub(lines) = ParseError \/ ParseSub(lines) = Subtitle("sub", Indexed(FlattenSeq(f)))
  BY DEF ParseSub
<1> HIDE DEF f
<1>4. AreCues(Indexed(FlattenSeq(f)))
  BY <1>2, PerBlock, IndexedCues DEF IsDocument
<1> QED
  BY <1>3, <1>4, Errors DEF Parsed

\* parse_auto fails, or one of the four parsers has parsed the document.
LEMMA AutoParsed ==
  ASSUME NEW doc, IsDocument(doc.lines)
  PROVE  IsSubtitle(ParseAuto(doc))
<1> DEFINE I == {i \in DOMAIN Registered : Detects(Registered[i], doc)}
           hits == Picked(Registered, I)
<1>1. ParseAuto(doc) = IF hits = <<>> THEN ParseError ELSE Parse(hits[1], doc.lines)
  BY DEF ParseAuto
<1>2. IsSeq(Registered) /\ \A i \in DOMAIN Registered : Registered[i] \in Formats
  <2>1. Registered \in Seq(Formats)
    BY DEF Registered, Formats
  <2> QED
    BY <2>1, SeqOfAny
<1>3. IsSeq(hits) /\ \A k \in DOMAIN hits : hits[k] \in Formats
  <2>1. I \subseteq DOMAIN Registered
    OBVIOUS
  <2> HIDE DEF I
  <2>2. /\ IsSeq(hits) /\ DOMAIN hits = 1..Cardinality(I)
        /\ \A k \in 1..Cardinality(I) : Nth(I, k) \in I /\ hits[k] = Registered[Nth(I, k)]
    BY <1>2, <2>1, PickedFacts
  <2> QED
    BY <1>2, <2>1, <2>2
<1> HIDE DEF hits
<1>4. CASE hits = <<>>
  BY <1>1, <1>4, Errors
<1>5. CASE hits # <<>>
  <2>1. hits[1] \in Formats
    BY <1>3, <1>5 DEF IsSeq
  <2>2. ASSUME NEW format \in Formats PROVE IsSubtitle(Parse(format, doc.lines))
    <3>1. format \in {"ass", "vtt", "srt", "sub"}
      BY DEF Formats
    <3>2. CASE format = "ass"
      <4>1. Parse(format, doc.lines) = ParseAss(doc.lines)
        BY <3>2, Zenon DEF Parse
      <4> QED
        BY <4>1, AssParsed DEF Parsed
    <3>3. CASE format = "vtt"
      <4>1. Parse(format, doc.lines) = ParseVtt(doc.lines)
        BY <3>3, Zenon DEF Parse
      <4> QED
        BY <4>1, VttParsed DEF Parsed
    <3>4. CASE format = "srt"
      <4>1. Parse(format, doc.lines) = ParseSrt(doc.lines)
        BY <3>4, Zenon DEF Parse
      <4> QED
        BY <4>1, SrtParsed DEF Parsed
    <3>5. CASE format = "sub"
      <4>1. Parse(format, doc.lines) = ParseSub(doc.lines)
        BY <3>5, Zenon DEF Parse
      <4> QED
        BY <4>1, SubParsed DEF Parsed
    <3> QED
      BY <3>1, <3>2, <3>3, <3>4, <3>5
  <2> QED
    BY <1>1, <1>5, <2>1, <2>2
<1> QED
  BY <1>4, <1>5

LEMMA TagFacts ==
  ASSUME NEW t, IsSeq(t), NEW styling
  PROVE  /\ IsSeq(ConvertSrtTagsToAss(t)) /\ IsSeq(StripAssTags(t)) /\ IsSeq(VttToSrt(t, styling))
         /\ IsSeq(ConvertSrtTagsToAss(VttToSrt(t, styling)))
<1>1. \A u : IsSeq(u) => IsSeq(ConvertSrtTagsToAss(u))
  BY ReplaceFacts DEF ConvertSrtTagsToAss
<1>2. IsSeq(StripAssTags(t)) /\ IsSeq(VttToSrt(t, styling))
  BY StripFacts, Zenon DEF StripAssTags, VttToSrt, StripVttTags
<1> QED
  BY <1>1, <1>2

LEMMA Transformed ==
  ASSUME NEW sub, IsSubtitle(sub), NEW into, NEW styling
  PROVE  IsSubtitle(Transform(sub, into, styling))
<1> DEFINE text(t) ==
             CASE sub.format = into -> t
               [] sub.format = "srt" /\ into = "ass" -> ConvertSrtTagsToAss(t)
               [] sub.format = "srt" /\ into = "vtt" -> t
               [] sub.format = "ass" /\ into # "ass" -> StripAssTags(t)
               [] sub.format = "vtt" /\ into = "srt" -> VttToSrt(t, styling)
               [] sub.format = "vtt" /\ into = "ass" -> ConvertSrtTagsToAss(VttToSrt(t, styling))
           e == sub.entries
           u == [i \in DOMAIN e |-> [e[i] EXCEPT !.text = text(@)]]
<1>1. Transform(sub, into, styling) =
        IF sub.ok /\ Supported(sub.format, into) THEN Subtitle(into, u) ELSE ParseError
  BY DEF Transform, MapText
<1>2. CASE ~(sub.ok /\ Supported(sub.format, into))
  BY <1>1, <1>2, Errors
<1>3. CASE sub.ok /\ Supported(sub.format, into)
  <2>1. ASSUME NEW t, IsSeq(t) PROVE IsSeq(text(t))
    <3>1. text(t) \in {t, ConvertSrtTagsToAss(t), StripAssTags(t), VttToSrt(t, styling),
                       ConvertSrtTagsToAss(VttToSrt(t, styling))}
      <4>1. CASE sub.format = into
        BY <4>1, Zenon
      <4>2. CASE sub.format = "srt" /\ into = "ass"
        BY <4>2, Zenon
      <4>3. CASE sub.format = "srt" /\ into = "vtt"
        BY <4>3, Zenon
      <4>4. CASE sub.format = "ass" /\ into # "ass"
        BY <4>4, Zenon
      <4>5. CASE sub.format = "vtt" /\ into = "srt"
        BY <4>5, Zenon
      <4>6. CASE sub.format = "vtt" /\ into = "ass"
        BY <4>6, Zenon
      <4> QED
        BY <1>3, <4>1, <4>2, <4>3, <4>4, <4>5, <4>6 DEF Supported
    <3> HIDE DEF text
    <3> QED
      BY <2>1, <3>1, TagFacts
  <2> HIDE DEF text
  <2>2. IsSeq(e) /\ \A i \in DOMAIN e : IsCue(e[i])
    BY DEF IsSubtitle, AreCues
  <2>3. ASSUME NEW i \in DOMAIN e PROVE IsCue([e[i] EXCEPT !.text = text(@)])
    <3>1. IsCue(e[i]) /\ IsSeq(e[i].text)
      BY <2>2 DEF IsCue
    <3>2. PICK t : t = text(e[i].text) /\ IsSeq(t)
      BY <2>1, <3>1
    <3>3. IsCue([e[i] EXCEPT !.text = t])
      BY <3>1, <3>2 DEF IsCue
    <3>4. [e[i] EXCEPT !.text = text(@)] = [e[i] EXCEPT !.text = t]
      BY <3>2
    <3> QED
      BY <3>3, <3>4
  <2> HIDE DEF e
  <2>4. DOMAIN u = DOMAIN e /\ u = [i \in DOMAIN e |-> u[i]] /\ \A i \in DOMAIN e : IsCue(u[i])
    BY <2>3
  <2> HIDE DEF u
  <2>5. AreCues(u)
    BY <2>2, <2>4, SameLength DEF AreCues
  <2> QED
    BY <1>1, <1>3, <2>5, Errors
<1> QED
  BY <1>2, <1>3

-----------------------------------------------------------------------------
(* What the serializers write is a document.                                 *)

LEMMA CueBlock ==
  ASSUME NEW first, IsLine(first), NEW second, IsLine(second), NEW t, IsSeq(t)
  PROVE  IsDocument(<<first, second>> \o TextLines(t) \o <<Blank>>)
<1>1. IsDocument(<<first, second>>) /\ IsDocument(TextLines(t)) /\ IsDocument(<<Blank>>)
  BY FewLines, TextLinesFacts, TextLineFacts
<1> QED
  BY <1>1, ConcatLines

LEMMA PerCue ==
  ASSUME NEW e, AreCues(e), NEW u, u = [i \in DOMAIN e |-> u[i]]
  PROVE  /\ (\A i \in DOMAIN e : IsLine(u[i])) => IsDocument(u)
         /\ (\A i \in DOMAIN e : IsDocument(u[i])) => IsDocument(FlattenSeq(u))
<1>1. DOMAIN u = DOMAIN e /\ IsSeq(e)
  BY DEF AreCues
<1>2. IsSeq(u)
  BY <1>1, SameLength
<1> QED
  BY <1>1, <1>2, FlattenLines DEF IsDocument

LEMMA SrtWritten ==
  ASSUME NEW e, AreCues(e)
  PROVE  IsDocument(SerializeSrt(e))
<1> DEFINE first(i) == Line("index", i, 0, <<>>)
           second(i) == Line("srtTime", FormatDuration(e[i].start), FormatDuration(e[i].end), <<>>)
           u == [i \in DOMAIN e |-> <<first(i), second(i)>> \o TextLines(e[i].text) \o <<Blank>>]
<1>1. SerializeSrt(e) = FlattenSeq(u)
  BY DEF SerializeSrt
<1>2. \A i \in DOMAIN e : IsLine(first(i)) /\ IsLine(second(i)) /\ IsSeq(e[i].text)
  BY LineFacts, EmptySeqs DEF AreCues, IsCue
<1> HIDE DEF first, second
<1>3. \A i \in DOMAIN e : IsDocument(<<first(i), second(i)>> \o TextLines(e[i].text) \o <<Blank>>)
  BY <1>2, CueBlock
<1>4. u = [i \in DOMAIN e |-> u[i]] /\ \A i \in DOMAIN e : IsDocument(u[i])
  BY <1>3
<1> HIDE DEF u
<1> QED
  BY <1>1, <1>4, PerCue

LEMMA VttWritten ==
  ASSUME NEW e, AreCues(e)
  PROVE  IsDocument(SerializeVtt(e))
<1> DEFINE first(i) == Line("index", e[i].index, 0, <<>>)
           second(i) == Line("vttTime", FormatVttTime(e[i].start), FormatVttTime(e[i].end), <<>>)
           u == [i \in DOMAIN e |-> <<first(i), second(i)>> \o TextLines(e[i].text) \o <<Blank>>]
<1>1. SerializeVtt(e) = <<Mark("WEBVTT"), Blank>> \o FlattenSeq(u)
  BY DEF SerializeVtt
<1>2. \A i \in DOMAIN e : IsLine(first(i)) /\ IsLine(second(i)) /\ IsSeq(e[i].text)
  BY LineFacts, EmptySeqs DEF AreCues, IsCue
<1> HIDE DEF first, second
<1>3. \A i \in DOMAIN e : IsDocument(<<first(i), second(i)>> \o TextLines(e[i].text) \o <<Blank>>)
  BY <1>2, CueBlock
<1>4. u = [i \in DOMAIN e |-> u[i]] /\ \A i \in DOMAIN e : IsDocument(u[i])
  BY <1>3
<1> HIDE DEF u
<1>5. IsDocument(FlattenSeq(u))
  BY <1>4, PerCue
<1>6. IsDocument(<<Mark("WEBVTT"), Blank>>)
  BY FewLines, TextLineFacts
<1> QED
  BY <1>1, <1>5, <1>6, ConcatLines

LEMMA AssWritten ==
  ASSUME NEW e, AreCues(e)
  PROVE  IsDocument(SerializeAss(e))
<1> DEFINE line(i) == Line("dialogue", FormatAssTime(e[i].start), FormatAssTime(e[i].end),
                           Replace(e[i].text, "nl", "\\N"))
           u == [i \in DOMAIN e |-> line(i)]
           S == {Mark("script"), Blank, Mark("styles"), Line("format", 0, 0, <<>>),
                 Mark("events"), Line("format", 1, 0, <<>>)}
           head == <<Mark("script"), Blank, Mark("styles"), Line("format", 0, 0, <<>>), Blank,
                     Mark("events"), Line("format", 1, 0, <<>>)>>
<1>1. SerializeAss(e) = head \o u
  BY DEF SerializeAss
<1>2. \A i \in DOMAIN e : IsLine(line(i))
  <2>1. \A i \in DOMAIN e : IsSeq(e[i].text)
    BY DEF AreCues, IsCue
  <2>2. \A i \in DOMAIN e : IsSeq(Replace(e[i].text, "nl", "\\N"))
    BY <2>1, ReplaceFacts
  <2> QED
    BY <2>2, LineFacts
<1> HIDE DEF line
<1>3. u = [i \in DOMAIN e |-> u[i]] /\ \A i \in DOMAIN e : IsLine(u[i])
  BY <1>2
<1> HIDE DEF u
<1>4. IsDocument(u)
  BY <1>3, PerCue
<1>5. IsDocument(head)
  <2>1. \A l \in S : IsLine(l)
    BY TextLineFacts, LineFacts, EmptySeqs
  <2>2. head \in Seq(S)
    OBVIOUS
  <2> HIDE DEF S, head
  <2> QED
    BY <2>1, <2>2, SeqOfAny DEF IsDocument
<1> HIDE DEF head
<1> QED
  BY <1>1, <1>4, <1>5, ConcatLines

LEMMA SubWritten ==
  ASSUME NEW e, AreCues(e)
  PROVE  IsDocument(SerializeSub(e))
<1> DEFINE line(i) == Line("sub", ToFrame(e[i].start), ToFrame(e[i].end), Replace(e[i].text, "nl", "|"))
           u == [i \in DOMAIN e |-> line(i)]
<1>1. SerializeSub(e) = u
  BY DEF SerializeSub
<1>2. \A i \in DOMAIN e : IsLine(line(i))
  <2>1. \A i \in DOMAIN e : IsSeq(e[i].text)
    BY DEF AreCues, IsCue
  <2>2. \A i \in DOMAIN e : IsSeq(Replace(e[i].text, "nl", "|"))
    BY <2>1, ReplaceFacts
  <2> QED
    BY <2>2, LineFacts
<1> HIDE DEF line
<1>3. u = [i \in DOMAIN e |-> u[i]] /\ \A i \in DOMAIN e : IsLine(u[i])
  BY <1>2
<1> HIDE DEF u
<1> QED
  BY <1>1, <1>3, PerCue

LEMMA Serialized ==
  ASSUME NEW format \in Formats, NEW e, AreCues(e)
  PROVE  IsDocument(Serialize(format, e))
<1>1. format = "srt" => Serialize(format, e) = SerializeSrt(e)
  BY Zenon DEF Serialize
<1>2. format = "vtt" => Serialize(format, e) = SerializeVtt(e)
  BY Zenon DEF Serialize
<1>3. format = "ass" => Serialize(format, e) = SerializeAss(e)
  BY Zenon DEF Serialize
<1>4. format = "sub" => Serialize(format, e) = SerializeSub(e)
  BY Zenon DEF Serialize
<1> QED
  BY <1>1, <1>2, <1>3, <1>4, SrtWritten, VttWritten, AssWritten, SubWritten DEF Formats

\* Decoding changes letters of the lines, no more.
LEMMA Decoded ==
  ASSUME NEW file, IsDocument(file.lines), NEW charset, NEW keep
  PROVE  IsSubtitle(ParseDecoded(Decode(file, charset, keep)))
<1> DEFINE lines == file.lines
           t(i) == [j \in DOMAIN lines[i].t |->
                      IF lines[i].t[j] \in {"w", "v"} THEN "?" ELSE lines[i].t[j]]
           u == Garble(lines)
           doc == Decode(file, charset, keep)
<1>1. IsSeq(lines) /\ \A i \in DOMAIN lines : IsLine(lines[i])
  BY DEF IsDocument
<1>2. u = [i \in DOMAIN lines |-> [lines[i] EXCEPT !.t = t(i)]]
  BY DEF Garble
<1>3. ASSUME NEW i \in DOMAIN lines PROVE IsSeq(t(i))
  <2>1. IsSeq(lines[i].t)
    BY <1>1 DEF IsLine
  <2>2. DOMAIN t(i) = DOMAIN lines[i].t /\ t(i) = [j \in DOMAIN lines[i].t |-> t(i)[j]]
    OBVIOUS
  <2> HIDE DEF t
  <2> QED
    BY <2>1, <2>2, SameLength
<1> HIDE DEF t, u, lines
<1>4. DOMAIN u = DOMAIN lines /\ u = [i \in DOMAIN lines |-> u[i]] /\ \A i \in DOMAIN lines : IsLine(u[i])
  <2>1. \A i \in DOMAIN lines : IsLine([lines[i] EXCEPT !.t = t(i)])
    BY <1>1, <1>3 DEF IsLine
  <2> QED
    BY <1>2, <2>1
<1>5. IsDocument(u)
  BY <1>1, <1>4, SameLength DEF IsDocument
<1>6. doc.lines = lines \/ doc.lines = u
  BY DEF Decode, u, lines
<1>7. IsDocument(lines)
  BY DEF lines
<1> HIDE DEF doc
<1>8. IsDocument(doc.lines)
  BY <1>5, <1>6, <1>7
<1>9. ParseDecoded(doc) = ParseAuto(doc) \/ ParseDecoded(doc) = ParseError
  BY DEF ParseDecoded
<1> QED
  BY <1>8, <1>9, AutoParsed, Errors DEF doc

-----------------------------------------------------------------------------
(* What is heard in a media file.                                            *)

LEMMA Quotients ==
  /\ \A a \in Nat, b \in Nat \ {0} : a \div b \in Nat
  /\ \A a \in Nat, b \in Nat \ {0} : a % b = 0 => a = b * (a \div b)
<1>1. \A a \in Nat, b \in Nat \ {0} : a \div b \in Nat
  OBVIOUS
<1>2. \A a \in Nat, b \in Nat \ {0} : a % b = 0 => a = b * (a \div b)
  OBVIOUS
<1> QED
  BY <1>1, <1>2

IsMedia(media) ==
  /\ DOMAIN media = {"size", "slow", "tracks", "packets"}
  /\ media.tracks \in Seq([rate : Nat, channels : Nat, codec : BOOLEAN, timeBase : BOOLEAN])
  /\ media.packets \in Seq([track : Nat, ts : Nat, decodes : BOOLEAN, sound : Seq(BOOLEAN)])

\* The track that is listened to and its packets.
LEMMA TrackFacts ==
  ASSUME NEW media, IsMedia(media), AudioTracks(media) # {}
  PROVE  /\ TrackId(media) \in DOMAIN media.tracks /\ Track(media).rate \in Nat \ {0}
         /\ Track(media) \in [rate : Nat, channels : Nat, codec : BOOLEAN, timeBase : BOOLEAN]
<1> DEFINE I == AudioTracks(media)
           n == Len(media.tracks)
           R == [rate : Nat, channels : Nat, codec : BOOLEAN, timeBase : BOOLEAN]
<1>1. media.tracks \in Seq(R) /\ DOMAIN media.tracks = 1..n /\ n \in Nat
  BY DEF IsMedia
<1>2. I \subseteq DOMAIN media.tracks /\ \A i \in I : media.tracks[i].rate # 0
  BY DEF AudioTracks
<1>3. IsFiniteSet(I) /\ I \subseteq Nat
  <2> HIDE DEF I, n
  <2>1. IsFiniteSet(1..n) /\ I \in SUBSET (1..n)
    BY <1>1, <1>2, FS_Interval
  <2>2. IsFiniteSet(I)
    BY <2>1, FS_Subset
  <2> QED
    BY <1>1, <1>2, <2>2
<1> HIDE DEF I, n
<1>4. Cardinality(I) \in Nat /\ Cardinality(I) # 0
  BY <1>3, FS_CardinalityType, FS_EmptySet DEF I
<1>5. Nth(I, 1) \in I
  <2>1. 1 \in 1..Cardinality(I)
    BY <1>4
  <2> QED
    BY <1>3, <2>1, NthFacts
<1>6. TrackId(media) \in I
  BY <1>5 DEF TrackId, I
<1>7. Track(media) \in R /\ Track(media).rate # 0
  <2>1. media.tracks[TrackId(media)] \in R
    BY <1>1, <1>2, <1>6, SeqOfAny
  <2> QED
    BY <1>2, <1>6, <2>1 DEF Track
<1> HIDE DEF R
<1>8. Track(media).rate \in Nat
  BY <1>7 DEF R
<1> QED
  BY <1>2, <1>6, <1>7, <1>8 DEF R

LEMMA PacketFacts ==
  ASSUME NEW media, IsMedia(media)
  PROVE  /\ IsSeq(Packets(media))
         /\ \A i \in DOMAIN Packets(media) :
              /\ \E j \in DOMAIN media.packets :
                   Packets(media)[i] = media.packets[j] /\ media.packets[j].track = TrackId(media)
              /\ Packets(media)[i].ts \in Nat
              /\ IsSeq(Packets(media)[i].sound)
              /\ Packets(media)[i].sound \in Seq(BOOLEAN)
<1> DEFINE I == {i \in DOMAIN media.packets : media.packets[i].track = TrackId(media)}
           R == [track : Nat, ts : Nat, decodes : BOOLEAN, sound : Seq(BOOLEAN)]
           p == Packets(media)
<1>1. media.packets \in Seq(R)
  BY DEF IsMedia
<1>2. IsSeq(media.packets) /\ I \subseteq DOMAIN media.packets
      /\ \A i \in I : media.packets[i].track = TrackId(media)
  BY <1>1, SeqOfAny
<1>3. p = Picked(media.packets, I)
  BY DEF Packets
<1> HIDE DEF I, p
<1>4. IsSeq(p) /\ \A i \in DOMAIN p : \E j \in I : p[i] = media.packets[j]
  BY <1>2, <1>3, PickedFacts
<1>5. \A j \in DOMAIN media.packets : media.packets[j] \in R
  BY <1>1, SeqOfAny
<1>6. \A r \in R : r.ts \in Nat /\ r.sound \in Seq(BOOLEAN)
  OBVIOUS
<1> HIDE DEF R
<1>7. \A i \in DOMAIN p : p[i].ts \in Nat /\ p[i].sound \in Seq(BOOLEAN) /\ IsSeq(p[i].sound)
  BY <1>2, <1>4, <1>5, <1>6, SeqOfAny
<1> QED
  BY <1>2, <1>4, <1>7 DEF p

LEMMA SoundFacts ==
  ASSUME NEW media, IsMedia(media)
  PROVE  IsSeq(Samples(media)) /\ Len(Samples(media)) \in Nat
<1> DEFINE p == Packets(media)
           s == [i \in DOMAIN p |-> p[i].sound]
<1>1. IsSeq(p) /\ \A i \in DOMAIN p : IsSeq(p[i].sound)
  BY PacketFacts
<1> HIDE DEF p
<1>2. DOMAIN s = DOMAIN p /\ s = [i \in DOMAIN p |-> s[i]] /\ \A i \in DOMAIN p : IsSeq(s[i])
  BY <1>1
<1>3. Samples(media) = FlattenSeq(s)
  BY DEF Samples, p
<1> HIDE DEF s
<1>4. IsSeq(s)
  BY <1>1, <1>2, SameLength
<1>5. IsSeq(FlattenSeq(s))
  BY <1>2, <1>4, FlattenElements
<1> QED
  BY <1>3, <1>5, SeqFacts

LEMMA ChannelFacts ==
  ASSUME NEW media, IsMedia(media), AudioTracks(media) # {}
  PROVE  /\ Channels(media) \in Nat
         /\ Track(media).channels # 0 => Channels(media) = Track(media).channels
<1> DEFINE total == Len(Samples(media))
           p == Packets(media)
           ts == IF p = <<>> THEN 0 ELSE Last(p).ts
           c == Track(media).channels
<1>1. total \in Nat /\ c \in Nat
  BY SoundFacts, TrackFacts
<1>2. ts \in Nat
  <2>1. IsSeq(p) /\ \A i \in DOMAIN p : p[i].ts \in Nat
    BY PacketFacts
  <2> HIDE DEF p
  <2>2. p # <<>> => Len(p) \in DOMAIN p
    BY <2>1, SeqFacts, EmptySeqs DEF IsSeq
  <2> QED
    BY <2>1, <2>2 DEF Last
<1>3. Channels(media) =
        CASE c # 0 -> c
          [] c = 0 /\ Track(media).timeBase /\ ts > 0 -> (2 * total + ts) \div (2 * ts)
          [] OTHER -> 1
  BY DEF Channels
<1> HIDE DEF total, ts, c
<1>4. CASE c # 0
  <2>1. Channels(media) = c
    BY <1>3, <1>4, Zenon
  <2> QED
    BY <1>1, <2>1 DEF c
<1>5. CASE c = 0
  <2>1. Channels(media) = 1 \/ (ts > 0 /\ Channels(media) = (2 * total + ts) \div (2 * ts))
    BY <1>3, <1>5, Zenon
  <2>2. ts > 0 => (2 * total + ts) \div (2 * ts) \in Nat
    BY <1>1, <1>2, Quotients
  <2> QED
    BY <1>5, <2>1, <2>2 DEF c
<1> QED
  BY <1>4, <1>5

LEMMA MonoFacts ==
  ASSUME NEW media, IsMedia(media), AudioTracks(media) # {}, Channels(media) # 0
  PROVE  IsSeq(Mono(media))
<1> DEFINE samples == Samples(media)
           c == Channels(media)
           n == (Len(samples) + c - 1) \div c
           u == Mono(media)
<1>1. Len(samples) \in Nat /\ c \in Nat \ {0}
  BY SoundFacts, ChannelFacts
<1>2. n \in Nat
  <2>1. Len(samples) + c - 1 \in Nat
    BY <1>1
  <2> QED
    BY <1>1, <2>1, Quotients
<1>3. u = [k \in 1..n |-> samples[(k - 1) * c + 1]]
  BY DEF Mono
<1> HIDE DEF n, samples, c, u
<1>4. DOMAIN u = 1..n /\ u = [k \in 1..n |-> u[k]]
  BY <1>3
<1> QED
  BY <1>2, <1>4, SeqByIndex DEF u

LEMMA ResampledFacts ==
  ASSUME NEW sound, IsSeq(sound), NEW from \in Nat \ {0}, NEW to \in Nat
  PROVE  IsSeq(Resampled(sound, from, to))
<1> DEFINE n == (2 * Len(sound) * to + from) \div (2 * from)
           u == [k \in 1..n |-> sound[((k - 1) * from) \div to + 1]]
<1>1. Len(sound) \in Nat
  BY SeqFacts
<1>2. n \in Nat
  <2> PICK l : l = Len(sound) /\ l \in Nat
    BY <1>1
  <2>1. 2 * l * to \in Nat
    OBVIOUS
  <2>2. 2 * l * to + from \in Nat /\ 2 * from \in Nat \ {0}
    BY <2>1
  <2> QED
    BY <2>2, Quotients
<1> HIDE DEF n
<1>3. DOMAIN u = 1..n /\ u = [k \in 1..n |-> u[k]]
  OBVIOUS
<1>4. Resampled(sound, from, to) = sound \/ Resampled(sound, from, to) = u
  BY DEF Resampled, n
<1> HIDE DEF u
<1> QED
  BY <1>2, <1>3, <1>4, SeqByIndex

LEMMA SegmentFacts ==
  ASSUME NEW labels, IsSeq(labels), NEW chunkMs \in Nat
  PROVE  /\ IsSeq(Segments(labels, chunkMs))
         /\ \A n \in DOMAIN Segments(labels, chunkMs) : Segments(labels, chunkMs)[n].start \in Nat
<1> DEFINE speech(i) == i \in DOMAIN labels /\ labels[i]
           starts == {i \in DOMAIN labels : speech(i) /\ ~speech(i - 1)}
           last(i) == CHOOSE j \in i..Len(labels) :
                        ~speech(j + 1) /\ \A k \in i..j : speech(k)
           long == {i \in starts : (last(i) - i + 1) * chunkMs >= MinSpeech}
           segment(i) == [start |-> (i - 1) * chunkMs, length |-> (last(i) - i + 1) * chunkMs]
           c == Cardinality(long)
           u == [n \in 1..c |-> segment(Nth(long, n))]
<1>1. Segments(labels, chunkMs) = u
  BY DEF Segments
<1>2. long \subseteq DOMAIN labels /\ DOMAIN labels = 1..Len(labels) /\ Len(labels) \in Nat
  BY SeqFacts
<1>3. \A i : segment(i).start = (i - 1) * chunkMs
  OBVIOUS
<1> HIDE DEF long, segment, c
<1>4. IsFiniteSet(long) /\ long \subseteq Nat
  <2>1. IsFiniteSet(1..Len(labels)) /\ long \in SUBSET (1..Len(labels))
    BY <1>2, FS_Interval
  <2>2. IsFiniteSet(long)
    BY <2>1, FS_Subset
  <2> QED
    BY <1>2, <2>2
<1>5. c \in Nat /\ \A n \in 1..c : Nth(long, n) \in long
  BY <1>4, NthFacts DEF c
<1>6. DOMAIN u = 1..c /\ u = [n \in 1..c |-> u[n]] /\ \A n \in 1..c : u[n] = segment(Nth(long, n))
  OBVIOUS
<1> HIDE DEF u
<1>7. IsSeq(u)
  BY <1>5, <1>6, SeqByIndex
<1>8. ASSUME NEW n \in 1..c PROVE u[n].start \in Nat
  <2> PICK i : i = Nth(long, n)
    OBVIOUS
  <2>1. i \in Nat /\ i - 1 \in Nat
    BY <1>2, <1>5
  <2>2. (i - 1) * chunkMs \in Nat
    BY <2>1
  <2> QED
    BY <1>3, <1>6, <2>2
<1> QED
  BY <1>1, <1>6, <1>7, <1>8

LEMMA SpeechFacts ==
  ASSUME NEW media, IsMedia(media)
  PROVE  /\ IsSeq(Speech(media))
         /\ \A n \in DOMAIN Speech(media) : Speech(media)[n].start \in Nat
         /\ Speech(media) # <<>> =>
              /\ Loadable(media) /\ Samples(media) # <<>> /\ Channels(media) # 0
              /\ AudioTracks(media) # {}
<1> DEFINE rate == Rate(media)
           sound == Resampled(Mono(media), Track(media).rate, rate)
           b == ChunkSize(rate) \div BlockSize
           n == (Len(sound) + b - 1) \div b
           labels == Labels(sound, rate)
           heard == Segments(labels, ChunkMs(rate))
           ok == Loadable(media) /\ Samples(media) # <<>> /\ Channels(media) # 0
<1>1. Speech(media) = IF ok THEN heard ELSE <<>>
  BY DEF Speech
<1>2. CASE ~ok
  BY <1>1, <1>2, EmptySeqs
<1>3. CASE ok
  <2>1. AudioTracks(media) # {}
    BY <1>3 DEF Loadable
  <2>2. rate \in {8000, 16000}
    BY DEF Rate
  <2>3. b \in {1, 2} /\ ChunkMs(rate) \in Nat
    <3>1. CASE rate = 8000
      <4>1. ChunkSize(rate) = 256
        BY <3>1, SMT DEF ChunkSize
      <4>2. b = 1 /\ ChunkMs(rate) = 32
        BY <3>1, <4>1, SMT DEF ChunkMs, BlockSize
      <4> QED
        BY <4>2
    <3>2. CASE rate = 16000
      <4>1. ChunkSize(rate) = 512
        BY <3>2, SMT DEF ChunkSize
      <4>2. b = 2 /\ ChunkMs(rate) = 32
        BY <3>2, <4>1, SMT DEF ChunkMs, BlockSize
      <4> QED
        BY <4>2
    <3> QED
      BY <2>2, <3>1, <3>2
  <2>4. IsSeq(sound)
    <3>1. IsSeq(Mono(media)) /\ Track(media).rate \in Nat \ {0} /\ rate \in Nat
      BY <1>3, <2>1, <2>2, MonoFacts, TrackFacts
    <3> HIDE DEF rate
    <3> QED
      BY <3>1, ResampledFacts
  <2> HIDE DEF sound, b
  <2>5. n \in Nat
    <3>1. Len(sound) \in Nat
      BY <2>4, SeqFacts
    <3>2. Len(sound) + b - 1 \in Nat /\ b \in Nat \ {0}
      BY <2>3, <3>1
    <3> QED
      BY <3>2, Quotients
  <2>6. IsSeq(labels)
    <3>1. DOMAIN labels = 1..n /\ labels = [j \in 1..n |-> labels[j]]
      BY DEF Labels, b
    <3> HIDE DEF n, labels
    <3> QED
      BY <2>5, <3>1, SeqByIndex
  <2> HIDE DEF labels, rate
  <2> QED
    BY <1>1, <1>3, <2>1, <2>3, <2>6, SegmentFacts
<1> QED
  BY <1>2, <1>3

LEMMA FirstSpeechFacts ==
  ASSUME NEW s, IsSeq(s), s # <<>>, \A n \in DOMAIN s : s[n].start \in Nat
  PROVE  FirstSpeech(s) \in Nat
<1> DEFINE I == {i \in DOMAIN s : s[i].length >= SignificantMs}
           p == Picked(s, I)
<1>1. IsSeq(p) /\ \A k \in DOMAIN p : \E i \in DOMAIN s : p[k] = s[i]
  <2>1. I \subseteq DOMAIN s
    OBVIOUS
  <2> HIDE DEF I
  <2> QED
    BY <2>1, PickedFacts
<1>2. FirstSpeech(s) = IF p # <<>> THEN p[1].start ELSE s[1].start
  BY DEF FirstSpeech
<1> HIDE DEF p
<1>3. \A t : IsSeq(t) /\ t # <<>> => 1 \in DOMAIN t
  BY DEF IsSeq
<1> QED
  BY <1>1, <1>2, <1>3

-----------------------------------------------------------------------------
(* The cues that the host holds and the offset it was told.                  *)

\* The offset stems from a media file and the cues that are held.
Detected ==
  \E media \in Audio :
    /\ Heard(media).segments # <<>> /\ host.sub.entries # <<>>
    /\ sync = SyncResult(host.sub.entries, Heard(media))

DocumentsInv ==
  /\ \A p \in DOMAIN fs : IsDocument(fs[p].lines)
  /\ DOMAIN task \subseteq DOMAIN fs
  /\ \A p \in DOMAIN task : IsSubtitle(task[p].result)
  /\ task # <<>> => target \in Formats

HostInv ==
  /\ IsSubtitle(host.sub)
  /\ host.pc = "saving" => ByExtension(host.path.ext) \in Formats
  /\ host.pc = "sampled" => host.path \in DOMAIN fs /\ ~sync.found
  /\ sync.found => Detected

CuesInv == BatchInv /\ DocumentsInv /\ HostInv

LEMMA LinesDocument ==
  ASSUME NEW s \in Seq(Lines)
  PROVE  IsDocument(s)
<1>1. IsSeq(s) /\ \A i \in DOMAIN s : s[i] \in Lines
  BY SeqOfAny
<1>2. ASSUME NEW l \in Lines PROVE IsLine(l)
  <2>1. l = [k |-> l.k, a |-> l.a, b |-> l.b, t |-> l.t] /\ l.t \in Seq(STRING)
    BY DEF Lines
  <2> QED
    BY <2>1, SeqOfAny DEF IsLine
<1> QED
  BY <1>1, <1>2 DEF IsDocument

LEMMA CuesInit == Init => DocumentsInv /\ HostInv
<1> SUFFICES ASSUME Init PROVE DocumentsInv /\ HostInv
  OBVIOUS
<1>1. DocumentsInv
  <2>1. \A p \in DOMAIN fs : fs[p].lines \in Seq(Lines)
    BY FilesAssumption DEF Init
  <2>2. task = <<>> /\ DOMAIN task = {}
    BY EmptySeqs DEF Init
  <2> QED
    BY <2>1, <2>2, LinesDocument DEF DocumentsInv
<1>2. HostInv
  <2>1. host.sub = ParseError /\ host.pc = "idle" /\ ~sync.found
    BY Zenon DEF Init, Idle, NoSync
  <2> QED
    BY <2>1, Errors, Zenon DEF HostInv
<1> QED
  BY <1>1, <1>2

LEMMA StoredDocument ==
  ASSUME DocumentsInv, NEW x, NEW file, IsDocument(file.lines), Store(x, file)
  PROVE  (\A p \in DOMAIN fs' : IsDocument(fs'[p].lines)) /\ DOMAIN fs \subseteq DOMAIN fs'
<1>1. /\ DOMAIN fs' = DOMAIN fs \cup {x} /\ fs'[x] = file
      /\ \A q \in DOMAIN fs : q # x => fs'[q] = fs[q]
  BY StoreFacts
<1> QED
  BY <1>1 DEF DocumentsInv

LEMMA WrittenFacts ==
  ASSUME NEW data, NEW format \in Formats, NEW entries, AreCues(entries)
  PROVE  IsDocument(Written(data, Serialize(format, entries)).lines) /\ IsDocument(Truncated.lines)
<1>1. Written(data, Serialize(format, entries)).lines = Serialize(format, entries)
  BY DEF Written
<1>2. Truncated.lines = <<>> /\ IsDocument(<<>>)
  BY EmptySeqs DEF Truncated, IsDocument
<1> QED
  BY <1>1, <1>2, Serialized

LEMMA DocumentsNext ==
  ASSUME CuesInv, [Next]_vars
  PROVE  DocumentsInv' /\ DOMAIN fs \subseteq DOMAIN fs'
<1>0. BatchInv /\ DocumentsInv /\ HostInv /\ IsFiniteSet(DOMAIN fs)
  BY DEF CuesInv, BatchInv, FilesKept
<1>1. CASE \E root \in DOMAIN Within, recursive \in BOOLEAN : StartBatch(root, recursive)
  <2>1. PICK root, recursive : StartBatch(root, recursive)
    BY <1>1
  <2> DEFINE D == {m.path : m \in Range(OfType(ScanDirectory(root, recursive), "Subtitle"))}
             t == [pc |-> "queued", result |-> ParseError, data |-> <<>>, torn |-> FALSE,
                   success |-> FALSE]
  <2>2. task' = [p \in D |-> t] /\ fs' = fs /\ target' \in Targets
    BY <2>1 DEF StartBatch
  <2>3. D \subseteq DOMAIN fs
    BY <1>0, ScannedFiles
  <2>4. IsSubtitle(t.result) /\ Targets \subseteq Formats
    BY Errors, FilesAssumption
  <2> HIDE DEF D, t
  <2> QED
    BY <1>0, <2>2, <2>3, <2>4 DEF DocumentsInv
<1>2. ASSUME NEW p \in DOMAIN task,
             Acquire(p) \/ ReadInput(p) \/ TruncateOutput(p) \/ WriteOutput(p) \/ WriteFails(p)
      PROVE  DocumentsInv' /\ DOMAIN fs \subseteq DOMAIN fs'
  <2>1. IsTask(task[p]) /\ IsSubtitle(task[p].result) /\ p \in DOMAIN fs
    BY <1>0 DEF BatchInv, DocumentsInv
  <2>2. task # <<>> /\ target \in Formats
    BY <1>0, EmptySeqs DEF DocumentsInv
  <2>3. target' = target
    BY <1>2 DEF Acquire, ReadInput, TruncateOutput, WriteOutput, WriteFails
  <2>4. /\ DOMAIN task' = DOMAIN task /\ \A q \in DOMAIN task : q # p => task'[q] = task[q]
        /\ IsSubtitle(task'[p].result)
    <3>1. CASE Acquire(p) \/ TruncateOutput(p) \/ WriteOutput(p)
      <4>1. PICK stage : task' = [task EXCEPT ![p].pc = stage]
        BY <3>1 DEF Acquire, TruncateOutput, WriteOutput
      <4>2. DOMAIN task' = DOMAIN task /\ (\A q \in DOMAIN task : q # p => task'[q] = task[q])
            /\ task'[p].result = task[p].result
        BY <2>1, <4>1 DEF IsTask
      <4> QED
        BY <2>1, <4>2
    <3>2. CASE WriteFails(p)
      <4>1. task' = [task EXCEPT ![p].pc = "err", ![p].torn = TRUE]
        BY <3>2 DEF WriteFails
      <4>2. DOMAIN task' = DOMAIN task /\ (\A q \in DOMAIN task : q # p => task'[q] = task[q])
            /\ task'[p].result = task[p].result
        BY <2>1, <4>1 DEF IsTask
      <4> QED
        BY <2>1, <4>2
    <3>3. CASE ReadInput(p)
      <4> DEFINE original == ParseDecoded(ReadForConversion(fs[p]))
                 result == Transform(original, target, preserve)
                 t == [pc |-> IF result.ok THEN "converted" ELSE "err", result |-> result,
                       data |-> fs[p].data, torn |-> FALSE,
                       success |-> result.ok /\ Validated(original, result)]
      <4>1. task' = [task EXCEPT ![p] = t] /\ t.result = result
        BY <3>3 DEF ReadInput
      <4> HIDE DEF t
      <4>2. IsSubtitle(original)
        <5>1. IsDocument(fs[p].lines)
          BY <1>0, <2>1 DEF DocumentsInv
        <5> QED
          BY <5>1, Decoded DEF ReadForConversion
      <4> HIDE DEF original
      <4>3. IsSubtitle(result)
        BY <4>2, Transformed
      <4> HIDE DEF result
      <4> QED
        BY <4>1, <4>3
    <3> QED
      BY <1>2, <3>1, <3>2, <3>3
  <2>5. (\A q \in DOMAIN fs' : IsDocument(fs'[q].lines)) /\ DOMAIN fs \subseteq DOMAIN fs'
    <3>1. CASE fs' = fs
      BY <1>0, <3>1 DEF DocumentsInv
    <3>2. CASE TruncateOutput(p)
      <4>1. Store(Output(p), Truncated)
        BY <3>2 DEF TruncateOutput
      <4>2. IsDocument(Truncated.lines)
        BY EmptySeqs DEF Truncated, IsDocument
      <4> QED
        BY <1>0, <4>1, <4>2, StoredDocument
    <3>3. CASE WriteOutput(p)
      <4>1. Store(Output(p), Written(task[p].data, Serialize(target, task[p].result.entries)))
        BY <3>3 DEF WriteOutput
      <4>2. AreCues(task[p].result.entries)
        BY <2>1 DEF IsSubtitle
      <4> QED
        BY <1>0, <2>2, <4>1, <4>2, WrittenFacts, StoredDocument
    <3>4. Acquire(p) \/ ReadInput(p) \/ WriteFails(p) => fs' = fs
      BY DEF Acquire, ReadInput, WriteFails
    <3> QED
      BY <1>2, <3>1, <3>2, <3>3, <3>4
  <2> QED
    BY <1>0, <2>2, <2>3, <2>4, <2>5 DEF DocumentsInv
<1>3. ASSUME UNCHANGED <<fs, task, target>>
      PROVE  DocumentsInv' /\ DOMAIN fs \subseteq DOMAIN fs'
  BY <1>0, <1>3 DEF DocumentsInv
<1>4. CASE SaveTruncate \/ SaveWrite
  <2>1. PICK file : Store(SyncedPath(host.path), file) /\ IsDocument(file.lines)
    <3>1. CASE SaveTruncate
      <4>1. IsDocument(Truncated.lines)
        BY EmptySeqs DEF Truncated, IsDocument
      <4> QED
        BY <3>1, <4>1 DEF SaveTruncate
    <3>2. CASE SaveWrite
      <4>1. AreCues(host.sub.entries) /\ ByExtension(host.path.ext) \in Formats
        BY <1>0, <3>2 DEF SaveWrite, HostInv, IsSubtitle
      <4> QED
        BY <3>2, <4>1, WrittenFacts DEF SaveWrite
    <3> QED
      BY <1>4, <3>1, <3>2
  <2>2. UNCHANGED <<task, target>>
    BY <1>4 DEF SaveTruncate, SaveWrite
  <2> QED
    BY <1>0, <2>1, <2>2, StoredDocument DEF DocumentsInv
<1>5. ASSUME \/ \E req \in Requests : LoadSample(req)
             \/ LoadContent
             \/ \E heard \in {Heard(media) : media \in Audio}, method \in Methods :
                  DetectOffset(heard, method) \/ DetectFails(heard, method)
             \/ \E off \in Offsets : ShiftTiming(off)
             \/ sync.found /\ ApplyManualOffset(sync.off)
             \/ SortCues
             \/ UNCHANGED vars
      PROVE  UNCHANGED <<fs, task, target>>
  BY <1>5 DEF LoadSample, LoadContent, DetectOffset, DetectFails, ShiftTiming, ApplyManualOffset,
              SortCues, vars
<1> QED
  BY <1>1, <1>2, <1>3, <1>4, <1>5 DEF Next

\* A detected offset is a whole number of milliseconds.
LEMMA OffsetFacts ==
  ASSUME NEW entries, AreCues(entries), entries # <<>>, NEW media \in Audio,
         Heard(media).segments # <<>>
  PROVE  LET speech == FirstSpeech(Speech(media))
             first  == entries[1].start
             result == SyncResult(entries, Heard(media))
         IN  /\ speech \in Nat /\ first \in Nat
             /\ result.speech = speech /\ result.off = Clamp(speech - first) /\ result.off \in Int
             /\ result.warned = ~Accepts(speech - first) /\ result.media[1] = media
             /\ IsMedia(media) /\ Speech(media) # <<>> /\ 1 \in DOMAIN entries
<1> DEFINE speech == FirstSpeech(Speech(media))
           first == entries[1].start
           result == SyncResult(entries, Heard(media))
<1>1. IsMedia(media)
  BY AudioAssumption DEF IsMedia
<1>2. Heard(media).segments = Speech(media) /\ Heard(media).media = media
  BY DEF Heard
<1>3. speech \in Nat
  BY <1>1, <1>2, SpeechFacts, FirstSpeechFacts
<1>4. 1 \in DOMAIN entries /\ first \in Nat
  <2>1. 1 \in DOMAIN entries
    BY DEF AreCues, IsSeq
  <2> QED
    BY <2>1 DEF AreCues, IsCue
<1> HIDE DEF first
<1>5. result.speech = speech /\ result.off = Clamp(speech - first)
  BY <1>2 DEF SyncResult, first
<1>6. result.warned = ~Accepts(speech - first)
  BY <1>2, Zenon DEF SyncResult, first
<1>7. result.media[1] = media
  <2>1. result.media = <<media>>
    BY <1>2 DEF SyncResult
  <2> QED
    BY <2>1
<1>8. Clamp(speech - first) \in Int
  <2>1. speech - first \in Int /\ MaxOffset \in Nat
    BY <1>3, <1>4, AudioAssumption
  <2>2. Clamp(speech - first) \in {MaxOffset, -MaxOffset, speech - first}
    BY Zenon DEF Clamp
  <2> QED
    BY <2>1, <2>2
<1> HIDE DEF speech, result
<1> QED
  BY <1>1, <1>2, <1>3, <1>4, <1>5, <1>6, <1>7, <1>8 DEF first, speech, result

LEMMA HostNext ==
  ASSUME CuesInv, [Next]_vars
  PROVE  HostInv'
<1>0. BatchInv /\ DocumentsInv /\ HostInv /\ HostKnown /\ IsSubtitle(host.sub)
  BY DEF CuesInv, BatchInv, HostInv
<1>f. DOMAIN fs \subseteq DOMAIN fs'
  BY DocumentsNext
<1>1. ASSUME host' = host, sync' = sync PROVE HostInv'
  BY <1>0, <1>1, <1>f DEF HostInv, Detected
<1>2. ASSUME NEW req \in Requests, LoadSample(req) PROVE HostInv'
  <2> DEFINE pairing == ResolvePairing(req)
             p == pairing.subtitle[1]
             charset == DetectEncoding(Sample(fs[p].data))
  <2>1. /\ p \in DOMAIN fs /\ sync' = NoSync
        /\ host' = [Idle EXCEPT !.pc = "sampled", !.path = p, !.video = pairing.video,
                       !.engine = Engine(req.vad), !.charset = charset]
    BY <1>2 DEF LoadSample
  <2> HIDE DEF p, pairing, charset
  <2>2. host'.pc = "sampled" /\ host'.path = p /\ host'.sub = ParseError
    BY <2>1, Zenon DEF Idle
  <2>3. ~sync'.found
    BY <2>1, Zenon DEF NoSync
  <2> QED
    BY <1>f, <2>1, <2>2, <2>3, Errors DEF HostInv
<1>3. ASSUME LoadContent PROVE HostInv'
  <2> DEFINE file == fs[host.path]
             sub == ParseDecoded(Decode(file, host.charset, FALSE))
             stage == IF sub.ok THEN "loaded" ELSE "idle"
             data == file.data
  <2>1. host' = [host EXCEPT !.pc = stage, !.sub = sub, !.data = data] /\ host.pc = "sampled"
        /\ sync' = sync
    BY <1>3 DEF LoadContent
  <2>2. IsSubtitle(sub)
    <3>1. IsDocument(file.lines)
      BY <1>0, <2>1 DEF HostInv, DocumentsInv
    <3> QED
      BY <3>1, Decoded
  <2>3. stage \in {"loaded", "idle"}
    OBVIOUS
  <2> HIDE DEF sub, stage, data
  <2>4. host'.pc = stage /\ host'.sub = sub
    BY <1>0, <2>1 DEF HostKnown
  <2>5. ~sync'.found
    BY <1>0, <2>1 DEF HostInv
  <2> QED
    BY <2>2, <2>3, <2>4, <2>5 DEF HostInv
<1>4. ASSUME NEW media \in Audio, NEW method, DetectOffset(Heard(media), method) PROVE HostInv'
  <2>1. /\ Heard(media).segments # <<>> /\ host.sub.entries # <<>> /\ host' = host
        /\ host.pc = "loaded"
        /\ sync' = SyncResult(host.sub.entries, Heard(media))
    BY <1>4 DEF DetectOffset, Detecting
  <2>2. Detected'
    BY <2>1 DEF Detected, Heard, Speech
  <2> QED
    BY <1>0, <2>1, <2>2 DEF HostInv
<1>5. ASSUME NEW heard, NEW method, DetectFails(heard, method) PROVE HostInv'
  <2>1. host' = host /\ host.pc = "loaded" /\ sync' = NoSync
    BY <1>5 DEF DetectFails, Detecting
  <2>2. ~sync'.found
    BY <2>1, Zenon DEF NoSync
  <2> QED
    BY <1>0, <2>1, <2>2 DEF HostInv
<1>6. ASSUME NEW entries, AreCues(entries), host.pc = "loaded", sync' = NoSync,
             host' = [host EXCEPT !.sub.entries = entries]
      PROVE  HostInv'
  <2>1. /\ host'.pc = "loaded" /\ host'.sub = [host.sub EXCEPT !.entries = entries]
    BY <1>0, <1>6 DEF HostKnown
  <2>2. IsSubtitle(host'.sub)
    BY <1>0, <1>6, <2>1 DEF IsSubtitle
  <2>3. ~sync'.found
    BY <1>6, Zenon DEF NoSync
  <2> QED
    BY <2>1, <2>2, <2>3 DEF HostInv
<1>7. ASSUME NEW off \in Int, ShiftTiming(off) PROVE HostInv'
  <2>1. AreCues(Shift(host.sub.entries, off))
    BY <1>0, ShiftedCues DEF IsSubtitle
  <2>2. host.pc = "loaded" /\ sync' = NoSync
        /\ host' = [host EXCEPT !.sub.entries = Shift(host.sub.entries, off)]
    BY <1>7 DEF ShiftTiming
  <2> QED
    BY <1>6, <2>1, <2>2
<1>8. ASSUME SortCues PROVE HostInv'
  <2>1. AreCues(SortEntries(host.sub.entries))
    BY <1>0, SortedCues DEF IsSubtitle
  <2>2. host.pc = "loaded" /\ sync' = NoSync
        /\ host' = [host EXCEPT !.sub.entries = SortEntries(host.sub.entries)]
    BY <1>8 DEF SortCues
  <2> QED
    BY <1>6, <2>1, <2>2
<1>9. sync.found => sync.off \in Int
  BY <1>0, OffsetFacts DEF HostInv, Detected, IsSubtitle
<1>10. ASSUME SaveTruncate \/ SaveWrite PROVE HostInv'
  <2>1. PICK stage : host' = [host EXCEPT !.pc = stage] /\ stage \in {"saving", "loaded"}
                  /\ (stage = "saving" => ByExtension(host.path.ext) \in Formats)
    BY <1>10 DEF SaveTruncate, SaveWrite
  <2>2. host'.pc = stage /\ host'.path = host.path /\ host'.sub = host.sub
    BY <1>0, <2>1 DEF HostKnown
  <2>3. sync' = sync
    BY <1>10 DEF SaveTruncate, SaveWrite
  <2> QED
    BY <1>0, <2>1, <2>2, <2>3 DEF HostInv, Detected
<1>11. ASSUME NEW p \in DOMAIN task,
              Acquire(p) \/ ReadInput(p) \/ TruncateOutput(p) \/ WriteOutput(p) \/ WriteFails(p)
       PROVE  HostInv'
  BY <1>1, <1>11 DEF Acquire, ReadInput, TruncateOutput, WriteOutput, WriteFails
<1>12. ASSUME NEW root, NEW recursive, StartBatch(root, recursive) PROVE HostInv'
  BY <1>1, <1>12 DEF StartBatch
<1>13. CASE UNCHANGED vars
  BY <1>1, <1>13 DEF vars
<1>14. \A off \in Offsets : ShiftTiming(off) => HostInv'
  <2>1. \A off \in Offsets : off \in Int
    BY FilesAssumption
  <2> QED
    BY <1>7, <2>1
<1>15. sync.found /\ ApplyManualOffset(sync.off) => HostInv'
  BY <1>7, <1>9 DEF ApplyManualOffset
<1> QED
  BY <1>2, <1>3, <1>4, <1>5, <1>8, <1>10, <1>11, <1>12, <1>13, <1>14, <1>15 DEF Next

\* The host holds cues, the files hold documents, and a detected offset stems from a
\* media file and the cues it was detected for: the inductive invariant.
THEOREM CuesInvariant == Spec => []CuesInv
<1>1. Init => CuesInv
  BY BatchInit, CuesInit DEF CuesInv
<1>2. CuesInv /\ [Next]_vars => CuesInv'
  BY BatchNext, DocumentsNext, HostNext DEF CuesInv
<1> QED
  BY <1>1, <1>2, PTL DEF Spec

LEMMA EditStep ==
  ASSUME CuesInv, [Next]_vars, host.pc = "loaded", host'.pc = "loaded"
  PROVE  \/ OrderKept(host.sub.entries, host'.sub.entries)
         \/ CutShort(host.sub.entries, host'.sub.entries)
         \/ SortedOf(host.sub.entries, host'.sub.entries)
<1>0. HostKnown /\ IsSubtitle(host.sub) /\ AreCues(host.sub.entries) /\ HostInv
  BY DEF CuesInv, BatchInv, HostInv, IsSubtitle
<1>1. ASSUME host'.sub = host.sub PROVE OrderKept(host.sub.entries, host'.sub.entries)
  <2> DEFINE e == host.sub.entries
  <2>1. \A i \in DOMAIN e : e[i].start \in Nat
    BY <1>0 DEF AreCues, IsCue
  <2>2. OrderKept(e, e)
    <3> HIDE DEF e
    <3> QED
      BY <2>1 DEF OrderKept
  <2> QED
    BY <1>1, <2>2
<1>2. ASSUME NEW off \in Offsets \cup {sync.off}, off \in Int, ShiftTiming(off)
      PROVE  \/ OrderKept(host.sub.entries, host'.sub.entries)
             \/ CutShort(host.sub.entries, host'.sub.entries)
  <2>1. host' = [host EXCEPT !.sub.entries = Shift(host.sub.entries, off)]
    BY <1>2 DEF ShiftTiming
  <2>2. host'.sub.entries = Shift(host.sub.entries, off)
    BY <1>0, <2>1 DEF HostKnown, IsSubtitle
  <2>3. PICK e, u : e = host.sub.entries /\ u = Shift(e, off)
    OBVIOUS
  <2>4. /\ Len(u) = Len(e)
        /\ OrderKept(e, u) \/ \E k \in DOMAIN e : StoppedAt(e, u, off, k)
    BY <1>0, <1>2, <2>3, ShiftedCues
  <2>5. ASSUME NEW k \in DOMAIN e, StoppedAt(e, u, off, k) PROVE CutShort(e, u)
    BY <2>4, <2>5 DEF CutShort, StoppedAt
  <2> QED
    BY <2>2, <2>3, <2>4, <2>5
<1>3. ASSUME SortCues PROVE SortedOf(host.sub.entries, host'.sub.entries)
  <2>1. host' = [host EXCEPT !.sub.entries = SortEntries(host.sub.entries)]
    BY <1>3 DEF SortCues
  <2>2. host'.sub.entries = SortEntries(host.sub.entries)
    BY <1>0, <2>1 DEF HostKnown, IsSubtitle
  <2> QED
    BY <1>0, <2>2, SortedCues
<1>4. sync.found => sync.off \in Int
  BY <1>0, OffsetFacts DEF HostInv, Detected
<1>5. ASSUME \/ \E root \in DOMAIN Within, recursive \in BOOLEAN : StartBatch(root, recursive)
             \/ \E p \in DOMAIN task :
                  Acquire(p) \/ ReadInput(p) \/ TruncateOutput(p) \/ WriteOutput(p) \/ WriteFails(p)
             \/ \E heard \in {Heard(media) : media \in Audio}, method \in Methods :
                  DetectOffset(heard, method) \/ DetectFails(heard, method)
             \/ UNCHANGED vars
      PROVE  host'.sub = host.sub
  BY <1>5 DEF StartBatch, Acquire, ReadInput, TruncateOutput, WriteOutput, WriteFails,
              DetectOffset, DetectFails, vars
<1>6. ASSUME NEW req \in Requests, LoadSample(req) PROVE FALSE
  <2> DEFINE pairing == ResolvePairing(req)
             p == pairing.subtitle[1]
             charset == DetectEncoding(Sample(fs[p].data))
  <2>1. host' = [Idle EXCEPT !.pc = "sampled", !.path = p, !.video = pairing.video,
                       !.engine = Engine(req.vad), !.charset = charset]
    BY <1>6 DEF LoadSample
  <2> HIDE DEF p, pairing, charset
  <2>2. host'.pc = "sampled"
    BY <2>1, Zenon DEF Idle
  <2> QED
    BY <2>2
<1>7. ~LoadContent /\ ~SaveWrite
  BY DEF LoadContent, SaveWrite
<1>8. ASSUME SaveTruncate PROVE FALSE
  <2>1. host' = [host EXCEPT !.pc = "saving"]
    BY <1>8 DEF SaveTruncate
  <2>2. host'.pc = "saving"
    BY <1>0, <2>1 DEF HostKnown
  <2> QED
    BY <2>2
<1>9. \A off \in Offsets : ShiftTiming(off) =>
        \/ OrderKept(host.sub.entries, host'.sub.entries)
        \/ CutShort(host.sub.entries, host'.sub.entries)
  <2>1. \A off \in Offsets : off \in Int
    BY FilesAssumption
  <2> QED
    BY <1>2, <2>1
<1>10. sync.found /\ ApplyManualOffset(sync.off) =>
         \/ OrderKept(host.sub.entries, host'.sub.entries)
         \/ CutShort(host.sub.entries, host'.sub.entries)
  BY <1>2, <1>4 DEF ApplyManualOffset
<1> QED
  BY <1>1, <1>3, <1>5, <1>6, <1>7, <1>8, <1>9, <1>10 DEF Next

\* Whatever offset is applied, by hand or after a detection, every cue stays where it
\* was among the others, unless the error of an offset that no duration can hold stops
\* at the first cue too late for it (shift_subtitle_timing, apply_manual_offset);
\* sorting orders the cues, keeps each once and leaves no overlap that has_overlaps
\* would miss (sort_entries).
THEOREM EditsNeverLoseCues == Spec => EditsKeepCues
<1>1. CuesInv /\ [Next]_vars =>
        [host.pc = "loaded" /\ host'.pc = "loaded" =>
           \/ OrderKept(host.sub.entries, host'.sub.entries)
           \/ CutShort(host.sub.entries, host'.sub.entries)
           \/ SortedOf(host.sub.entries, host'.sub.entries)]_vars
  BY EditStep
<1> QED
  BY <1>1, CuesInvariant, PTL DEF Spec, EditsKeepCues

-----------------------------------------------------------------------------
(* The first channel of interleaved sound.                                   *)

LEMMA Multiples ==
  ASSUME NEW c \in Nat \ {0}
  PROVE  /\ \A a, b \in Nat : a % c = 0 /\ b % c = 0 =>
              (a + b) % c = 0 /\ (a + b) \div c = a \div c + b \div c
         /\ \A a \in Nat : a % c = 0 => /\ (a + c - 1) \div c = a \div c
                                        /\ \A m \in 1..(a \div c) : (m - 1) * c + 1 \in 1..a
         /\ \A a, m, i \in Nat : a % c = 0 /\ m > a \div c /\ i = (m - 1) * c + 1 =>
              i > a /\ i - a = (m - (a \div c) - 1) * c + 1
<1>1. \A q \in Nat : (c * q) \div c = q /\ (c * q) % c = 0
  OBVIOUS
<1>2. ASSUME NEW a \in Nat, NEW b \in Nat, a % c = 0, b % c = 0
      PROVE  (a + b) % c = 0 /\ (a + b) \div c = a \div c + b \div c
  <2>1. PICK p \in Nat, q \in Nat : p = a \div c /\ q = b \div c
    BY Quotients
  <2>2. a = c * p /\ b = c * q
    BY <1>2, <2>1, Quotients
  <2>3. a + b = c * (p + q) /\ p + q \in Nat
    BY <2>2
  <2> QED
    BY <1>1, <2>1, <2>3
<1>3. \A a \in Nat : a % c = 0 => (a + c - 1) \div c = a \div c
  OBVIOUS
<1>4. \A a \in Nat : a % c = 0 => \A m \in 1..(a \div c) : (m - 1) * c + 1 \in 1..a
  OBVIOUS
<1>5. \A a, m, i \in Nat : a % c = 0 /\ m > a \div c /\ i = (m - 1) * c + 1 =>
        i > a /\ i - a = (m - (a \div c) - 1) * c + 1
  OBVIOUS
<1> QED
  BY <1>2, <1>3, <1>4, <1>5

\* Every c-th block, as Alone(media) has them.
Every(sound, c) == [k \in 1..(Len(sound) \div c) |-> sound[(k - 1) * c + 1]]
IsWhole(sound, c) == Len(sound) % c = 0

LEMMA EveryFacts ==
  ASSUME NEW S, NEW s \in Seq(S), NEW c \in Nat \ {0}, IsWhole(s, c)
  PROVE  /\ Every(s, c) \in Seq(S) /\ IsSeq(Every(s, c))
         /\ Len(Every(s, c)) = Len(s) \div c /\ Len(s) \div c \in Nat
         /\ \A k \in 1..(Len(s) \div c) : Every(s, c)[k] = s[(k - 1) * c + 1]
         /\ s # <<>> => Every(s, c) # <<>>
<1> DEFINE n == Len(s)
           q == n \div c
           u == Every(s, c)
<1>1. n \in Nat /\ q \in Nat /\ n = c * q
  BY Quotients DEF IsWhole
<1>2. \A k \in 1..q : (k - 1) * c + 1 \in 1..n
  BY <1>1, Multiples DEF IsWhole
<1>3. u = [k \in 1..q |-> s[(k - 1) * c + 1]]
  BY DEF Every
<1>4. \A i \in 1..n : s[i] \in S
  OBVIOUS
<1>5. s # <<>> => n # 0
  OBVIOUS
<1> HIDE DEF n, q, u
<1>6. DOMAIN u = 1..q /\ u = [k \in 1..q |-> u[k]] /\ \A k \in 1..q : u[k] = s[(k - 1) * c + 1]
  BY <1>3
<1>7. IsSeq(u) /\ Len(u) = q
  BY <1>1, <1>6, SeqByIndex
<1>8. \A k \in 1..q : u[k] \in S
  BY <1>2, <1>4, <1>6
<1>9. u \in Seq(S)
  BY <1>6, <1>7, <1>8, SeqFacts
<1>10. s # <<>> => q # 0
  BY <1>1, <1>5
<1>11. q # 0 => u # <<>>
  BY <1>7, EmptySeqs
<1> QED
  BY <1>1, <1>6, <1>7, <1>9, <1>10, <1>11 DEF n, q, u

LEMMA EveryConcat ==
  ASSUME NEW S, NEW s \in Seq(S), NEW t \in Seq(S), NEW c \in Nat \ {0}, IsWhole(s, c), IsWhole(t, c)
  PROVE  IsWhole(s \o t, c) /\ Every(s \o t, c) = Every(s, c) \o Every(t, c)
<1> DEFINE a == Len(s)
           b == Len(t)
           p == a \div c
           q == b \div c
           x == s \o t
           v == Every(s, c)
           w == Every(t, c)
           u == Every(x, c)
<1>1. a \in Nat /\ b \in Nat /\ p \in Nat /\ q \in Nat /\ a % c = 0 /\ b % c = 0
  BY Quotients DEF IsWhole
<1>2. x \in Seq(S) /\ Len(x) = a + b
      /\ \A i \in 1..(a + b) : x[i] = IF i <= a THEN s[i] ELSE t[i - a]
  BY ConcatProperties
<1>3. (a + b) % c = 0 /\ (a + b) \div c = p + q
  BY <1>1, Multiples
<1>4. /\ v \in Seq(S) /\ Len(v) = p /\ \A k \in 1..p : v[k] = s[(k - 1) * c + 1]
      /\ w \in Seq(S) /\ Len(w) = q /\ \A k \in 1..q : w[k] = t[(k - 1) * c + 1]
  BY EveryFacts
<1>5. \A k \in 1..p : (k - 1) * c + 1 \in 1..a
  BY <1>1, Multiples
<1>6. \A k \in 1..q : (k - 1) * c + 1 \in 1..b
  BY <1>1, Multiples
<1>7. \A k, i \in Nat : k > p /\ i = (k - 1) * c + 1 => i > a /\ i - a = (k - p - 1) * c + 1
  <2>1. \A y, m, j \in Nat : y % c = 0 /\ m > y \div c /\ j = (m - 1) * c + 1 =>
          j > y /\ j - y = (m - (y \div c) - 1) * c + 1
    BY Multiples
  <2> QED
    BY <1>1, <2>1, Zenon
<1>8. \A k \in 1..(p + q) : (k - 1) * c + 1 \in 1..(a + b)
  <2>1. a + b \in Nat
    BY <1>1
  <2> QED
    BY <1>3, <2>1, Multiples
<1> HIDE DEF a, b, p, q, x, v, w
<1>9. IsWhole(x, c)
  BY <1>2, <1>3 DEF IsWhole
<1>10. /\ u \in Seq(S) /\ Len(u) = p + q /\ \A k \in 1..(p + q) : u[k] = x[(k - 1) * c + 1]
  <2>1. Len(x) \div c = p + q
    BY <1>2, <1>3
  <2>2. /\ Every(x, c) \in Seq(S) /\ Len(Every(x, c)) = Len(x) \div c
        /\ \A k \in 1..(Len(x) \div c) : Every(x, c)[k] = x[(k - 1) * c + 1]
    BY <1>2, <1>9, EveryFacts
  <2> QED
    BY <2>1, <2>2
<1> HIDE DEF u
<1>11. v \o w \in Seq(S) /\ Len(v \o w) = p + q
       /\ \A k \in 1..(p + q) : (v \o w)[k] = IF k <= p THEN v[k] ELSE w[k - p]
  BY <1>4, ConcatProperties
<1>12. ASSUME NEW k \in 1..(p + q) PROVE u[k] = (v \o w)[k]
  <2>0. PICK i : i = (k - 1) * c + 1
    OBVIOUS
  <2>1. i \in 1..(a + b) /\ u[k] = x[i]
    BY <1>8, <1>10, <2>0
  <2>2. CASE k <= p
    <3>1. k \in 1..p
      BY <1>1, <2>2
    <3>2. i \in 1..a
      BY <1>5, <2>0, <3>1
    <3>3. x[i] = s[i]
      BY <1>1, <1>2, <2>1, <3>2
    <3>4. v[k] = s[i]
      BY <1>4, <2>0, <3>1
    <3> QED
      BY <1>11, <2>1, <2>2, <3>3, <3>4
  <2>3. CASE ~(k <= p)
    <3>1. k - p \in 1..q /\ k \in Nat /\ k > p
      BY <1>1, <2>3
    <3>2. i > a /\ i - a = ((k - p) - 1) * c + 1
      <4>1. i \in Nat
        BY <1>1, <2>1
      <4> QED
        BY <1>7, <2>0, <3>1, <4>1, Zenon
    <3>3. x[i] = t[i - a]
      BY <1>1, <1>2, <2>1, <3>2
    <3>4. w[k - p] = t[i - a]
      <4>1. w[k - p] = t[((k - p) - 1) * c + 1]
        BY <1>4, <3>1, Zenon
      <4> QED
        BY <3>2, <4>1
    <3> QED
      BY <1>11, <2>1, <2>3, <3>3, <3>4
  <2> QED
    BY <2>2, <2>3
<1>13. u = v \o w
  BY <1>10, <1>11, <1>12, SeqEqual
<1> QED
  BY <1>9, <1>13 DEF u, v, w, x

LEMMA EveryFlatten ==
  ASSUME NEW S, NEW s \in Seq(Seq(S)), NEW c \in Nat \ {0}, \A i \in DOMAIN s : IsWhole(s[i], c)
  PROVE  /\ IsWhole(FlattenSeq(s), c) /\ FlattenSeq(s) \in Seq(S)
         /\ FlattenSeq([i \in DOMAIN s |-> Every(s[i], c)]) = Every(FlattenSeq(s), c)
<1> DEFINE n == Len(s)
           u == [i \in DOMAIN s |-> Every(s[i], c)]
<1>1. n \in Nat /\ DOMAIN s = 1..n /\ \A i \in 1..n : s[i] \in Seq(S)
  OBVIOUS
<1>2. \A i \in 1..n : u[i] = Every(s[i], c) /\ Every(s[i], c) \in Seq(S)
  BY <1>1, EveryFacts
<1>3. u \in Seq(Seq(S)) /\ Len(u) = n
  <2>1. DOMAIN u = 1..n /\ u = [i \in 1..n |-> u[i]]
    BY <1>1
  <2> HIDE DEF u, n
  <2>2. IsSeq(u) /\ Len(u) = n
    BY <1>1, <2>1, SeqByIndex
  <2>3. \A i \in DOMAIN u : u[i] \in Seq(S)
    BY <1>2, <2>1
  <2> QED
    BY <2>2, <2>3, SeqFacts
<1> HIDE DEF u
<1>4. CASE n = 0
  <2>1. s = <<>> /\ u = <<>>
    BY <1>3, <1>4
  <2>2. IsWhole(<<>>, c) /\ <<>> \in Seq(S)
    BY EmptySeqs DEF IsWhole
  <2>3. Every(<<>>, c) = <<>>
    <3>1. Len(Every(<<>>, c)) = 0 /\ Every(<<>>, c) \in Seq(S)
      <4>1. Len(Every(<<>>, c)) = Len(<<>>) \div c /\ Every(<<>>, c) \in Seq(S)
        BY <2>2, EveryFacts
      <4> QED
        BY <4>1, EmptySeqs
    <3> QED
      BY <3>1
  <2>4. FlattenSeq(<<>>) = <<>>
    BY DEF FlattenSeq
  <2> QED
    BY <2>1, <2>2, <2>3, <2>4 DEF u
<1>5. CASE n # 0
  <2>1. PICK f \in [1..n -> Seq(S)] :
          f[1] = s[1] /\ (\A k \in 2..n : f[k] = f[k - 1] \o s[k]) /\ FlattenSeq(s) = f[n]
    <3>1. s # <<>>
      BY <1>1, <1>5
    <3> QED
      BY <3>1, FlattenFacts
  <2>2. PICK g \in [1..n -> Seq(S)] :
          g[1] = u[1] /\ (\A k \in 2..n : g[k] = g[k - 1] \o u[k]) /\ FlattenSeq(u) = g[n]
    <3>1. u # <<>>
      BY <1>3, <1>5
    <3>2. \E g \in [1..Len(u) -> Seq(S)] :
            g[1] = u[1] /\ (\A k \in 2..Len(u) : g[k] = g[k - 1] \o u[k]) /\ FlattenSeq(u) = g[Len(u)]
      BY <1>3, <3>1, FlattenFacts
    <3> QED
      BY <1>3, <3>2
  <2> HIDE DEF n
  <2> DEFINE Good(k) == IsWhole(f[k], c) /\ g[k] = Every(f[k], c)
             T == {k \in 1..n : ~Good(k)}
  <2>3. Good(1)
    <3>1. 1 \in 1..n /\ f[1] = s[1] /\ g[1] = u[1]
      BY <1>1, <1>5, <2>1, <2>2
    <3>2. IsWhole(s[1], c) /\ u[1] = Every(s[1], c)
      BY <1>1, <1>2, <3>1
    <3> QED
      BY <3>1, <3>2
  <2>4. ASSUME NEW k \in 2..n, Good(k - 1) PROVE Good(k)
    <3>1. /\ f[k] = f[k - 1] \o s[k] /\ g[k] = g[k - 1] \o u[k]
          /\ f[k - 1] \in Seq(S) /\ s[k] \in Seq(S) /\ IsWhole(s[k], c) /\ u[k] = Every(s[k], c)
      <4>1. k \in 1..n /\ k - 1 \in 1..n
        BY <1>1
      <4> QED
        BY <1>1, <1>2, <2>1, <2>2, <4>1
    <3>2. IsWhole(f[k - 1], c) /\ g[k - 1] = Every(f[k - 1], c)
      BY <2>4
    <3>3. PICK x, y : x = f[k - 1] /\ y = s[k]
      OBVIOUS
    <3>4. x \in Seq(S) /\ y \in Seq(S) /\ IsWhole(x, c) /\ IsWhole(y, c)
      BY <3>1, <3>2, <3>3
    <3>5. IsWhole(x \o y, c) /\ Every(x \o y, c) = Every(x, c) \o Every(y, c)
      BY <3>4, EveryConcat
    <3>6. f[k] = x \o y /\ g[k] = Every(x, c) \o Every(y, c)
      BY <3>1, <3>2, <3>3
    <3> QED
      BY <3>5, <3>6
  <2>5. T = {}
    <3> SUFFICES ASSUME T # {} PROVE FALSE
      OBVIOUS
    <3>1. T \subseteq Nat
      OBVIOUS
    <3>2. PICK k \in T : \A m \in T : k <= m
      <4> HIDE DEF T
      <4> QED
        BY <3>1, Least
    <3>3. k \in 1..n /\ ~Good(k)
      BY <3>2
    <3>4. k # 1
      BY <2>3, <3>3
    <3>5. k \in 2..n /\ k - 1 \in 1..n
      BY <1>1, <3>3, <3>4
    <3>6. k - 1 \notin T
      <4> HIDE DEF T
      <4> QED
        BY <1>1, <3>2, <3>5
    <3>7. Good(k - 1)
      BY <3>5, <3>6
    <3> HIDE DEF Good, T
    <3> QED
      BY <2>4, <3>3, <3>5, <3>7
  <2>6. Good(n)
    <3>1. n \in 1..n
      BY <1>1, <1>5
    <3> QED
      BY <2>5, <3>1
  <2>7. FlattenSeq(s) \in Seq(S)
    BY <1>1, <1>5, <2>1
  <2> QED
    BY <2>1, <2>2, <2>6, <2>7 DEF u
<1> QED
  BY <1>4, <1>5

\* Packets that hold whole frames make up whole frames.
Sounds(packets) == [i \in DOMAIN packets |-> packets[i].sound]

LEMMA SampleFacts ==
  ASSUME NEW media, IsMedia(media)
  PROVE  /\ Sounds(Packets(media)) \in Seq(Seq(BOOLEAN))
         /\ Len(Sounds(Packets(media))) = Len(Packets(media))
         /\ Samples(media) = FlattenSeq(Sounds(Packets(media)))
<1> DEFINE p == Packets(media)
           u == Sounds(p)
<1>1. IsSeq(p) /\ \A i \in DOMAIN p : p[i].sound \in Seq(BOOLEAN)
  BY PacketFacts
<1>2. Samples(media) = FlattenSeq(u)
  BY DEF Samples, Sounds
<1>3. DOMAIN u = DOMAIN p /\ u = [i \in DOMAIN p |-> u[i]] /\ \A i \in DOMAIN p : u[i] = p[i].sound
  BY DEF Sounds
<1> HIDE DEF u, p
<1>4. Len(p) \in Nat /\ DOMAIN p = 1..Len(p)
  BY <1>1, SeqFacts
<1>5. IsSeq(u) /\ Len(u) = Len(p)
  BY <1>3, <1>4, SeqByIndex
<1>6. u \in Seq(Seq(BOOLEAN))
  BY <1>1, <1>3, <1>5, SeqFacts
<1> QED
  BY <1>2, <1>5, <1>6 DEF u, p

\* The file with one track and one channel that holds the same sound.
LEMMA AloneFacts ==
  ASSUME NEW media, IsMedia(media), AudioTracks(media) # {}, Track(media).channels # 0,
         \A i \in DOMAIN Packets(media) : IsWhole(Packets(media)[i].sound, Track(media).channels)
  PROVE  LET a == Alone(media)
             c == Track(media).channels
             p == Packets(media)
         IN  /\ IsMedia(a) /\ a.size = media.size
             /\ AudioTracks(a) = {1} /\ TrackId(a) = 1
             /\ Track(a).rate = Track(media).rate /\ Track(a).codec = Track(media).codec
             /\ Track(a).channels = 1
             /\ DOMAIN Packets(a) = DOMAIN p
             /\ \A i \in DOMAIN p : /\ Packets(a)[i].sound = Every(p[i].sound, c)
                                    /\ Packets(a)[i].decodes = p[i].decodes
<1> DEFINE a == Alone(media)
           t == Track(media)
           c == t.channels
           p == Packets(media)
           k(i) == [p[i] EXCEPT !.track = 1, !.sound = Every(p[i].sound, c)]
           kept == [i \in DOMAIN p |-> k(i)]
           T == [rate : Nat, channels : Nat, codec : BOOLEAN, timeBase : BOOLEAN]
           K == [track : Nat, ts : Nat, decodes : BOOLEAN, sound : Seq(BOOLEAN)]
           tracks == <<[t EXCEPT !.channels = 1]>>
<1>1. a = [media EXCEPT !.tracks = tracks, !.packets = kept]
  BY DEF Alone, Every
<1>2. t \in T /\ t.rate # 0 /\ c \in Nat \ {0}
  BY TrackFacts
<1>3. IsSeq(p)
  BY PacketFacts
<1>4. \A i \in DOMAIN p : p[i] \in K
  <2> HIDE DEF K
  <2>1. media.packets \in Seq(K)
    BY DEF IsMedia, K
  <2>2. \A j \in DOMAIN media.packets : media.packets[j] \in K
    BY <2>1
  <2> QED
    BY <2>2, PacketFacts
<1> HIDE DEF a, t, p
<1>5. ASSUME NEW i \in DOMAIN p
      PROVE  k(i) \in K /\ k(i).track = 1 /\ k(i).sound = Every(p[i].sound, c)
             /\ k(i).decodes = p[i].decodes
  <2>1. p[i] \in K /\ IsWhole(p[i].sound, c)
    BY <1>4 DEF p, t
  <2>2. PICK x : x = Every(p[i].sound, c)
    OBVIOUS
  <2>3. p[i].sound \in Seq(BOOLEAN)
    BY <2>1
  <2>4. x \in Seq(BOOLEAN)
    BY <1>2, <2>1, <2>2, <2>3, EveryFacts
  <2>5. k(i) = [p[i] EXCEPT !.track = 1, !.sound = x]
    BY <2>2
  <2> HIDE DEF k
  <2>6. k(i) \in K /\ k(i).track = 1 /\ k(i).sound = x /\ k(i).decodes = p[i].decodes
    <3>1. PICK r, y : r = p[i] /\ y = k(i)
      OBVIOUS
    <3>2. r \in K /\ y = [r EXCEPT !.track = 1, !.sound = x]
      BY <2>1, <2>5, <3>1
    <3>3. y \in K /\ y.track = 1 /\ y.sound = x /\ y.decodes = r.decodes
      BY <2>4, <3>2
    <3> QED
      BY <3>1, <3>3
  <2> QED
    BY <2>2, <2>6, Zenon
<1> HIDE DEF k
<1>6. DOMAIN kept = DOMAIN p /\ kept = [i \in DOMAIN p |-> kept[i]] /\ \A i \in DOMAIN p : kept[i] = k(i)
  OBVIOUS
<1>7. tracks = <<tracks[1]>> /\ DOMAIN tracks = {1} /\ tracks[1] \in T
      /\ tracks[1].rate = t.rate /\ tracks[1].codec = t.codec /\ tracks[1].channels = 1
  BY <1>2
<1>8. tracks \in Seq(T)
  BY <1>7
<1> HIDE DEF kept, T, K, tracks
<1>9. a.size = media.size /\ a.tracks = tracks /\ a.packets = kept
      /\ DOMAIN a = {"size", "slow", "tracks", "packets"}
  BY <1>1 DEF IsMedia
<1>10. IsSeq(kept) /\ kept \in Seq(K)
  <2>1. Len(p) \in Nat /\ DOMAIN p = 1..Len(p)
    BY <1>3, SeqFacts
  <2>2. IsSeq(kept)
    BY <1>6, <2>1, SeqByIndex
  <2> QED
    BY <1>5, <1>6, <2>2, SeqFacts
<1>11. IsMedia(a)
  BY <1>8, <1>9, <1>10 DEF IsMedia, T, K
<1>12. AudioTracks(a) = {1}
  BY <1>2, <1>7, <1>9 DEF AudioTracks
<1>13. TrackId(a) = 1
  <2>1. Nth({1}, 1) = 1
    <3>1. IsFiniteSet({1}) /\ Cardinality({1}) = 1
      BY FS_Singleton
    <3>2. 1 \in 1..Cardinality({1})
      BY <3>1
    <3>3. {1} \subseteq Nat
      OBVIOUS
    <3>4. Nth({1}, 1) \in {1}
      BY <3>1, <3>2, <3>3, NthFacts
    <3> QED
      BY <3>4
  <2> QED
    BY <1>12, <2>1 DEF TrackId
<1>14. Track(a) = tracks[1]
  BY <1>9, <1>13 DEF Track
<1>15. Packets(a) = kept
  <2>1. {i \in DOMAIN kept : kept[i].track = 1} = DOMAIN kept
    BY <1>5, <1>6
  <2>2. Packets(a) = Picked(kept, {i \in DOMAIN kept : kept[i].track = 1})
    BY <1>9, <1>13 DEF Packets
  <2> QED
    BY <1>10, <2>1, <2>2, PickedAll
<1>16. \A i \in DOMAIN p : Packets(a)[i].sound = Every(p[i].sound, c)
                           /\ Packets(a)[i].decodes = p[i].decodes
  BY <1>5, <1>6, <1>15
<1> QED
  BY <1>6, <1>7, <1>9, <1>11, <1>12, <1>13, <1>14, <1>15, <1>16 DEF a, p, t

\* What is heard in it is what is heard in the first track of the other one.
LEMMA SameSpeech ==
  ASSUME NEW media, IsMedia(media), AudioTracks(media) # {}, Track(media).channels # 0,
         \A i \in DOMAIN Packets(media) : IsWhole(Packets(media)[i].sound, Track(media).channels),
         Speech(media) # <<>>
  PROVE  Speech(Alone(media)) = Speech(media)
<1> DEFINE a == Alone(media)
           c == Track(media).channels
           p == Packets(media)
           s == Sounds(p)
           m == Samples(media)
<1>1. /\ IsMedia(a) /\ a.size = media.size /\ AudioTracks(a) = {1}
      /\ Track(a).rate = Track(media).rate /\ Track(a).codec = Track(media).codec
      /\ Track(a).channels = 1 /\ DOMAIN Packets(a) = DOMAIN p
      /\ \A i \in DOMAIN p : Packets(a)[i].sound = Every(p[i].sound, c)
                             /\ Packets(a)[i].decodes = p[i].decodes
  BY AloneFacts
<1>2. c \in Nat \ {0} /\ Channels(media) = c
  BY TrackFacts, ChannelFacts
<1>3. Loadable(media) /\ m # <<>>
  BY SpeechFacts
<1>4. Loadable(a)
  BY <1>1, <1>3 DEF Loadable, WithinSize
<1>5. Channels(a) = 1
  <2> HIDE DEF a
  <2>1. AudioTracks(a) # {} /\ Track(a).channels # 0
    BY <1>1
  <2> QED
    BY <1>1, <2>1, ChannelFacts
<1>6. s \in Seq(Seq(BOOLEAN)) /\ m = FlattenSeq(s) /\ DOMAIN s = DOMAIN p
      /\ \A i \in DOMAIN p : s[i] = p[i].sound
  BY SampleFacts DEF Sounds
<1>7. \A i \in DOMAIN s : IsWhole(s[i], c)
  BY <1>6
<1> HIDE DEF a, c, p, s, m
<1>8. IsWhole(m, c) /\ m \in Seq(BOOLEAN) /\ FlattenSeq([i \in DOMAIN s |-> Every(s[i], c)]) = Every(m, c)
  BY <1>2, <1>6, <1>7, EveryFlatten
<1>9. Samples(a) = Every(m, c)
  <2>1. Sounds(Packets(a)) = [i \in DOMAIN s |-> Every(s[i], c)]
    BY <1>1, <1>6 DEF Sounds
  <2> QED
    BY <1>1, <1>8, <2>1, SampleFacts
<1>10. /\ Every(m, c) \in Seq(BOOLEAN) /\ Every(m, c) # <<>>
       /\ Len(Every(m, c)) = Len(m) \div c /\ Len(m) \div c \in Nat
       /\ Len(m) \in Nat /\ Len(m) % c = 0
  BY <1>2, <1>3, <1>8, EveryFacts DEF IsWhole
<1>11. Mono(media) = Every(m, c)
  <2>1. (Len(m) + c - 1) \div c = Len(m) \div c
    BY <1>2, <1>10, Multiples
  <2>2. Mono(media) = [k \in 1..((Len(m) + c - 1) \div c) |-> m[(k - 1) * c + 1]]
    BY <1>2 DEF Mono, m
  <2> QED
    BY <2>1, <2>2 DEF Every
<1>12. Mono(a) = Every(m, c)
  <2> DEFINE x == Every(m, c)
             y == [k \in 1..((Len(x) + 1 - 1) \div 1) |-> x[(k - 1) * 1 + 1]]
  <2>1. Mono(a) = y
    BY <1>5, <1>9 DEF Mono
  <2>2. x \in Seq(BOOLEAN) /\ Len(x) \in Nat
    BY <1>10
  <2> HIDE DEF x
  <2>3. (Len(x) + 1 - 1) \div 1 = Len(x)
    BY <2>2
  <2>4. y = [k \in 1..Len(x) |-> x[k]]
    BY <2>2, <2>3
  <2>5. x = [k \in 1..Len(x) |-> x[k]]
    BY <2>2
  <2> QED
    BY <2>1, <2>4, <2>5 DEF x
<1>13. Rate(a) = Rate(media)
  BY <1>1 DEF Rate
<1>14. PICK segments : segments = Segments(Labels(Resampled(Every(m, c), Track(media).rate, Rate(media)),
                                                  Rate(media)), ChunkMs(Rate(media)))
  OBVIOUS
<1>15. Speech(media) = segments
  BY <1>2, <1>3, <1>11, <1>14 DEF Speech, m
<1>16. Speech(a) = segments
  <2>1. Samples(a) # <<>> /\ Channels(a) # 0
    BY <1>5, <1>9, <1>10
  <2> QED
    BY <1>1, <1>4, <1>12, <1>13, <1>14, <2>1 DEF Speech
<1> QED
  BY <1>15, <1>16 DEF a

\* Shifting by the clamped distance never increases it.
LEMMA Approaches ==
  ASSUME NEW speech \in Nat, NEW first \in Nat, NEW off, off = Clamp(speech - first),
         NEW then, then = IF first + off > 0 THEN first + off ELSE 0
  PROVE  LET gap(t) == IF t > speech THEN t - speech ELSE speech - t
         IN  Accepts(off) /\ gap(then) <= gap(first) /\ (Accepts(speech - first) => then = speech)
<1> DEFINE gap(t) == IF t > speech THEN t - speech ELSE speech - t
           raw == speech - first
<1>1. raw \in Int /\ MaxOffset \in Nat
  BY AudioAssumption
<1>2. CASE raw > MaxOffset
  <2>1. off = MaxOffset
    <3>1. ~(-raw > MaxOffset)
      BY <1>1, <1>2
    <3> HIDE DEF raw
    <3>2. Clamp(raw) = MaxOffset
      BY <1>2, <3>1, Zenon DEF Clamp
    <3> QED
      BY <3>2 DEF raw
  <2> QED
    BY <1>1, <1>2, <2>1 DEF Accepts
<1>3. CASE ~(raw > MaxOffset) /\ -raw > MaxOffset
  <2>1. off = -MaxOffset
    <3> HIDE DEF raw
    <3>1. Clamp(raw) = -MaxOffset
      BY <1>3, Zenon DEF Clamp
    <3> QED
      BY <3>1 DEF raw
  <2> QED
    BY <1>1, <1>3, <2>1 DEF Accepts
<1>4. CASE ~(raw > MaxOffset) /\ ~(-raw > MaxOffset)
  <2>1. off = raw
    <3> HIDE DEF raw
    <3>1. Clamp(raw) = raw
      BY <1>4, Zenon DEF Clamp
    <3> QED
      BY <3>1 DEF raw
  <2> QED
    BY <1>1, <1>4, <2>1 DEF Accepts
<1> QED
  BY <1>2, <1>3, <1>4

\* The packets that are listened to hold whole frames.
LEMMA PacketsAreWhole ==
  ASSUME NEW media \in Audio, AudioTracks(media) # {}, Track(media).channels # 0
  PROVE  \A i \in DOMAIN Packets(media) : IsWhole(Packets(media)[i].sound, Track(media).channels)
<1>1. IsMedia(media)
  BY AudioAssumption DEF IsMedia
<1>2. \A j \in DOMAIN media.packets :
        /\ media.packets[j].track \in DOMAIN media.tracks
        /\ media.tracks[media.packets[j].track].channels # 0
        => Len(media.packets[j].sound) % media.tracks[media.packets[j].track].channels = 0
  BY AudioAssumption
<1>3. TrackId(media) \in DOMAIN media.tracks
  BY <1>1, TrackFacts
<1> QED
  BY <1>1, <1>2, <1>3, PacketFacts DEF IsWhole, Track

LEMMA DetectedHelps ==
  ASSUME IsSubtitle(host.sub), Detected
  PROVE  DetectedOffsetHelps
<1> DEFINE e == host.sub.entries
           first == e[1].start
           then == Shift(e, sync.off)[1].start
<1>1. PICK media \in Audio :
        Heard(media).segments # <<>> /\ e # <<>> /\ sync = SyncResult(e, Heard(media))
  BY DEF Detected
<1> DEFINE speech == FirstSpeech(Speech(media))
<1>2. AreCues(e)
  BY DEF IsSubtitle
<1> HIDE DEF e
<1>3. /\ speech \in Nat /\ first \in Nat
      /\ sync.speech = speech /\ sync.off = Clamp(speech - first) /\ sync.off \in Int
      /\ sync.warned = ~Accepts(speech - first) /\ sync.media[1] = media
      /\ IsMedia(media) /\ Speech(media) # <<>> /\ 1 \in DOMAIN e
  BY <1>1, <1>2, OffsetFacts
<1>4. then = IF first + sync.off > 0 THEN first + sync.off ELSE 0
  <2>1. Speech(media) # <<>> => FirstSpeech(Speech(media)) <= Longest
    BY <1>1, AudioAssumption
  <2>2. speech <= Longest /\ Longest \in Nat /\ MaxOffset \in Nat
    BY <1>3, <2>1, AudioAssumption, FilesAssumption
  <2> HIDE DEF speech, first, then
  <2>3. sync.off > 0 => first + sync.off <= speech
    <3> DEFINE raw == speech - first
    <3>1. raw = speech - first /\ sync.off = Clamp(raw)
      BY <1>3
    <3> HIDE DEF raw
    <3>2. \/ raw > MaxOffset /\ sync.off = MaxOffset
          \/ sync.off = -MaxOffset
          \/ sync.off = raw
      BY <3>1, Zenon DEF Clamp
    <3> QED
      BY <1>3, <2>2, <3>1, <3>2
  <2>4. sync.off = 0 \/ Fits(first, sync.off)
    BY <1>3, <2>2, <2>3 DEF Fits
  <2> QED
    BY <1>2, <1>3, <2>4, ShiftedCues DEF first, then
<1>5. Track(media).channels # 0 => speech = FirstSpeech(Speech(Alone(media)))
  <2> SUFFICES ASSUME Track(media).channels # 0
               PROVE  speech = FirstSpeech(Speech(Alone(media)))
    OBVIOUS
  <2>1. AudioTracks(media) # {}
    BY <1>3, SpeechFacts
  <2>2. \A i \in DOMAIN Packets(media) : IsWhole(Packets(media)[i].sound, Track(media).channels)
    BY <2>1, PacketsAreWhole
  <2>3. Speech(Alone(media)) = Speech(media)
    BY <1>3, <2>1, <2>2, SameSpeech
  <2> QED
    BY <2>3
<1> DEFINE gap(t) == IF t > speech THEN t - speech ELSE speech - t
<1> HIDE DEF speech, first, then
<1>6. Accepts(sync.off) /\ gap(then) <= gap(first) /\ (Accepts(speech - first) => then = speech)
  BY <1>3, <1>4, Approaches
<1>7. ~sync.warned => then = speech
  BY <1>3, <1>6, Zenon
<1> QED
  BY <1>3, <1>5, <1>6, <1>7 DEF DetectedOffsetHelps, e, first, then

\* A detected offset can be applied, brings the first cue no further from the speech,
\* and to it if the result does not warn; what else is in the file does not move it.
THEOREM DetectedOffsetsHelp == Spec => []DetectedOffsetHelps
<1>1. CuesInv => DetectedOffsetHelps
  <2>1. CASE ~sync.found
    BY <2>1 DEF DetectedOffsetHelps
  <2>2. CASE sync.found
    BY <2>2, DetectedHelps DEF CuesInv, HostInv
  <2> QED
    BY <2>1, <2>2
<1> QED
  BY <1>1, CuesInvariant, PTL
=============================================================================
