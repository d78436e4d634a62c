---------------------------- MODULE UniqueTargets ----------------------------
(***************************************************************************)
(* The planning of a match batch's target paths                            *)
(* (src/src/core/matcher/engine.rs): match_file_list_with_audit gives every *)
(* operation a candidate and runs the allocator, apply_unique_target_paths; *)
(* apply_archive_origin_relocation then redirects the subtitles that came  *)
(* out of an archive, and the allocator runs again on the final paths.     *)
(*                                                                         *)
(* A path is a directory, a base name (with its extension) and the number  *)
(* of a trailing ".<digits>" segment, <<>> if there is none.  Operations   *)
(* are numbered in the order of their subtitles' relative paths.           *)
(***************************************************************************)
EXTENDS Naturals, Sequences

CONSTANTS
  N,           \* the number of operations
  Dirs,        \* directories, as numbers in the order of their paths
  Bases,       \* base names
  Width,       \* the range of the u32 that holds a number (2^32)
  MaxCounter,  \* the last number probed (9999)
  VideoDir,    \* operation -> the directory of its video
  TempDir,     \* where archives are extracted
  Sources,     \* the paths of subtitles
  Names,       \* the <<base, tail>> that generate_subtitle_name may return
  Clutter,     \* other files that may be in the directories
  MaxAppear    \* how many files may appear while the batch is planned

Ops   == 1..N
Tails == {<<>>} \cup {<<k>> : k \in 0..(Width - 1)}
Paths == [dir : Dirs, base : Bases, tail : Tails]

ASSUME PathsAssumption ==
  /\ N \in Nat /\ Width \in Nat /\ MaxCounter \in Nat /\ MaxAppear \in Nat
  /\ 2 < Width /\ MaxCounter < Width
  /\ Dirs \subseteq Nat /\ TempDir \in Dirs
  /\ VideoDir \in [Ops -> Dirs \ {TempDir}]
  /\ Sources \subseteq Paths /\ Clutter \subseteq Paths
  /\ Names \subseteq Bases \X Tails

VARIABLES
  source,     \* subtitle_file.path of each operation
  requires,   \* requires_relocation
  target,     \* final_target of each operation
  cand,       \* final_target at the start of the pass
  claimed,    \* the paths claimed in this pass
  todo,       \* the operations still to be visited
  pass,       \* "plan", "final" or "ready"
  present,    \* the paths that exist
  appeared,   \* how many files appeared
  gaveUp      \* history: the operations whose probing ended without a free path

allocVars == <<source, requires, target, cand, claimed, todo, pass, present, appeared, gaveUp>>

Path(d, name) == [dir |-> d, base |-> name[1], tail |-> name[2]]

\* Step 6 of match_file_list_with_audit: a subtitle that is not beside its video
\* is relocated if the batch copies or moves, otherwise renamed in place.
AllocInit ==
  /\ source \in [Ops -> Sources]
  /\ \E relocating \in BOOLEAN, name \in [Ops -> Names] :
       /\ requires = [o \in Ops |-> relocating /\ source[o].dir # VideoDir[o]]
       /\ target = [o \in Ops |->
            Path(IF requires[o] THEN VideoDir[o] ELSE source[o].dir, name[o])]
  /\ cand = target
  /\ claimed = {}
  /\ todo = Ops
  /\ pass = "plan"
  /\ \E clutter \in SUBSET Clutter : present = clutter \cup {source[o] : o \in Ops}
  /\ appeared = 0
  /\ gaveUp = {}

-----------------------------------------------------------------------------
\* Mutants of Taken: a claimed path is free; a path another operation wants is
\* free; the disk is not looked at; an operation's own candidate is reserved.
TakenUnclaimed(o, p) ==
  \/ p # cand[o] /\ \E u \in Ops : cand[u] = p
  \/ p # source[o] /\ p \in present
TakenUnreserved(o, p) == p \in claimed \/ (p # source[o] /\ p \in present)
TakenUnlessClaimed(o, p) == p \in claimed \/ (p # cand[o] /\ \E u \in Ops : cand[u] = p)
TakenByItself(o, p) ==
  \/ p \in claimed
  \/ \E u \in Ops : cand[u] = p
  \/ p # source[o] /\ p \in present

\* is_taken
Taken(o, p) ==
  \/ p \in claimed
  \/ p # cand[o] /\ \E u \in Ops : cand[u] = p
  \/ p # source[o] /\ p \in present

\* existing_counter.map(|n| n + 1).unwrap_or(2).max(2), in 32 bits
FirstCounter(o) ==
  IF cand[o].tail = <<>> THEN 2
  ELSE LET n == (cand[o].tail[1] + 1) % Width IN IF n < 2 THEN 2 ELSE n

\* The loop tries the first number whatever it is, then on to MaxCounter.
Counters(o) == {FirstCounter(o)} \cup (FirstCounter(o) + 1)..MaxCounter
Probe(o, n) == [cand[o] EXCEPT !.tail = <<n>>]

\* Operations are visited in the order of target directory, then relative path.
IsFirst(o) ==
  /\ o \in todo
  /\ \A u \in todo : \/ cand[o].dir < cand[u].dir
                     \/ cand[o].dir = cand[u].dir /\ o <= u

Commit(o, p) ==
  /\ target' = [target EXCEPT ![o] = p]
  /\ claimed' = claimed \cup {p}
  /\ todo' = todo \ {o}
  /\ UNCHANGED <<source, requires, cand, pass, present, appeared>>

Keep(o) ==
  /\ IsFirst(o)
  /\ ~Taken(o, cand[o])
  /\ Commit(o, cand[o])
  /\ UNCHANGED gaveUp

Suffix(o) ==
  /\ IsFirst(o)
  /\ Taken(o, cand[o])
  /\ \E n \in Counters(o) :
       /\ ~Taken(o, Probe(o, n))
       /\ \A k \in Counters(o) : k < n => Taken(o, Probe(o, k))
       /\ Commit(o, Probe(o, n))
  /\ UNCHANGED gaveUp

\* No free number: the candidate is kept although it is taken.
GiveUp(o) ==
  /\ IsFirst(o)
  /\ Taken(o, cand[o])
  /\ \A n \in Counters(o) : Taken(o, Probe(o, n))
  /\ Commit(o, cand[o])
  /\ gaveUp' = gaveUp \cup {o}

Redirected(o) == source[o].dir = TempDir /\ ~requires[o]

\* apply_archive_origin_relocation, and the start of the second pass.
Rewrite ==
  /\ pass = "plan" /\ todo = {}
  /\ target' = [o \in Ops |->
       IF Redirected(o) THEN [target[o] EXCEPT !.dir = VideoDir[o]] ELSE target[o]]
  /\ requires' = [o \in Ops |-> requires[o] \/ Redirected(o)]
  /\ cand' = target'
  /\ claimed' = {}
  /\ gaveUp' = {}
  /\ todo' = Ops
  /\ pass' = "final"
  /\ UNCHANGED <<source, present, appeared>>

Ready ==
  /\ pass = "final" /\ todo = {}
  /\ pass' = "ready"
  /\ UNCHANGED <<source, requires, target, cand, claimed, todo, present, appeared, gaveUp>>

\* Another program creates a file.
Appear ==
  /\ pass # "ready" /\ appeared < MaxAppear
  /\ \E p \in Clutter \ present : present' = present \cup {p}
  /\ appeared' = appeared + 1
  /\ UNCHANGED <<source, requires, target, cand, claimed, todo, pass, gaveUp>>

Done == pass = "ready" /\ UNCHANGED allocVars

AllocNext ==
  \/ \E o \in Ops : Keep(o) \/ Suffix(o) \/ GiveUp(o)
  \/ Rewrite \/ Ready \/ Appear \/ Done

AllocSpec == AllocInit /\ [][AllocNext]_allocVars

-----------------------------------------------------------------------------
TypeOK ==
  /\ source \in [Ops -> Paths]
  /\ requires \in [Ops -> BOOLEAN]
  /\ target \in [Ops -> Paths]
  /\ cand \in [Ops -> Paths]
  /\ claimed \subseteq Paths
  /\ todo \subseteq Ops
  /\ pass \in {"plan", "final", "ready"}
  /\ present \subseteq Paths
  /\ appeared \in 0..MaxAppear
  /\ gaveUp \subseteq Ops

Visited == Ops \ todo

\* "contains no two operations whose final target path is identical", among the
\* operations visited, if the allocator found a number for each of them.
NoSharedTarget ==
  gaveUp = {} => \A o, u \in Visited : o # u => target[o] # target[u]

\* "without this guard [movie.srt, movie.srt, movie.2.srt] would steal
\* movie.2.srt from the third op": a candidate that only one operation has is
\* given to no other.
NotStolen ==
  \A o \in Ops : (\A u \in Ops : u # o => cand[u] # cand[o]) =>
    \A u \in Visited : u # o => target[u] # cand[o]

\* No target of a finished batch is an existing file other than the operation's
\* own source, if no file appeared meanwhile.
NoClobber ==
  pass = "ready" /\ appeared = 0 => \A o \in Ops \ gaveUp :
    target[o] \in present => target[o] = source[o]

\* "apply_unique_target_paths is idempotent, so the two passes compose cleanly":
\* where no path was rewritten, the second pass changes nothing.  (A first pass
\* that gave up leaves a path that is shared or taken.)
Clean == /\ \A o, u \in Ops : o # u => cand[o] # cand[u]
         /\ \A o \in Ops : cand[o] \in present => cand[o] = source[o]
Idempotent == [][pass = "final" /\ Clean => UNCHANGED target]_allocVars
=============================================================================
